------------------------------- MODULE Params -------------------------------
(***************************************************************************)
(* The parameters and the configuration file (main.cpp, ParamSet.cpp): how *)
(* the default of a parameter, the file parameter.conf and the items of a  *)
(* command make its value, and which values a session uses.                *)
(*                                                                         *)
(* The program is started as -ec, which only loads the file, as -e, with a *)
(* command, or as the server, where the threads main (the TCP client's)    *)
(* and kbd execute commands and a third one, readThread, reads the         *)
(* parameters for its next session meanwhile.  DaqControl has the races of *)
(* its flags; here a block is one step, and the parameters are in view.    *)
(*                                                                         *)
(* The file is a text, which the user may write, replace or remove, and    *)
(* which a crash may cut short while it is saved.                          *)
(***************************************************************************)
EXTENDS Reference

CONSTANTS Names,      \* the parameters of the instance: some of those bound
          Default,    \* their first values
          Frames,     \* ways to start the program, and what the user types before
          Files,      \* configuration files for the server, and what they mean
          Cuts,       \* lengths to which a crash may cut the file that is written
          Lines,      \* commands for the server, and what they mean
          MaxCmds,    \* bound on the commands of the server
          MaxEdits,   \* bound on the replacements of the file
          MaxCrashes, \* bound on the crashes
          MaxTime     \* bound on nowReadTime

\* initialize: what is bound in paramHelper.
Bindlist ==
    [channel |-> "TEXT", min |-> "FLOAT64", max |-> "FLOAT64", source |-> "TEXT",
     samplesPerChan |-> "INTEGER", sampleRate |-> "FLOAT64", bufferSize |-> "INTEGER",
     timeout |-> "FLOAT64", savePath |-> "TEXT", checkA |-> "FLOAT64",
     checkB |-> "FLOAT64", tcpPort |-> "INTEGER", ip_host |-> "TEXT", saveMode |-> "TEXT"]

ASSUME ParamsAssumption ==
    /\ {"channel", "saveMode", "bufferSize"} \subseteq Names
    /\ Names \subseteq DOMAIN Bindlist /\ DOMAIN Default = Names
    /\ {MaxCmds, MaxEdits, MaxCrashes, MaxTime} \subseteq Nat

KeyOf == [n \in Names |-> Bytes(n)]
NamesOf(key) == {n \in Names : KeyOf[n] = key}

VARIABLES
    frame, typed,    \* the way the program is started, the user's pieces of text
    disk,            \* parameter.conf
    aborted,         \* why the process was terminated, or "no"
    val,             \* the values of the parameters
    readTime, nowReadTime, readStatus,
    flag,            \* readStartFlag_writer
    pc,              \* control points of the threads
    caller,          \* of loadConfig: "initialize" or "startRead"
    todo,            \* what is left of configJson, or of a command's items
    args,            \* the items of the command
    rpc,             \* control point of readThread
    ses,             \* the local state of readThread in a session
    users,           \* how often the users acted
    means,           \* history: what the file means
    want,            \* history: what the last read command asked for
    quiet,           \* history: no other one was given since, nor the file changed
    edited,          \* history: the file was changed since the program started
    dirty            \* history: a command has set a text that is not UTF-8

Threads == {"main", "kbd"}

user == <<frame, typed, users>>
config == <<disk, means>>
flags == <<readTime, readStatus, flag>>
threads == <<pc, caller, todo, args>>
reader == <<rpc, ses, nowReadTime>>
history == <<want, quiet, edited, dirty>>
vars == <<user, config, aborted, val, flags, threads, reader, history>>

Absent == [exists |-> FALSE, text |-> <<>>]
File(text) == [exists |-> TRUE, text |-> text]

NoSession == [n |-> 0, seen |-> {}, alloc |-> 0, size |-> 0]

OfKind(kind, x) ==
    CASE kind = "INTEGER" -> x \in IntMin .. IntMax
      [] kind = "FLOAT64" -> x.m \in Int /\ x.e \in Int
      [] kind = "TEXT" -> x \in Seq(0 .. 255)

TypeOK ==
    /\ frame \in Frames
    /\ typed \in Seq(frame.pieces) /\ Len(typed) <= frame.max
    /\ disk.exists \in BOOLEAN /\ disk.text \in Seq(0 .. 255)
    /\ aborted \in {"no", "escape", "exception", "race", "device", "alloc"}
    /\ \A n \in Names : OfKind(Bindlist[n], val[n])
    /\ readTime \in IntMin .. IntMax
    /\ nowReadTime \in 0 .. MaxTime
    /\ readStatus \in {"HOLD", "DO", "EXIT"}
    /\ flag \in {"unset", "true", "false"}
    /\ pc \in [Threads -> {"off", "open", "items", "save", "write", "ready", "exec", "set",
                           "auto", "do", "flag", "clear", "idle", "returned"}]
    /\ caller \in [Threads -> {"initialize", "startRead"}]
    /\ rpc \in {"off", "refresh", "wait", "count", "modes", "dir", "task", "clock",
                "alloc", "loop", "again", "ended"}
    /\ ses.n \in Nat /\ ses.alloc \in Int /\ ses.size \in Int
    /\ quiet \in BOOLEAN /\ edited \in BOOLEAN /\ dirty \in BOOLEAN

Init ==
    /\ frame \in Frames /\ typed = <<>>
    /\ disk = Absent /\ means = <<>>
    /\ aborted = "no"
    /\ val = Default
    /\ readTime = 0 /\ nowReadTime = 0 /\ readStatus = "HOLD" /\ flag = "unset"
    /\ pc = [p \in Threads |-> "off"]
    /\ caller = [p \in Threads |-> "initialize"]
    /\ todo = [p \in Threads |-> <<>>]
    /\ args = [p \in Threads |-> <<>>]
    /\ rpc = "off" /\ ses = NoSession
    /\ users = [cmds |-> 0, edits |-> 0, crashes |-> 0]
    /\ want = [val |-> Default, time |-> -1]
    /\ quiet = FALSE /\ edited = FALSE /\ dirty = FALSE

Alive == aborted = "no"
Text == frame.head \o FlattenSeq(typed) \o frame.tail

-----------------------------------------------------------------------------
(* The users.                                                              *)

\* One more piece of the text of a file or a command.
TypePiece(piece) ==
    /\ pc["main"] = "off"
    /\ Len(typed) < frame.max
    /\ typed' = Append(typed, piece)
    /\ UNCHANGED <<frame, users, config, aborted, val, flags, threads, reader, history>>

\* The file is replaced or removed.
Edit ==
    /\ frame.mode = "server" /\ Alive
    /\ users.edits < MaxEdits
    /\ \A p \in Threads : pc[p] # "write"
    /\ users' = [users EXCEPT !.edits = @ + 1]
    /\ \/ \E f \in Files : disk' = File(f.text) /\ means' = f.means
       \/ disk.exists /\ disk' = Absent /\ means' = <<>>
    /\ quiet' = FALSE /\ edited' = TRUE
    /\ UNCHANGED <<frame, typed, aborted, val, flags, threads, reader, want, dirty>>

\* The memory of a process that has not started.
Fresh ==
    /\ aborted' = "no"
    /\ val' = Default
    /\ readTime' = 0 /\ nowReadTime' = 0 /\ readStatus' = "HOLD" /\ flag' = "unset"
    /\ caller' = [p \in Threads |-> "initialize"]
    /\ todo' = [p \in Threads |-> <<>>]
    /\ args' = [p \in Threads |-> <<>>]
    /\ rpc' = "off" /\ ses' = NoSession
    /\ want' = [val |-> Default, time |-> -1]
    /\ quiet' = FALSE /\ edited' = FALSE /\ dirty' = FALSE

(* The process is killed, or has died before; what it was writing is on    *)
(* the disk in part.                                                       *)
Crash ==
    /\ frame.mode = "server" /\ pc["main"] # "off"
    /\ users.crashes < MaxCrashes
    /\ users' = [users EXCEPT !.crashes = @ + 1]
    /\ \/ UNCHANGED disk
       \/ \E p \in Threads :
             /\ Alive /\ pc[p] = "write"
             /\ \E n \in Cuts \intersect 1 .. Len(DumpObject(todo[p])) - 1 :
                   disk' = File(SubSeq(DumpObject(todo[p]), 1, n))
    /\ pc' = [p \in Threads |-> "off"]
    /\ Fresh
    /\ UNCHANGED <<frame, typed, means>>

(* main calls initialize.  In the other modes the file is the one typed.   *)
Start ==
    /\ pc["main"] = "off"
    /\ disk' = IF frame.mode = "-ec" THEN File(Text) ELSE disk
    /\ pc' = [pc EXCEPT !["main"] = "open"]
    /\ Fresh
    /\ UNCHANGED <<user, means>>

-----------------------------------------------------------------------------
(* loadConfig and saveConfig.                                              *)

Goto(p, from, to) ==
    /\ Alive /\ pc[p] = from
    /\ pc' = [pc EXCEPT ![p] = to]
    /\ UNCHANGED <<user, caller, history>>

AfterLoad(p) == IF caller[p] = "initialize" THEN "ready" ELSE "set"

\* The items of configJson, which is empty after a parse error.
ItemsOf(result) == IF result.ok THEN Items(result.v) ELSE <<>>

(* The file is parsed; a text that is not JSON is reported and ignored.    *)
LoadOpen(p) ==
    /\ Goto(p, "open", "items")
    /\ disk.exists
    /\ todo' = [todo EXCEPT ![p] = ItemsOf(Parse(disk.text))]
    /\ UNCHANGED <<config, aborted, val, flags, args, reader>>

\* Mutant: a value of a wrong type is skipped.
LoadItemSkips(p) ==
    /\ Goto(p, "items", "items")
    /\ todo[p] # <<>>
    /\ LET item == Head(todo[p])
           names == NamesOf(item[1])
       IN  /\ val' = [n \in Names |->
                        IF n \in names /\ GetFits(Bindlist[n], item[2])
                        THEN Get(Bindlist[n], item[2]) ELSE val[n]]
           /\ todo' = [todo EXCEPT ![p] = Tail(@)]
    /\ UNCHANGED <<config, aborted, flags, args, reader>>

(* An item of configJson: an unknown key is skipped; a value of a wrong    *)
(* type throws, and what is left of the file is ignored.                   *)
LoadItem(p) ==
    /\ Goto(p, "items", "items")
    /\ todo[p] # <<>>
    /\ LET item == Head(todo[p])
           names == NamesOf(item[1])
           fits == \A n \in names : GetFits(Bindlist[n], item[2])
       IN  /\ val' = [n \in Names |->
                        IF n \in names /\ fits THEN Get(Bindlist[n], item[2]) ELSE val[n]]
           /\ todo' = [todo EXCEPT ![p] = IF fits THEN Tail(@) ELSE <<>>]
    /\ UNCHANGED <<config, aborted, flags, args, reader>>

LoadEnd(p) ==
    /\ Goto(p, "items", AfterLoad(p))
    /\ todo[p] = <<>>
    /\ todo' = [todo EXCEPT ![p] = args[p]]
    /\ UNCHANGED <<config, aborted, val, flags, args, reader>>

(* paramHelperToJson.                                                      *)
ToJson(n) ==
    CASE Bindlist[n] = "INTEGER" -> [integer |-> val[n]]
      [] Bindlist[n] = "FLOAT64" -> [float |-> val[n]]
      [] Bindlist[n] = "TEXT" -> [string |-> val[n]]

ConfigItems ==
    Items([object |-> [key \in {KeyOf[n] : n \in Names} |->
                          ToJson(CHOOSE n \in Names : KeyOf[n] = key)]])

(* There is no file: it is created, and is empty for a moment, ...         *)
SaveOpen(p) ==
    /\ Goto(p, "open", "write")
    /\ ~disk.exists
    /\ disk' = File(<<>>) /\ means' = <<>>
    /\ todo' = [todo EXCEPT ![p] = ConfigItems]
    /\ UNCHANGED <<aborted, val, flags, args, reader>>

CanDump(items) ==
    \A k \in DOMAIN items : TypeOf(items[k][2]) = "string" => Dumpable(items[k][2].string)

(* ... and then it is written, unless dump throws.                         *)
SaveWrite(p) ==
    /\ Goto(p, "write", AfterLoad(p))
    /\ CanDump(todo[p])
    /\ disk' = File(DumpObject(todo[p]))
    /\ means' = [n \in Names |->
                    LET k == CHOOSE k \in DOMAIN todo[p] : todo[p][k][1] = KeyOf[n]
                    IN  todo[p][k][2][TypeOf(todo[p][k][2])]]
    /\ todo' = [todo EXCEPT ![p] = args[p]]
    /\ UNCHANGED <<aborted, val, flags, args, reader>>

SaveThrows(p) ==
    /\ Goto(p, "write", "write")
    /\ ~CanDump(todo[p])
    /\ aborted' = "exception"
    /\ UNCHANGED <<config, val, flags, todo, args, reader>>

(* configJson is global, and two threads that load or save it at a time    *)
(* may work on what the other one has destroyed; here each has its own,    *)
(* or the process dies.                                                    *)
Race(p) ==
    /\ Goto(p, "open", "open")
    /\ \E q \in Threads \ {p} : pc[q] \in {"items", "write"}
    /\ aborted' = "race"
    /\ UNCHANGED <<config, val, flags, todo, args, reader>>

(* initialize ends; the server's threads start.                            *)
Ready ==
    /\ Alive /\ pc["main"] = "ready"
    /\ pc' = [p \in Threads |->
                CASE frame.mode = "server" -> "idle"
                  [] frame.mode = "-e" -> IF p = "main" THEN "exec" ELSE "off"
                  [] frame.mode = "-ec" -> IF p = "main" THEN "returned" ELSE "off"]
    /\ rpc' = IF frame.mode = "server" THEN "refresh" ELSE "off"
    /\ readStatus' = "HOLD"
    /\ UNCHANGED <<user, config, aborted, val, readTime, flag, caller, todo, args,
                   ses, nowReadTime, history>>

Load(p) ==
    \/ LoadOpen(p) \/ LoadItem(p) \/ LoadEnd(p)
    \/ SaveOpen(p) \/ SaveWrite(p) \/ SaveThrows(p) \/ Race(p)

-----------------------------------------------------------------------------
(* Commands.                                                               *)

\* Mutant: every parameter can be set by read.
FilterAll == Names \union {"readTime"}

Filter == {"readTime", "sampleRate", "samplesPerChan", "channel", "savePath", "saveMode"}

\* The items of read: those with a name of the filter, or none.
Filtered(items) ==
    SelectSeq(items, LAMBDA item : item[1] \in {Bytes(n) : n \in Filter} \union {<<>>})

(* startRead begins: readTime is reset, and the file loaded again.         *)
StartRead(p, line) ==
    /\ readTime' = -1
    /\ args' = [args EXCEPT ![p] = Filtered(SplitParam(line))]
    /\ caller' = [caller EXCEPT ![p] = "startRead"]
    /\ pc' = [pc EXCEPT ![p] = "open"]
    /\ UNCHANGED <<aborted, readStatus>>

StopRead(p) ==
    /\ readStatus' = "HOLD"
    /\ pc' = [pc EXCEPT ![p] = "idle"]
    /\ UNCHANGED <<aborted, readTime, caller, args>>

ExitRead(p) ==
    /\ readStatus' = "EXIT"
    /\ pc' = [pc EXCEPT ![p] = "clear"]
    /\ UNCHANGED <<aborted, readTime, caller, args>>

\* getParam dumps the parameter of its item, or all of them.
Shown(items) ==
    LET named == {k \in DOMAIN items : items[k][1] = <<>>}
        name == items[CHOOSE k \in named : \A l \in named : l <= k][2]
    IN  IF named = {} \/ name = <<>> THEN Names ELSE NamesOf(name)

GetParam(p, line) ==
    /\ aborted' = IF \A n \in Shown(SplitParam(line)) : Bindlist[n] = "TEXT" => Dumpable(val[n])
                  THEN "no" ELSE "exception"
    /\ pc' = [pc EXCEPT ![p] = "idle"]
    /\ UNCHANGED <<readStatus, readTime, caller, args>>

Unknown(p) ==
    /\ pc' = [pc EXCEPT ![p] = "idle"]
    /\ UNCHANGED <<aborted, readStatus, readTime, caller, args>>

BreakOff ==
    /\ aborted' = "escape"
    /\ UNCHANGED <<pc, readStatus, readTime, caller, args>>

Registered == {Bytes(verb) : verb \in {"read", "stop", "exit", "get"}}

(* exec: the line is split and dispatched.                                 *)
Exec(p, line) ==
    /\ LET verb == Verb(line)
       IN  IF ExecCrashes(line) THEN BreakOff
           ELSE \/ verb = Bytes("read") /\ StartRead(p, line)
                \/ verb = Bytes("stop") /\ StopRead(p)
                \/ verb = Bytes("exit") /\ ExitRead(p)
                \/ verb = Bytes("get") /\ GetParam(p, line)
                \/ verb \notin Registered /\ Unknown(p)
    /\ UNCHANGED <<frame, typed, config, val, flag, todo, reader, edited>>

\* The command of -e.
ExecOnce ==
    /\ Alive /\ pc["main"] = "exec"
    /\ Exec("main", Text)
    /\ UNCHANGED <<users, want, quiet, dirty>>

Wanted(c) ==
    [val |-> [n \in Names |-> CASE n \in DOMAIN c.gives -> c.gives[n]
                                [] n \in DOMAIN means \ DOMAIN c.gives -> means[n]
                                [] OTHER -> val[n]],
     time |-> c.time]

\* A command of the user at the keyboard or at the client.
Command(p, c) ==
    /\ Alive /\ pc[p] = "idle" /\ frame.mode = "server" /\ p \in c.from
    /\ users.cmds < MaxCmds
    /\ p = "main" => readStatus # "EXIT"
    /\ users' = [users EXCEPT !.cmds = @ + 1]
    /\ Exec(p, c.text)
    /\ dirty' = (dirty \/ c.dirty)
    /\ IF c.reads
       THEN /\ want' = Wanted(c)
            /\ quiet' = (rpc = "wait" /\ flag = "unset" /\ \A q \in Threads : pc[q] = "idle")
       ELSE UNCHANGED <<want, quiet>>

ConvertTo(kind, text) ==
    CASE kind = "INTEGER" -> convertToInt(text)
      [] kind = "FLOAT64" -> convertToDouble(text)
      [] kind = "TEXT" -> {text}

(* paramHelper->set, item by item.                                         *)
SetItem(p) ==
    /\ Goto(p, "set", "set")
    /\ todo[p] # <<>>
    /\ LET item == Head(todo[p])
           names == NamesOf(item[1])
       IN  IF names = {} THEN UNCHANGED val
           ELSE \E n \in names : \E x \in ConvertTo(Bindlist[n], item[2]) :
                   val' = [val EXCEPT ![n] = x]
    /\ todo' = [todo EXCEPT ![p] = Tail(@)]
    /\ UNCHANGED <<config, aborted, flags, args, reader>>

\* Mutant: the item without a name is forgotten.
SetAutoNamed(p) ==
    /\ Goto(p, "set", "do")
    /\ todo[p] = <<>>
    /\ LET times == {k \in DOMAIN args[p] : args[p][k][1] = Bytes("readTime")}
       IN  IF times = {} THEN UNCHANGED readTime
           ELSE readTime' \in
                  convertToInt(args[p][CHOOSE k \in times : \A l \in times : l <= k][2])
    /\ UNCHANGED <<config, aborted, val, readStatus, flag, todo, args, reader>>

(* autoParams->set: readTime has two names, and the last item counts.      *)
SetAuto(p) ==
    /\ Goto(p, "set", "do")
    /\ todo[p] = <<>>
    /\ LET times == {k \in DOMAIN args[p] : args[p][k][1] \in {<<>>, Bytes("readTime")}}
       IN  IF times = {} THEN UNCHANGED readTime
           ELSE readTime' \in
                  convertToInt(args[p][CHOOSE k \in times : \A l \in times : l <= k][2])
    /\ UNCHANGED <<config, aborted, val, readStatus, flag, todo, args, reader>>

SetDo(p) ==
    /\ Goto(p, "do", "flag")
    /\ readStatus' = "DO"
    /\ UNCHANGED <<config, aborted, val, readTime, flag, todo, args, reader>>

\* "Start reading", or "Already reading".
SetFlag(p) ==
    /\ Goto(p, "flag", "idle")
    /\ flag' = IF flag = "unset" THEN "true" ELSE flag
    /\ UNCHANGED <<config, aborted, val, readTime, readStatus, todo, args, reader>>

ClearFlag(p) ==
    /\ Goto(p, "clear", "idle")
    /\ flag' = IF flag = "unset" THEN "false" ELSE flag
    /\ UNCHANGED <<config, aborted, val, readTime, readStatus, todo, args, reader>>

Handler(p) ==
    \/ SetItem(p) \/ SetAuto(p) \/ SetDo(p) \/ SetFlag(p) \/ ClearFlag(p)

-----------------------------------------------------------------------------
(* readThread.                                                             *)

Reader(from, to) ==
    /\ Alive /\ rpc = from
    /\ rpc' = to
    /\ UNCHANGED <<user, config, val, threads, history>>

(* -e calls it after its command.                                          *)
Launch ==
    /\ frame.mode = "-e" /\ pc["main"] = "idle"
    /\ Reader("off", "count")
    /\ UNCHANGED <<aborted, flags, ses, nowReadTime>>

Refresh ==
    /\ Reader("refresh", "wait")
    /\ flag' = "unset"
    /\ UNCHANGED <<aborted, readTime, readStatus, ses, nowReadTime>>

Wait ==
    /\ flag # "unset"
    /\ Reader("wait", IF flag = "true" THEN "count" ELSE "ended")
    /\ UNCHANGED <<aborted, flags, ses, nowReadTime>>

\* The parameters it looks at, with their values.
Looks(names) == {<<n, val[n]>> : n \in names \intersect Names}

Commas(text) == Len(SelectSeq(text, LAMBDA c : c = Comma))

\* wthreadNum.
CountChannels ==
    /\ Reader("count", "modes")
    /\ ses' = [NoSession EXCEPT !.n = Commas(val.channel) + 1, !.seen = Looks({"channel"})]
    /\ UNCHANGED <<aborted, flags, nowReadTime>>

Modes == {Bytes("RAW"), Bytes("BIT")}
Parts == strSplit(val.saveMode, Comma)
Known(part) ==
    LET modes == strSplit(part, Bar)
    IN  /\ \A k \in DOMAIN modes : modes[k] \in Modes
        /\ \A k, l \in DOMAIN modes : k # l => modes[k] # modes[l]

(* A list of modes of another length than the channels' ends readThread;   *)
(* a wrong mode ends the session soon, but not here.                       *)
ChooseModes ==
    /\ LET list == val.saveMode \notin Modes
       IN  /\ Reader("modes", IF list /\ Len(Parts) # ses.n THEN "ended" ELSE "dir")
           /\ readStatus' = IF list /\ Len(Parts) = ses.n /\ \E k \in DOMAIN Parts : ~Known(Parts[k])
                            THEN "HOLD" ELSE readStatus
    /\ ses' = [ses EXCEPT !.seen = @ \union Looks({"saveMode"})]
    /\ UNCHANGED <<aborted, readTime, flag, nowReadTime>>

\* createDir, which may fail.
MakeDir ==
    /\ \/ /\ Reader("dir", "task")
          /\ ses' = [ses EXCEPT !.seen = @ \union Looks({"savePath"})]
          /\ UNCHANGED readStatus
       \/ /\ Reader("dir", "again")
          /\ ses' = NoSession
          /\ readStatus' = "HOLD"
    /\ UNCHANGED <<aborted, readTime, flag, nowReadTime>>

\* The device accepts the parameters, or readThread throws.
Prepare(from, to, names) ==
    /\ Reader(from, to)
    /\ ses' = [ses EXCEPT !.seen = @ \union Looks(names)]
    /\ aborted' \in {"no", "device"}
    /\ UNCHANGED <<flags, nowReadTime>>

CreateTask == Prepare("task", "clock", {"channel", "min", "max"})
ConfigureClock == Prepare("clock", "alloc", {"source", "sampleRate", "samplesPerChan"})

(* rdata, whose size must not be negative.                                 *)
Allocate ==
    /\ Reader("alloc", "loop")
    /\ aborted' = IF val.bufferSize < 0 THEN "alloc" ELSE "no"
    /\ LET size == val.bufferSize * ses.n
       IN  ses' = [ses EXCEPT !.seen = @ \union Looks({"bufferSize", "samplesPerChan"})
                                         \union {<<"readTime", readTime>>},
                              !.alloc = size, !.size = size]
    /\ nowReadTime' = 0
    /\ UNCHANGED flags

Goes == readTime < 0 \/ nowReadTime < readTime

\* One turn of the loop; the size of rdata is computed anew.
Block ==
    /\ Goes
    /\ Reader("loop", "loop")
    /\ ses' = [ses EXCEPT !.size = val.bufferSize * ses.n]
    /\ readTime' = IF readStatus # "DO" THEN 0 ELSE readTime
    /\ nowReadTime' = IF nowReadTime < MaxTime THEN nowReadTime + 1 ELSE nowReadTime
    /\ UNCHANGED <<aborted, readStatus, flag>>

Finish ==
    /\ ~Goes
    /\ Reader("loop", "again")
    /\ readStatus' = "HOLD"
    /\ ses' = NoSession
    /\ UNCHANGED <<aborted, readTime, flag, nowReadTime>>

Again ==
    /\ Reader("again", IF frame.mode = "server" /\ readStatus # "EXIT" THEN "refresh" ELSE "ended")
    /\ UNCHANGED <<aborted, flags, ses, nowReadTime>>

ReadThread ==
    \/ Launch \/ Refresh \/ Wait \/ CountChannels \/ ChooseModes \/ MakeDir
    \/ CreateTask \/ ConfigureClock \/ Allocate \/ Block \/ Finish \/ Again

-----------------------------------------------------------------------------
\* A program that was killed, has ended, or waits for its users.
Rest ==
    /\ \/ ~Alive
       \/ pc["main"] = "returned"
       \/ rpc \in {"wait", "ended"} /\ \A p \in Threads : pc[p] \in {"idle", "off"}
    /\ UNCHANGED vars

Next ==
    \/ \E piece \in frame.pieces : TypePiece(piece)
    \/ Edit \/ Crash \/ Start \/ Ready \/ ExecOnce
    \/ \E p \in Threads : \E c \in Lines : Command(p, c)
    \/ \E p \in Threads : Load(p) \/ Handler(p)
    \/ ReadThread
    \/ Rest

Spec == Init /\ [][Next]_vars

-----------------------------------------------------------------------------
(* Properties.                                                             *)

Returned(kind) == frame.kind = kind /\ pc["main"] = "returned"
TypedText == FlattenSeq(typed)

\* x is the number d, or zero, if d is nearly that.
Denotes(x, d) == x = d \/ (x = ZeroFloat /\ d.m # 0 /\ Magnitude(d) < -MaxExp)

(* A number in the file means what RFC 8259 says: a parameter that is      *)
(* FLOAT64 takes its value, one that is INTEGER the whole part, if it has  *)
(* room for it; what is no number changes nothing (json.hpp, scan_number,  *)
(* and loadConfig).                                                        *)
NumberRead ==
    Returned("number") =>
        LET t == TypedText
            x == val[frame.name]
            d == NumberOf(t)
        IN  CASE t = Bytes("true") /\ Bindlist[frame.name] = "INTEGER" -> x = 1
              [] IsNumber(t) /\ ~Infinite(d) /\ Bindlist[frame.name] = "FLOAT64" -> Denotes(x, d)
              [] IsNumber(t) /\ ~Infinite(d) /\ Bindlist[frame.name] = "INTEGER" ->
                     (\E n \in IntMin .. IntMax : IsWholePart(n, d)) => IsWholePart(x, d)
              [] OTHER -> x = Default[frame.name]

(* A string in the file means what RFC 8259 says, every escape of it and   *)
(* UTF-8 as it is; a text that is no string changes nothing (json.hpp,     *)
(* scan_string).                                                           *)
StringRead ==
    Returned("string") =>
        {val.channel} = IF StringMeans(TypedText) = {} THEN {Default.channel}
                        ELSE StringMeans(TypedText)

Fits(n, v) ==
    IF Bindlist[n] = "TEXT" THEN TypeOf(v) = "string"
    ELSE TypeOf(v) \in {"unsigned", "integer", "float"}

\* The values when the members o were read in the order of their keys, the
\* first that is bound and has a value of a wrong type stopping it.
ReadFrom(o) ==
    LET bound == {n \in Names : KeyOf[n] \in DOMAIN o}
        wrong == {n \in bound : ~Fits(n, o[KeyOf[n]])}
        read == {n \in bound : \A m \in wrong : Less(KeyOf[n], KeyOf[m])}
    IN  [n \in Names |-> IF n \in read THEN Get(Bindlist[n], o[KeyOf[n]]) ELSE Default[n]]

(* Of a text that begins with an object its members are read, the first of *)
(* each key; unknown ones are skipped.  Any other text changes nothing     *)
(* (parse_internal and loadConfig).                                        *)
ObjectRead ==
    Returned("object") =>
        {val} = IF Objects(Tokens(disk.text)) = {} THEN {Default}
                ELSE {ReadFrom(v.object) : v \in Objects(Tokens(disk.text))}

SavedValues(result) ==
    IF result.ok /\ TypeOf(result.v) = "object" /\ DOMAIN result.v.object = Range(KeyOf)
    THEN ReadFrom(result.v.object) ELSE Default

(* What was read from a file can be saved, and is the same when it is read *)
(* again; in the server, too, saving and showing the parameters throws     *)
(* only after a command has set a text that is not UTF-8 (saveConfig,      *)
(* loadConfig, getParam and dump).                                         *)
WriteBack ==
    /\ pc["main"] = "returned" =>
           CanDump(ConfigItems) /\ SavedValues(Parse(DumpObject(ConfigItems))) = val
    /\ frame.mode = "server" /\ aborted = "exception" => dirty

(* When the server has started its parameters are what the file means,     *)
(* and the defaults where it says nothing, whether the file is the user's, *)
(* was saved by the program, or is what a crash left of it (initialize).   *)
StartsAsMeant ==
    frame.mode = "server" /\ Alive /\ pc["main"] = "ready" /\ ~edited =>
        \A n \in Names : val[n] = IF n \in DOMAIN means THEN means[n] ELSE Default[n]

(* A session that a read command began, while nothing else went on, looks  *)
(* at the command's parameters, at the file's where it names none, at no   *)
(* others, and takes the number of channels from them; readThread, which   *)
(* then never records again, ends just for the command's own fault: a list *)
(* of modes that are not as many as the channels (startRead, readThread).  *)
QuietSession ==
    quiet /\ Alive =>
        LET count(n) == Cardinality({i \in DOMAIN want.val[n] : want.val[n][i] = Comma}) + 1
        IN  /\ ses.seen \subseteq {<<n, want.val[n]>> : n \in Names}
                                      \union {<<"readTime", want.time>>}
            /\ rpc \in {"modes", "dir", "task", "clock", "alloc", "loop"}
                  => ses.n = count("channel")
            /\ rpc = "ended" /\ ses # NoSession => count("saveMode") # count("channel")

(* The device is never told of a larger or smaller buffer than was         *)
(* allocated, unless the file was edited since the program started: no     *)
(* command can change bufferSize (readThread computes the size anew for    *)
(* each block).                                                            *)
BufferFits == Alive /\ rpc = "loop" /\ ~edited => ses.size = ses.alloc

\* The line of -e, its words without the verb, the first without its key.
Typed == Words(Text)
Item(k) == IF k = 2 THEN From(Typed[2], Len(Bytes("channel=")) + 1) ELSE Typed[k]
Keyless(t) == At(t, 1) = Equal \/ \A i \in DOMAIN t : ~EndsKey(t, i)

(* A command means what its escapes say: the process dies of it just if    *)
(* one is malformed; else the parameter is the text, and the time is the   *)
(* last item without a key, or unlimited (strToItem and startRead).        *)
CommandRead ==
    frame.kind = "command" =>
        /\ aborted = "escape" => \E k \in 2 .. Len(Typed) : BadItem(Item(k))
        /\ pc["main"] = "idle" /\ rpc = "off" =>
            /\ \A k \in 2 .. Len(Typed) : ~BadItem(Item(k))
            /\ val.channel = ItemMeans(Item(2))
            /\ LET times == {k \in 3 .. Len(Typed) : Keyless(Typed[k])}
                   word == Typed[CHOOSE k \in times : \A l \in times : l <= k]
                   t == IF At(word, 1) = Equal THEN Tail(word) ELSE word
               IN  /\ times = {} => readTime = -1
                   /\ times # {} /\ t # <<>> /\ AllDigits(t) =>
                          readTime = IF NatOf(t) > IntMax THEN IntMax ELSE NatOf(t)
=============================================================================
