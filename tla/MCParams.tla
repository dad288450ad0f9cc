------------------------------ MODULE MCParams ------------------------------
(* Four parameters, numbers of a few bits, and the texts of params.cfg.    *)
EXTENDS Params

MCNames == {"bufferSize", "channel", "sampleRate", "saveMode"}
MCDefault == [bufferSize |-> 4, channel |-> Bytes("d"), sampleRate |-> Decimal(8, 4),
              saveMode |-> Bytes("BIT")]
MCGarbage == {-7}

Spelt(strings) == {Bytes(s) : s \in strings}

Only(mode, kind, name, head, pieces, tail, max) ==
    [mode |-> mode, kind |-> kind, name |-> name, head |-> Bytes(head), pieces |-> pieces,
     tail |-> Bytes(tail), max |-> max]

\* Files with a number; with a string, of escapes or of bytes of UTF-8; with an object.
LoadFrames ==
    {Only("-ec", "number", "sampleRate", "{\"sampleRate\":",
          Spelt({"-", "0", "7", ".", "e", "+"}), "}", 5),
     Only("-ec", "number", "bufferSize", "{\"bufferSize\":",
          Spelt({"-", "0", "7", ".", "e", "99", "true", "null"}), "}", 3),
     Only("-ec", "string", "channel", "{\"channel\":\"",
          Spelt({"\\", "\\u", "\"", "n", "00e9", "D83C", "dF00", "20aC"})
              \union {<<0>>, <<31>>}, "\"}", 4),
     Only("-ec", "string", "channel", "{\"channel\":\"",
          {<<b>> : b \in {128, 144, 160, 194, 224, 226, 237, 240, 244}}, "\"}", 4),
     Only("-ec", "object", "all", "{",
          Spelt({"}", ",", "\"channel\":", "\"bufferSize\":", "\"x\":[7,{}]", "\"a\"", "7", " "}),
          "", 4),
     Only("-ec", "object", "all", "{\"channel\":\"a\"",
          Spelt({"}", ",", "\"channel\":", "\"bufferSize\":", "\"a\"", "7"}), "", 4),
     Only("-ec", "object", "all", "{\"q\":",
          Spelt({"[", "]", "{", "}", ",", "7", "\"q\":"}), ",\"bufferSize\":7}", 4),
     Only("-ec", "object", "all", "", Spelt({"[", "]", "{", "}", "7", "null"}), "", 3)}

\* These, a command, and the server.
MCFrames ==
    LoadFrames \union
    {Only("-e", "command", "all", "read channel=",
          Spelt({"\\", "x", "4", "a", "=", " ", "n", "g"}), "", 4),
     Only("server", "server", "all", "", {}, "", 0)}

Means(text, m) == [text |-> text, means |-> m]

\* A configuration; one whose second key has a value that does not fit.
MCFiles ==
    {Means(Bytes("{\"channel\":\"a,b\",\"sampleRate\":5,\"bufferSize\":3,\"saveMode\":\"RAW\"}"),
           [channel |-> Bytes("a,b"), sampleRate |-> Decimal(5, 0), bufferSize |-> 3,
            saveMode |-> Bytes("RAW")]),
     Means(Bytes("{\"channel\":\"b\",\"sampleRate\":\"fast\",\"bufferSize\":3,\"saveMode\":\"RAW\"}"),
           [channel |-> Bytes("b"), bufferSize |-> 3])}

MCCuts == {1, 33, 74}

Line(from, text, reads, gives, time, d) ==
    [from |-> from, text |-> Bytes(text), reads |-> reads, gives |-> gives, time |-> time,
     dirty |-> d]

MCLines ==
    {Line({"main"}, "read 1 channel=a,b", TRUE, [channel |-> Bytes("a,b")], 1, FALSE),
     Line({"main"}, "read bufferSize=6 saveMode=RAW,BIT|BIT", TRUE,
          [saveMode |-> Bytes("RAW,BIT|BIT")], -1, FALSE),
     Line({"main"}, "read channel=\\xff", TRUE, [channel |-> <<255>>], -1, TRUE),
     Line({"kbd"}, "read channel=\\\"\\x1F\\xe3\\x81\\x82 sampleRate=-.5", TRUE,
          [channel |-> <<Quote, 31, 227, 129, 130>>, sampleRate |-> Decimal(-5, -1)], -1, FALSE),
     Line({"main"}, "get channel", FALSE, <<>>, 0, FALSE),
     Line({"kbd"}, "stop", FALSE, <<>>, 0, FALSE),
     Line({"main"}, "exit", FALSE, <<>>, 0, FALSE),
     Line({"kbd"}, "reed", FALSE, <<>>, 0, FALSE)}
=============================================================================
