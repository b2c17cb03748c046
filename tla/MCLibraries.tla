----------------------------- MODULE MCLibraries -----------------------------
(***************************************************************************)
(* The sequential libraries of the repository, one of which runs: spdlog's  *)
(* file sinks, its pattern formatter and the fmt library it bundles, the    *)
(* DFC string matcher, the hash functions and memcpy, the PCG random number *)
(* generators with their 128-bit integers, ds_queue, and the script that    *)
(* binds network devices to drivers.  prog says which; the variables that   *)
(* only others have stay 0.                                                 *)
(***************************************************************************)
EXTENDS Integers, Sequences

CONSTANTS
    max_files, NoFile, GreedySize, GreedySizes, GreedyMsgs,  \* RotatingSink
    FaultySize, FaultySizes, FaultyMsgs, MaxCrashes,         \*  with faults
    DayLen, Rotation, MaxDelay, MaxTime,                     \* DailySink
    OwnedSIZE, StreamSIZE, MaxSize, MaxReport,               \* FmtBuffer
    WriterSIZE, Bits, Held,                                  \* FmtWriter
    MAX_PACKED_ARGS, UIntBits, MaxLength, MaxFields,         \* FmtParser
    Literals, MaxLiterals, MaxFlags,                         \* PatternFormatter
    Files, Streams, MaxFd, MaxOpens,                         \* PosixFiles
    MaxPatterns, RECURSIVE_BOUNDARY,                         \* Dfc
    MaxLen, Pieces, MaxStream,                               \* Hashes
    W, Limbs,                                                \* Uint128
    Seeds, Spares, Deltas, table_pow2, advance_pow2,         \* Pcg
    tick_limit_pow2, MaxDraws, MaxSets,
    Addr, Data, nil,                                         \* DsQueue
    Devices, Names, MaxNames                                 \* PciUnbind

VARIABLES
    prog,
    pc, file, buffer, fd, fds, current_size, i, msg, logged, ffd, crashes,
    clock, open, opened, rotation_tp, now, delay,            \* the sinks
    bufs, heap, moved, appended, badFree, stream, report,    \* FmtBuffer
    out, last,                                               \* FmtWriter
    fstr, fields, style,                                     \* FmtParser
    pattern, compile, formatters, line,                      \* PatternFormatter
    number, table, owned, holds, given, badClose,            \* PosixFiles
    phase, added, patterns, dfc, text, reports, matches,     \* Dfc
    len, state, a, pcg,                       \* Hashes, Uint128, Pcg
    node, live, head, tail, count, items, ret,               \* DsQueue
    bound, routes, devices, cmd, flags, todo, shown, step, start, touched
                                                             \* PciUnbind

rotating == <<file, buffer, fd, fds, current_size, i, msg, logged, ffd, crashes>>
daily == <<clock, open, opened, rotation_tp, now, delay>>
fmtBufs == <<bufs, heap, moved, appended, badFree>>
fmtStream == <<stream, report>>
writer == <<out, last>>
fmt == <<fmtBufs, fmtStream, writer>>
parser == <<fstr, fields, style>>
patternF == <<pattern, compile, formatters, line>>
posix == <<number, table, owned, holds, given, badClose>>
matcher == <<phase, added, patterns, dfc, text, reports, matches>>
arith == <<len, state, a, pcg>>
dsqueue == <<node, live, head, tail, count, items, ret>>
pci == <<bound, routes, devices, cmd, flags, todo, shown, step, start, touched>>
logging == <<pc, rotating, daily, fmt, parser, patternF, posix>>
vars == <<prog, logging, matcher, arith, dsqueue, pci>>
-----------------------------------------------------------------------------
(* What the libraries are called with.                                      *)

(* fmt: arguments of every kind, through format() and through printf(), and *)
(* every combination of a few of each part of a format specifier.           *)
Arg(kind, value, txt, special, printf) ==
    [kind |-> kind, value |-> value, text |-> txt, special |-> special, printf |-> printf]
TheArguments ==
    {Arg("int", v, << >>, FALSE, p) : p \in BOOLEAN,
        v \in {-8388608, -1000, 0, 7, 99, 100, 65535, 16777215}}
    \cup {Arg("bool", v, << >>, FALSE, p) : v \in {0, 1}, p \in BOOLEAN}
    \cup {Arg("char", 65, <<"A">>, FALSE, p) : p \in BOOLEAN}
    \cup {Arg("string", 0, s, FALSE, p) : s \in {<< >>, <<"a", "b", "c">>}, p \in BOOLEAN}
    \cup {Arg("pointer", v, << >>, FALSE, p) : v \in {0, 48}, p \in BOOLEAN}
    \cup {Arg("double", v, <<"1", ".", "5">>, FALSE, p) : v \in {-1, 1}, p \in BOOLEAN}
    \cup {Arg("double", v, <<"n", "a", "n">>, TRUE, FALSE) : v \in {-1, 1}}
TheSpecs ==
    [width : {0, 5, 12}, fill : {" ", "0"},
     align : {"DEFAULT", "LEFT", "RIGHT", "CENTER", "NUMERIC"},
     flags : {{}, {"SIGN"}, {"SIGN", "PLUS", "HASH"}}, precision : {-1, 2, 6},
     type : {"", "d", "x", "o", "B", "n", "c", "s", "p", "f"}]

(* fmt's parsers: strings over these characters, and strings of well-formed *)
(* fields, over these arguments.                                            *)
TheArgs == <<[type |-> "INT", name |-> << >>, value |-> 5],
             [type |-> "STRING", name |-> << >>, value |-> 0],
             [type |-> "INT", name |-> <<"a">>, value |-> -3],
             [type |-> "DOUBLE", name |-> << >>, value |-> 0],
             [type |-> "UINT", name |-> <<"b">>, value |-> 0]>>
TheAlphabet == [format |-> {"{", "}", ":", "0", "<", ".", "a", "x"},
                printf |-> {"%", "1", "0", "$", "*", ".", "h", "d"}]
Text(t) == [text |-> t]
Looks == {[fill |-> << >>, align |-> << >>], [fill |-> <<"x">>, align |-> <<"^">>],
          [fill |-> << >>, align |-> <<"=">>], [fill |-> <<"<">>, align |-> <<">">>]}
TheFields ==
    {Text(<<"{", "{">>), Text(<<"}", "}">>), Text(<<"<">>)}
    \cup {[id |-> id, width |-> w] :
            id \in {<< >>, <<"0">>, <<"3">>, <<"a">>, <<"9">>},
            w \in {<< >>, <<"1", "2">>, <<"{", "}">>, <<"{", "0", "}">>, <<"{", "a", "}">>}}
    \cup {[id |-> <<"0">>, fill |-> l.fill, align |-> l.align, sign |-> s, zero |-> z,
           width |-> <<"9">>] : l \in Looks, s \in {<< >>, <<"+">>}, z \in {<< >>, <<"0">>}}
    \cup {[id |-> id, hash |-> <<"#">>, precision |-> p, type |-> <<"x">>] :
            id \in {<< >>, <<"3">>},
            p \in {<< >>, <<".", "2">>, <<".", "{", "}">>, <<".", "{", "4", "}">>}}
TheConversions ==
    {Text(<<"%", "%">>), Text(<<"x">>)}
    \cup {[id |-> id, width |-> w, precision |-> p, type |-> <<"d">>] :
            id \in {<< >>, <<"1", "$">>, <<"4", "$">>},
            w \in {<< >>, <<"1", "2">>, <<"*">>}, p \in {<< >>, <<".", "2">>, <<".", "*">>}}
    \cup {[id |-> <<"4", "$">>, sign |-> s, hash |-> h, zero |-> z, width |-> <<"7">>,
           type |-> <<"u">>] :
            s \in {<< >>, <<"+">>, <<"-">>}, h \in {<< >>, <<"#">>}, z \in {<< >>, <<"0">>}}
    \cup {[id |-> <<"3", "$">>, length |-> l, type |-> t] :
            l \in {<< >>, <<"h", "h">>, <<"h">>, <<"l">>}, t \in {<<"i">>, <<"u">>}}

(* pattern_formatter: midnight in UTC, the last nanosecond before one in    *)
(* the afternoon west of it, and an evening east of it.                     *)
Tm(hour, min, gmtoff, year) ==
    [hour |-> hour, min |-> min, sec |-> 7, mday |-> 3, mon |-> 8, year |-> year,
     gmtoff |-> gmtoff, wday |-> hour % 7]
Msg(ns, tm) == [level |-> tm.hour % 6, name |-> "logger", raw |-> <<"h", "i">>,
                thread |-> 4711, pid |-> 80, ns |-> ns, tm |-> tm]
TheMessages == {Msg(0, Tm(0, 0, 0, 100)), Msg(999999999, Tm(12, 59, -12600, 99)),
                Msg(7008009, Tm(23, 5, 20700, 117))}

(* DFC: one pattern or two of every length class, that contain each other,  *)
(* with both nocase flags, a NUL and a byte above 127.                      *)
Pat(p, nocase) == [pat |-> p, nocase |-> nocase]
ABAB(n) == SubSeq(<<97, 98, 97, 98, 97, 98, 97, 98>>, 1, n)
BABA(n) == <<98>> \o ABAB(n - 1)
High(b) == <<97, 98, 97, 200, b, 98, 97, 98>>
ThePool ==
    {Pat(ABAB(1), TRUE), Pat(ABAB(2), TRUE), Pat(ABAB(2), FALSE), Pat(BABA(3), FALSE),
     Pat(<<65, 97, 98>>, TRUE), Pat(ABAB(4), TRUE), Pat(BABA(5), FALSE),
     Pat(ABAB(6), FALSE), Pat(BABA(7), TRUE), Pat(ABAB(8), FALSE), Pat(BABA(9), FALSE),
     Pat(<<98, 0, 97>>, FALSE), Pat(<<98, 0, 98>>, FALSE),
     Pat(High(97), FALSE), Pat(High(98), TRUE)}
TheTexts ==
    {ABAB(1), <<65, 97, 98, 65, 98>>, ABAB(4) \o <<98, 0, 97>>, BABA(7),
     <<98>> \o BABA(9) \o <<97>>, <<97, 97, 98, 65>> \o BABA(5), <<98>> \o High(97),
     High(98) \o <<97>>}
TheBefore == {<<48, 48, 48>>, BABA(3)}

(* pci_unbind.py: the devices each loaded driver takes, their interfaces,   *)
(* and command lines.                                                       *)
TheSupported == [igb_uio |-> {"d0", "d1"}, ixgbe |-> {"d0", "d1"}, e1000 |-> {"d1"}]
TheInterface == [d0 |-> "eth0", d1 |-> "eth1"]
Bind(driver) == <<"-b", driver>>
TheCommands ==
    {<<>>, <<<<"--status">>>>, <<Bind("igb_uio")>>, <<Bind("e1000")>>, <<Bind("gone")>>,
     <<<<"-u">>>>, <<<<"-u">>, <<"--force">>, <<"--status">>>>,
     <<Bind("ixgbe"), <<"--status">>>>, <<Bind("e1000"), <<"--force">>>>,
     <<Bind("igb_uio"), <<"-u">>>>, <<<<"--help">>>>}
-----------------------------------------------------------------------------
G == INSTANCE RotatingSink WITH max_size <- GreedySize, Sizes <- GreedySizes,
        MaxMsgs <- GreedyMsgs, MaxCrashes <- 0, Faults <- FALSE
R == INSTANCE RotatingSink WITH max_size <- FaultySize, Sizes <- FaultySizes,
        MaxMsgs <- FaultyMsgs, Faults <- TRUE
D == INSTANCE DailySink
Owned == INSTANCE FmtBuffer WITH SIZE <- OwnedSIZE, Buffers <- {"a", "b"}
Strm == INSTANCE FmtBuffer WITH SIZE <- StreamSIZE, Buffers <- {}
Wrtr == INSTANCE FmtWriter WITH SIZE <- WriterSIZE, Buffers <- {}, Before <- Held,
        Arguments <- TheArguments, FormatSpecs <- TheSpecs
P == INSTANCE FmtParser WITH Args <- TheArgs, Alphabet <- TheAlphabet,
        Fields <- TheFields, Conversions <- TheConversions
L == INSTANCE PatternFormatter WITH Messages <- TheMessages
X == INSTANCE PosixFiles WITH fd <- number, opened <- owned
M == INSTANCE Dfc WITH Pool <- ThePool, Texts <- TheTexts, Before <- TheBefore
H == INSTANCE Hashes WITH stream <- state
U == INSTANCE Uint128
E == INSTANCE Pcg
Q == INSTANCE DsQueue WITH NULL <- nil
N == INSTANCE PciUnbind WITH Supported <- TheSupported, Interface <- TheInterface,
        Commands <- TheCommands, pc <- step

NoRotating == /\ file = 0 /\ buffer = 0 /\ fd = 0 /\ fds = 0 /\ current_size = 0
              /\ i = 0 /\ msg = 0 /\ logged = 0 /\ ffd = 0 /\ crashes = 0
NoDaily == /\ clock = 0 /\ open = 0 /\ opened = 0 /\ rotation_tp = 0 /\ now = 0 /\ delay = 0
NoSink == pc = 0 /\ NoRotating /\ NoDaily
NoBufs == bufs = 0 /\ heap = 0 /\ moved = 0 /\ appended = 0 /\ badFree = 0
NoStream == stream = 0 /\ report = 0
NoWriter == out = 0 /\ last = 0
NoFmt == NoBufs /\ NoStream /\ NoWriter
NoParser == fstr = 0 /\ fields = 0 /\ style = 0
NoPattern == pattern = 0 /\ compile = 0 /\ formatters = 0 /\ line = 0
NoPosix == number = 0 /\ table = 0 /\ owned = 0 /\ holds = 0 /\ given = 0 /\ badClose = 0
NoDfc == /\ phase = 0 /\ added = 0 /\ patterns = 0 /\ dfc = 0 /\ text = 0
         /\ reports = 0 /\ matches = 0
NoHash == len = 0 /\ state = 0
NoArith == NoHash /\ a = 0 /\ pcg = 0
NoQueue == /\ node = 0 /\ live = 0 /\ head = 0 /\ tail = 0 /\ count = 0
           /\ items = 0 /\ ret = 0
NoPci == /\ bound = 0 /\ routes = 0 /\ devices = 0 /\ cmd = 0 /\ flags = 0 /\ todo = 0
         /\ shown = 0 /\ step = 0 /\ start = 0 /\ touched = 0
NoOther == NoQueue /\ NoPci
NoText == NoParser /\ NoPattern
NoLogging == NoSink /\ NoFmt /\ NoText /\ NoPosix

Init ==
    \/ /\ \/ prog = "greedy" /\ G!Init /\ NoDaily
          \/ prog = "faulty" /\ R!Init /\ NoDaily
          \/ prog = "daily" /\ D!Init /\ NoRotating
       /\ NoFmt /\ NoText /\ NoPosix /\ NoDfc /\ NoArith /\ NoOther
    \/ /\ \/ prog = "owned" /\ Owned!BufferInit /\ NoStream /\ NoWriter
          \/ prog = "stream" /\ Strm!StreamInit /\ Strm!ReportInit /\ NoBufs /\ NoWriter
          \/ prog = "writer" /\ Wrtr!WriterInit /\ NoBufs /\ NoStream
       /\ NoSink /\ NoText /\ NoPosix /\ NoDfc /\ NoArith /\ NoOther
    \/ /\ \/ prog = "parser" /\ P!ParserInit /\ NoPattern /\ NoPosix
          \/ prog = "pattern" /\ L!PatternInit /\ NoParser /\ NoPosix
          \/ prog = "posix" /\ X!PosixInit /\ NoText
       /\ NoSink /\ NoFmt /\ NoDfc /\ NoArith /\ NoOther
    \/ prog = "dfc" /\ M!Init /\ NoLogging /\ NoArith /\ NoOther
    \/ /\ \/ prog = "hashes" /\ H!HashesInit /\ a = 0 /\ pcg = 0
          \/ prog = "uint128" /\ U!Uint128Init /\ NoHash /\ pcg = 0
          \/ prog = "pcg" /\ E!PcgInit /\ NoHash /\ a = 0
       /\ NoLogging /\ NoDfc /\ NoOther
    \/ /\ \/ prog = "dsqueue" /\ Q!Init /\ NoPci
          \/ prog = "pci" /\ N!PciInit /\ NoQueue
       /\ NoLogging /\ NoDfc /\ NoArith

OtherThanSinks == UNCHANGED <<prog, fmt, parser, patternF, posix, matcher, arith, dsqueue, pci>>
OtherThanFmt == UNCHANGED <<prog, pc, rotating, daily, parser, patternF, posix, matcher, arith, dsqueue, pci>>
OtherThanText == UNCHANGED <<prog, pc, rotating, daily, fmt, posix, matcher, arith, dsqueue, pci>>

GreedyStep == prog = "greedy" /\ G!Next /\ UNCHANGED daily /\ OtherThanSinks
FaultyStep == prog = "faulty" /\ R!Next /\ UNCHANGED daily /\ OtherThanSinks
DailyStep == prog = "daily" /\ D!Next /\ UNCHANGED rotating /\ OtherThanSinks
OwnedStep == prog = "owned" /\ Owned!BufferNext /\ UNCHANGED <<fmtStream, writer>> /\ OtherThanFmt
StreamStep == prog = "stream" /\ Strm!StreamNext /\ UNCHANGED <<fmtBufs, writer>> /\ OtherThanFmt
WriterStep == prog = "writer" /\ Wrtr!WriterNext /\ UNCHANGED <<fmtBufs, fmtStream>> /\ OtherThanFmt
ParserStep == prog = "parser" /\ P!ParserNext /\ UNCHANGED patternF /\ OtherThanText
PatternStep == prog = "pattern" /\ L!PatternNext /\ UNCHANGED parser /\ OtherThanText
PosixStep ==
    /\ prog = "posix" /\ X!PosixNext
    /\ UNCHANGED <<prog, pc, rotating, daily, fmt, parser, patternF, matcher, arith, dsqueue, pci>>
DfcStep == prog = "dfc" /\ M!Next /\ UNCHANGED <<prog, logging, arith, dsqueue, pci>>
HashesStep ==
    prog = "hashes" /\ H!HashesNext /\ UNCHANGED <<prog, logging, matcher, a, pcg, dsqueue, pci>>
Uint128Step ==
    prog = "uint128" /\ U!NextOperand /\ UNCHANGED <<prog, logging, matcher, len, state, pcg, dsqueue, pci>>
PcgStep ==
    prog = "pcg" /\ E!PcgNext /\ UNCHANGED <<prog, logging, matcher, len, state, a, dsqueue, pci>>

DsQueueStep ==
    prog = "dsqueue" /\ Q!Next /\ UNCHANGED <<prog, logging, matcher, arith, pci>>
PciStep == prog = "pci" /\ N!PciNext /\ UNCHANGED <<prog, logging, matcher, arith, dsqueue>>

(* The callers of these libraries may stop calling them, and the script ends. *)
NoMoreCalls == prog \notin {"greedy", "faulty", "daily", "dfc", "dsqueue"} /\ UNCHANGED vars

Next == \/ GreedyStep \/ FaultyStep \/ DailyStep \/ OwnedStep \/ StreamStep \/ WriterStep
        \/ ParserStep \/ PatternStep \/ PosixStep
        \/ DfcStep \/ HashesStep \/ Uint128Step \/ PcgStep
        \/ DsQueueStep \/ PciStep \/ NoMoreCalls

Spec == Init /\ [][Next]_vars

(* fmt's writer alone.                                                      *)
WriterSpec == prog = "writer" /\ Init /\ [][WriterStep \/ NoMoreCalls]_vars

(* The script alone.                                                        *)
PciSpec == prog = "pci" /\ Init /\ [][PciStep \/ NoMoreCalls]_vars
-----------------------------------------------------------------------------
(* rotating_file_sink: where nothing fails the files are, between calls,    *)
(* the last ones of the reference that fills one file after the other;      *)
(* whatever fails and wherever it crashes, files stay in the order of their *)
(* age, no message is in them twice, only a file with a single message      *)
(* exceeds max_size, and a message goes to an open file.                    *)
RotationSound ==
    /\ prog = "greedy" => G!TypeOK /\ G!RotationIsGreedy
    /\ prog = "faulty" => R!TypeOK /\ R!AgeOrder /\ R!SizeBound /\ R!WritesToOpenFile

(* rotating_file_sink: a step that deletes messages deletes older ones than *)
(* it keeps.                                                                *)
OldestGoFirst == [][prog = "faulty" => R!OldestGoFirstStep]_vars


(* fmt's MemoryBuffer: growth and moves neither lose nor leak anything.     *)
BuffersOwnTheirStorage == prog = "owned" => Owned!BuffersOwnTheirStorage

(* fmt's FormatBuf and format_system_error: whatever the length of the      *)
(* text, all of it arrives.                                                 *)
StreamsAndReportsComplete == prog = "stream" => Strm!StreamsAndReportsComplete

(* fmt's BasicWriter: every field comes out whole behind what was there.    *)
FieldsWritten == prog = "writer" => Wrtr!FieldsWritten

(* What format() and sprintf() are documented to return, also when the      *)
(* buffer grows in the middle of a field.                                   *)
FieldsSurviveGrowth == prog = "writer" => Wrtr!FieldsSurviveGrowth

(* fmt's parsers: no character behind the end of a format string is read.   *)
StaysInString == prog = "parser" => P!StaysInString

(* fmt's parsers: a well-formed format string gives the fields it spells.   *)
FieldsParsed == prog = "parser" => P!FieldsParsed


(* fmt's File and BufferedFile: every open descriptor has one owner.        *)
DescriptorsOwned == prog = "posix" => X!DescriptorsOwned

(* DFC_Search: exactly the occurrences of the patterns are reported.        *)
FindsExactly == prog = "dfc" => M!FindsExactly

(* CityHash, SipHash, rte_memcpy: the bytes touched are those of the input. *)
TouchesExactly == prog = "hashes" => H!TouchesExactly

(* xxHash: a stream given in pieces hashes like the whole.                  *)
StreamingIsOneShot == prog = "hashes" => H!StreamingIsOneShot

(* uint_x4: the operators are those of integers of four limbs.              *)
Uint128Exact == prog = "uint128" => U!Uint128Exact


(* PCG: every output function hits all outputs equally often, and a seed    *)
(* sequence's words become the state as memcpy would make it.               *)
OutputsEven == prog = "pcg" => E!OutputsEven /\ E!SeedIsMemcpy

(* ds_queue: the nodes from head to tail are what was added and not         *)
(* removed, and a remove returns the oldest element.                        *)
IsQueue == prog = "dsqueue" => Q!TypeOK /\ Q!ListIsSequence /\ Q!FirstInFirstOut

(* pci_unbind.py: a command does what it asks for, or nothing if it is      *)
(* refused, and the status it displays is the kernel's.                     *)
PciOutcome == prog = "pci" => N!PciOutcome

(* pci_unbind.py: a device whose bind failed has its previous driver again. *)
PreviousDriverRestored == prog = "pci" => N!PreviousDriverRestored
==============================================================================
