-------------------------- MODULE PatternFormatter --------------------------
(***************************************************************************)
(* spdlog's pattern_formatter: a pattern is compiled, character by         *)
(* character, into a list of flag formatters, and a message is formatted   *)
(* by running them in order.  Text is a sequence of characters; a name     *)
(* from a table (a week day, a month, a level) is one token.               *)
(***************************************************************************)
EXTENDS Integers, SequencesExt

CONSTANTS Messages,     \* records: level, name, raw, thread, pid, ns, tm
          Literals,     \* what stands outside a flag in the patterns tried
          MaxLiterals,  \* bound on the literals of a pattern
          MaxFlags      \* bound on the flags of a pattern

VARIABLES pattern,      \* the characters of the pattern read so far
          compile,      \* compile_pattern: pc and user_chars
          formatters,   \* _formatters: <<flag>> or <<"text", characters>>
          line          \* the message formatted last and msg.formatted
patternVars == <<pattern, compile, formatters, line>>

None == <<>>
------------------------------------------------------------------------------
(* fmt::pad(v, width, '0') and << v of a number that is not negative.      *)
RECURSIVE DecimalText(_)
DecimalText(v) == IF v < 10 THEN <<ToString(v)>>
                  ELSE Append(DecimalText(v \div 10), ToString(v % 10))
pad(v, width) == LET s == DecimalText(v)
                 IN  [k \in 1..(IF Len(s) < width THEN width - Len(s) ELSE 0) |-> "0"] \o s

pad_n_join(vs, sep) ==
    FoldLeft(LAMBDA acc, v : IF acc = << >> THEN pad(v, 2) ELSE Append(acc, sep) \o pad(v, 2),
             << >>, vs)

days == <<"Sun", "Mon", "Tue", "Wed", "Thu", "Fri", "Sat">>
full_days == <<"Sunday", "Monday", "Tuesday", "Wednesday", "Thursday", "Friday", "Saturday">>
months == <<"Jan", "Feb", "Mar", "Apr", "May", "June", "July", "Aug", "Sept", "Oct", "Nov", "Dec">>
full_months == <<"January", "February", "March", "April", "May", "June", "July", "August",
                 "September", "October", "November", "December">>
level_names == <<"trace", "debug", "info", "warning", "error", "critical", "off">>
short_level_names == <<"T", "D", "I", "W", "E", "C", "O">>

ampm(tm) == IF tm.hour >= 12 THEN "PM" ELSE "AM"
to12h(tm) == IF tm.hour > 12 THEN tm.hour - 12 ELSE tm.hour

(* os::utc_minutes_offset: the division of C rounds towards zero.          *)
utc_minutes_offset(tm) == IF tm.gmtoff < 0 THEN -((-tm.gmtoff) \div 60) ELSE tm.gmtoff \div 60

(* msg.time in whole units since the epoch, modulo one second: ns is the   *)
(* number of nanoseconds in the second of the message.                     *)
Fraction(msg, unit) == msg.ns \div unit

z_formatter(tm) ==
    LET total == utc_minutes_offset(tm)
        minutes == IF total < 0 THEN -total ELSE total
    IN  <<IF total < 0 THEN "-" ELSE "+">> \o pad_n_join(<<minutes \div 60, minutes % 60>>, ":")

c_formatter(tm) ==
    <<days[tm.wday + 1], " ", months[tm.mon + 1], " ">> \o pad(tm.mday, 1) \o <<" ">>
    \o pad_n_join(<<tm.hour, tm.min, tm.sec>>, ":") \o <<" ">> \o pad(tm.year + 1900, 1)

full_formatter(msg, tm) ==
    <<"[">> \o pad(tm.year + 1900, 1) \o <<"-">> \o pad(tm.mon + 1, 2) \o <<"-">>
    \o pad(tm.mday, 2) \o <<" ">> \o pad(tm.hour, 2) \o <<":">> \o pad(tm.min, 2) \o <<":">>
    \o pad(tm.sec, 2) \o <<".">> \o pad(Fraction(msg, 1000000), 3) \o <<"]", " ">>
    \o <<"[", msg.name, "]", " ", "[", level_names[msg.level + 1], "]", " ">> \o msg.raw

(* The text of each flag that handle_flag knows.                           *)
Flags == {"n", "l", "L", "t", "v", "a", "A", "b", "h", "B", "c", "C", "Y", "D", "x", "m", "d",
          "H", "I", "M", "S", "e", "f", "F", "p", "r", "R", "T", "X", "z", "+", "P"}
level_formatter(flag, msg) ==
    CASE flag = "n" -> <<msg.name>>
      [] flag = "l" -> <<level_names[msg.level + 1]>>
      [] flag = "L" -> <<short_level_names[msg.level + 1]>>
v_formatter(flag, msg) ==
    CASE flag = "t" -> pad(msg.thread, 1)
      [] flag = "P" -> pad(msg.pid, 1)
      [] flag = "v" -> msg.raw
flag_formatter(flag, msg, tm) ==
    CASE flag \in {"n", "l", "L"} -> level_formatter(flag, msg)
      [] flag \in {"t", "P", "v"} -> v_formatter(flag, msg)
      [] flag = "a" -> <<days[tm.wday + 1]>>
      [] flag = "A" -> <<full_days[tm.wday + 1]>>
      [] flag \in {"b", "h"} -> <<months[tm.mon + 1]>>
      [] flag = "B" -> <<full_months[tm.mon + 1]>>
      [] flag = "c" -> c_formatter(tm)
      [] flag = "C" -> pad(tm.year % 100, 2)
      [] flag = "Y" -> pad(tm.year + 1900, 1)
      [] flag \in {"D", "x"} -> pad_n_join(<<tm.mon + 1, tm.mday, tm.year % 100>>, "/")
      [] flag = "m" -> pad(tm.mon + 1, 2)
      [] flag = "d" -> pad(tm.mday, 2)
      [] flag = "H" -> pad(tm.hour, 2)
      [] flag = "I" -> pad(to12h(tm), 2)
      [] flag = "M" -> pad(tm.min, 2)
      [] flag = "S" -> pad(tm.sec, 2)
      [] flag = "e" -> pad(Fraction(msg, 1000000), 3)
      [] flag = "f" -> pad(Fraction(msg, 1000), 6)
      [] flag = "F" -> pad(Fraction(msg, 1), 9)
      [] flag = "p" -> <<ampm(tm)>>
      [] flag = "r" -> pad_n_join(<<to12h(tm), tm.min, tm.sec>>, ":") \o <<" ", ampm(tm)>>
      [] flag = "R" -> pad_n_join(<<tm.hour, tm.min>>, ":")
      [] flag \in {"T", "X"} -> pad_n_join(<<tm.hour, tm.min, tm.sec>>, ":")
      [] flag = "z" -> z_formatter(tm)
      [] flag = "+" -> full_formatter(msg, tm)
------------------------------------------------------------------------------
handle_flag(flag) == IF flag \in Flags THEN <<<<flag>>>>
                     ELSE <<<<"text", <<"%">>>>, <<"text", <<flag>>>>>>

(* push_back of the user characters, if there are any; the unique_ptr is   *)
(* empty after the move.                                                   *)
Pushed(chars) == IF chars = None THEN << >> ELSE <<<<"text", chars>>>>

PatternInit ==
    /\ pattern = << >> /\ compile = [pc |-> "loop", user_chars |-> None]
    /\ formatters = << >> /\ line = [done |-> FALSE]

NumFlags == Len(SelectSeq(pattern, LAMBDA x : x[1] = "flag"))
Room(kind) == LET n == NumFlags IN IF kind = "flag" THEN n < MaxFlags
                                   ELSE Len(pattern) - n < MaxLiterals

Percent(flag) ==
    /\ compile.pc = "loop" /\ Room("flag")
    /\ pattern' = Append(pattern, <<"flag", flag>>)
    /\ formatters' = formatters \o Pushed(compile.user_chars) \o handle_flag(flag)
    /\ compile' = [compile EXCEPT !.user_chars = None]
    /\ UNCHANGED line
add_ch(ch) ==
    /\ compile.pc = "loop" /\ Room("char")
    /\ pattern' = Append(pattern, <<"char", ch>>)
    /\ compile' = [compile EXCEPT !.user_chars = Append(@, ch)]
    /\ UNCHANGED <<formatters, line>>

(* The end of the pattern, perhaps behind a '%' that no flag follows.      *)
compile_pattern(lonePercent) ==
    /\ compile.pc = "loop"
    /\ formatters' = formatters \o Pushed(compile.user_chars)
    /\ compile' = [pc |-> "ready", user_chars |-> None]
    /\ pattern' = IF lonePercent THEN Append(pattern, <<"end", "%">>) ELSE pattern
    /\ UNCHANGED line

format(msg) ==
    /\ compile.pc = "ready" /\ ~line.done
    /\ line' = [done |-> TRUE, msg |-> msg,
                text |-> FlattenSeq([k \in DOMAIN formatters |->
                            IF formatters[k][1] = "text" THEN formatters[k][2]
                            ELSE flag_formatter(formatters[k][1], msg, msg.tm)]) \o <<"eol">>]
    /\ UNCHANGED <<pattern, compile, formatters>>

PatternNext ==
    \/ \E flag \in Flags \cup {"q", "%"} : Percent(flag)
    \/ \E ch \in Literals : add_ch(ch)
    \/ \E lone \in BOOLEAN : compile_pattern(lone)
    \/ \E msg \in Messages : format(msg)
------------------------------------------------------------------------------
(* What the comments above the formatters say a flag stands for, written   *)
(* with simpler flags.                                                     *)
Expansion(flag) ==
    CASE flag = "R" -> <<"H", ":", "M">>
      [] flag \in {"T", "X"} -> <<"H", ":", "M", ":", "S">>
      [] flag = "r" -> <<"I", ":", "M", ":", "S", " ", "p">>
      [] flag \in {"D", "x"} -> <<"m", "/", "d", "/", "C">>
      [] flag = "h" -> <<"b">>
      [] flag = "+" -> <<"[", "Y", "-", "m", "-", "d", " ", "H", ":", "M", ":", "S", ".", "e", "]",
                         " ", "[", "n", "]", " ", "[", "l", "]", " ", "v">>
      [] OTHER -> <<flag>>
Expanded(flag, msg) ==
    FlattenSeq([k \in DOMAIN Expansion(flag) |->
        LET x == Expansion(flag)[k]
        IN  IF x \in Flags THEN flag_formatter(x, msg, msg.tm) ELSE <<x>>])

(* A number read back from its digits.                                     *)
DigitOf(c) == CHOOSE n \in 0..9 : ToString(n) = c
NumberOf(s) == FoldLeft(LAMBDA n, c : 10 * n + DigitOf(c), 0, s)

(* One element of the pattern is shown as it is written (a character, an   *)
(* unknown flag), as its documented expansion (a composite flag), or as    *)
(* the value it names, so that the fields of one line agree with the time  *)
(* of the message.                                                         *)
Shown(x, msg) ==
    CASE x[1] = "char" -> <<x[2]>>
      [] x[1] = "end" -> << >>
      [] x[1] = "flag" /\ x[2] \notin Flags -> <<"%", x[2]>>
      [] OTHER -> Expanded(x[2], msg)

ClockAgrees(msg) ==
    LET F(flag) == flag_formatter(flag, msg, msg.tm)
        n == NumberOf(F("F"))
        hour == (NumberOf(F("I")) % 12) + (IF F("p") = <<"PM">> THEN 12 ELSE 0)
        z == F("z")
        offset == 60 * NumberOf(SubSeq(z, 2, 3)) + NumberOf(SubSeq(z, 5, 6))
    IN  /\ n = msg.ns /\ NumberOf(F("f")) = n \div 1000 /\ NumberOf(F("e")) = n \div 1000000
        /\ hour = NumberOf(F("H")) /\ hour = msg.tm.hour
        /\ NumberOf(F("C")) = NumberOf(F("Y")) % 100
        /\ msg.tm.gmtoff = 60 * (IF z[1] = "-" THEN -offset ELSE offset)
        /\ Len(F("e")) = 3 /\ Len(F("f")) = 6 /\ Len(F("F")) = 9 /\ Len(z) = 6

=============================================================================
