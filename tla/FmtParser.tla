----------------------------- MODULE FmtParser -----------------------------
(***************************************************************************)
(* The format strings of the bundled fmt library: BasicFormatter::format   *)
(* ("{0:>5}") and PrintfFormatter::format ("%5d"), with the look-up of the *)
(* arguments.  A format string is a sequence of characters that ends with  *)
(* NUL; a parser state p is [s, next, err, arg, spec, out]: the position, *)
(* the next_arg_index_, the error thrown, the argument found last, the     *)
(* FormatSpec being read, and what was written so far (a character, or an  *)
(* argument with its FormatSpec).                                          *)
(***************************************************************************)
EXTENDS Integers, Sequences, FiniteSets, FiniteSetsExt, SequencesExt

CONSTANTS
    Args,             \* the arguments: a sequence of [type, name, value]
    MAX_PACKED_ARGS,  \* arguments whose types are packed into one word
    UIntBits,         \* the width of unsigned
    Alphabet,         \* characters of arbitrary format strings
    MaxLength,        \* the length of the longest one
    Fields,           \* well-formed replacement fields, see Unparsed
    Conversions,      \* well-formed printf conversions
    MaxFields         \* fields of one format string

VARIABLES fstr,       \* a format string, character by character
          fields,     \* a format string as the list of its fields
          style       \* "format" or "printf"

parserVars == <<fstr, fields, style>>

NUL == "NUL"
At(f, i) == IF i <= Len(f) THEN f[i] ELSE NUL
DigitChars == {"0", "1", "2", "3", "4", "5", "6", "7", "8", "9"}
DigitValue(c) == CHOOSE n \in 0..9 : ToString(n) = c
NameStart == {"a", "b", "d", "s", "x", "h", "l"}   \* the letters of the alphabets used

INT_MAX == 2^(UIntBits - 1) - 1
IntegerTypes == {"INT", "UINT", "LONG_LONG", "ULONG_LONG", "BOOL", "CHAR"}
NumericTypes == IntegerTypes \cup {"DOUBLE", "LONG_DOUBLE"}
UnsignedTypes == {"UINT", "ULONG_LONG"}

Fail(p, why) == [p EXCEPT !.err = why]
Skip(p, n) == [p EXCEPT !.s = @ + n]

\* Op on a value that is computed once; on a parser unless it has failed.
With(x, Op(_)) == Op(x)
Then(p, Op(_)) == IF p.err # "" THEN p ELSE Op(p)

Require(p, ok, why) == IF ok THEN p ELSE Fail(p, why)

----------------------------------------------------------------------------
(* ArgList and ArgMap: argument index of n, or 0.                          *)

\* The arrays ArgArray makes: n values, or n arguments and a NONE behind them.
ArrayEnd(n) == IF n < MAX_PACKED_ARGS THEN n ELSE n + 1

\* type(index): 4 bits of a 64-bit word, 0 (NONE) for what was not passed.
PackedPresent(n, index) == index < n /\ index < MAX_PACKED_ARGS

\* operator[]: the argument at an index, and the array elements it reads.
ArgAt(n, index) ==
    LET use_values == ~PackedPresent(n, MAX_PACKED_ARGS - 1)
        present(i) == i < n
        stop == IF \E i \in MAX_PACKED_ARGS..index : ~present(i)
                THEN Min({i \in MAX_PACKED_ARGS..index : ~present(i)}) ELSE index
    IN  IF index < MAX_PACKED_ARGS
        THEN [arg |-> IF PackedPresent(n, index) THEN index + 1 ELSE 0,
              reads |-> IF PackedPresent(n, index) THEN {index} ELSE {}]
        ELSE IF use_values THEN [arg |-> 0, reads |-> {}]
        ELSE [arg |-> IF present(stop) THEN stop + 1 ELSE 0,
              reads |-> MAX_PACKED_ARGS..stop]

\* ArgMap::init and find: the first argument passed under the name.
FindName(name) ==
    IF \E i \in DOMAIN Args : Args[i].name = name
    THEN Min({i \in DOMAIN Args : Args[i].name = name}) ELSE 0

\* do_get_arg
do_get_arg(p, index) ==
    LET a == ArgAt(Len(Args), index).arg
    IN  IF a = 0 THEN Fail(p, "argument index out of range") ELSE [p EXCEPT !.arg = a]

\* Mutant: an automatic index may follow a manual one.
next_arg_NoCheck(p) == do_get_arg([p EXCEPT !.next = @ + 1], IF p.next < 0 THEN 0 ELSE p.next)

next_arg(p) ==
    IF p.next >= 0 THEN do_get_arg([p EXCEPT !.next = @ + 1], p.next)
    ELSE Fail(p, "cannot switch from manual to automatic argument indexing")

check_no_auto_index(p) ==
    IF p.next > 0 THEN Fail(p, "cannot switch from automatic to manual argument indexing")
    ELSE [p EXCEPT !.next = -1]

get_arg(p, index) ==
    LET q == check_no_auto_index(p) IN IF q.err # "" THEN q ELSE do_get_arg(q, index)

get_arg_name(p, name) ==
    LET q == check_no_auto_index(p)
        a == FindName(name)
    IN  IF q.err # "" THEN q
        ELSE IF a = 0 THEN Fail(q, "argument not found") ELSE [q EXCEPT !.arg = a]

----------------------------------------------------------------------------
(* Numbers and names.                                                      *)

\* The end of the run of characters of a set that begins at i.
RunEnd(f, i, chars) ==
    Min({j \in i..(Len(f) + 1) : j > Len(f) \/ f[j] \notin chars})

\* parse_nonnegative_int: UINT_MAX once the value wrapped below itself.
parse_nonnegative_int(f, p) ==
    LET end == RunEnd(f, p.s, DigitChars)
        g[i \in (p.s - 1)..end, value \in 0..(2^UIntBits - 1)] ==
            IF i = end THEN [s |-> i, value |-> value]
            ELSE LET new == (value * 10 + DigitValue(f[i])) % 2^UIntBits
                 IN  IF new < value THEN [s |-> i + 1, value |-> 2^UIntBits - 1]
                     ELSE g[i + 1, new]
        r == g[p.s, 0]
    IN  [p |-> IF r.value > INT_MAX THEN Fail([p EXCEPT !.s = r.s], "number is too big")
               ELSE [p EXCEPT !.s = r.s],
         value |-> r.value]

parse_arg_index(f, p) ==
    With(IF At(f, p.s) \notin DigitChars THEN next_arg(p)
         ELSE With(parse_nonnegative_int(f, p),
                   LAMBDA n : Then(n.p, LAMBDA q : get_arg(q, n.value))),
         LAMBDA q : IF q.err \notin {"", "number is too big"} /\ At(f, q.s) \notin {"}", ":"}
                    THEN Fail(q, "invalid format string") ELSE q)

parse_arg_name(f, p) ==
    LET end == RunEnd(f, p.s + 1, NameStart \cup DigitChars)
    IN  get_arg_name([p EXCEPT !.s = end], SubSeq(f, p.s, end - 1))

parse_arg(f, p) ==
    IF At(f, p.s) \in NameStart THEN parse_arg_name(f, p) ELSE parse_arg_index(f, p)

----------------------------------------------------------------------------
(* BasicFormatter::format(format_str, arg): one replacement field.         *)

\* A type with operator<< is formatted as the string it writes (ostream.h).
TypeOf(a) == IF Args[a].type = "CUSTOM" THEN "STRING" ELSE Args[a].type

require_numeric_argument(p, a) ==
    Require(p, TypeOf(a) \in NumericTypes, "requires numeric argument")

check_sign(p, a) ==
    Then(require_numeric_argument(p, a),
         LAMBDA q : Require(Skip(q, 1), TypeOf(a) \notin UnsignedTypes, "requires signed argument"))

AlignOf(c) == CASE c = "<" -> "LEFT" [] c = ">" -> "RIGHT" [] c = "=" -> "NUMERIC"
                [] c = "^" -> "CENTER" [] OTHER -> "DEFAULT"

\* The alignment is looked for behind a fill character first.  In front of a
\* closing brace it is kept, though it belongs to the text after the field.
ParseAlign(f, a, p) ==
    LET c == At(f, p.s)
        behind == AlignOf(At(f, p.s + 1))
        here == AlignOf(c)
        aligned(q) == IF q.spec.align = "NUMERIC" THEN require_numeric_argument(q, a) ELSE q
    IN  CASE c = NUL -> p
          [] c = "}" /\ behind # "DEFAULT" -> [p EXCEPT !.spec.align = behind]
          [] c = "{" /\ behind # "DEFAULT" -> Fail(p, "invalid fill character")
          [] c \notin {NUL, "}", "{"} /\ behind # "DEFAULT" ->
               aligned([Skip(p, 2) EXCEPT !.spec.align = behind, !.spec.fill = c])
          [] c # NUL /\ behind = "DEFAULT" /\ here # "DEFAULT" ->
               aligned([Skip(p, 1) EXCEPT !.spec.align = here])
          [] OTHER -> p

ParseSign(f, a, p) ==
    LET flags == CASE At(f, p.s) = "+" -> {"SIGN", "PLUS"} [] At(f, p.s) = "-" -> {"MINUS"}
                   [] At(f, p.s) = " " -> {"SIGN"} [] OTHER -> {}
    IN  IF flags = {} THEN p ELSE [check_sign(p, a) EXCEPT !.spec.flags = @ \cup flags]

ParseHash(f, a, p) ==
    IF At(f, p.s) # "#" THEN p
    ELSE [Skip(require_numeric_argument(p, a), 1) EXCEPT !.spec.flags = @ \cup {"HASH"}]

ParseZero(f, a, p) ==
    IF At(f, p.s) # "0" THEN p
    ELSE [Skip(require_numeric_argument(p, a), 1) EXCEPT !.spec.align = "NUMERIC", !.spec.fill = "0"]

\* A number, or an argument in braces that holds one.
CountArg(q) ==
    LET v == Args[q.arg].value
        checked == Require(q, Args[q.arg].type \in {"INT", "UINT", "LONG_LONG", "ULONG_LONG"},
                           "width is not integer")
        positive == Then(checked, LAMBDA r : Require(r, v >= 0, "negative width"))
    IN  IF q.err # "" THEN [p |-> q, value |-> 0]
        ELSE [p |-> Then(positive, LAMBDA r : Require(r, v <= INT_MAX, "number is too big")),
              value |-> v]
ParseCount(f, p) ==
    IF At(f, p.s) \in DigitChars THEN parse_nonnegative_int(f, p)
    ELSE CountArg(Then(parse_arg(f, Skip(p, 1)),
                       LAMBDA r : Require(Skip(r, 1), At(f, r.s) = "}", "invalid format string")))

ParseWidth(f, p) ==
    IF At(f, p.s) \notin DigitChars \cup {"{"} THEN p
    ELSE With(ParseCount(f, p), LAMBDA n : [n.p EXCEPT !.spec.width = n.value])

ParsePrecision(f, a, p) ==
    LET q == Skip(p, 1)
    IN  IF At(f, p.s) # "." THEN p
        ELSE IF At(f, q.s) \notin DigitChars \cup {"{"} THEN Fail(q, "missing precision specifier")
        ELSE Then(With(ParseCount(f, q), LAMBDA n : [n.p EXCEPT !.spec.precision = n.value]),
                  LAMBDA r : Require(r, TypeOf(a) \notin IntegerTypes \cup {"POINTER"},
                                     "precision not allowed"))

\* Mutant: the end of the string is taken for a type.
ParseType_NoNul(f, p) ==
    IF At(f, p.s) = "}" THEN p ELSE [Skip(p, 1) EXCEPT !.spec.type = At(f, p.s)]

ParseType(f, p) ==
    IF At(f, p.s) \in {"}", NUL} THEN p ELSE [Skip(p, 1) EXCEPT !.spec.type = At(f, p.s)]

NoSpec == [width |-> 0, fill |-> " ", align |-> "DEFAULT", flags |-> {}, precision |-> -1,
           type |-> ""]

format_arg(f, a, p) ==
    LET p0 == [p EXCEPT !.spec = NoSpec]
        p1 == ParseAlign(f, a, Skip(p0, 1))
        p2 == Then(p1, LAMBDA q : ParseSign(f, a, q))
        p3 == Then(p2, LAMBDA q : ParseHash(f, a, q))
        p4 == Then(p3, LAMBDA q : ParseZero(f, a, q))
        p5 == Then(p4, LAMBDA q : ParseWidth(f, q))
        p6 == Then(p5, LAMBDA q : ParsePrecision(f, a, q))
        p7 == Then(p6, LAMBDA q : ParseType(f, q))
    IN  Then(IF At(f, p.s) = ":" THEN p7 ELSE p0,
             LAMBDA r : IF At(f, r.s) # "}" THEN Fail(Skip(r, 1), "missing '}' in format string")
                        ELSE [Skip(r, 1) EXCEPT !.out = Append(@, <<"arg", a, r.spec, 0>>)])

\* FormatterBase::write: the characters from start up to end.
write(f, p, start, end) ==
    [p EXCEPT !.out = @ \o [i \in 1..(end - start) |-> <<"text", f[start + i - 1]>>]]

NewParser == [s |-> 1, next |-> 0, err |-> "", arg |-> 1, spec |-> NoSpec, out |-> << >>]

RECURSIVE FormatLoop(_, _, _)
FormatLoop(f, p, start) ==
    LET c == At(f, p.s)
        q == Skip(p, 1)
        a == parse_arg(f, write(f, q, start, q.s - 1))
    IN  CASE p.err # "" -> p
          [] p.err = "" /\ c = NUL -> write(f, p, start, p.s)
          [] p.err = "" /\ c \notin {"{", "}", NUL} -> FormatLoop(f, q, start)
          [] p.err = "" /\ c \in {"{", "}"} /\ At(f, q.s) = c ->
               FormatLoop(f, Skip(write(f, q, start, q.s), 1), q.s + 1)
          [] p.err = "" /\ c = "}" /\ At(f, q.s) # c -> Fail(q, "unmatched '}' in format string")
          [] OTHER -> With(Then(a, LAMBDA x : format_arg(f, x.arg, x)),
                           LAMBDA r : FormatLoop(f, r, r.s))

format(f) == FormatLoop(f, NewParser, 1)

----------------------------------------------------------------------------
(* PrintfFormatter.                                                        *)

\* get_arg(s, arg_index); no index (-1) takes the next argument.
printf_arg(f, p, index) ==
    LET q == IF index = -1 THEN next_arg(p) ELSE get_arg(p, (index - 1) % 2^UIntBits)
    IN  IF q.err # "" /\ At(f, q.s) = NUL THEN Fail(q, "invalid format string") ELSE q

parse_flags(f, p) ==
    LET end == RunEnd(f, p.s, {"-", "+", "0", " ", "#"})
        seen == {f[i] : i \in p.s..(end - 1)}
        flags == (IF "+" \in seen THEN {"SIGN", "PLUS"} ELSE {})
                 \cup (IF " " \in seen THEN {"SIGN"} ELSE {})
                 \cup (IF "#" \in seen THEN {"HASH"} ELSE {})
    IN  [p EXCEPT !.s = end, !.spec.flags = @ \cup flags,
                  !.spec.align = IF "-" \in seen THEN "LEFT" ELSE @,
                  !.spec.fill = IF "0" \in seen THEN "0" ELSE @]

\* WidthHandler and PrecisionHandler on the argument of a '*'.
WidthHandler(p) ==
    LET v == Args[p.arg].value
        q == [p EXCEPT !.spec.width = IF v < 0 THEN -v ELSE v,
                       !.spec.align = IF v < 0 THEN "LEFT" ELSE @]
    IN  IF Args[p.arg].type \notin IntegerTypes THEN Fail(p, "width is not integer")
        ELSE Require(q, q.spec.width <= INT_MAX, "number is too big")

PrecisionHandler(p) ==
    IF Args[p.arg].type \notin IntegerTypes THEN Fail(p, "precision is not integer")
    ELSE Require([p EXCEPT !.spec.precision = Args[p.arg].value],
                 Args[p.arg].value \in (-INT_MAX - 1)..INT_MAX, "number is too big")

ParseHeaderWidth(f, p) ==
    LET n == parse_nonnegative_int(f, p)
    IN  CASE At(f, p.s) \in DigitChars -> [n.p EXCEPT !.spec.width = n.value]
          [] At(f, p.s) = "*" -> Then(printf_arg(f, Skip(p, 1), -1), LAMBDA q : WidthHandler(q))
          [] OTHER -> p

\* parse_header: an argument index, or a width that may begin with 0 flags.
parse_header(f, p) ==
    LET c == At(f, p.s)
        n == parse_nonnegative_int(f, p)
        zero(q) == IF c = "0" THEN [q EXCEPT !.spec.fill = "0"] ELSE q
        rest(q) == Then(q, LAMBDA x : ParseHeaderWidth(f, parse_flags(f, x)))
    IN  CASE c \notin DigitChars -> [p |-> rest(p), index |-> -1]
          [] c \in DigitChars /\ n.p.err # "" -> [p |-> n.p, index |-> -1]
          [] c \in DigitChars /\ n.p.err = "" /\ At(f, n.p.s) = "$" ->
               [p |-> rest(Skip(n.p, 1)), index |-> n.value]
          [] c \in DigitChars /\ n.p.err = "" /\ At(f, n.p.s) # "$" /\ n.value # 0 ->
               [p |-> [zero(n.p) EXCEPT !.spec.width = n.value], index |-> -1]
          [] OTHER -> [p |-> rest(zero(n.p)), index |-> -1]

ParsePrintfPrecision(f, p) ==
    LET q == Skip(p, 1)
        n == parse_nonnegative_int(f, q)
    IN  CASE At(f, p.s) = "." /\ At(f, q.s) \in DigitChars ->
               [n.p EXCEPT !.spec.precision = n.value]
          [] At(f, p.s) = "." /\ At(f, q.s) = "*" ->
               Then(printf_arg(f, Skip(q, 1), -1), LAMBDA x : PrecisionHandler(x))
          [] At(f, p.s) = "." /\ At(f, q.s) \notin DigitChars \cup {"*"} -> q
          [] OTHER -> p

\* The widths of the integer types behind a length, and of the arguments.
LengthBits(length) == CASE length = "hh" -> UIntBits \div 2 [] length = "h" -> UIntBits - 2
                        [] OTHER -> 2 * UIntBits
TypeBits(type) == IF type \in {"LONG_LONG", "ULONG_LONG"} THEN 2 * UIntBits ELSE UIntBits

Signed(v, bits) == ((v + 2^(bits - 1)) % 2^bits) - 2^(bits - 1)

\* ArgConverter<T>::visit_any_int, T named by the length ("" is void).
ArgConverter(a, length, type) ==
    LET v == Args[a].value
        bits == IF length = "" THEN TypeBits(Args[a].type) ELSE LengthBits(length)
        signed == type \in {"d", "i"}
    IN  IF Args[a].type \notin IntegerTypes \/ length = "L" \/ (Args[a].type = "BOOL" /\ type = "s")
        THEN v
        ELSE IF bits <= UIntBits THEN IF signed THEN Signed(v, bits) ELSE v % 2^bits
        ELSE IF signed THEN v ELSE v % 2^TypeBits(Args[a].type)

Length(f, p) ==
    CASE At(f, p.s) = "h" /\ At(f, p.s + 1) = "h" -> "hh"
      [] At(f, p.s) = "l" /\ At(f, p.s + 1) = "l" -> "ll"
      [] At(f, p.s) \in {"h", "l"} /\ At(f, p.s + 1) # At(f, p.s) -> At(f, p.s)
      [] At(f, p.s) \in {"j", "z", "t", "L"} -> At(f, p.s)
      [] OTHER -> ""

\* One conversion: header, precision, argument, length and type.
Converted(f, p2) ==
    LET a == p2.arg
        integer == Args[a].type \in IntegerTypes
        zeroInt == integer /\ Args[a].value = 0
        pad == p2.spec.fill = "0"
        numeric == Args[a].type \in NumericTypes
        spec == [p2.spec EXCEPT
                    !.flags = IF zeroInt THEN @ \ {"HASH"} ELSE @,
                    !.align = IF pad /\ numeric THEN "NUMERIC" ELSE @,
                    !.fill = IF pad /\ ~numeric THEN " " ELSE @]
        length == Length(f, p2)
        q == Skip(p2, IF length = "" THEN 0 ELSE IF length \in {"hh", "ll"} THEN 2 ELSE 1)
        type == At(f, q.s)
        final == [spec EXCEPT !.type = IF integer /\ type \in {"i", "u"} THEN "d" ELSE type]
    IN  IF type = NUL THEN Fail(q, "invalid format string")
        ELSE [Skip(q, 1) EXCEPT !.out = Append(@, <<"arg", a, final, ArgConverter(a, length, type)>>)]
Conversion(f, p) ==
    With(parse_header(f, [p EXCEPT !.spec = [NoSpec EXCEPT !.align = "RIGHT"]]),
         LAMBDA head : Then(Then(Then(head.p, LAMBDA q : ParsePrintfPrecision(f, q)),
                                 LAMBDA q : printf_arg(f, q, head.index)),
                            LAMBDA q : Converted(f, q)))

RECURSIVE PrintfLoop(_, _, _)
PrintfLoop(f, p, start) ==
    LET c == At(f, p.s)
        q == Skip(p, 1)
    IN  CASE p.err # "" -> p
          [] p.err = "" /\ c = NUL -> write(f, p, start, p.s)
          [] p.err = "" /\ c \notin {"%", NUL} -> PrintfLoop(f, q, start)
          [] p.err = "" /\ c = "%" /\ At(f, q.s) = c ->
               PrintfLoop(f, Skip(write(f, q, start, q.s), 1), q.s + 1)
          [] OTHER -> With(Conversion(f, write(f, q, start, q.s - 1)),
                           LAMBDA r : PrintfLoop(f, r, r.s))

printf(f) == PrintfLoop(f, NewParser, 1)

Parsed(f) == IF style = "format" THEN format(f) ELSE printf(f)

----------------------------------------------------------------------------
(* Format strings: any string of a few characters, or one put together     *)
(* from well-formed parts.  A part is [text] that stands for itself, or a  *)
(* field with the characters of each of its components.                    *)

ParserInit == fstr = << >> /\ fields = << >> /\ style \in {"format", "printf"}

AddChar(c) ==
    /\ fields = << >> /\ Len(fstr) < MaxLength
    /\ fstr' = Append(fstr, c)
    /\ UNCHANGED <<fields, style>>

AddField(x) ==
    /\ fstr = << >> /\ Len(fields) < MaxFields
    /\ fields' = Append(fields, x)
    /\ UNCHANGED <<fstr, style>>

ParserNext ==
    \/ \E c \in Alphabet[style] : AddChar(c)
    \/ \E x \in (IF style = "format" THEN Fields ELSE Conversions) : AddField(x)

Part(x, name) == IF name \in DOMAIN x THEN x[name] ELSE << >>

Unparsed(x) ==
    IF "text" \in DOMAIN x THEN x.text
    ELSE IF style = "format"
    THEN LET spec == Part(x, "fill") \o Part(x, "align") \o Part(x, "sign") \o Part(x, "hash")
                     \o Part(x, "zero") \o Part(x, "width") \o Part(x, "precision") \o Part(x, "type")
         IN  <<"{">> \o Part(x, "id") \o (IF spec = << >> THEN << >> ELSE <<":">> \o spec) \o <<"}">>
    ELSE <<"%">> \o Part(x, "id") \o Part(x, "sign") \o Part(x, "hash") \o Part(x, "zero")
         \o Part(x, "width") \o Part(x, "precision") \o Part(x, "length") \o Part(x, "type")

\* The arguments a field names, in the order they are looked up: <<"">> is the
\* next one.  In printf the argument itself comes last.
Nested(s) ==
    IF style = "printf" THEN IF \E i \in DOMAIN s : s[i] = "*" THEN <<<< >>>> ELSE << >>
    ELSE IF \E i \in DOMAIN s : s[i] = "{"
    THEN <<SelectSeq(s, LAMBDA c : c \notin {".", "{", "}"})>> ELSE << >>
Uses(x) ==
    IF "text" \in DOMAIN x THEN << >>
    ELSE LET inner == Nested(Part(x, "width")) \o Nested(Part(x, "precision"))
             own == <<SelectSeq(Part(x, "id"), LAMBDA c : c # "$")>>
         IN  IF style = "format" THEN own \o inner ELSE inner \o own

AllUses == FlattenSeq([i \in DOMAIN fields |-> Uses(fields[i])])

Decimal(s) == FoldLeft(LAMBDA n, c : 10 * n + DigitValue(c), 0, s)

\* The argument of the k-th use, or 0.
Resolved(k) ==
    LET id == AllUses[k]
        n == IF id = << >> THEN k ELSE Decimal(id) + (IF style = "format" THEN 1 ELSE 0)
    IN  IF id # << >> /\ id[1] \notin DigitChars THEN FindName(id)
        ELSE IF n \in DOMAIN Args THEN n ELSE 0

FirstUse(i) == Len(FlattenSeq([j \in 1..(i - 1) |-> Uses(fields[j])])) + 1
NestedWidth(x) == Len(Nested(Part(x, "width")))

\* Where the argument, the width and the precision of field i are found.
OwnUse(i) == IF style = "format" THEN FirstUse(i) ELSE FirstUse(i) + Len(Uses(fields[i])) - 1
WidthUse(i) == IF style = "format" THEN FirstUse(i) + 1 ELSE FirstUse(i)
PrecisionUse(i) == WidthUse(i) + NestedWidth(fields[i])

Count(s, use, none) ==
    IF s = << >> THEN none
    ELSE IF Nested(s) # << >> THEN Args[Resolved(use)].value
    ELSE Decimal(SelectSeq(s, LAMBDA c : c # "."))

Char(s, none) == IF s = << >> THEN none ELSE s[1]

SignFlags(s) == CASE s = <<"+">> -> {"SIGN", "PLUS"} [] s = <<" ">> -> {"SIGN"}
                  [] s = <<"-">> /\ style = "format" -> {"MINUS"} [] OTHER -> {}

\* An alignment means nothing without a width.
Meaningful(spec) == IF spec.width = 0 THEN [spec EXCEPT !.align = "DEFAULT"] ELSE spec

Spec(i) ==
    LET x == fields[i]
        type == Args[Resolved(OwnUse(i))].type
        zero == Part(x, "zero") # << >> /\ type \in NumericTypes
        width == Count(Part(x, "width"), WidthUse(i), 0)
        left == style = "printf" /\ (width < 0 \/ Part(x, "sign") = <<"-">>)
        hash == Part(x, "hash") # << >>
                /\ ~(style = "printf" /\ type \in IntegerTypes
                     /\ Args[Resolved(OwnUse(i))].value = 0)
    IN  [width |-> IF width < 0 THEN -width ELSE width,
         fill |-> IF zero THEN "0" ELSE Char(Part(x, "fill"), " "),
         align |-> IF zero THEN "NUMERIC" ELSE IF left THEN "LEFT"
                   ELSE IF style = "printf" THEN "RIGHT" ELSE AlignOf(Char(Part(x, "align"), "")),
         flags |-> SignFlags(Part(x, "sign")) \cup (IF hash THEN {"HASH"} ELSE {}),
         precision |-> Count(Part(x, "precision"), PrecisionUse(i), -1),
         type |-> IF style = "printf" /\ type \in IntegerTypes /\ x.type \in {<<"i">>, <<"u">>}
                  THEN "d" ELSE Char(Part(x, "type"), "")]

\* C's conversion to a type of that many bits.
Value(i) ==
    LET x == fields[i]
        arg == Args[Resolved(OwnUse(i))]
        signed == x.type \in {<<"d">>, <<"i">>}
        bits == CASE Part(x, "length") = <<"h", "h">> -> UIntBits \div 2
                  [] Part(x, "length") = <<"h">> -> UIntBits - 2
                  [] OTHER -> TypeBits(arg.type)
        low == IF signed THEN -(2^(bits - 1)) ELSE 0
    IN  IF style = "format" THEN 0
        ELSE IF arg.type \notin IntegerTypes \/ (arg.type = "BOOL" /\ x.type = <<"s">>) THEN arg.value
        ELSE CHOOSE r \in low..(low + 2^bits - 1) : (r - arg.value) % 2^bits = 0

\* What the arguments must be like for the field to be accepted.
Accepted(i) ==
    LET x == fields[i]
        arg == Args[Resolved(OwnUse(i))]
        number == {"INT", "UINT", "LONG_LONG", "ULONG_LONG"}
                  \cup (IF style = "printf" THEN {"BOOL", "CHAR"} ELSE {})
        counted(name, use) == Nested(Part(x, name)) # << >> =>
            /\ Args[Resolved(use)].type \in number
            /\ style = "format" => Args[Resolved(use)].value >= 0
    IN  "text" \in DOMAIN x \/
        /\ counted("width", WidthUse(i)) /\ counted("precision", PrecisionUse(i))
        /\ style = "format" =>
              /\ Part(x, "align") = <<"=">> \/ Part(x, "sign") # << >> \/ Part(x, "hash") # << >>
                 \/ Part(x, "zero") # << >> => arg.type \in NumericTypes
              /\ Part(x, "sign") # << >> => arg.type \notin UnsignedTypes
              /\ Part(x, "precision") # << >> => arg.type \notin IntegerTypes \cup {"POINTER"}

AllAccepted ==
    /\ \A k \in DOMAIN AllUses : Resolved(k) # 0
    /\ (\A k \in DOMAIN AllUses : AllUses[k] = << >>) \/ (\A k \in DOMAIN AllUses : AllUses[k] # << >>)
    /\ \A i \in DOMAIN fields : Accepted(i)

Means(i) == IF "text" \in DOMAIN fields[i] THEN <<"text", fields[i].text[1]>>
            ELSE <<"arg", Resolved(OwnUse(i)), Meaningful(Spec(i)), Value(i)>>

Normal(o) == IF o[1] = "text" THEN o ELSE [o EXCEPT ![3] = Meaningful(@)]

----------------------------------------------------------------------------

\* No format string, well-formed or not, makes either parser read past its
\* terminating NUL, nor the argument list past the arrays the caller built;
\* an index names the argument passed at that place or none.
StaysInString ==
    /\ With(Parsed(fstr), LAMBDA p : p.s <= Len(fstr) + (IF p.err = "" THEN 1 ELSE 2))
    /\ fstr = << >> => \A n \in 0..(MAX_PACKED_ARGS + 2), i \in 0..(MAX_PACKED_ARGS + 4) :
          /\ ArgAt(n, i).arg = (IF i < n THEN i + 1 ELSE 0)
          /\ ArgAt(n, i).reads \subseteq 0..(ArrayEnd(n) - 1)

\* A format string made of well-formed fields is read as what its fields say:
\* each takes the argument it names (automatic and manual numbering never mix),
\* with exactly its fill, alignment, flags, width, precision and type, and it is
\* refused exactly when an argument is missing or of the wrong type.
FieldsParsed ==
    With(Parsed(FlattenSeq([i \in DOMAIN fields |-> Unparsed(fields[i])])),
         LAMBDA p : IF AllAccepted
                    THEN /\ p.err = ""
                         /\ [i \in DOMAIN p.out |-> Normal(p.out[i])] = [i \in DOMAIN fields |-> Means(i)]
                    ELSE p.err # "")
=============================================================================
