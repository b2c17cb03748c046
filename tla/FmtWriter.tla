----------------------------- MODULE FmtWriter -----------------------------
(***************************************************************************)
(* BasicWriter and the argument formatters of the bundled fmt library: how *)
(* one integer, character, string or floating-point argument is written    *)
(* with a width, a fill, an alignment and a precision into a buffer that   *)
(* may have to grow meanwhile.  Characters are one-letter strings; the     *)
(* text of a floating-point value is what snprintf makes of it (external). *)
(***************************************************************************)
EXTENDS FmtBuffer, Integers

CONSTANTS
    Bits,         \* the width of the integers
    Before,       \* how many characters the buffer may hold already
    Arguments,    \* the arguments, see write
    FormatSpecs   \* the format specifiers they are written with

VARIABLES
    out,          \* the buffer of the writer
    last          \* the call made on it and what was there before

writerVars == <<out, last>>

Pow2(n) == 2^n
Rep(c, n) == IF n <= 0 THEN << >> ELSE [i \in 1..n |-> c]

\* A pointer into a buffer stays good as long as the buffer keeps its storage.
Pointer(b, at) == [block |-> b.ptr, at |-> at]

Put(b, p, s) ==
    IF p.block # b.ptr THEN b
    ELSE [b EXCEPT !.data = [i \in 1..b.capacity |->
                                IF i \in (p.at + 1)..(p.at + Len(s))
                                THEN s[i - p.at] ELSE b.data[i]]]

\* grow_buffer(n); the new area begins at the old size.
grow_buffer(b, n) == resize(b, b.size + n, b.ptr + 1)

----------------------------------------------------------------------------
(* Digits.                                                                 *)

Digits == <<"0", "1", "2", "3", "4", "5", "6", "7", "8", "9",
            "a", "b", "c", "d", "e", "f">>
Upper == <<"0", "1", "2", "3", "4", "5", "6", "7", "8", "9",
           "A", "B", "C", "D", "E", "F">>

\* The do-while loops of write_int for base 16, 8 and 2.
Loop(table, base) ==
    LET f[n \in 0..Pow2(Bits)] ==
            (IF n < base THEN << >> ELSE f[n \div base]) \o <<table[(n % base) + 1]>>
    IN  f

BitLength(n) == CHOOSE k \in 0..Bits : Pow2(k) > n /\ (k = 0 \/ Pow2(k - 1) <= n)

\* The number of digits without a division; POWERS_OF_10[0] is 0.
count_digits(n) ==
    LET t == (BitLength(IF n = 0 THEN 1 ELSE n) * 1233) \div 4096
        power == IF t = 0 THEN 0 ELSE 10^t
    IN  t - (IF n < power THEN 1 ELSE 0) + 1

\* The fallback for compilers without a count of leading zeros.
count_digits_portable(n) ==
    LET f[m \in 0..Pow2(Bits), count \in 0..12] ==
            IF m < 10 THEN count ELSE IF m < 100 THEN count + 1
            ELSE IF m < 1000 THEN count + 2 ELSE IF m < 10000 THEN count + 3
            ELSE f[m \div 10000, count + 4]
    IN  f[n, 1]

\* ThousandsSep: called after the digit that is number index from the right.
thousands_sep(sep, index) == IF index % 3 = 0 THEN sep ELSE << >>

\* format_decimal: two digits at a time from the right, sep after every third.
format_decimal(value, sep) ==
    LET Digit(d) == <<Digits[d + 1]>>
        f[v \in 0..Pow2(Bits), index \in 0..24] ==
            IF v >= 100
            THEN f[v \div 100, index + 2]
                 \o thousands_sep(sep, index + 2) \o Digit((v % 100) \div 10)
                 \o thousands_sep(sep, index + 1) \o Digit(v % 10)
            ELSE IF v < 10 THEN Digit(v)
            ELSE Digit(v \div 10) \o thousands_sep(sep, index + 1) \o Digit(v % 10)
    IN  f[value, 0]

\* The absolute value as an unsigned number, 0 - abs_value where it is negative.
Abs(value) == (IF value < 0 THEN 0 - value ELSE value) % Pow2(Bits)

\* class FormatInt, and the free function format_decimal(char *&, T).
digits10 == CHOOSE n \in 0..Bits : 10^n <= Pow2(Bits) /\ 10^(n + 1) > Pow2(Bits)
FormatInt(value) ==
    (IF value < 0 THEN <<"-">> ELSE << >>) \o format_decimal(Abs(value), << >>)

\* write_decimal, operator<<(int): the space is counted first, then filled.
write_decimal(b, value) ==
    LET sign == IF value < 0 THEN <<"-">> ELSE << >>
        digits == format_decimal(Abs(value), << >>)
        size == Len(sign) + count_digits(Abs(value))
        g == grow_buffer(b, size)
    IN  Put(Put(g, Pointer(g, b.size), sign), Pointer(g, b.size + size - Len(digits)), digits)

----------------------------------------------------------------------------
(* Padding.                                                                *)

\* fill_padding: the buffer with both sides of the content filled.
fill_padding(b, at, total, content, fill) ==
    LET left == (total - content) \div 2
    IN  Put(Put(b, Pointer(b, at), Rep(fill, left)),
            Pointer(b, at + left + content), Rep(fill, total - content - left))

\* write_str(s, size, spec)
WriteStr(b, s, spec) ==
    LET size == Len(s)
        w == spec.width
        g == grow_buffer(b, IF w > size THEN w ELSE size)
        fill == Rep(spec.fill, w - size)
        At(n) == Pointer(g, b.size + n)
    IN  CASE w <= size -> Put(g, At(0), s)
          [] w > size /\ spec.align = "RIGHT" -> Put(Put(g, At(0), fill), At(w - size), s)
          [] w > size /\ spec.align = "CENTER" ->
               Put(fill_padding(g, b.size, w, size, spec.fill), At((w - size) \div 2), s)
          [] OTHER -> Put(Put(g, At(size), fill), At(0), s)

\* write_str(StringValue, spec): a precision shortens the string.
write_str(b, s, spec) ==
    LET n == IF spec.precision >= 0 /\ spec.precision < Len(s) THEN spec.precision ELSE Len(s)
    IN  WriteStr(b, SubSeq(s, 1, n), spec)

\* prepare_int_buffer without a precision: the buffer with prefix and padding,
\* and the place behind the last digit.
IntBuffer(b, digits, width, align, fill, prefix) ==
    LET size == Len(prefix) + digits
        total == IF width <= size THEN size ELSE width
        g == grow_buffer(b, total)
        At(n) == Pointer(g, b.size + n)
        left == (total - size) \div 2
        To(buf, n) == [buf |-> buf, end |-> At(n)]
    IN  CASE width <= size -> To(Put(g, At(0), prefix), size)
          [] width > size /\ align = "LEFT" ->
               To(Put(Put(g, At(0), prefix), At(size), Rep(fill, width - size)), size)
          [] width > size /\ align = "CENTER" ->
               To(Put(fill_padding(g, b.size, width, size, fill), At(left), prefix), left + size)
          [] width > size /\ align = "NUMERIC" ->
               To(Put(Put(g, At(0), prefix), At(Len(prefix)), Rep(fill, width - size)), width)
          [] OTHER -> To(Put(Put(g, At(width - size), prefix), At(0), Rep(fill, width - size)), width)

\* prepare_int_buffer: a precision above the number of digits asks for zeros.
prepare_int_buffer(b, digits, spec, prefix) ==
    LET octal == prefix # << >> /\ prefix[Len(prefix)] = "0"
        pre == IF octal THEN SubSeq(prefix, 1, Len(prefix) - 1) ELSE prefix
        number == Len(pre) + spec.precision
        Number(buf) == IntBuffer(buf, digits, number, "NUMERIC", "0", pre)
        fill == Rep(spec.fill, spec.width - number)
        Fill(buf) == LET g == grow_buffer(buf, Len(fill)) IN Put(g, Pointer(g, buf.size), fill)
        r == reserve(b, spec.width, b.ptr + 1)
    IN  CASE spec.precision <= digits ->
               IntBuffer(b, digits, spec.width, spec.align, spec.fill, prefix)
          [] spec.precision > digits /\ number >= spec.width -> Number(b)
          [] spec.precision > digits /\ number < spec.width /\ spec.align # "LEFT" ->
               Number(Fill(r))
          [] OTHER -> [buf |-> Fill(Number(r).buf), end |-> Number(r).end]

\* The digits of an integer for a type, and how many places are set aside.
IntDigits(n, type) ==
    CASE type \in {"", "d"} -> format_decimal(n, << >>)
      [] type = "n" -> format_decimal(n, <<",">>)
      [] type = "x" -> Loop(Digits, 16)[n]
      [] type = "X" -> Loop(Upper, 16)[n]
      [] type \in {"b", "B"} -> Loop(Digits, 2)[n]
      [] type = "o" -> Loop(Digits, 8)[n]

\* Mutant: a separator is counted for every third digit, the first one included.
Places_OneTooMany(n, type) ==
    IF type = "n" THEN count_digits(n) + count_digits(n) \div 3
    ELSE Len(IntDigits(n, type))

Places(n, type) ==
    CASE type \in {"", "d"} -> count_digits(n)
      [] type = "n" -> count_digits(n) + (count_digits(n) - 1) \div 3
      [] OTHER -> Len(IntDigits(n, type))

Prefix(value, spec) ==
    (CASE value < 0 -> <<"-">>
       [] value >= 0 /\ {"SIGN", "PLUS"} \subseteq spec.flags -> <<"+">>
       [] value >= 0 /\ spec.flags \cap {"SIGN", "PLUS"} = {"SIGN"} -> <<" ">>
       [] OTHER -> << >>)
    \o (CASE "HASH" \in spec.flags /\ spec.type \in {"x", "X", "b", "B"} -> <<"0", spec.type>>
          [] "HASH" \in spec.flags /\ spec.type = "o" -> <<"0">>
          [] OTHER -> << >>)

IntTypes == {"", "d", "x", "X", "b", "B", "o", "n"}

\* write_int; an unknown type is refused before anything is written.
write_int(b, value, spec) ==
    IF spec.type \notin IntTypes THEN b
    ELSE LET n == Abs(value)
             r == prepare_int_buffer(b, Places(n, spec.type), spec, Prefix(value, spec))
             digits == IntDigits(n, spec.type)
         IN  Put(r.buf, [r.end EXCEPT !.at = @ - Len(digits)], digits)

\* snprintf("%*f") and snprintf("%-*f") of a value that is not negative (external).
format_float(text, width, align) ==
    LET pad == Rep(" ", width - Len(text))
    IN  IF align = "LEFT" THEN text \o pad ELSE pad \o text

Leading(text) == CHOOSE k \in 0..Len(text) :
    (\A i \in 1..k : text[i] = " ") /\ (k = Len(text) \/ text[k + 1] # " ")

\* write_double: the text is formatted behind size_, where the buffer may have
\* to grow for it first, and becomes part of the content at the end.
write_double(b, arg, spec) ==
    LET sign == CASE arg.value < 0 -> <<"-">>
                  [] arg.value >= 0 /\ {"SIGN", "PLUS"} \subseteq spec.flags -> <<"+">>
                  [] arg.value >= 0 /\ spec.flags \cap {"SIGN", "PLUS"} = {"SIGN"} -> <<" ">>
                  [] OTHER -> << >>
        width == IF sign # << >> /\ spec.width > 0 THEN spec.width - 1 ELSE spec.width
        wide == IF spec.width > 1 THEN spec.width ELSE 1
        roomy == IF sign = << >> THEN b ELSE reserve(b, b.size + wide, b.ptr + 1)
        offset == b.size + Len(sign)
        centre == spec.align = "CENTER"
        text == format_float(arg.text, IF centre THEN 0 ELSE width, spec.align)
        grown == IF offset + Len(text) < roomy.capacity THEN roomy
                 ELSE reserve(roomy, offset + Len(text) + 1, roomy.ptr + 1)
        printed == Put(grown, Pointer(grown, offset), text)
        pending == sign # << >> /\ spec.align \in {"RIGHT", "DEFAULT"} /\ text[1] = " "
        signed == IF sign = << >> THEN printed
                  ELSE Put(printed, Pointer(printed, offset - 1),
                           IF pending THEN <<spec.fill>> ELSE sign)
        n == Len(sign) + Len(text)
        padded == IF spec.fill = " " /\ ~pending THEN signed
                  ELSE Put(signed, Pointer(signed, offset), Rep(spec.fill, Leading(text)))
        final == IF pending
                 THEN Put(padded, Pointer(padded, offset + Leading(text) - 1), sign) ELSE padded
        moved_ == LET g == grow_buffer(signed, spec.width)
                      content == SubSeq(g.data, b.size + 1, b.size + n)
                  IN  Put(g, Pointer(g, b.size + (spec.width - n) \div 2), content)
    IN  IF arg.special THEN WriteStr(b, sign \o arg.text, spec)
        ELSE IF centre /\ spec.width > n
        THEN fill_padding(moved_, b.size, spec.width, n, spec.fill)
        ELSE grow_buffer(final, n)

----------------------------------------------------------------------------
(* The argument formatters: which of the above an argument goes to.        *)

StringTypes == {"", "s"}
CharTypes == {"", "c"}
DoubleTypes == {"", "e", "f", "g", "a", "E", "F", "G", "A"}
Pointed(spec) == [spec EXCEPT !.flags = {"HASH"}, !.type = "x"]

\* The texts the library writes itself.
True == <<"t", "r", "u", "e">>
False == <<"f", "a", "l", "s", "e">>
Nil == <<"(", "n", "i", "l", ")">>

\* visit_char: one character, padded; printf knows two alignments and one fill.
WriteChar(b, arg, spec) ==
    WriteStr(b, arg.text,
             IF ~arg.printf THEN spec
             ELSE [spec EXCEPT !.fill = " ",
                               !.align = IF spec.align = "LEFT" THEN "LEFT" ELSE "RIGHT"])

visit_bool(b, arg, spec) ==
    IF spec.type = (IF arg.printf THEN "s" ELSE "")
    THEN write_str(b, IF arg.value = 0 THEN False ELSE True, [spec EXCEPT !.type = ""])
    ELSE write_int(b, arg.value, spec)

\* With another type printf's visit_char writes the number and the character too.
visit_char(b, arg, spec) ==
    CASE spec.type \notin CharTypes /\ ~arg.printf -> write_int(b, arg.value, spec)
      [] spec.type \notin CharTypes /\ arg.printf ->
           WriteChar(write_int(b, arg.value, spec), arg, spec)
      [] spec.type \in CharTypes /\ ~arg.printf /\ (spec.align = "NUMERIC" \/ spec.flags # {}) -> b
      [] OTHER -> WriteChar(b, arg, spec)

visit_string(b, arg, spec) == IF spec.type \in StringTypes THEN write_str(b, arg.text, spec) ELSE b

visit_pointer(b, arg, spec) ==
    CASE arg.printf /\ arg.value = 0 -> write_str(b, Nil, [spec EXCEPT !.type = ""])
      [] ~(arg.printf /\ arg.value = 0) /\ spec.type \in {"", "p"} ->
           write_int(b, arg.value, Pointed(spec))
      [] OTHER -> b

visit_double(b, arg, spec) == IF spec.type \in DoubleTypes THEN write_double(b, arg, spec) ELSE b

visit(b, arg, spec) ==
    CASE arg.kind = "int" -> write_int(b, arg.value, spec)
      [] arg.kind = "bool" -> visit_bool(b, arg, spec)
      [] arg.kind = "char" -> visit_char(b, arg, spec)
      [] arg.kind = "string" -> visit_string(b, arg, spec)
      [] arg.kind = "pointer" -> visit_pointer(b, arg, spec)
      [] arg.kind = "double" -> visit_double(b, arg, spec)

\* What the two parsers can ask for: format() takes a precision for strings and
\* floating-point values only and signs, '#' and '=' for numbers only; printf
\* aligns left or right and pads with zeros only numbers.
Reachable(arg, spec) ==
    LET numeric == arg.kind \in {"int", "bool", "char", "double"} IN
    /\ (spec.align = "NUMERIC" \/ spec.flags # {}) => numeric
    /\ IF arg.printf
       THEN <<spec.align, spec.fill>> \in {<<"NUMERIC", "0">>, <<"LEFT", " ">>, <<"RIGHT", " ">>}
       ELSE spec.precision >= 0 => arg.kind \in {"string", "double"}

NoCall == [op |-> "none", arg |-> 0, spec |-> 0, before |-> 0]

WriterInit ==
    \E n \in Before : out = append(MemoryBuffer, Rep("x", n), 1) /\ last = NoCall

Write(arg, spec) ==
    /\ Reachable(arg, spec)
    /\ out' = visit(out, arg, spec)
    /\ last' = [op |-> "field", arg |-> arg, spec |-> spec, before |-> out]

WriteDecimal(arg) ==
    /\ arg.kind = "int"
    /\ out' = write_decimal(out, arg.value)
    /\ last' = [op |-> "decimal", arg |-> arg, spec |-> 0, before |-> out]

WriterNext ==
    /\ last.op = "none"
    /\ \E arg \in Arguments : WriteDecimal(arg) \/ \E spec \in FormatSpecs : Write(arg, spec)

----------------------------------------------------------------------------
(* What a field should look like, said without a buffer.                   *)

PlainDigits(n, base, table) ==
    LET len == CHOOSE k \in 1..Bits : n < base^k /\ (k = 1 \/ n >= base^(k - 1))
    IN  [i \in 1..len |-> table[((n \div base^(len - i)) % base) + 1]]

Grouped(s) ==
    LET len == Len(s) + (Len(s) - 1) \div 3
        Right(r) == IF r % 4 = 0 THEN "," ELSE s[Len(s) + 1 - (r - r \div 4)]
    IN  [i \in 1..len |-> Right(len + 1 - i)]

Number(n, type) ==
    CASE type \in {"", "d"} -> PlainDigits(n, 10, Digits)
      [] type = "n" -> Grouped(PlainDigits(n, 10, Digits))
      [] type = "x" -> PlainDigits(n, 16, Digits)
      [] type = "X" -> PlainDigits(n, 16, Upper)
      [] type = "o" -> PlainDigits(n, 8, Digits)
      [] OTHER -> PlainDigits(n, 2, Digits)

Padded(prefix, body, spec, default) ==
    LET k == spec.width - Len(prefix) - Len(body)
        align == IF spec.align = "DEFAULT" THEN default ELSE spec.align
    IN  CASE align = "RIGHT" -> Rep(spec.fill, k) \o prefix \o body
          [] align = "NUMERIC" -> prefix \o Rep(spec.fill, k) \o body
          [] align = "CENTER" /\ k > 0 ->
               Rep(spec.fill, k \div 2) \o prefix \o body \o Rep(spec.fill, k - k \div 2)
          [] OTHER -> prefix \o body \o Rep(spec.fill, k)

\* A precision fills with zeros; the prefix of an octal number counts as one.
IntField(value, spec) ==
    LET digits == Number(Abs(value), spec.type)
        prefix == Prefix(value, spec)
        zeros == spec.precision - Len(digits)
        pre == IF zeros > 0 /\ spec.type = "o" /\ "HASH" \in spec.flags
               THEN SubSeq(prefix, 1, Len(prefix) - 1) ELSE prefix
    IN  IF spec.type \notin IntTypes THEN << >>
        ELSE Padded(pre, Rep("0", zeros) \o digits, spec, "RIGHT")

StrField(s, spec) ==
    Padded(<< >>, IF spec.precision < 0 THEN s
                  ELSE SubSeq(s, 1, IF spec.precision < Len(s) THEN spec.precision ELSE Len(s)),
           IF spec.align = "NUMERIC" THEN [spec EXCEPT !.align = "LEFT"] ELSE spec, "LEFT")

DoubleField(arg, spec) ==
    LET sign == Prefix(arg.value, [spec EXCEPT !.flags = @ \ {"HASH"}])
    IN  IF spec.type \notin DoubleTypes THEN << >>
        ELSE IF arg.special THEN StrField(sign \o arg.text, [spec EXCEPT !.precision = -1])
        ELSE Padded(sign, arg.text, spec, "RIGHT")

Field(arg, spec) ==
    LET plain == [spec EXCEPT !.precision = -1]
    IN  CASE arg.kind = "int" -> IntField(arg.value, spec)
          [] arg.kind = "bool" ->
               IF spec.type = (IF arg.printf THEN "s" ELSE "")
               THEN StrField(IF arg.value = 0 THEN False ELSE True, spec)
               ELSE IntField(arg.value, spec)
          [] arg.kind = "char" ->
               IF spec.type \notin CharTypes THEN IntField(arg.value, spec)
               ELSE IF arg.printf
               THEN StrField(arg.text, [plain EXCEPT !.fill = " ",
                        !.align = IF spec.align = "LEFT" THEN "LEFT" ELSE "RIGHT"])
               ELSE IF spec.align # "NUMERIC" /\ spec.flags = {} THEN StrField(arg.text, plain)
               ELSE << >>
          [] arg.kind = "string" ->
               IF spec.type \in StringTypes THEN StrField(arg.text, spec) ELSE << >>
          [] arg.kind = "pointer" ->
               IF arg.printf /\ arg.value = 0 THEN StrField(Nil, spec)
               ELSE IF spec.type \in {"", "p"} THEN IntField(arg.value, Pointed(spec))
               ELSE << >>
          [] arg.kind = "double" -> DoubleField(arg, spec)

\* Combinations whose layout is the library's own: zeros and a precision at
\* once, a fill behind a floating-point value, printf's number for a character.
OwnLayout(arg, spec) ==
    \/ spec.precision >= 0 /\ spec.align = "NUMERIC"
    \/ arg.kind = "double" /\ ~arg.special /\ spec.align = "LEFT" /\ spec.fill # " "
    \/ arg.kind = "char" /\ arg.printf /\ spec.type \notin CharTypes

\* The buffer may have to grow when part of the field is already in it.
GrowsUnderField(arg, spec, b) ==
    /\ b.size + spec.width > b.capacity
    /\ \/ arg.kind = "double" /\ spec.align = "CENTER"
       \/ spec.precision >= 0 /\ spec.align = "LEFT"

Expected(arg, spec) ==
    IF last.op = "field" THEN Field(arg, spec)
    ELSE (IF arg.value < 0 THEN <<"-">> ELSE << >>) \o PlainDigits(Abs(arg.value), 10, Digits)

\* Every field comes out whole behind what the buffer held: sign, prefix, zeros
\* and digits in order, padded to the width on the right side, digits and group
\* separators in exactly the places counted for them, whether or not the buffer
\* grows on the way (write_str, write_int, write_double, visit_char), and
\* FormatInt agrees with write_decimal and fits its array.
FieldsWritten ==
    last.op # "none" =>
        LET arg == last.arg spec == last.spec IN
        /\ \/ last.op = "field" /\ (OwnLayout(arg, spec) \/ GrowsUnderField(arg, spec, last.before))
           \/ str(out) = str(last.before) \o Expected(arg, spec)
        /\ last.op = "decimal" =>
              /\ FormatInt(arg.value) = Expected(arg, spec)
              /\ Len(FormatInt(arg.value)) <= digits10 + 2
              /\ count_digits_portable(Abs(arg.value)) = count_digits(Abs(arg.value))

\* What format() and sprintf() are documented to return, the field, also when
\* the buffer has to grow for the padding of a field that is partly written.
FieldsSurviveGrowth ==
    last.op = "field" /\ ~OwnLayout(last.arg, last.spec) =>
        str(out) = str(last.before) \o Field(last.arg, last.spec)
=============================================================================
