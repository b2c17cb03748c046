--------------------------------- MODULE Pcg ---------------------------------
(***************************************************************************)
(* bench/rand/pcg: the generators of pcg_random.hpp (the linear congruential *)
(* engine with its jumps and its text, the output functions, the extended    *)
(* generator with its table) and the helpers of pcg_extras.hpp.  The code is  *)
(* written for any width; the engine and the table run here at the library's *)
(* own 8-bit instance, the output functions at its 16-to-8-bit one.           *)
(***************************************************************************)
EXTENDS Integers, Sequences, FiniteSets, Bitwise

CONSTANTS Seeds,           \* seeds given to the constructors
          Spares,          \* spare bits of a state, and bounds of bounded_rand
          Deltas,          \* distances given to advance and backstep
          table_pow2,      \* the extended generator's template parameters
          advance_pow2,
          tick_limit_pow2, \* 64 in the code; may_tock is "the state is narrower"
          MaxDraws,        \* bounds on the draws from an extended generator
          MaxSets          \* and the calls of set

VARIABLE pcg     \* the object in use
------------------------------------------------------------------------------
Shr(x, n) == x \div 2^n
Shl(x, n, bits) == (x * 2^n) % 2^bits
XorShift(x, n) == x ^^ Shr(x, n)
(* A product of 16-bit words, by halves to stay within TLC's integers.     *)
Mul(x, y, bits) == (((Shr(x, 8) * y) % 2^bits) * 256 + (x % 256) * y) % 2^bits

rotr(value, rot, bits) == Shr(value, rot) | Shl(value, (-rot) % bits, bits)

(* Mutant: undoes the shift of the top bits only.                          *)
UnxorshiftOnce(x, bits, shift) == XorShift(x, shift)
(* Backs out x ^ (x >> shift): the top bits, then the rest recursively.    *)
RECURSIVE unxorshift(_, _, _)
unxorshift(x, bits, shift) ==
    IF 2 * shift >= bits THEN XorShift(x, shift)
    ELSE LET low1 == 2^(bits - 2 * shift)
             low2 == 2^(bits - shift)
             top1 == (XorShift(x, shift) \div low1) * low1
             bottom2 == (top1 + (x % low1)) % low2
         IN  top1 + (unxorshift(bottom2, bits - shift, shift) % low1)
------------------------------------------------------------------------------
(* The constants by width, and the output functions from a state of bits   *)
(* bits to a result of xbits bits.                                          *)
default_multiplier(bits) == IF bits = 8 THEN 141 ELSE 12829
default_increment(bits) == IF bits = 8 THEN 77 ELSE 47989
mcg_multiplier(bits) == IF bits = 8 THEN 217 ELSE 62169
mcg_unmultiplier(bits) == IF bits = 8 THEN 105 ELSE 28009

Smaller(x, y) == IF x < y THEN x ELSE y
WantedOpbits(xbits) == IF xbits >= 16 THEN 4 ELSE 3
Opbits(xbits) == IF xbits >= 16 THEN 3 ELSE 2
TopBits(s, bits, n) == Shr(s, bits - n)

xsh_rs_mixin(s, bits, xbits) ==
    LET spare == bits - xbits
        opbits == IF spare - 3 >= 16 THEN 3 ELSE IF spare - 2 >= 4 THEN 2
                  ELSE IF spare - 1 >= 1 THEN 1 ELSE 0
        mask == 2^opbits - 1
        rshift == TopBits(s, bits, opbits)
    IN  Shr(XorShift(s, opbits + (xbits + mask) \div 2), spare - opbits - mask + rshift) % 2^xbits
xsh_rr_mixin(s, bits, xbits) ==
    LET spare == bits - xbits
        opbits == Smaller(spare, WantedOpbits(xbits))
        amprot == (TopBits(s, bits, opbits) * 2^(WantedOpbits(xbits) - opbits)) % 2^opbits
    IN  rotr(Shr(XorShift(s, (opbits + xbits) \div 2), spare - opbits) % 2^xbits, amprot, xbits)
rxs_mixin(s, bits, xbits) ==
    LET shift == bits - xbits
        rshift == IF shift > 9 THEN TopBits(s, bits, 3) ELSE IF shift > 5 THEN TopBits(s, bits, 2)
                  ELSE IF shift > 3 THEN TopBits(s, bits, 1) ELSE 0
    IN  Shr(XorShift(s, shift + (xbits - shift) \div 2 - rshift), rshift) % 2^xbits
rxs_m_mixin(s, bits, xbits) ==
    LET n == Opbits(xbits)
    IN  Shr(Mul(XorShift(s, n + TopBits(s, bits, n)), mcg_multiplier(bits), bits), bits - xbits)
rxs_m_xs_mixin(s, bits, xbits) ==
    XorShift(rxs_m_mixin(s, bits, xbits), (2 * xbits + 2) \div 3)
unoutput(r, bits) ==
    LET x == Mul(unxorshift(r, bits, (2 * bits + 2) \div 3), mcg_unmultiplier(bits), bits)
    IN  unxorshift(x, bits, Opbits(bits) + TopBits(x, bits, Opbits(bits)))
xsl_rr_mixin(s, bits, xbits) ==
    LET opbits == Smaller(bits - xbits, WantedOpbits(xbits))
        amprot == (TopBits(s, bits, opbits) * 2^(WantedOpbits(xbits) - opbits)) % 2^opbits
    IN  rotr(XorShift(s, bits \div 2) % 2^xbits, amprot, xbits)
xsl_rr_rr_mixin(s, bits) ==
    LET half == bits \div 2
        opbits == Smaller(half, WantedOpbits(half))
        x == XorShift(s, half)
        low == rotr(x % 2^half, TopBits(s, bits, opbits), half)
    IN  rotr(Shr(x, half), low % 2^opbits, half) * 2^half + low
xsh_mixin(s, bits, xbits) == Shr(XorShift(s, xbits \div 2), bits - xbits)
xsl_mixin(s, bits, xbits) == XorShift(s, bits \div 2) % 2^xbits
------------------------------------------------------------------------------
(* class engine at 8 bits: its stream kind (inc_ for specific_stream) and   *)
(* its state.                                                               *)
Word(n) == n % 256
multiplier == default_multiplier(8)
increment(e) == CASE e.kind = "oneseq" -> default_increment(8)
                  [] e.kind = "mcg" -> 0
                  [] e.kind = "setseq" -> e.inc
bump(e, state) == Word(state * multiplier + increment(e))

set_stream(e, seq) == [e EXCEPT !.inc = Word(2 * seq) | 1]
Seeded(e, seed) == [e EXCEPT !.state = IF e.kind = "mcg" THEN seed | 3
                                       ELSE bump(e, Word(seed + increment(e)))]
engine(kind, seed, seq) ==
    LET e == [kind |-> kind, inc |-> 0, state |-> 0]
    IN  Seeded(IF kind = "setseq" THEN set_stream(e, seq) ELSE e, seed)
period_pow2(e) == IF e.kind = "mcg" THEN 6 ELSE 8

(* operator() returns the output of the state it leaves (output_previous). *)
Drawn(e) == rxs_m_xs_mixin(e.state, 8, 8)
Stepped(e) == [e EXCEPT !.state = bump(e, @)]

(* The jump ahead by delta: the multiplier and the increment are squared   *)
(* as the bits of delta go by.                                              *)
RECURSIVE JumpLoop(_, _, _, _, _)
JumpLoop(delta, acc_mult, acc_plus, cur_mult, cur_plus) ==
    IF delta = 0 THEN <<acc_mult, acc_plus>>
    ELSE LET odd == delta % 2 = 1
         IN  JumpLoop(delta \div 2,
                      IF odd THEN Word(acc_mult * cur_mult) ELSE acc_mult,
                      IF odd THEN Word(acc_plus * cur_mult + cur_plus) ELSE acc_plus,
                      Word(cur_mult * cur_mult), Word((cur_mult + 1) * cur_plus))
advance(state, delta, mult, plus) ==
    LET acc == JumpLoop(delta, 1, 0, mult, plus)
    IN  Word(acc[1] * state + acc[2])

(* The distance bit by bit, from the lowest bit the two states differ in.  *)
RECURSIVE DistanceLoop(_, _, _, _, _, _, _)
DistanceLoop(cur, new, mult, plus, mask, the_bit, dist) ==
    IF cur & mask = new & mask THEN dist
    ELSE LET differ == cur & the_bit # new & the_bit
         IN  DistanceLoop(IF differ THEN Word(cur * mult + plus) ELSE cur, new,
                          Word(mult * mult), Word((mult + 1) * plus), mask, 2 * the_bit,
                          IF differ THEN dist + the_bit ELSE dist)
(* Mutant: forgets that the two low bits of an mcg state never change.      *)
DistanceWhole(cur, new, mult, plus, mask) ==
    DistanceLoop(cur, new, mult, plus, mask, IF plus = 0 THEN 4 ELSE 1, 0)
distance(cur, new, mult, plus, mask) ==
    IF plus = 0 THEN DistanceLoop(cur, new, mult, plus, mask, 4, 0) \div 4
    ELSE DistanceLoop(cur, new, mult, plus, mask, 1, 0)

Advanced(e, delta) == [e EXCEPT !.state = advance(@, delta, multiplier, increment(e))]

(* operator-: between streams, the distance of the states' differences.    *)
StateDiff(e) == Word(increment(e) + (multiplier - 1) * e.state)
Difference(lhs, rhs) ==
    IF increment(lhs) = increment(rhs)
    THEN distance(rhs.state, lhs.state, multiplier, increment(rhs), 255)
    ELSE LET l == StateDiff(lhs)
             r == StateDiff(rhs)
         IN  distance(IF l % 4 # r % 4 THEN Word(-r) ELSE r, l, multiplier, 0, 255)

(* operator<< and operator>>: three numbers; a text of another multiplier  *)
(* or of a stream this kind cannot have fails and leaves the engine alone. *)
Written(e) == <<multiplier, increment(e), e.state>>
Read(e, text) ==
    IF text[1] # multiplier \/ (e.kind # "setseq" /\ text[2] # increment(e)) THEN e
    ELSE [(IF e.kind = "setseq" THEN set_stream(e, text[2] \div 2) ELSE e) EXCEPT !.state = text[3]]
------------------------------------------------------------------------------
(* class extended over a oneseq engine (kdd): data_ is advanced as one big  *)
(* counter, each entry a generator turned inside out.                       *)
table_size == 2^table_pow2
tick_mask == 2^advance_pow2 - 1
may_tick == advance_pow2 < 8 /\ advance_pow2 < tick_limit_pow2
may_tock == 8 < tick_limit_pow2
EntryInc(i) == Word(default_increment(8) + 2 * (i + 1))

(* insideout::external_step and external_advance: the entry after it, and  *)
(* whether it carries into the next.                                        *)
external_step(val, i) ==
    LET r == rxs_m_xs_mixin(Word(unoutput(val, 8) * multiplier + EntryInc(i)), 8, 8)
    IN  [val |-> r, carry |-> r = 0]
external_advance(val, i, delta, forwards) ==
    LET state == unoutput(val, 8)
        to_zero == distance(state, 0, multiplier, EntryInc(i), 255)
    IN  [val |-> rxs_m_xs_mixin(advance(state, IF forwards THEN delta ELSE Word(-delta),
                                        multiplier, EntryInc(i)), 8, 8),
         carry |-> IF forwards THEN to_zero <= delta ELSE Word(-to_zero) <= delta]

(* advance_table(): one tick; a carry steps the next entry once more.      *)
Ticked(data) ==
    LET t[i \in 0..(table_size - 1)] ==
            LET carried == i > 0 /\ t[i - 1].carry
                first == external_step(data[i], i)
                second == external_step(first.val, i)
            IN  IF carried THEN [val |-> second.val, carry |-> first.carry \/ second.carry]
                ELSE first
    IN  [i \in 0..(table_size - 1) |-> t[i].val]
(* advance_table(delta, isForwards): many at once.                         *)
TickedBy(data, delta, forwards) ==
    LET t[i \in 0..(table_size - 1)] ==
            external_advance(data[i], i,
                             Word(delta + (IF i > 0 /\ t[i - 1].carry THEN 1 ELSE 0)), forwards)
    IN  [i \in 0..(table_size - 1) |-> t[i].val]

(* get_extended_value(): the table ticks where the low bits of the state   *)
(* are zero, and once more where a narrow state is zero.                    *)
Tocked(x) ==
    LET tick == IF may_tick /\ x.base.state & tick_mask = 0 THEN Ticked(x.data) ELSE x.data
    IN  IF may_tock /\ x.base.state = 0 THEN Ticked(tick) ELSE tick
get_extended_value(x) == x.base.state % table_size

(* operator() and set(wanted) of the extended generator.                   *)
ExtDrawn(x) == Drawn(x.base) ^^ Tocked(x)[get_extended_value(x)]
ExtStepped(x) == [base |-> Stepped(x.base), data |-> Tocked(x)]
ExtSet(x, wanted) ==
    [base |-> Stepped(x.base),
     data |-> [Tocked(x) EXCEPT ![get_extended_value(x)] = Drawn(x.base) ^^ wanted]]

(* advance(distance, forwards).                                            *)
ExtAdvanced(x, dist, forwards) ==
    LET to_zero(mask) == distance(x.base.state, 0, multiplier, increment(x.base), mask)
        next == IF forwards THEN to_zero(tick_mask) ELSE (-to_zero(tick_mask)) % 2^advance_pow2
        ticks == dist \div 2^advance_pow2 + (IF next < dist % 2^advance_pow2 THEN 1 ELSE 0)
        ticked == IF may_tick /\ ticks > 0 THEN TickedBy(x.data, ticks, forwards) ELSE x.data
        tock == may_tock /\ (IF forwards THEN to_zero(255) ELSE Word(-to_zero(255))) <= dist
    IN  [base |-> Advanced(x.base, IF forwards THEN dist ELSE Word(-dist)),
         data |-> IF ~tock THEN ticked
                  ELSE IF forwards THEN Ticked(ticked) ELSE TickedBy(ticked, 1, FALSE)]

(* selfinit(): the table from the base generator.                          *)
extended(seed) ==
    LET e[n \in 0..(table_size + 2)] == IF n = 0 THEN engine("oneseq", seed, 0) ELSE Stepped(e[n - 1])
        xdiff == Word(Drawn(e[0]) - Drawn(e[1]))
    IN  [base |-> e[table_size + 2],
         data |-> [i \in 0..(table_size - 1) |-> Drawn(e[i + 2]) ^^ xdiff]]

(* operator<< and operator>> of the extended generator: the base engine's  *)
(* text, then the table, read into a new generator.                        *)
ExtWritten(x) == Written(x.base) \o [i \in 1..table_size |-> x.data[i - 1]]
ExtRead(text) == [base |-> Read(extended(0).base, SubSeq(text, 1, 3)),
                  data |-> [i \in 0..(table_size - 1) |-> text[i + 4]]]
------------------------------------------------------------------------------
(* bounded_rand: draws below the threshold are thrown away.                *)
Threshold(bound) == Word(255 - 0 + 1 - bound) % bound
bounded_rand(r, bound) == r % bound

(* Mutant: rounds the number of words down.                                *)
FromElemsFloor(size, dest) ==
    IF 4 < dest THEN size * ((dest + 3) \div 4) ELSE size \div (4 \div dest)
(* generate_to: size integers of dest bytes from 32-bit words, a word being *)
(* the numbers of its bytes in the seed sequence.                           *)
FROM_ELEMS(size, dest) ==
    IF 4 < dest THEN size * ((dest + 3) \div 4) ELSE (size + 4 \div dest - 1) \div (4 \div dest)
SeedWord(k) == [j \in 1..4 |-> 4 * (k - 1) + j]
uneven_copy(size, dest) ==
    [n \in 1..size |->
        IF dest < 4 THEN LET scale == 4 \div dest
                         IN  SubSeq(SeedWord((n - 1) \div scale + 1),
                                    dest * ((n - 1) % scale) + 1, dest * ((n - 1) % scale) + dest)
        ELSE [j \in 1..dest |-> SeedWord((dest \div 4) * (n - 1) + (j - 1) \div 4 + 1)[1 + ((j - 1) % 4)]]]
------------------------------------------------------------------------------
Mixins == {"xsh_rs", "xsh_rr", "rxs", "xsl_rr", "xsh", "xsl", "rxs_m", "rxs_m_xs", "xsl_rr_rr",
           "bounded"}
NewEngine(e) == [what |-> "engine", e |-> e, first |-> e, calls |-> 0]
NewExtended(x, sets) == [what |-> "extended", x |-> x, first |-> x, draws |-> 0, sets |-> sets]
PcgInit ==
    \/ \E seed \in Seeds, kind \in {"oneseq", "mcg", "setseq"}, seq \in Seeds :
          pcg = NewEngine(engine(kind, seed, seq))
    \/ \E seed \in Seeds : pcg = NewExtended(extended(seed), 0)
    \/ \E m \in Mixins, spare \in Spares : pcg = [what |-> "output", mixin |-> m, spare |-> spare]
    \/ \E size \in 1..9, dest \in {1, 2, 4, 8, 16} : pcg = [what |-> "seed", size |-> size, dest |-> dest]

(* The calls on an engine; calls counts the draws they stand for.          *)
Called(delta, e) == pcg' = [pcg EXCEPT !.e = e, !.calls = (@ + delta) % 2^period_pow2(pcg.e)]
Draw == pcg.what = "engine" /\ Called(1, Stepped(pcg.e))
Advance == pcg.what = "engine" /\ \E d \in Deltas : Called(d, Advanced(pcg.e, d))
Backstep == pcg.what = "engine" /\ \E d \in Deltas : Called(-d, Advanced(pcg.e, Word(-d)))
Save == /\ pcg.what = "engine"
        /\ Called(0, Read(engine(pcg.e.kind, 0, 0), Written(pcg.e)))
DrawExtended == /\ pcg.what = "extended" /\ pcg.draws < MaxDraws
                /\ pcg' = [pcg EXCEPT !.x = ExtStepped(@), !.draws = @ + 1]
SetExtended == /\ pcg.what = "extended" /\ pcg.sets < MaxSets
               /\ \E wanted \in Seeds : pcg' = NewExtended(ExtSet(pcg.x, wanted), pcg.sets + 1)
SaveExtended == pcg.what = "extended" /\ pcg' = [pcg EXCEPT !.x = ExtRead(ExtWritten(@))]
PcgNext == \/ Draw \/ Advance \/ Backstep \/ Save
           \/ DrawExtended \/ SetExtended \/ SaveExtended
------------------------------------------------------------------------------

(* extended::advance moves the base engine and the table, with its ticks and *)
(* carries, exactly as so many draws do; but for an entry whose own state is  *)
(* zero, which external_advance counts as about to cross zero.               *)
ExtendedJumpsAreSteps ==
    pcg.what = "extended" /\ (\A i \in 0..(table_size - 1) : unoutput(pcg.first.data[i], 8) # 0) =>
        pcg.x = ExtAdvanced(pcg.first, pcg.draws, TRUE)

(* No output is more likely than another: where a result is narrower than  *)
(* the state, the bits of a window of the state give every result once      *)
(* whatever the other bits are; where it is as wide, the function is a      *)
(* permutation, and unoutput undoes rxs_m_xs; bounded_rand keeps the draws  *)
(* of every result in equal number.                                         *)
Windowed(out(_, _, _), lo) ==
    LET s(w) == (pcg.spare \div 2^lo) * 2^(lo + 8) + w * 2^lo + (pcg.spare % 2^lo)
    IN  Cardinality({out(s(w), 16, 8) : w \in 0..255}) = 256
OutputsEven ==
    pcg.what = "output" =>
        CASE pcg.mixin = "xsh_rs" -> Windowed(xsh_rs_mixin, 3 + pcg.spare \div 64)
          [] pcg.mixin = "xsh_rr" -> Windowed(xsh_rr_mixin, 5)
          [] pcg.mixin = "rxs" -> Windowed(rxs_mixin, pcg.spare \div 64)
          [] pcg.mixin = "xsl_rr" -> Windowed(xsl_rr_mixin, 0)
          [] pcg.mixin = "xsh" -> Windowed(xsh_mixin, 8)
          [] pcg.mixin = "xsl" -> Windowed(xsl_mixin, 0)
          [] pcg.mixin = "rxs_m" -> Cardinality({rxs_m_mixin(s, 8, 8) : s \in 0..255}) = 256
          [] pcg.mixin = "rxs_m_xs" ->
                \A low \in 0..255 : LET s == 256 * pcg.spare + low
                                    IN  /\ unoutput(rxs_m_xs_mixin(s, 16, 16), 16) = s
                                        /\ unoutput(rxs_m_xs_mixin(low, 8, 8), 8) = low
          [] pcg.mixin = "xsl_rr_rr" ->
                Cardinality({xsl_rr_rr_mixin(256 * pcg.spare + low, 16) : low \in 0..255}) = 256
          [] pcg.mixin = "bounded" ->
                LET draws(v) == {r \in Threshold(pcg.spare)..255 : bounded_rand(r, pcg.spare) = v}
                IN  \A v \in 0..(pcg.spare - 1) : Cardinality(draws(v)) = Cardinality(draws(0))

(* "The copy is identical to the one that would be performed if we just did *)
(* memcpy on a standard little-endian machine", and generate_to asks the    *)
(* seed sequence for the fewest words that fill the integers.               *)
SeedIsMemcpy ==
    pcg.what = "seed" =>
        LET bytes == pcg.size * pcg.dest
            copy == uneven_copy(pcg.size, pcg.dest)
        IN  /\ \A n \in 1..pcg.size, j \in 1..pcg.dest : copy[n][j] = pcg.dest * (n - 1) + j
            /\ FROM_ELEMS(pcg.size, pcg.dest) = (bytes + 3) \div 4
==============================================================================
