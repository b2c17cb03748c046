------------------------------- MODULE Uint128 -------------------------------
(***************************************************************************)
(* bench/rand/pcg/pcg_uint128.hpp: the 128-bit unsigned integers that PCG   *)
(* falls back to where the compiler has none, four limbs of UInt with the   *)
(* carries done by hand, and the decimal text of pcg_extras.hpp on them.    *)
(* A limb has W bits here, 32 in the code; v[0] is the low limb.            *)
(***************************************************************************)
EXTENDS Integers, Sequences, Bitwise

CONSTANTS W,      \* bits of a limb
          Limbs   \* limbs of the second operand

VARIABLE a        \* the first operand, every value of 4 W bits in turn
------------------------------------------------------------------------------
Base == 2^W
UInt == 0..(Base - 1)
UIntX2 == 0..(Base^2 - 1)

(* The two views of the union: words, and the double words v01 and v23.    *)
uint_x4(v23, v01) == [i \in 0..3 |-> ((IF i < 2 THEN v01 ELSE v23) \div Base^(i % 2)) % Base]
v01(v) == v[0] + Base * v[1]
v23(v) == v[2] + Base * v[3]
Integral(n) == uint_x4(0, n % Base^2)

(* Mutant: misses the carry of y plus a carry in.                          *)
AddNoHalfCarry(x, y, carryin) ==
    LET result == (x + y + carryin) % Base
    IN  [r |-> result, c |-> IF result < x THEN 1 ELSE 0]
(* A sum or a difference of limbs and the carry or borrow out of it.       *)
addwithcarry(x, y, carryin) ==
    LET half == (y + carryin) % Base
        result == (x + half) % Base
    IN  [r |-> result, c |-> IF half < y \/ result < x THEN 1 ELSE 0]
subwithcarry(x, y, carryin) ==
    LET half == (y + carryin) % Base
        result == (x - half) % Base
    IN  [r |-> result, c |-> IF half < y \/ result > x THEN 1 ELSE 0]

Plus(x, y) ==
    LET s[i \in 0..3] == addwithcarry(x[i], y[i], IF i = 0 THEN 0 ELSE s[i - 1].c)
    IN  [i \in 0..3 |-> s[i].r]
Minus(x, y) ==
    LET s[i \in 0..3] == subwithcarry(x[i], y[i], IF i = 0 THEN 0 ELSE s[i - 1].c)
    IN  [i \in 0..3 |-> s[i].r]
Negate(x) == Minus(uint_x4(0, 0), x)

(* The word x added to the limbs from i up, the carry rippling to the top. *)
AddAt(v, i, x) ==
    LET s[j \in i..3] == IF j = i THEN addwithcarry(v[j], x, 0)
                                  ELSE addwithcarry(v[j], 0, s[j - 1].c)
    IN  [j \in 0..3 |-> IF j < i THEN v[j] ELSE s[j].r]

Times(x, y) ==
    LET lo(p) == p % Base
        hi(p) == p \div Base
        a0b0 == x[0] * y[0]
        a1b0 == x[1] * y[0]
        a0b1 == x[0] * y[1]
        a1b1 == x[1] * y[1]
        r0 == [i \in 0..3 |-> CASE i = 0 -> lo(a0b0) [] i = 1 -> hi(a0b0)
                                [] i = 2 -> hi(a1b0) [] i = 3 -> 0]
        r1 == AddAt(r0, 1, lo(a1b0))
        r2 == AddAt(AddAt(r1, 2, hi(a0b1)), 1, lo(a0b1))
        s2 == addwithcarry(r2[2], lo(a1b1), 0)
        s3 == addwithcarry(r2[3], hi(a1b1), s2.c)
        high == (s2.r + Base * s3.r + v01(x) * v23(y) + v23(x) * v01(y)) % Base^2
    IN  uint_x4(high, v01(r2))

Less(x, y) == v23(x) < v23(y) \/ (v23(x) = v23(y) /\ v01(x) < v01(y))

(* The limbs move by shift \div W places; the bits carried over into the   *)
(* next limb do not overlap the ones it keeps, so | adds them.              *)
ShiftLeft(v, shift) ==
    LET div == shift \div W
        mod == shift % W
    IN  [out \in 0..3 |->
            IF out < div THEN 0
            ELSE ((v[out - div] * 2^mod) % Base)
                 + (IF mod > 0 /\ out > div THEN v[out - div - 1] \div 2^(W - mod) ELSE 0)]
ShiftRight(v, shift) ==
    LET div == shift \div W
        mod == shift % W
    IN  [out \in 0..3 |->
            IF out > 3 - div THEN 0
            ELSE v[out + div] \div 2^mod
                 + (IF mod > 0 /\ out < 3 - div
                    THEN (v[out + div + 1] * 2^(W - mod)) % Base ELSE 0)]

flog2(w) == CHOOSE k \in 0..(W - 1) : 2^k <= w /\ w < 2^(k + 1)
flog2x4(v) ==
    LET i == CHOOSE k \in 0..3 : v[k] # 0 /\ \A j \in (k + 1)..3 : v[j] = 0
    IN  flog2(v[i]) + W * i
trailingzeros(w) == CHOOSE k \in 0..(W - 1) : w % 2^k = 0 /\ w % 2^(k + 1) # 0
trailingzerosx4(v) ==
    IF \A k \in 0..3 : v[k] = 0 THEN 4 * W
    ELSE LET i == CHOOSE k \in 0..3 : v[k] # 0 /\ \A j \in 0..(k - 1) : v[j] = 0
         IN  trailingzeros(v[i]) + W * i

(* The loops of divmod: s holds the dividend, the quotient so far and the  *)
(* shifted divisor with the power of two it stands for.                     *)
RECURSIVE Halved(_), Subtracted(_, _)
Halved(s) == IF ~Less(s.dividend, s.factor) THEN s
             ELSE Halved([s EXCEPT !.factor = ShiftRight(@, 1), !.qfactor = ShiftRight(@, 1)])
Subtracted(s, divisor) ==
    LET t == Halved([s EXCEPT !.dividend = Minus(@, s.factor), !.quotient = Plus(@, s.qfactor)])
    IN  IF Less(t.dividend, divisor) THEN t ELSE Subtracted(t, divisor)
divmod(dividend, divisor) ==
    LET logdiff == flog2x4(dividend) - flog2x4(divisor)
        s == Subtracted([dividend |-> dividend, quotient |-> Integral(0),
                         factor |-> ShiftLeft(divisor, logdiff - 1),
                         qfactor |-> ShiftLeft(Integral(1), logdiff - 1)], divisor)
    IN  IF Less(dividend, divisor) THEN <<Integral(0), dividend>>
        ELSE IF logdiff = 0 THEN <<Integral(1), Minus(dividend, divisor)>>
        ELSE <<s.quotient, s.dividend>>

BitAnd(x, y) == uint_x4(v23(x) & v23(y), v01(x) & v01(y))
BitOr(x, y) == uint_x4(v23(x) | v23(y), v01(x) | v01(y))
BitXor(x, y) == uint_x4(v23(x) ^^ v23(y), v01(x) ^^ v01(y))
Complement(x) == uint_x4(Base^2 - 1 - v23(x), Base^2 - 1 - v01(x))
------------------------------------------------------------------------------
(* pcg_extras.hpp, operator<< and operator>> of a pcg128_t: its decimal    *)
(* digits, the first one first.  Reading fails without a digit, or where a *)
(* wrapped product or sum shows that the number was too large.  (A digit is *)
(* taken from v01: with W < 4 it does not fit the one limb v0.)             *)
RECURSIVE Decimal(_)
Decimal(v) ==
    LET div == divmod(v, Integral(10))[1]
        mod == v01(Minus(v, Times(div, Integral(10))))
    IN  Append(IF div = Integral(0) THEN <<>> ELSE Decimal(div), mod)

RECURSIVE ReadDigits(_, _)
ReadDigits(digits, s) ==
    IF digits = <<>> THEN s
    ELSE LET digit == Integral(Head(digits))
             timesbase == Times(s.current, Integral(10))
             next == Plus(timesbase, digit)
         IN  ReadDigits(Tail(digits),
                        [current |-> next,
                         overflow |-> s.overflow \/ Less(timesbase, s.current) \/ Less(next, digit)])
ReadDecimal(digits) ==
    LET s == ReadDigits(digits, [current |-> Integral(0), overflow |-> FALSE])
    IN  [fail |-> digits = <<>> \/ s.overflow,
         value |-> IF s.overflow THEN Complement(Integral(0)) ELSE s.current]
------------------------------------------------------------------------------
Value(v) == v01(v) + Base^2 * v23(v)
Modulus == Base^4
Number(n) == uint_x4(n \div Base^2, n % Base^2)

Uint128Init == a = Number(0)
NextOperand == \E k \in 1..2 : /\ 2 * Value(a) + k < Modulus
                              /\ a' = Number(2 * Value(a) + k)

(* The carries, the borrow, the partial products, the shifted subtraction  *)
(* and the limb shifts compute what unsigned arithmetic of 4 W bits does,  *)
(* for every pair of operands, and a value written in decimal is read back *)
(* as itself: operator+ - * / % << >> < ~, flog2, trailingzeros, and the   *)
(* text operators.                                                          *)
Uint128Exact ==
    LET x == Value(a) IN
    /\ \A b \in [0..3 -> Limbs] :
          LET y == Value(b) IN
          /\ Value(Plus(a, b)) = (x + y) % Modulus
          /\ Value(Minus(a, b)) = (x - y) % Modulus
          /\ Value(Times(a, b)) = (x * y) % Modulus
          /\ Less(a, b) <=> x < y
          /\ y > 0 => divmod(a, b) = <<Number(x \div y), Number(x % y)>>
          /\ Value(BitAnd(a, b)) + Value(BitOr(a, b)) = x + y
          /\ Value(BitXor(a, b)) = Value(BitOr(a, b)) - Value(BitAnd(a, b))
    /\ \A k \in 0..(4 * W - 1) :
          /\ Value(ShiftLeft(a, k)) = (x * 2^k) % Modulus
          /\ Value(ShiftRight(a, k)) = x \div 2^k
    /\ x > 0 => 2^flog2x4(a) <= x /\ x < 2^(flog2x4(a) + 1)
    /\ x > 0 => x % 2^trailingzerosx4(a) = 0 /\ x % 2^(trailingzerosx4(a) + 1) # 0
    /\ Plus(Complement(a), Integral(1)) = Negate(a)
    /\ ReadDecimal(Decimal(a)) = [fail |-> FALSE, value |-> a]
==============================================================================
