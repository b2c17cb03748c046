------------------------------- MODULE Hashes -------------------------------
(***************************************************************************)
(* The byte-wise algorithms of bench/: the bytes that CityHash, SipHash and *)
(* rte_memcpy touch for an input of a given length, and xxHash, which takes *)
(* its input at once or in pieces.  The arithmetic that mixes a word into   *)
(* the state is left uninterpreted: a hash is the record of the words, in   *)
(* their order, that entered it.                                            *)
(***************************************************************************)
EXTENDS Integers, Sequences

CONSTANTS MaxLen,    \* bound on the length of an input
          Pieces,    \* lengths of the pieces given to XXHnn_update
          MaxStream  \* bound on the bytes of a stream

VARIABLES len,     \* length of the input of CityHash, SipHash, rte_memcpy, XXHnn
          stream   \* XXH32_state_t and XXH64_state_t that were given the same bytes
hvars == <<len, stream>>
------------------------------------------------------------------------------
(* bench/cityhash/city.c: the offsets each function reads.                 *)
Fetch64(p) == p..(p + 7)
Fetch32(p) == p..(p + 3)

HashLen0to16(s, n) ==
    CASE n > 8 -> Fetch64(s) \cup Fetch64(s + n - 8)
      [] n \in 4..8 -> Fetch32(s) \cup Fetch32(s + n - 4)
      [] n \in 1..3 -> {s, s + n \div 2, s + n - 1}
      [] n = 0 -> {}
HashLen17to32(s, n) ==
    Fetch64(s) \cup Fetch64(s + 8) \cup Fetch64(s + n - 8) \cup Fetch64(s + n - 16)
WeakHashLen32WithSeeds(s) == UNION {Fetch64(s + k) : k \in {0, 8, 16, 24}}
HashLen33to64(s, n) ==
    UNION {Fetch64(s + k) : k \in {0, 8, 16, 24, n - 32, n - 24, n - 16, n - 8}}

(* The loop body of CityHash64 and CityHash128WithSeed on the 64 bytes at s.*)
Chunk(s) == UNION {Fetch64(s + k) : k \in {8, 16, 40, 48}}
            \cup WeakHashLen32WithSeeds(s) \cup WeakHashLen32WithSeeds(s + 32)

CityHash64(s, n) ==
    CASE n <= 16 -> HashLen0to16(s, n)
      [] n \in 17..32 -> HashLen17to32(s, n)
      [] n \in 33..64 -> HashLen33to64(s, n)
      [] n > 64 -> UNION {Fetch64(s + n - k) : k \in {16, 24, 40, 48, 56}}
                   \cup WeakHashLen32WithSeeds(s + n - 64) \cup WeakHashLen32WithSeeds(s + n - 32)
                   \cup Fetch64(s) \cup UNION {Chunk(s + 64 * c) : c \in 0..((n - 1) \div 64 - 1)}

CityMurmur(s, n) ==
    IF n <= 16 THEN HashLen0to16(s, n) \cup (IF n >= 8 THEN Fetch64(s) ELSE {})
    ELSE Fetch64(s + n - 8) \cup Fetch64(s + n - 16)
         \cup UNION {Fetch64(s + 16 * c) \cup Fetch64(s + 16 * c + 8) : c \in 0..((n - 17) \div 16)}

(* Pairs of chunks while 128 bytes are left, then 32 bytes at a time from  *)
(* the end, which may step back into the chunks.                           *)
CityHash128WithSeed(s, n) ==
    IF n < 128 THEN CityMurmur(s, n)
    ELSE LET loops == n \div 128
             left == n % 128
             at == s + 128 * loops
         IN  Fetch64(s) \cup Fetch64(s + 8) \cup Fetch64(s + 88)
             \cup UNION {Chunk(s + 64 * c) : c \in 0..(2 * loops - 1)}
             \cup UNION {WeakHashLen32WithSeeds(at + left - 32 * d) : d \in 1..((left + 31) \div 32)}

CityHash128(s, n) ==
    CASE n >= 16 -> Fetch64(s) \cup Fetch64(s + 8) \cup CityHash128WithSeed(s + 16, n - 16)
      [] n \in 8..15 -> Fetch64(s) \cup Fetch64(s + n - 8)
      [] n < 8 -> CityHash128WithSeed(s, n)

(* bench/siphash/siphash24.c: whole words, then the switch on the bytes    *)
(* left, which falls through from its case to the first byte.              *)
siphash_2_4(n) ==
    LET end == n - (n % 8)
    IN  UNION {Fetch64(8 * w) : w \in 0..(end \div 8 - 1)} \cup {end + k - 1 : k \in 1..(n % 8)}

(* bench/memcpy/rte_memcpy.h: the offsets that each block move reads in    *)
(* the source and writes in the destination.                               *)
rte_mov(d, size) == d..(d + size - 1)
Bit(n, b) == (n \div b) % 2 = 1

(* Below 16 bytes: one move for each bit of n, the smallest first.         *)
SmallMoves(n) ==
    LET start(b) == n % b
    IN  UNION {rte_mov(start(b), b) : b \in {c \in {1, 2, 4, 8} : Bit(n, c)}}

LargeMoves_NoTail(n) == rte_mov(0, n - (n % 16))

(* From 129 bytes on: 256 at a time, the switches of up to three moves of  *)
(* 64 and of 16, and 16 bytes that end with the last one.                  *)
LargeMoves(n) ==
    LET at64 == n - (n % 256)
        at16 == n - (n % 64)
        rest == n - (n % 16)
    IN  UNION {rte_mov(256 * k, 256) : k \in 0..(n \div 256 - 1)}
        \cup UNION {rte_mov(at64 + 64 * k, 64) : k \in 0..((n % 256) \div 64 - 1)}
        \cup UNION {rte_mov(at16 + 16 * k, 16) : k \in 0..((n % 64) \div 16 - 1)}
        \cup (IF n # rest THEN rte_mov(n - 16, 16) ELSE {})

rte_memcpy_func(n) ==
    CASE n < 16 -> SmallMoves(n)
      [] n \in 16..32 -> rte_mov(0, 16) \cup rte_mov(n - 16, 16)
      [] n \in 33..64 -> rte_mov(0, 32) \cup rte_mov(n - 32, 32)
      [] n \in 65..128 -> rte_mov(0, 64) \cup rte_mov(n - 64, 64)
      [] n > 128 -> LargeMoves(n)
------------------------------------------------------------------------------
(* bench/xxhash/xxhash.c.  A byte is its position in the stream.           *)
Words(bytes, size) == [w \in 1..(Len(bytes) \div size) |-> SubSeq(bytes, size * (w - 1) + 1, size * w)]
From(bytes, k) == SubSeq(bytes, k + 1, Len(bytes))

(* Four lanes, each of which takes one word of every stripe.               *)
NoLanes == <<<<>>, <<>>, <<>>, <<>>>>
Absorb(v, bytes, size) ==
    LET w == Words(bytes, size)
    IN  [lane \in 1..4 |-> v[lane] \o [s \in 1..(Len(w) \div 4) |-> w[4 * (s - 1) + lane]]]

(* What is left after the stripes: words, in the 64-bit hash perhaps half  *)
(* a word, then bytes.                                                     *)
Tail32(bytes) == Words(bytes, 4) \o Words(From(bytes, Len(bytes) - (Len(bytes) % 4)), 1)
Tail64(bytes) == Words(bytes, 8) \o Tail32(From(bytes, Len(bytes) - (Len(bytes) % 8)))

Hash(v, total, tail) == [v |-> v, total |-> total, tail |-> tail]
Seed == <<"seed">>

XXH32_endian_align(bytes) ==
    LET n == Len(bytes) striped == n - (n % 16)
    IN  IF n >= 16 THEN Hash(Absorb(NoLanes, SubSeq(bytes, 1, striped), 4), n, Tail32(From(bytes, striped)))
        ELSE Hash(Seed, n, Tail32(bytes))
XXH64_endian_align(bytes) ==
    LET n == Len(bytes) striped == n - (n % 32)
    IN  IF n >= 32 THEN Hash(Absorb(NoLanes, SubSeq(bytes, 1, striped), 8), n, Tail64(From(bytes, striped)))
        ELSE Hash(Seed, n, Tail64(bytes))

XXH32_reset == [total_len |-> 0, v |-> NoLanes, mem |-> <<>>]
XXH64_reset == [total_len |-> 0, v |-> NoLanes, mem |-> <<>>]

(* A piece that does not fill the buffer is kept; else the buffer is       *)
(* filled and absorbed, then whole stripes of the piece, and the rest is   *)
(* kept.                                                                   *)
XXH32_update_endian(st, input) ==
    IF Len(st.mem) + Len(input) < 16
    THEN [st EXCEPT !.total_len = @ + Len(input), !.mem = @ \o input]
    ELSE LET fill == IF st.mem = <<>> THEN 0 ELSE 16 - Len(st.mem)
             rest == From(input, fill)
             striped == Len(rest) - (Len(rest) % 16)
         IN  [total_len |-> st.total_len + Len(input),
              v |-> Absorb(IF fill = 0 THEN st.v ELSE Absorb(st.v, st.mem \o SubSeq(input, 1, fill), 4),
                           SubSeq(rest, 1, striped), 4),
              mem |-> From(rest, striped)]
XXH64_update_endian(st, input) ==
    IF Len(st.mem) + Len(input) < 32
    THEN [st EXCEPT !.total_len = @ + Len(input), !.mem = @ \o input]
    ELSE LET fill == IF st.mem = <<>> THEN 0 ELSE 32 - Len(st.mem)
             rest == From(input, fill)
             striped == Len(rest) - (Len(rest) % 32)
         IN  [total_len |-> st.total_len + Len(input),
              v |-> Absorb(IF fill = 0 THEN st.v ELSE Absorb(st.v, st.mem \o SubSeq(input, 1, fill), 8),
                           SubSeq(rest, 1, striped), 8),
              mem |-> From(rest, striped)]

XXH32_digest_Above16(st) ==
    Hash(IF st.total_len > 16 THEN st.v ELSE Seed, st.total_len, Tail32(st.mem))
XXH32_digest_endian(st) ==
    Hash(IF st.total_len >= 16 THEN st.v ELSE Seed, st.total_len, Tail32(st.mem))
XXH64_digest_endian(st) ==
    Hash(IF st.total_len >= 32 THEN st.v ELSE Seed, st.total_len, Tail64(st.mem))
------------------------------------------------------------------------------
Input(from, n) == [k \in 1..n |-> from + k]

HashesInit == len = 0 /\ stream = [s32 |-> XXH32_reset, s64 |-> XXH64_reset, given |-> 0]

(* The caller hashes or copies a longer input.                             *)
Longer == stream.given = 0 /\ len < MaxLen /\ len' = len + 1 /\ UNCHANGED stream

(* The caller gives both states the next n bytes of a stream.              *)
Update(n) ==
    /\ len = 0 /\ stream.given + n <= MaxStream
    /\ stream' = [s32 |-> XXH32_update_endian(stream.s32, Input(stream.given, n)),
                  s64 |-> XXH64_update_endian(stream.s64, Input(stream.given, n)),
                  given |-> stream.given + n]
    /\ UNCHANGED len

HashesNext == Longer \/ \E n \in Pieces : Update(n)
------------------------------------------------------------------------------
(* The bounds of CityHash, SipHash and rte_memcpy: for every length, the   *)
(* overlapping words read, or moved, are the bytes of the input, all of    *)
(* them and none outside.                                                  *)
TouchesExactly ==
    LET input == 0..(len - 1)
    IN  /\ CityHash64(0, len) = input /\ CityHash128(0, len) = input
        /\ siphash_2_4(len) = input
        /\ rte_memcpy_func(len) = input

(* XXHnn_digest after any sequence of XXHnn_update is XXHnn of the whole   *)
(* stream: however a stream is cut, no byte is lost, repeated, reordered   *)
(* or mixed into another lane.                                             *)
StreamingIsOneShot ==
    LET whole == Input(0, stream.given)
    IN  /\ XXH32_digest_endian(stream.s32) = XXH32_endian_align(whole)
        /\ XXH64_digest_endian(stream.s64) = XXH64_endian_align(whole)
==============================================================================
