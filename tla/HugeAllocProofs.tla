--------------------------- MODULE HugeAllocProofs ---------------------------
(***************************************************************************)
(* Proofs about HugeAlloc for any class sizes, any number of classes and    *)
(* any behaviour of the kernel: Buffers never overlap, the asserts of       *)
(* split() hold, the allocator implements Allocator, no byte is lost, and   *)
(* the destructor frees what was recorded.                                  *)
(***************************************************************************)
EXTENDS HugeAlloc, TLAPS

(* Multiplication by a natural number is monotone.                         *)
LEMMA MulMonotone ==
    ASSUME NEW a \in Nat, NEW b \in Nat, NEW m \in Nat, a <= b
    PROVE  a * m <= b * m
OBVIOUS

(* Division rounds down (by less than the divisor).                        *)
LEMMA DivBounds ==
    ASSUME NEW x \in Nat, NEW m \in Nat \ {0}
    PROVE  /\ x \div m \in Nat
           /\ (x \div m) * m <= x
           /\ x < (x \div m) * m + m
OBVIOUS

(* round_up() never rounds down.                                           *)
LEMMA RoundUp ==
    ASSUME NEW x \in Nat
    PROVE  round_up(x) \in Nat /\ round_up(x) >= x
<1> DEFINE y == x + kHugepageSize - 1
<1>1. y \in Nat /\ kHugepageSize \in Nat \ {0}
  BY ConstantsAssumption
<1>2. y \div kHugepageSize \in Nat /\ y < (y \div kHugepageSize) * kHugepageSize + kHugepageSize
  BY <1>1, DivBounds
<1>3. (y \div kHugepageSize) * kHugepageSize \in Nat
  BY <1>1, <1>2
<1> QED
  BY <1>1, <1>2, <1>3 DEF round_up

(* What pop_back() leaves of a vector.                                     *)
LEMMA PopBack ==
    ASSUME NEW S, NEW s \in Seq(S), s # <<>>
    PROVE  /\ pop_back(s) \in Seq(S)
           /\ Len(s) \in Nat \ {0}
           /\ back(s) \in S
           /\ DOMAIN pop_back(s) = 1 .. Len(s) - 1
           /\ \A i \in 1 .. Len(s) - 1 : pop_back(s)[i] = s[i]
BY DEF pop_back, back

(* Two push_back() on an empty vector.                                     *)
LEMMA PushTwo ==
    ASSUME NEW S, NEW a \in S, NEW b \in S
    PROVE  LET t == push_back(push_back(<<>>, a), b) IN
           /\ t \in Seq(S)
           /\ DOMAIN t = 1 .. 2
           /\ t[1] = a
           /\ t[2] = b
BY DEF push_back

(* One push_back().                                                        *)
LEMMA PushOne ==
    ASSUME NEW S, NEW s \in Seq(S), NEW a \in S
    PROVE  LET t == push_back(s, a) IN
           /\ t \in Seq(S)
           /\ DOMAIN t = 1 .. Len(s) + 1
           /\ DOMAIN s = 1 .. Len(s)
           /\ Len(s) \in Nat
           /\ \A i \in 1 .. Len(s) : t[i] = s[i]
           /\ t[Len(s) + 1] = a
BY DEF push_back

(* Class sizes are positive and double from one class to the next.         *)
LEMMA DoublingLaw ==
    /\ \A c \in Classes : class_max_size(c) \in Nat \ {0}
    /\ \A c \in Classes \ {0} : class_max_size(c) = 2 * class_max_size(c - 1)
<1>1. ASSUME NEW m \in Nat \ {0}, NEW x \in Nat \ {0}
      PROVE  m * x \in Nat \ {0} /\ m * (2 * x) = 2 * (m * x)
  OBVIOUS
<1>2. kMinClassSize \in Nat \ {0}
  BY ConstantsAssumption
<1>3. ASSUME NEW c \in Classes PROVE class_max_size(c) \in Nat \ {0}
  BY <1>1, <1>2, PowersOfTwo DEF class_max_size
<1>4. ASSUME NEW c \in Classes \ {0}
      PROVE  class_max_size(c) = 2 * class_max_size(c - 1)
  <2>1. c - 1 \in Classes
    BY ConstantsAssumption DEF Classes
  <2>2. 2^(c - 1) \in Nat \ {0} /\ 2^c = 2 * 2^(c - 1)
    BY <2>1, PowersOfTwo
  <2> QED
    BY <1>1, <1>2, <2>2 DEF class_max_size
<1> QED
  BY <1>3, <1>4

(* The classes, and that a largest one exists.                             *)
LEMMA ClassFacts ==
    /\ top \in Classes
    /\ Classes \subseteq Nat
    /\ kNumClasses \in Nat \ {0}
    /\ kMaxClassSize \in Nat \ {0}
BY ConstantsAssumption, DoublingLaw DEF Classes, top, kMaxClassSize

(* The constructor establishes the invariant.                              *)
LEMMA InitInv == Init => IInv
<1> SUFFICES ASSUME Init PROVE IInv
  OBVIOUS
<1> USE ClassFacts, ConstantsAssumption
<1>1. TypeOK
  BY DEF Init, FirstAllocationSize, TypeOK, Classes
<1>2. ClassSizes /\ BuffersDisjoint /\ SplitAsserts
  BY DEF Init, ClassSizes, BuffersDisjoint, SplitAsserts
<1>3. Reservation
  BY DEF Init, FirstAllocationSize, Reservation
<1>4. Backed
  BY DEF Init, Backed, Alive
<1> QED
  BY <1>1, <1>2, <1>3, <1>4 DEF IInv

(* A step that leaves the freelists and the user's Buffers alone.          *)
LEMMA SameBuffers ==
    ASSUME BuffersDisjoint, ClassSizes, UNCHANGED <<freelist, held>>
    PROVE  BuffersDisjoint' /\ ClassSizes'
BY DEF BuffersDisjoint, ClassSizes

(* alloc_from_class(): the last Buffer of a class changes hands.           *)
LEMMA AllocFromClassInv ==
    ASSUME IInv, NEW c \in Classes, freelist[c] # <<>>, alloc_from_class(c)
    PROVE  /\ freelist' \in [Classes -> Seq(Buffer)]
           /\ held' \subseteq Buffer
           /\ user_alloc_tot' \in Int
           /\ ClassSizes'
           /\ BuffersDisjoint'
<1> DEFINE b == back(freelist[c])
           n == Len(freelist[c])
<1>1. /\ freelist \in [Classes -> Seq(Buffer)]
      /\ held \subseteq Buffer
      /\ user_alloc_tot \in Int
  BY DEF IInv, TypeOK
<1>2. /\ pop_back(freelist[c]) \in Seq(Buffer)
      /\ n \in Nat \ {0}
      /\ b \in Buffer
      /\ DOMAIN pop_back(freelist[c]) = 1 .. n - 1
      /\ \A i \in 1 .. n - 1 : pop_back(freelist[c])[i] = freelist[c][i]
      /\ DOMAIN freelist[c] = 1 .. n
  <2>1. freelist[c] \in Seq(Buffer)
    BY <1>1
  <2>2. DOMAIN freelist[c] = 1 .. n
    BY <2>1
  <2> QED
    BY <2>1, <2>2, PopBack
<1>3. /\ freelist' = [freelist EXCEPT ![c] = pop_back(freelist[c])]
      /\ held' = held \cup {b}
      /\ user_alloc_tot' = user_alloc_tot + b.class_size
  BY <1>1 DEF alloc_from_class
<1>4. freelist' \in [Classes -> Seq(Buffer)] /\ held' \subseteq Buffer
  BY <1>1, <1>2, <1>3
<1>5. user_alloc_tot' \in Int
  BY <1>1, <1>2, <1>3 DEF Buffer
<1>6. /\ b = freelist[c][n] /\ n \in DOMAIN freelist[c]
      /\ \A d \in Classes : \A i \in DOMAIN freelist'[d] :
            /\ i \in DOMAIN freelist[d]
            /\ freelist'[d][i] = freelist[d][i]
            /\ d # c \/ i # n
  <2>1. b = freelist[c][n] /\ n \in DOMAIN freelist[c]
    BY <1>2 DEF back
  <2>2. freelist'[c] = pop_back(freelist[c])
    BY <1>1, <1>3
  <2>3. \A d \in Classes \ {c} : freelist'[d] = freelist[d]
    BY <1>1, <1>3
  <2>4. \A i \in DOMAIN freelist'[c] :
          i \in 1 .. n - 1 /\ freelist'[c][i] = freelist[c][i]
    BY <1>2, <2>2
  <2> HIDE DEF b, n
  <2> QED
    BY <1>2, <2>1, <2>3, <2>4
<1>7. ClassSizes'
  <2>1. b.class_size \in Nat \ {0}
    BY <1>6, DoublingLaw DEF IInv, ClassSizes
  <2> QED
    BY <2>1, <1>3, <1>6 DEF IInv, ClassSizes
<1>8. BuffersDisjoint'
  <2>1. \A d, e \in Classes :
          \A i \in DOMAIN freelist'[d], j \in DOMAIN freelist'[e] :
            (d # e \/ i # j) => Disjoint(freelist'[d][i], freelist'[e][j])
    BY <1>6 DEF IInv, BuffersDisjoint
  <2>2. \A d \in Classes : \A i \in DOMAIN freelist'[d] :
            Disjoint(freelist'[d][i], b)
    BY <1>6 DEF IInv, BuffersDisjoint
  <2>3. \A d \in Classes : \A i \in DOMAIN freelist'[d], h \in held :
            Disjoint(freelist'[d][i], h)
    BY <1>6 DEF IInv, BuffersDisjoint
  <2>4. \A h \in held : Disjoint(h, b) /\ Disjoint(b, h)
    BY <1>6 DEF IInv, BuffersDisjoint, Disjoint, Apart
  <2>5. \A g, h \in held' : g # h => Disjoint(g, h)
    BY <1>3, <2>4 DEF IInv, BuffersDisjoint
  <2>6. \A d \in Classes : \A i \in DOMAIN freelist'[d], h \in held' :
            Disjoint(freelist'[d][i], h)
    BY <1>3, <2>2, <2>3
  <2> QED
    BY <2>1, <2>5, <2>6 DEF BuffersDisjoint, Disjoint
<1> QED
  BY <1>4, <1>5, <1>7, <1>8

(* Part of a Buffer is apart from what the Buffer is apart from.           *)
LEMMA PartDisjoint ==
    ASSUME NEW a \in Buffer, NEW b \in Buffer, NEW x \in Buffer,
           b.buf <= a.buf, a.buf + a.class_size <= b.buf + b.class_size,
           Disjoint(b, x)
    PROVE  Disjoint(a, x) /\ Disjoint(x, a)
BY DEF Disjoint, Apart, Buffer

(* Part of a Buffer is in the segment the Buffer is in.                    *)
LEMMA PartInSegment ==
    ASSUME segments \subseteq shm_region_t,
           NEW a \in Buffer, NEW b \in Buffer,
           b.buf <= a.buf, a.buf + a.class_size <= b.buf + b.class_size,
           InSegment(b)
    PROVE  InSegment(a)
BY DEF InSegment, Buffer, shm_region_t

(* split() keeps the invariant: one Buffer of next_class becomes the two   *)
(* Buffers of the class below, which was empty.                            *)
LEMMA SplitInv == ASSUME IInv, Split PROVE IInv'
<1> DEFINE n == next_class
           m == next_class - 1
           b == back(freelist[next_class])
           b0 == buffer_0(b)
           b1 == buffer_1(b)
           k == Len(freelist[next_class])
<1> USE ClassFacts
<1>1. /\ freelist \in [Classes -> Seq(Buffer)]
      /\ held \subseteq Buffer
      /\ segments \subseteq shm_region_t
      /\ next_class \in Nat /\ size_class \in Classes
  BY DEF IInv, TypeOK
<1>2. /\ n \in Classes /\ m \in Classes /\ n # m /\ n \in Classes \ {0}
      /\ size_class <= m
      /\ freelist[n] # <<>>
      /\ freelist[m] = <<>>
      /\ \A c \in size_class .. m : freelist[c] = <<>>
  BY <1>1 DEF IInv, SplitAsserts, Split, Classes
<1>3. /\ pop_back(freelist[n]) \in Seq(Buffer)
      /\ k \in Nat \ {0}
      /\ b \in Buffer
      /\ DOMAIN pop_back(freelist[n]) = 1 .. k - 1
      /\ \A i \in 1 .. k - 1 : pop_back(freelist[n])[i] = freelist[n][i]
      /\ DOMAIN freelist[n] = 1 .. k
      /\ b = freelist[n][k]
  <2>1. freelist[n] \in Seq(Buffer)
    BY <1>1, <1>2
  <2>2. DOMAIN freelist[n] = 1 .. k
    BY <2>1
  <2> QED
    BY <1>2, <2>1, <2>2, PopBack DEF back
<1>4. b.class_size = class_max_size(n) /\ class_max_size(n) = 2 * class_max_size(m)
  <2>1. k \in DOMAIN freelist[n]
    BY <1>3
  <2>2. b.class_size = class_max_size(n)
    BY Zenon, <1>2, <1>3, <2>1 DEF IInv, ClassSizes
  <2>3. class_max_size(n) = 2 * class_max_size(m)
    BY <1>2, DoublingLaw
  <2> QED
    BY <2>2, <2>3
<1>5. /\ b0 \in Buffer /\ b0.class_size = class_max_size(m) /\ b0.buf = b.buf
      /\ b1 \in Buffer /\ b1.class_size = class_max_size(m)
      /\ b1.buf = b.buf + class_max_size(m)
      /\ class_max_size(m) \in Nat \ {0}
  <2>1. class_max_size(m) \in Nat \ {0}
    BY <1>2, DoublingLaw
  <2>2. b.class_size \div 2 = class_max_size(m)
    BY <1>4, <2>1
  <2>3. b.buf \in Nat
    BY <1>3 DEF Buffer
  <2> HIDE DEF b
  <2> QED
    BY <2>1, <2>2, <2>3 DEF buffer_0, buffer_1, Buffer
<1>5a. /\ b.buf <= b0.buf /\ b0.buf + b0.class_size <= b.buf + b.class_size
       /\ b.buf <= b1.buf /\ b1.buf + b1.class_size <= b.buf + b.class_size
  <2>1. b.buf \in Nat
    BY <1>3 DEF Buffer
  <2> HIDE DEF b, b0, b1
  <2> QED
    BY <1>4, <1>5, <2>1
<1>6. /\ freelist' \in [Classes -> Seq(Buffer)]
      /\ freelist'[n] = pop_back(freelist[n])
      /\ DOMAIN freelist'[m] = 1 .. 2
      /\ freelist'[m][1] = b0
      /\ freelist'[m][2] = b1
      /\ \A c \in Classes \ {n, m} : freelist'[c] = freelist[c]
  <2> DEFINE t == push_back(push_back(<<>>, b0), b1)
  <2>1. freelist' = [freelist EXCEPT ![n] = pop_back(freelist[n]),
                                     ![m] = push_back(push_back(freelist[m], b0), b1)]
    BY <1>1, <1>2 DEF Split
  <2>2. t \in Seq(Buffer) /\ DOMAIN t = 1 .. 2 /\ t[1] = b0 /\ t[2] = b1
    BY <1>5, PushTwo
  <2>3. freelist' = [freelist EXCEPT ![n] = pop_back(freelist[n]), ![m] = t]
    BY <1>2, <2>1
  <2> HIDE DEF t, b0, b1, n, m
  <2> QED
    BY Zenon, <1>1, <1>2, <1>3, <2>2, <2>3
<1> HIDE DEF b, b0, b1, k
<1>7. \A c \in Classes : \A i \in DOMAIN freelist'[c] :
        \/ /\ c # m
           /\ i \in DOMAIN freelist[c]
           /\ freelist'[c][i] = freelist[c][i]
           /\ c # n \/ i # k
        \/ c = m /\ i = 1 /\ freelist'[c][i] = b0
        \/ c = m /\ i = 2 /\ freelist'[c][i] = b1
  <2> SUFFICES ASSUME NEW c \in Classes, NEW i \in DOMAIN freelist'[c]
               PROVE  \/ /\ c # m
                         /\ i \in DOMAIN freelist[c]
                         /\ freelist'[c][i] = freelist[c][i]
                         /\ c # n \/ i # k
                      \/ c = m /\ i = 1 /\ freelist'[c][i] = b0
                      \/ c = m /\ i = 2 /\ freelist'[c][i] = b1
    OBVIOUS
  <2>1. CASE c = m
    BY <1>6, <2>1
  <2>2. CASE c = n
    BY <1>2, <1>3, <1>6, <2>2
  <2>3. CASE c \in Classes \ {n, m}
    BY Zenon, <1>6, <2>3
  <2> QED
    BY <2>1, <2>2, <2>3
<1>8. /\ UNCHANGED <<shm_list, prev_allocation_size, shm_reserved,
                     user_alloc_tot, segments, held, raw, pc, request, size_class>>
      /\ next_class' = m
      /\ pc = "split"
  BY DEF Split
<1>9. TypeOK'
  BY Zenon, <1>1, <1>2, <1>6, <1>8 DEF IInv, TypeOK
<1>10. ClassSizes'
  BY <1>5, <1>7, <1>8 DEF IInv, ClassSizes
<1>11. Reservation'
  BY <1>8 DEF IInv, Reservation
<1>12. SplitAsserts'
  <2>1. freelist'[m] # <<>>
    BY <1>6
  <2>2. \A c \in size_class .. m - 1 : freelist'[c] = <<>>
    BY <1>1, <1>2, <1>6 DEF Classes
  <2> QED
    BY <1>2, <1>8, <2>1, <2>2 DEF SplitAsserts
<1>13. Backed'
  <2>1. InSegment(b0) /\ InSegment(b1)
    <3>1. InSegment(b)
      <4>1. k \in DOMAIN freelist[n]
        BY SMTT(30), <1>3
      <4> QED
        BY <1>2, <1>3, <1>8, <4>1 DEF IInv, Backed, Alive
    <3>2. InSegment(b0)
      BY SMTT(30), <1>1, <1>3, <1>5, <1>5a, <3>1, PartInSegment
    <3>3. InSegment(b1)
      BY Zenon, <1>1, <1>3, <1>5, <1>5a, <3>1, PartInSegment
    <3> QED
      BY SMTT(30), <3>2, <3>3
  <2>2. \A c \in Classes : \A i \in DOMAIN freelist'[c] : InSegment(freelist'[c][i])
    BY <1>7, <1>8, <2>1 DEF IInv, Backed, Alive
  <2> QED
    BY <1>8, <2>2 DEF IInv, Backed, Alive, InSegment, IsRaw
<1>14. BuffersDisjoint'
  <2>1. \A x \in Buffer : Disjoint(b, x) =>
          Disjoint(b0, x) /\ Disjoint(x, b0) /\ Disjoint(b1, x) /\ Disjoint(x, b1)
    <3> SUFFICES ASSUME NEW x \in Buffer, Disjoint(b, x)
                 PROVE  /\ Disjoint(b0, x) /\ Disjoint(x, b0)
                        /\ Disjoint(b1, x) /\ Disjoint(x, b1)
      OBVIOUS
    <3>1. Disjoint(b0, x) /\ Disjoint(x, b0)
      BY SMTT(30), <1>3, <1>5, <1>5a, PartDisjoint
    <3>2. Disjoint(b1, x) /\ Disjoint(x, b1)
      BY <1>3, <1>5, <1>5a, PartDisjoint
    <3> QED
      BY <3>1, <3>2
  <2>2. Disjoint(b0, b1) /\ Disjoint(b1, b0)
    BY <1>3, <1>5 DEF Disjoint, Apart, Buffer
  <2>3. k \in DOMAIN freelist[n]
    BY SMTT(30), <1>3
  <2>4. \A c \in Classes : \A i \in DOMAIN freelist[c] :
          /\ freelist[c][i] \in Buffer
          /\ (c # n \/ i # k) => Disjoint(b, freelist[c][i])
    <3>1. \A c \in Classes : \A i \in DOMAIN freelist[c] : freelist[c][i] \in Buffer
      BY <1>1
    <3>2. \A c \in Classes : \A i \in DOMAIN freelist[c] :
            (c # n \/ i # k) => Disjoint(freelist[n][k], freelist[c][i])
      BY <1>2, <2>3 DEF IInv, BuffersDisjoint
    <3> QED
      BY <1>3, <3>1, <3>2
  <2>5. \A h \in held : h \in Buffer /\ Disjoint(b, h)
    BY <1>1, <1>2, <1>3, <2>3 DEF IInv, BuffersDisjoint
  <2>6. ASSUME NEW c \in Classes, NEW d \in Classes,
               NEW i \in DOMAIN freelist'[c], NEW j \in DOMAIN freelist'[d],
               c # d \/ i # j
        PROVE  Disjoint(freelist'[c][i], freelist'[d][j])
    <3>1. CASE c # m /\ d # m
      BY <1>7, <2>6, <3>1 DEF IInv, BuffersDisjoint
    <3>2. CASE c = m /\ d # m
      BY Zenon, <1>7, <2>1, <2>4, <2>6, <3>2
    <3>3. CASE c # m /\ d = m
      BY Zenon, <1>7, <2>1, <2>4, <2>6, <3>3
    <3>4. CASE c = m /\ d = m
      BY <1>7, <2>2, <2>6, <3>4
    <3> QED
      BY <3>1, <3>2, <3>3, <3>4
  <2>7. ASSUME NEW c \in Classes, NEW i \in DOMAIN freelist'[c], NEW h \in held
        PROVE  Disjoint(freelist'[c][i], h)
    <3>1. CASE c # m
      BY <1>7, <2>7, <3>1 DEF IInv, BuffersDisjoint
    <3>2. CASE c = m
      BY <1>7, <2>1, <2>5, <2>7, <3>2
    <3> QED
      BY <3>1, <3>2
  <2>8. \A g, h \in held : g # h => Disjoint(g, h)
    BY DEF IInv, BuffersDisjoint
  <2> QED
    BY <1>8, <2>6, <2>7, <2>8 DEF BuffersDisjoint, Disjoint
<1> QED
  BY <1>9, <1>10, <1>11, <1>12, <1>13, <1>14 DEF IInv

(* alloc() from a class that has a free Buffer, at once or after the       *)
(* splits, keeps the invariant.                                            *)
LEMMA AllocFromClassBacked ==
    ASSUME IInv, Alive, NEW c \in Classes, freelist[c] # <<>>,
           alloc_from_class(c), UNCHANGED <<segments, raw>>
    PROVE  Backed'
<1> DEFINE n == Len(freelist[c])
<1>1. freelist \in [Classes -> Seq(Buffer)] /\ freelist[c] \in Seq(Buffer)
  BY DEF IInv, TypeOK
<1>2. /\ n \in DOMAIN freelist[c]
      /\ back(freelist[c]) = freelist[c][n]
      /\ DOMAIN pop_back(freelist[c]) = 1 .. n - 1
      /\ DOMAIN freelist[c] = 1 .. n
      /\ \A i \in 1 .. n - 1 : pop_back(freelist[c])[i] = freelist[c][i]
      /\ n \in Nat
  BY <1>1, PopBack DEF back
<1>3. /\ held' = held \cup {freelist[c][n]}
      /\ freelist'[c] = pop_back(freelist[c])
      /\ \A d \in Classes \ {c} : freelist'[d] = freelist[d]
  BY <1>1, <1>2 DEF alloc_from_class
<1>4. \A d \in Classes : \A i \in DOMAIN freelist'[d] :
         i \in DOMAIN freelist[d] /\ freelist'[d][i] = freelist[d][i]
  <2>1. \A i \in DOMAIN freelist'[c] :
           i \in DOMAIN freelist[c] /\ freelist'[c][i] = freelist[c][i]
    BY <1>2, <1>3
  <2> QED
    BY <1>3, <2>1
<1>5. \A d \in Classes : \A i \in DOMAIN freelist'[d] : InSegment(freelist'[d][i])
  BY SMTT(30), <1>4 DEF IInv, Backed
<1>6. \A h \in held' : InSegment(h)
  BY <1>2, <1>3 DEF IInv, Backed
<1> QED
  BY <1>5, <1>6 DEF IInv, Backed, InSegment, IsRaw

(* alloc() that finds its class non-empty keeps the invariant.             *)
LEMMA AllocHitInv == ASSUME IInv, NEW size \in Sizes, AllocHit(size) PROVE IInv'
<1> USE ClassFacts
<1>1. PICK c \in get_class(size) \cap Classes :
          freelist[c] # <<>> /\ alloc_from_class(c)
  BY DEF AllocHit
<1>2. /\ UNCHANGED <<shm_list, prev_allocation_size, shm_reserved, segments,
                     raw, pc, request, size_class, next_class>>
      /\ pc = "idle"
  BY DEF AllocHit, locals
<1>3. /\ freelist' \in [Classes -> Seq(Buffer)]
      /\ held' \subseteq Buffer
      /\ user_alloc_tot' \in Int
      /\ ClassSizes'
      /\ BuffersDisjoint'
  BY Zenon, <1>1, AllocFromClassInv
<1>4. TypeOK'
  BY <1>2, <1>3 DEF IInv, TypeOK
<1>5. Reservation' /\ SplitAsserts'
  BY <1>2 DEF IInv, Reservation, SplitAsserts
<1>6. Backed'
  BY Zenon, <1>1, <1>2, AllocFromClassBacked DEF Alive
<1> QED
  BY <1>3, <1>4, <1>5, <1>6 DEF IInv

(* The last step of alloc(), after splitting, keeps the invariant.         *)
LEMMA AllocReturnInv == ASSUME IInv, AllocReturn PROVE IInv'
<1> USE ClassFacts
<1>1. /\ size_class \in Classes
      /\ freelist[size_class] # <<>>
      /\ alloc_from_class(size_class)
      /\ pc = "split"
  BY DEF IInv, SplitAsserts, AllocReturn
<1>2. /\ UNCHANGED <<shm_list, prev_allocation_size, shm_reserved, segments, raw>>
      /\ pc' = "idle" /\ request' = 0 /\ size_class' = 0 /\ next_class' = 0
  BY DEF AllocReturn, Return
<1>3. /\ freelist' \in [Classes -> Seq(Buffer)]
      /\ held' \subseteq Buffer
      /\ user_alloc_tot' \in Int
      /\ ClassSizes'
      /\ BuffersDisjoint'
  BY <1>1, AllocFromClassInv
<1>4. TypeOK'
  BY <1>2, <1>3 DEF IInv, TypeOK, Classes
<1>5. Reservation' /\ SplitAsserts'
  BY <1>2 DEF IInv, Reservation, SplitAsserts
<1>6. Backed'
  BY <1>1, <1>2, AllocFromClassBacked DEF Alive
<1> QED
  BY <1>3, <1>4, <1>5, <1>6 DEF IInv

(* alloc() that finds its class empty: the classes up to the one it will   *)
(* split are empty.                                                        *)
LEMMA AllocMissInv == ASSUME IInv, NEW size \in Sizes, AllocMiss(size) PROVE IInv'
<1> USE ClassFacts
<1>1. PICK c \in get_class(size) \cap Classes :
          /\ freelist[c] = <<>>
          /\ size_class' = c
          /\ \E n \in c + 1 .. kNumClasses :
                 FirstNonEmpty(c + 1, n) /\ next_class' = n
  BY DEF AllocMiss
<1>2. PICK n \in c + 1 .. kNumClasses : FirstNonEmpty(c + 1, n) /\ next_class' = n
  BY <1>1
<1>3. /\ UNCHANGED <<freelist, shm_list, shm_reserved, user_alloc_tot, segments,
                     held, raw>>
      /\ request' = size
      /\ pc = "idle"
  BY DEF AllocMiss
<1>4. /\ c \in Classes /\ c \in Nat /\ n \in Nat
      /\ size \in Nat
      /\ prev_allocation_size \in Nat
  <2>1. c \in Classes /\ c \in Nat
    BY Zenon, <1>1
  <2>2. n \in Nat
    BY <2>1
  <2>3. size \in Nat
    BY ConstantsAssumption
  <2>4. prev_allocation_size \in Nat
    BY DEF IInv, TypeOK
  <2> QED
    BY <2>1, <2>2, <2>3, <2>4
<1>5. \/ n < kNumClasses /\ pc' = "split" /\ UNCHANGED prev_allocation_size
      \/ n = kNumClasses /\ pc' = "reserve"
         /\ prev_allocation_size' = 2 * prev_allocation_size
  BY <1>2 DEF AllocMiss
<1>6. \A k \in c .. n - 1 : freelist[k] = <<>>
  <2> SUFFICES ASSUME NEW k \in c .. n - 1 PROVE freelist[k] = <<>>
    OBVIOUS
  <2>1. k = c \/ k \in c + 1 .. n - 1
    BY <1>4
  <2> QED
    BY <1>1, <1>2, <2>1 DEF FirstNonEmpty
<1>7. TypeOK'
  <2>1. prev_allocation_size' \in Nat /\ pc' \in {"split", "reserve"}
    BY <1>4, <1>5
  <2>2. size_class' \in Classes /\ next_class' \in Nat /\ request' \in Nat
    BY <1>1, <1>2, <1>3, <1>4
  <2> QED
    BY <1>3, <2>1, <2>2 DEF IInv, TypeOK
<1>8. BuffersDisjoint' /\ ClassSizes'
  BY <1>3, SameBuffers DEF IInv
<1>9. Reservation'
  <2>1. prev_allocation_size >= kMaxClassSize
    BY DEF IInv, Reservation
  <2>2. CASE pc' = "split"
    BY <1>5, <2>1, <2>2 DEF Reservation
  <2>3. CASE pc' = "reserve"
    <3>1. n - 1 = top
      BY <1>5, <2>3 DEF top
    <3>2. prev_allocation_size' >= 2 * kMaxClassSize /\ prev_allocation_size' >= kMaxClassSize
      BY <1>4, <1>5, <2>1, <2>3
    <3> QED
      BY <1>1, <1>3, <1>6, <3>1, <3>2 DEF Reservation
  <2> QED
    BY <1>5, <2>2, <2>3
<1>10. SplitAsserts'
  <2> SUFFICES ASSUME pc' = "split" PROVE SplitAsserts'
    BY DEF SplitAsserts
  <2>1. n < kNumClasses
    BY <1>5
  <2>2. n \in Classes /\ c <= n /\ freelist[n] # <<>>
    BY SMTT(30), <1>2, <1>4, <2>1 DEF Classes, FirstNonEmpty
  <2> QED
    BY <1>1, <1>2, <1>3, <1>6, <2>2 DEF SplitAsserts
<1>11. Backed'
  BY <1>3, <1>5 DEF IInv, Backed, Alive, InSegment, IsRaw
<1> QED
  BY <1>7, <1>8, <1>9, <1>10, <1>11 DEF IInv

(* A new segment is apart from all memory in use, so it is nobody's raw    *)
(* memory and every Buffer stays where it is.                              *)
LEMMA NewSegmentInv ==
    ASSUME IInv, Alive, NEW size \in Nat, size > 0,
           NEW base \in Bases, NEW key \in Keys,
           NewSegment(key, base, round_up(size)),
           \/ raw' = raw
           \/ raw' = raw \cup {[buf |-> base, size |-> round_up(size)]}
    PROVE  /\ segments' \subseteq shm_region_t
           /\ raw' \subseteq [buf : Nat, size : Nat]
           /\ base \in Nat /\ round_up(size) \in Nat /\ round_up(size) >= size
           /\ [buf |-> base, size |-> round_up(size)] \notin raw
           /\ \A b \in Buffer : InSegment(b) =>
                 /\ InSegment(b)'
                 /\ Apart(base, round_up(size), b.buf, b.class_size)
           /\ \A r \in raw : Apart(base, round_up(size), r.buf, r.size)
           /\ \A r \in raw' : \E s \in segments' : s.buf = r.buf /\ s.size = r.size
           /\ \A s, t \in segments' : s # t => Apart(s.buf, s.size, t.buf, t.size)
           /\ \A s \in segments' : s.size > 0
<1> DEFINE rs == round_up(size)
           new == [shm_key |-> key, buf |-> base, size |-> rs]
<1>1. rs \in Nat /\ rs >= size /\ base \in Nat /\ key \in Nat
  BY RoundUp, ConstantsAssumption
<1>2. /\ segments' = segments \cup {new}
      /\ \A s \in segments : Apart(base, rs, s.buf, s.size)
  BY DEF NewSegment
<1>3. /\ segments \subseteq shm_region_t
      /\ raw \subseteq [buf : Nat, size : Nat]
      /\ \A r \in raw : \E s \in segments : s.buf = r.buf /\ s.size = r.size
      /\ \A s, t \in segments : s # t => Apart(s.buf, s.size, t.buf, t.size)
      /\ \A s \in segments : s.size > 0
  BY DEF IInv, TypeOK, Backed
<1> HIDE DEF rs
<1>4. new \in shm_region_t /\ new.buf = base /\ new.size = rs
  BY SMTT(30), <1>1 DEF shm_region_t
<1>5. segments' \subseteq shm_region_t
  BY <1>2, <1>3, <1>4
<1>6. \A s \in segments : s.buf \in Nat /\ s.size \in Nat /\ s.buf # base
  BY <1>1, <1>2, <1>3 DEF Apart, shm_region_t
<1>7. raw' \subseteq [buf : Nat, size : Nat]
  BY SMTT(30), <1>1, <1>3 DEF rs
<1>8. \A r \in raw : r.buf # base /\ Apart(base, rs, r.buf, r.size)
  BY <1>2, <1>3, <1>6
<1>9. [buf |-> base, size |-> rs] \notin raw
  BY SMTT(30), <1>8
<1>10. ASSUME NEW b \in Buffer, InSegment(b)
       PROVE  InSegment(b)' /\ Apart(base, rs, b.buf, b.class_size)
  <2>1. PICK s \in segments : /\ ~IsRaw(s)
                              /\ s.buf <= b.buf
                              /\ b.buf + b.class_size <= s.buf + s.size
    BY <1>10 DEF InSegment
  <2>2. s \in segments' /\ s.buf \in Nat /\ s.size \in Nat /\ s.buf # base
    BY <1>2, <1>6
  <2>3. ~IsRaw(s)'
    BY <2>1, <2>2 DEF IsRaw
  <2>4. Apart(base, rs, b.buf, b.class_size)
    BY <1>1, <1>2, <2>1, <2>2 DEF Apart, Buffer
  <2> QED
    BY <2>1, <2>2, <2>3, <2>4 DEF InSegment, IsRaw
<1>11. \A r \in raw' : \E s \in segments' : s.buf = r.buf /\ s.size = r.size
  <2>1. new \in segments'
    BY SMTT(30), <1>2
  <2>2. \A r \in raw : \E s \in segments' : s.buf = r.buf /\ s.size = r.size
    BY <1>2, <1>3
  <2>3. \A r \in raw' : r \in raw \/ r = [buf |-> base, size |-> rs]
    BY SMTT(30) DEF rs
  <2> QED
    BY <1>4, <2>1, <2>2, <2>3
<1>12. \A s, t \in segments' : s # t => Apart(s.buf, s.size, t.buf, t.size)
  <2>1. \A s \in segments : Apart(new.buf, new.size, s.buf, s.size)
                            /\ Apart(s.buf, s.size, new.buf, new.size)
    BY SMTT(30), <1>2, <1>4 DEF Apart
  <2> HIDE DEF new
  <2> QED
    BY <1>2, <1>3, <2>1
<1>13. \A s \in segments' : s.size > 0
  BY <1>1, <1>2, <1>3, <1>4
<1> QED
  BY <1>1, <1>5, <1>7, <1>8, <1>9, <1>10, <1>11, <1>12, <1>13 DEF rs

(* The user's alloc_raw() keeps the invariant, whether it succeeds or      *)
(* throws.                                                                 *)
LEMMA AllocRawInv == ASSUME IInv, NEW size \in RawSizes, AllocRaw(size) PROVE IInv'
<1> USE ClassFacts
<1>1. size \in Nat /\ size > 0
  BY ConstantsAssumption
<1>2. /\ UNCHANGED <<freelist, prev_allocation_size, user_alloc_tot, held, pc,
                     request, size_class, next_class>>
      /\ pc = "idle" /\ Alive
  BY DEF AllocRaw, locals, Alive
<1>3. BuffersDisjoint' /\ ClassSizes' /\ Reservation' /\ SplitAsserts'
  BY <1>2, SameBuffers DEF IInv, Reservation, SplitAsserts
<1>4. /\ freelist \in [Classes -> Seq(Buffer)]
      /\ held \subseteq Buffer
      /\ shm_list \in Seq(shm_region_t)
      /\ shm_reserved \in Nat
  BY DEF IInv, TypeOK
<1>4a. \A c \in Classes : \A i \in DOMAIN freelist[c] : freelist[c][i] \in Buffer
  BY SMTT(30), <1>4
<1>5. ASSUME NEW key \in Keys, NEW base \in Bases,
             NewSegment(key, base, round_up(size)),
             \/ raw' = raw
             \/ raw' = raw \cup {[buf |-> base, size |-> round_up(size)]},
             shm_list' \in Seq(shm_region_t), shm_reserved' \in Nat
      PROVE  TypeOK' /\ Backed'
  <2>1. /\ segments' \subseteq shm_region_t
        /\ raw' \subseteq [buf : Nat, size : Nat]
        /\ \A b \in Buffer : InSegment(b) => InSegment(b)'
        /\ \A r \in raw' : \E s \in segments' : s.buf = r.buf /\ s.size = r.size
        /\ \A s, t \in segments' : s # t => Apart(s.buf, s.size, t.buf, t.size)
        /\ \A s \in segments' : s.size > 0
    BY Zenon, <1>1, <1>2, <1>5, NewSegmentInv
  <2>2. TypeOK'
    <3>1. segments' \subseteq shm_region_t /\ raw' \subseteq [buf : Nat, size : Nat]
      BY Zenon, <2>1
    <3> QED
      BY Zenon, <1>2, <1>5, <3>1 DEF IInv, TypeOK
  <2>3. /\ \A c \in Classes : \A i \in DOMAIN freelist[c] : InSegment(freelist[c][i])'
        /\ \A h \in held : InSegment(h)'
    BY SMTT(30), <1>2, <1>4, <1>4a, <2>1 DEF IInv, Backed
  <2> QED
    BY <1>2, <2>1, <2>2, <2>3 DEF Backed, InSegment, IsRaw
<1>6. CASE \E base \in Bases :
             /\ alloc_raw_ok(size, base)
             /\ raw' = raw \cup {[buf |-> base, size |-> round_up(size)]}
  <2>1. PICK base \in Bases :
             /\ alloc_raw_ok(size, base)
             /\ raw' = raw \cup {[buf |-> base, size |-> round_up(size)]}
    BY <1>6
  <2>2. PICK key \in Keys :
          /\ NewSegment(key, base, round_up(size))
          /\ shm_list' = push_back(shm_list,
                 [shm_key |-> key, buf |-> base, size |-> round_up(size)])
          /\ shm_reserved' = shm_reserved + round_up(size)
    BY <2>1 DEF alloc_raw_ok
  <2>3. round_up(size) \in Nat /\ key \in Nat /\ base \in Nat
    BY <1>1, RoundUp, ConstantsAssumption
  <2>4. [shm_key |-> key, buf |-> base, size |-> round_up(size)] \in shm_region_t
    BY SMTT(30), <2>3 DEF shm_region_t
  <2>5. shm_list' \in Seq(shm_region_t)
    BY <1>4, <2>2, <2>4, PushOne
  <2>6. shm_reserved' \in Nat
    BY <1>4, <2>2, <2>3
  <2> QED
    BY <1>3, <1>5, <2>1, <2>2, <2>5, <2>6 DEF IInv
<1>7. CASE alloc_raw_throws(size) /\ UNCHANGED raw
  <2>1. UNCHANGED <<shm_list, shm_reserved>>
    BY <1>7 DEF alloc_raw_throws
  <2>2. CASE UNCHANGED segments
    <3>1. TypeOK'
      BY SMTT(30), <1>2, <1>7, <2>1, <2>2 DEF IInv, TypeOK
    <3>2. Backed'
      BY <1>2, <1>7, <2>2 DEF IInv, Backed, Alive, InSegment, IsRaw
    <3> QED
      BY <1>3, <3>1, <3>2 DEF IInv
  <2>3. CASE \E key \in Keys, base \in Bases : NewSegment(key, base, round_up(size))
    <3>1. TypeOK' /\ Backed'
      BY <1>4, <1>5, <1>7, <2>1, <2>3
    <3> QED
      BY <1>3, <3>1 DEF IInv
  <2> QED
    BY <1>7, <2>2, <2>3 DEF alloc_raw_throws
<1> QED
  BY <1>6, <1>7 DEF AllocRaw

(* An alloc() that fails, with or without an exception, keeps the          *)
(* invariant.                                                              *)
LEMMA ReserveFailsInv == ASSUME IInv, ReserveENOMEM \/ ReserveThrows PROVE IInv'
<1> USE ClassFacts
<1>1. /\ pc = "reserve" /\ Alive
      /\ UNCHANGED <<freelist, held, raw, user_alloc_tot, shm_list, shm_reserved>>
      /\ pc' = "idle" /\ request' = 0 /\ size_class' = 0 /\ next_class' = 0
  BY DEF ReserveENOMEM, ReserveThrows, Return, Alive, alloc_raw_throws
<1>2. /\ freelist \in [Classes -> Seq(Buffer)]
      /\ held \subseteq Buffer
      /\ prev_allocation_size \in Nat
      /\ prev_allocation_size >= 2 * kMaxClassSize
      /\ prev_allocation_size > 0
  BY <1>1 DEF IInv, TypeOK, Reservation
<1>2a. \A c \in Classes : \A i \in DOMAIN freelist[c] : freelist[c][i] \in Buffer
  BY <1>2
<1>3. BuffersDisjoint' /\ ClassSizes' /\ SplitAsserts'
  BY <1>1, SameBuffers DEF IInv, SplitAsserts
<1>4. CASE ReserveENOMEM
  <2>1. UNCHANGED segments /\ prev_allocation_size' = prev_allocation_size \div 2
    BY <1>4 DEF ReserveENOMEM
  <2>2. prev_allocation_size' \in Nat /\ prev_allocation_size' >= kMaxClassSize
    BY <1>2, <2>1
  <2>3. TypeOK'
    BY SMTT(30), <1>1, <2>1, <2>2 DEF IInv, TypeOK, Classes
  <2>4. Backed' /\ Reservation'
    BY <1>1, <2>1, <2>2 DEF IInv, Backed, Alive, InSegment, IsRaw, Reservation
  <2> QED
    BY <1>3, <2>3, <2>4 DEF IInv
<1>5. CASE ReserveThrows
  <2>1. UNCHANGED prev_allocation_size /\ alloc_raw_throws(prev_allocation_size)
    BY <1>5 DEF ReserveThrows
  <2>2. Reservation'
    BY <1>1, <2>1 DEF IInv, Reservation
  <2>3. CASE UNCHANGED segments
    <3>1. TypeOK'
      BY SMTT(30), <1>1, <2>1, <2>3 DEF IInv, TypeOK, Classes
    <3>2. Backed'
      BY <1>1, <2>3 DEF IInv, Backed, Alive, InSegment, IsRaw
    <3> QED
      BY <1>3, <2>2, <3>1, <3>2 DEF IInv
  <2>4. CASE \E key \in Keys, base \in Bases :
                NewSegment(key, base, round_up(prev_allocation_size))
    <3>1. PICK key \in Keys, base \in Bases :
                NewSegment(key, base, round_up(prev_allocation_size))
      BY <2>4
    <3>2. /\ segments' \subseteq shm_region_t
          /\ \A b \in Buffer : InSegment(b) => InSegment(b)'
          /\ \A r \in raw' : \E s \in segments' : s.buf = r.buf /\ s.size = r.size
          /\ \A s, t \in segments' : s # t => Apart(s.buf, s.size, t.buf, t.size)
          /\ \A s \in segments' : s.size > 0
      BY Zenon, <1>1, <1>2, <3>1, NewSegmentInv
    <3>3. TypeOK'
      BY SMTT(30), <1>1, <2>1, <3>2 DEF IInv, TypeOK, Classes
    <3>4. /\ \A c \in Classes : \A i \in DOMAIN freelist[c] : InSegment(freelist[c][i])'
          /\ \A h \in held : InSegment(h)'
      BY SMTT(30), <1>1, <1>2, <1>2a, <3>2 DEF IInv, Backed
    <3>5. Backed'
      BY <1>1, <3>2, <3>4 DEF Backed, InSegment, IsRaw
    <3> QED
      BY <1>3, <2>2, <3>3, <3>5 DEF IInv
  <2> QED
    BY <2>1, <2>3, <2>4 DEF alloc_raw_throws
<1> QED
  BY <1>4, <1>5

(* The max-class Buffers a region is cut into: at least one, all inside    *)
(* the region, no two overlapping.                                         *)
LEMMA MaxBuffersFacts ==
    ASSUME NEW base \in Nat, NEW size \in Nat, size >= kMaxClassSize
    PROVE  LET t == MaxBuffers(base, size) IN
           /\ t \in Seq(Buffer)
           /\ t # <<>>
           /\ \A i \in DOMAIN t :
                /\ t[i] \in Buffer
                /\ t[i].class_size = kMaxClassSize
                /\ base <= t[i].buf
                /\ t[i].buf + t[i].class_size <= base + size
           /\ \A i, j \in DOMAIN t : i # j => Disjoint(t[i], t[j])
<1> DEFINE M == kMaxClassSize
           q == size \div kMaxClassSize
           t == MaxBuffers(base, size)
<1>1. M \in Nat \ {0}
  BY ClassFacts
<1>2. q \in Nat /\ q * M <= size /\ size < q * M + M
  BY <1>1, DivBounds
<1>3. q # 0
  BY <1>1, <1>2
<1>4. /\ DOMAIN t = 1 .. q
      /\ \A i \in 1 .. q : t[i] = [buf |-> base + (i - 1) * M, class_size |-> M]
  BY DEF MaxBuffers
<1> HIDE DEF M, q, t
<1>5. \A i \in 1 .. q : /\ (i - 1) * M \in Nat
                        /\ (i - 1) * M + M = i * M
                        /\ i * M <= q * M
  <2> SUFFICES ASSUME NEW i \in 1 .. q
               PROVE  /\ (i - 1) * M \in Nat
                      /\ (i - 1) * M + M = i * M
                      /\ i * M <= q * M
    OBVIOUS
  <2>1. i \in Nat /\ i - 1 \in Nat /\ i <= q
    BY <1>2
  <2>2. (i - 1) * M \in Nat /\ (i - 1) * M + M = i * M
    BY <1>1, <2>1
  <2>3. i * M <= q * M
    BY <1>1, <1>2, <2>1, MulMonotone
  <2> QED
    BY <2>2, <2>3
<1>6. \A i \in 1 .. q : /\ t[i] \in Buffer
                        /\ t[i].class_size = M
                        /\ t[i].buf = base + (i - 1) * M
                        /\ t[i].buf \in Nat
                        /\ base <= t[i].buf
                        /\ t[i].buf + t[i].class_size <= base + size
  <2> SUFFICES ASSUME NEW i \in 1 .. q
               PROVE  /\ t[i] \in Buffer
                      /\ t[i].class_size = M
                      /\ t[i].buf = base + (i - 1) * M
                      /\ t[i].buf \in Nat
                      /\ base <= t[i].buf
                      /\ t[i].buf + t[i].class_size <= base + size
    OBVIOUS
  <2> DEFINE o == (i - 1) * M
  <2>1. o \in Nat /\ o + M <= q * M
    BY <1>5
  <2>2. q * M \in Nat
    BY <1>1, <1>2
  <2>3. t[i] = [buf |-> base + o, class_size |-> M]
    BY <1>4
  <2> HIDE DEF o
  <2>4. t[i].buf = base + o /\ t[i].class_size = M /\ base + o \in Nat
    BY SMTT(30), <2>1, <2>3
  <2>5. t[i] \in Buffer
    BY <1>1, <2>3, <2>4 DEF Buffer
  <2> QED
    BY <1>1, <1>2, <2>1, <2>2, <2>4, <2>5 DEF o
<1>7. t \in Seq(Buffer)
  <2>1. t = [i \in 1 .. q |-> [buf |-> base + (i - 1) * M, class_size |-> M]]
    BY DEF t, MaxBuffers, q, M
  <2>2. t \in [1 .. q -> Buffer]
    BY <1>4, <1>6, <2>1
  <2> QED
    BY <1>2, <2>2
<1>8. t # <<>>
  BY SMTT(30), <1>2, <1>3, <1>4
<1>9. ASSUME NEW i \in 1 .. q, NEW j \in 1 .. q, i < j
      PROVE  Disjoint(t[i], t[j]) /\ Disjoint(t[j], t[i])
  <2>1. i * M <= (j - 1) * M
    <3>1. i \in Nat /\ j - 1 \in Nat /\ i <= j - 1
      BY SMTT(30), <1>2, <1>9
    <3> QED
      BY <1>1, <3>1, MulMonotone
  <2>2. t[i].buf + M <= t[j].buf
    <3>1. t[i].buf = base + (i - 1) * M /\ t[j].buf = base + (j - 1) * M
      BY <1>6
    <3>2. (i - 1) * M \in Nat /\ (j - 1) * M \in Nat /\ (i - 1) * M + M = i * M
      BY <1>5
    <3> QED
      BY <1>1, <2>1, <3>1, <3>2
  <2> QED
    BY <1>6, <2>2 DEF Disjoint, Apart
<1>10. \A i, j \in 1 .. q : i # j => Disjoint(t[i], t[j])
  <2> SUFFICES ASSUME NEW i \in 1 .. q, NEW j \in 1 .. q, i # j
               PROVE  Disjoint(t[i], t[j])
    OBVIOUS
  <2>1. i < j \/ j < i
    BY <1>2
  <2> QED
    BY <1>9, <2>1
<1> QED
  BY Zenon, <1>4, <1>6, <1>7, <1>8, <1>10 DEF t, M

(* reserve_hugepages() that succeeds keeps the invariant: the new Buffers  *)
(* are in a segment apart from all the others.                             *)
LEMMA ReserveOkInv == ASSUME IInv, ReserveOk PROVE IInv'
<1> USE ClassFacts
<1>1. PICK base \in Bases :
        /\ alloc_raw_ok(prev_allocation_size, base)
        /\ freelist' = [freelist EXCEPT ![top] =
                           @ \o MaxBuffers(base, prev_allocation_size)]
  BY Zenon DEF ReserveOk
<1> DEFINE size == prev_allocation_size
           rs == round_up(size)
           t == MaxBuffers(base, size)
<1>2. PICK key \in Keys :
        /\ NewSegment(key, base, rs)
        /\ shm_list' = push_back(shm_list,
               [shm_key |-> key, buf |-> base, size |-> rs])
        /\ shm_reserved' = shm_reserved + rs
  BY SMTT(30), <1>1 DEF alloc_raw_ok
<1>3. /\ UNCHANGED <<prev_allocation_size, user_alloc_tot, held, raw, request,
                     size_class>>
      /\ pc = "reserve" /\ pc' = "split" /\ next_class' = top /\ Alive
  BY DEF ReserveOk, Alive
<1>4. /\ freelist \in [Classes -> Seq(Buffer)]
      /\ held \subseteq Buffer
      /\ shm_list \in Seq(shm_region_t)
      /\ shm_reserved \in Nat
      /\ size \in Nat
      /\ size_class \in Classes
  BY DEF IInv, TypeOK
<1>4a. \A c \in Classes : \A i \in DOMAIN freelist[c] : freelist[c][i] \in Buffer
  BY <1>4
<1>5. /\ size >= 2 * kMaxClassSize /\ size >= kMaxClassSize /\ size > 0
      /\ \A c \in size_class .. top : freelist[c] = <<>>
  BY SMTT(30), <1>3, <1>4 DEF IInv, Reservation
<1>6. /\ segments' \subseteq shm_region_t
      /\ base \in Nat /\ rs \in Nat /\ rs >= size
      /\ [buf |-> base, size |-> rs] \notin raw
      /\ \A b \in Buffer : InSegment(b) =>
            InSegment(b)' /\ Apart(base, rs, b.buf, b.class_size)
      /\ \A r \in raw' : \E s \in segments' : s.buf = r.buf /\ s.size = r.size
      /\ \A s, u \in segments' : s # u => Apart(s.buf, s.size, u.buf, u.size)
      /\ \A s \in segments' : s.size > 0
  <2>1. size \in Nat /\ size > 0 /\ raw' = raw
    BY Zenon, <1>3, <1>4, <1>5
  <2> HIDE DEF size
  <2> QED
    BY Zenon, <1>2, <1>3, <2>1, NewSegmentInv
<1>7. /\ t \in Seq(Buffer)
      /\ t # <<>>
      /\ \A i \in DOMAIN t : /\ t[i] \in Buffer
                             /\ t[i].class_size = kMaxClassSize
                             /\ base <= t[i].buf
                             /\ t[i].buf + t[i].class_size <= base + size
      /\ \A i, j \in DOMAIN t : i # j => Disjoint(t[i], t[j])
  BY Zenon, <1>4, <1>5, <1>6, MaxBuffersFacts
<1>8. freelist[top] = <<>>
  BY SMTT(30), <1>4, <1>5 DEF Classes, top
<1> HIDE DEF t, rs, size
<1>9. /\ freelist'[top] = t
      /\ freelist' \in [Classes -> Seq(Buffer)]
      /\ \A c \in Classes \ {top} : freelist'[c] = freelist[c]
  <2>1. freelist[top] \o t = t
    BY <1>7, <1>8
  <2>2. freelist' = [freelist EXCEPT ![top] = t]
    BY <1>1, <1>4, <2>1 DEF t, size
  <2> QED
    BY <1>4, <1>7, <2>2
<1>10. \A c \in Classes : \A i \in DOMAIN freelist'[c] :
         \/ c = top /\ i \in DOMAIN t /\ freelist'[c][i] = t[i]
         \/ c # top /\ i \in DOMAIN freelist[c] /\ freelist'[c][i] = freelist[c][i]
  BY SMTT(30), <1>9
<1>11. TypeOK'
  <2>1. [shm_key |-> key, buf |-> base, size |-> rs] \in shm_region_t
    BY <1>6, ConstantsAssumption DEF shm_region_t
  <2>2. shm_list' \in Seq(shm_region_t)
    BY Zenon, <1>2, <1>4, <2>1, PushOne
  <2>3. shm_reserved' \in Nat
    BY SMTT(30), <1>2, <1>4, <1>6
  <2> QED
    BY SMTT(30), <1>3, <1>6, <1>9, <2>2, <2>3 DEF IInv, TypeOK
<1>12. ClassSizes'
  BY Zenon, <1>3, <1>7, <1>10 DEF IInv, ClassSizes, kMaxClassSize
<1>13. Reservation'
  BY <1>3 DEF IInv, Reservation
<1>14. SplitAsserts'
  <2>1. size_class <= top /\ size_class \in Nat /\ top \in Nat
    BY <1>4 DEF Classes, top
  <2>2. \A c \in size_class .. top - 1 : c \in Classes \ {top} /\ c \in size_class .. top
    BY <2>1 DEF Classes, top
  <2>3. \A c \in size_class .. top - 1 : freelist'[c] = <<>>
    BY <1>5, <1>9, <2>2
  <2> QED
    BY <1>3, <1>7, <1>9, <2>1, <2>3 DEF SplitAsserts
<1>15. Backed'
  <2>1. ASSUME NEW b \in Buffer, base <= b.buf, b.buf + b.class_size <= base + rs
        PROVE  InSegment(b)'
    <3> DEFINE s == [shm_key |-> key, buf |-> base, size |-> rs]
    <3>1. s \in segments' /\ s.buf = base /\ s.size = rs
      BY SMTT(30), <1>2 DEF NewSegment
    <3>2. [buf |-> s.buf, size |-> s.size] \notin raw'
      BY SMTT(30), <1>3, <1>6
    <3> HIDE DEF s
    <3> QED
      BY SMTT(30), <2>1, <3>1, <3>2 DEF InSegment, IsRaw
  <2>2. \A i \in DOMAIN t : /\ t[i] \in Buffer
                            /\ base <= t[i].buf
                            /\ t[i].buf + t[i].class_size <= base + rs
    <3> SUFFICES ASSUME NEW i \in DOMAIN t
                 PROVE  /\ t[i] \in Buffer
                        /\ base <= t[i].buf
                        /\ t[i].buf + t[i].class_size <= base + rs
      BY SMTT(30)
    <3> DEFINE b == t[i]
    <3>1. b \in Buffer /\ base <= b.buf /\ b.buf + b.class_size <= base + size
      BY <1>7
    <3>2. base \in Nat /\ rs \in Nat /\ size \in Nat /\ rs >= size
      BY <1>4, <1>6
    <3> HIDE DEF b
    <3>3. b.buf \in Nat /\ b.class_size \in Nat
      BY <3>1 DEF Buffer
    <3>4. b.buf + b.class_size <= base + rs
      BY ONLY <3>1, <3>2, <3>3
    <3> QED
      BY <3>1, <3>4 DEF b
  <2>3. ASSUME NEW c \in Classes, NEW i \in DOMAIN freelist'[c],
               NEW b \in Buffer, b = freelist'[c][i]
        PROVE  InSegment(b)'
    <3>1. CASE c = top
      BY SMTT(30), <1>10, <2>1, <2>2, <2>3, <3>1
    <3>2. CASE c # top
      <4>1. i \in DOMAIN freelist[c] /\ b = freelist[c][i]
        BY Zenon, <1>10, <2>3, <3>2
      <4>2. InSegment(b)
        BY Zenon, <1>3, <4>1 DEF IInv, Backed
      <4>3. \A x \in Buffer : InSegment(x) => InSegment(x)'
        BY Zenon, <1>6
      <4> QED
        BY Zenon, <4>2, <4>3
    <3> QED
      BY SMTT(30), <3>1, <3>2
  <2>4. ASSUME NEW h \in held PROVE InSegment(h)'
    BY Zenon, <1>3, <1>4, <1>6 DEF IInv, Backed
  <2>5. \A c \in Classes : \A i \in DOMAIN freelist'[c] : freelist'[c][i] \in Buffer
    BY <1>9
  <2> QED
    BY Zenon, <1>3, <1>6, <2>3, <2>4, <2>5 DEF Backed, InSegment, IsRaw
<1>16. BuffersDisjoint'
  <2>1. \A i \in DOMAIN t : \A b \in Buffer :
          InSegment(b) => Disjoint(t[i], b) /\ Disjoint(b, t[i])
    <3> SUFFICES ASSUME NEW i \in DOMAIN t, NEW b \in Buffer, InSegment(b)
                 PROVE  Disjoint(t[i], b) /\ Disjoint(b, t[i])
      BY SMTT(30)
    <3>1. Apart(base, rs, b.buf, b.class_size)
      BY <1>6
    <3>2. /\ t[i].buf \in Nat /\ t[i].class_size \in Nat
          /\ base <= t[i].buf /\ t[i].buf + t[i].class_size <= base + size
      BY <1>7 DEF Buffer
    <3>3. b.buf \in Nat /\ b.class_size \in Nat
      BY SMTT(30) DEF Buffer
    <3>4. base \in Nat /\ rs \in Nat /\ size \in Nat /\ rs >= size
      BY <1>4, <1>6
    <3> QED
      BY <3>1, <3>2, <3>3, <3>4 DEF Disjoint, Apart
  <2>2. \A c \in Classes : \A i \in DOMAIN freelist[c] :
           freelist[c][i] \in Buffer /\ InSegment(freelist[c][i])
    BY Zenon, <1>3, <1>4a DEF IInv, Backed
  <2>3. \A h \in held : h \in Buffer /\ InSegment(h)
    BY <1>3, <1>4 DEF IInv, Backed
  <2>4. ASSUME NEW c \in Classes, NEW d \in Classes,
               NEW i \in DOMAIN freelist'[c], NEW j \in DOMAIN freelist'[d],
               c # d \/ i # j
        PROVE  Disjoint(freelist'[c][i], freelist'[d][j])
    <3> DEFINE x == freelist'[c][i]
               y == freelist'[d][j]
    <3>a. \/ c = top /\ i \in DOMAIN t /\ x = t[i]
          \/ c # top /\ i \in DOMAIN freelist[c] /\ x = freelist[c][i]
      BY Zenon, <1>10
    <3>b. \/ d = top /\ j \in DOMAIN t /\ y = t[j]
          \/ d # top /\ j \in DOMAIN freelist[d] /\ y = freelist[d][j]
      BY Zenon, <1>10
    <3> HIDE DEF x, y
    <3>1. CASE c # top /\ d # top
      <4>1. Disjoint(freelist[c][i], freelist[d][j])
        BY Zenon, <2>4, <3>1, <3>a, <3>b DEF IInv, BuffersDisjoint
      <4> QED
        BY Zenon, <3>1, <3>a, <3>b, <4>1 DEF x, y
    <3>2. CASE c = top /\ d # top
      <4>1. Disjoint(t[i], freelist[d][j])
        BY Zenon, <2>1, <2>2, <3>2, <3>a, <3>b
      <4> QED
        BY Zenon, <3>2, <3>a, <3>b, <4>1 DEF x, y
    <3>3. CASE c # top /\ d = top
      <4>1. Disjoint(freelist[c][i], t[j])
        BY Zenon, <2>1, <2>2, <3>3, <3>a, <3>b
      <4> QED
        BY Zenon, <3>3, <3>a, <3>b, <4>1 DEF x, y
    <3>4. CASE c = top /\ d = top
      <4>1. Disjoint(t[i], t[j])
        BY Zenon, <1>7, <2>4, <3>4, <3>a, <3>b
      <4> QED
        BY Zenon, <3>4, <3>a, <3>b, <4>1 DEF x, y
    <3> QED
      BY Zenon, <3>1, <3>2, <3>3, <3>4
  <2>5. \A c \in Classes : \A i \in DOMAIN freelist'[c], h \in held :
           Disjoint(freelist'[c][i], h)
    BY <1>10, <2>1, <2>3 DEF IInv, BuffersDisjoint
  <2>6. \A g, h \in held : g # h => Disjoint(g, h)
    BY DEF IInv, BuffersDisjoint
  <2> QED
    BY Zenon, <1>3, <2>4, <2>5, <2>6 DEF BuffersDisjoint, Disjoint
<1> QED
  BY <1>11, <1>12, <1>13, <1>14, <1>15, <1>16 DEF IInv

(* free_buf() keeps the invariant: the Buffer goes to the class of its     *)
(* size, and the user does not hold it any more.                           *)
LEMMA FreeBufInv == ASSUME IInv, NEW b \in held, FreeBuf(b) PROVE IInv'
<1>1. PICK c \in Classes :
        /\ class_max_size(c) = b.class_size
        /\ freelist' = [freelist EXCEPT ![c] = push_back(@, b)]
  BY Zenon DEF FreeBuf
<1>2. /\ pc = "idle" /\ pc' = "idle" /\ Alive
      /\ held' = held \ {b}
      /\ user_alloc_tot' = user_alloc_tot - b.class_size
      /\ UNCHANGED <<shm_list, prev_allocation_size, shm_reserved, segments, raw,
                     request, size_class, next_class>>
  BY DEF FreeBuf, Alive, locals
<1>3. /\ freelist \in [Classes -> Seq(Buffer)]
      /\ held \subseteq Buffer /\ b \in Buffer
      /\ user_alloc_tot \in Int
  BY DEF IInv, TypeOK
<1> DEFINE n == Len(freelist[c])
<1>4. /\ freelist[c] \in Seq(Buffer)
      /\ freelist'[c] = push_back(freelist[c], b)
      /\ \A d \in Classes \ {c} : freelist'[d] = freelist[d]
  BY SMTT(30), <1>1, <1>3
<1>5. /\ freelist'[c] \in Seq(Buffer)
      /\ n \in Nat
      /\ DOMAIN freelist[c] = 1 .. n
      /\ DOMAIN freelist'[c] = 1 .. n + 1
      /\ \A i \in 1 .. n : freelist'[c][i] = freelist[c][i]
      /\ freelist'[c][n + 1] = b
  <2> DEFINE s == freelist[c]
             t == freelist'[c]
  <2>1. s \in Seq(Buffer) /\ b \in Buffer /\ t = push_back(s, b)
    BY SMTT(30), <1>3, <1>4
  <2> HIDE DEF s, t
  <2>2. /\ t \in Seq(Buffer) /\ Len(s) \in Nat
        /\ DOMAIN s = 1 .. Len(s) /\ DOMAIN t = 1 .. Len(s) + 1
        /\ \A i \in 1 .. Len(s) : t[i] = s[i]
        /\ t[Len(s) + 1] = b
    BY ONLY <2>1 DEF push_back
  <2> QED
    BY <2>2 DEF s, t
<1> HIDE DEF n
<1>6. freelist' \in [Classes -> Seq(Buffer)]
  BY SMTT(30), <1>1, <1>3, <1>4, <1>5
<1> DEFINE new == n + 1
<1>7. \A d \in Classes : \A i \in DOMAIN freelist'[d] :
        \/ i \in DOMAIN freelist[d] /\ freelist'[d][i] = freelist[d][i]
        \/ d = c /\ i = new /\ freelist'[d][i] = b
  <2>1. \A i \in DOMAIN freelist'[c] :
           \/ i \in DOMAIN freelist[c] /\ freelist'[c][i] = freelist[c][i]
           \/ i = new /\ freelist'[c][i] = b
    BY <1>5
  <2>2. ASSUME NEW d \in Classes, d # c, NEW i \in DOMAIN freelist'[d]
        PROVE  i \in DOMAIN freelist[d] /\ freelist'[d][i] = freelist[d][i]
    BY Zenon, <1>4, <2>2
  <2> QED
    BY Zenon, <2>1, <2>2
<1> HIDE DEF new
<1>8. TypeOK'
  <2>1. user_alloc_tot' \in Int
    BY <1>2, <1>3 DEF Buffer
  <2> QED
    BY <1>2, <1>3, <1>6, <2>1 DEF IInv, TypeOK
<1>9. ClassSizes'
  <2>1. \A d \in Classes : \A i \in DOMAIN freelist'[d] :
           freelist'[d][i].class_size = class_max_size(d)
    BY Zenon, <1>1, <1>7 DEF IInv, ClassSizes
  <2>2. \A h \in held' : h.class_size \in Nat \ {0}
    BY <1>2 DEF IInv, ClassSizes
  <2> QED
    BY <2>1, <2>2 DEF ClassSizes, class_max_size
<1>10. Reservation' /\ SplitAsserts'
  BY SMTT(30), <1>2 DEF IInv, Reservation, SplitAsserts
<1>11. Backed'
  <2>1. \A d \in Buffer : InSegment(d) => InSegment(d)'
    BY SMTT(30), <1>2 DEF InSegment, IsRaw
  <2>2. InSegment(b) /\ \A d \in Classes : \A i \in DOMAIN freelist[d] :
           freelist[d][i] \in Buffer /\ InSegment(freelist[d][i])
    <3>1. \A d \in Classes : \A i \in DOMAIN freelist[d] : freelist[d][i] \in Buffer
      BY <1>3
    <3> QED
      BY Zenon, <1>2, <3>1 DEF IInv, Backed
  <2>3. ASSUME NEW d \in Classes, NEW i \in DOMAIN freelist'[d],
               NEW e \in Buffer, e = freelist'[d][i]
        PROVE  InSegment(e)'
    <3>1. e = b \/ (i \in DOMAIN freelist[d] /\ e = freelist[d][i])
      BY Zenon, <1>7, <2>3
    <3>2. InSegment(e)
      BY Zenon, <2>2, <3>1
    <3> QED
      BY Zenon, <2>1, <3>2
  <2>4. \A d \in Classes : \A i \in DOMAIN freelist'[d] : freelist'[d][i] \in Buffer
    BY SMTT(30), <1>6
  <2>5. ASSUME NEW h \in held PROVE InSegment(h)'
    <3>1. h \in Buffer
      BY Zenon, <1>3
    <3>2. InSegment(h)
      BY Zenon, <1>2 DEF IInv, Backed
    <3> QED
      BY Zenon, <2>1, <3>1, <3>2
  <2>6. /\ \A r \in raw' : \E s \in segments' : s.buf = r.buf /\ s.size = r.size
        /\ \A s, t \in segments' : s # t => Apart(s.buf, s.size, t.buf, t.size)
        /\ \A s \in segments' : s.size > 0
    BY Zenon, <1>2 DEF IInv, Backed
  <2> QED
    BY Zenon, <1>2, <2>3, <2>4, <2>5, <2>6 DEF Backed, InSegment, IsRaw, Apart
<1>12. BuffersDisjoint'
  <2>1. \A d \in Classes : \A i \in DOMAIN freelist[d] :
           Disjoint(freelist[d][i], b) /\ Disjoint(b, freelist[d][i])
    <3> SUFFICES ASSUME NEW d \in Classes, NEW i \in DOMAIN freelist[d]
                 PROVE  Disjoint(freelist[d][i], b) /\ Disjoint(b, freelist[d][i])
      OBVIOUS
    <3>1. Disjoint(freelist[d][i], b)
      BY SMTT(30) DEF IInv, BuffersDisjoint
    <3> QED
      BY <3>1 DEF Disjoint, Apart
  <2>2. ASSUME NEW d \in Classes, NEW e \in Classes,
               NEW i \in DOMAIN freelist'[d], NEW j \in DOMAIN freelist'[e],
               d # e \/ i # j
        PROVE  Disjoint(freelist'[d][i], freelist'[e][j])
    <3>1. \/ i \in DOMAIN freelist[d] /\ freelist'[d][i] = freelist[d][i]
          \/ d = c /\ i = new /\ freelist'[d][i] = b
      BY Zenon, <1>7
    <3>2. \/ j \in DOMAIN freelist[e] /\ freelist'[e][j] = freelist[e][j]
          \/ e = c /\ j = new /\ freelist'[e][j] = b
      BY Zenon, <1>7
    <3>3. CASE i \in DOMAIN freelist[d] /\ freelist'[d][i] = freelist[d][i]
      <4>1. CASE j \in DOMAIN freelist[e] /\ freelist'[e][j] = freelist[e][j]
        BY Zenon, <2>2, <3>3, <4>1 DEF IInv, BuffersDisjoint
      <4>2. CASE freelist'[e][j] = b
        BY Zenon, <2>1, <3>3, <4>2
      <4> QED
        BY Zenon, <3>2, <4>1, <4>2
    <3>4. CASE d = c /\ i = new /\ freelist'[d][i] = b
      <4>1. j \in DOMAIN freelist[e] /\ freelist'[e][j] = freelist[e][j]
        BY Zenon, <2>2, <3>2, <3>4
      <4> QED
        BY Zenon, <2>1, <3>4, <4>1
    <3> QED
      BY Zenon, <3>1, <3>3, <3>4
  <2>3. \A d \in Classes : \A i \in DOMAIN freelist'[d], h \in held' :
           Disjoint(freelist'[d][i], h)
    BY Zenon, <1>2, <1>7 DEF IInv, BuffersDisjoint
  <2>4. \A g, h \in held' : g # h => Disjoint(g, h)
    BY Zenon, <1>2 DEF IInv, BuffersDisjoint
  <2> QED
    BY Zenon, <2>2, <2>3, <2>4 DEF BuffersDisjoint, Disjoint
<1> QED
  BY <1>8, <1>9, <1>10, <1>11, <1>12 DEF IInv

(* A failed assert and the destructor touch no Buffer.                     *)
LEMMA EndInv ==
    ASSUME IInv, AssertFails \/ Destroy \/ delete_shm \/ DestroyEnd
    PROVE  IInv'
<1>1. /\ UNCHANGED <<freelist, shm_list, prev_allocation_size, shm_reserved,
                     user_alloc_tot, held, raw, request, size_class>>
      /\ segments' \subseteq segments
      /\ next_class' \in Nat
      /\ pc' \in {"destroy", "destroyed", "exited", "aborted"}
  <2>1. next_class \in Nat
    BY SMTT(30) DEF IInv, TypeOK
  <2>2. CASE AssertFails
    BY <2>1, <2>2 DEF AssertFails, locals
  <2>3. CASE Destroy
    BY SMTT(30), <2>1, <2>3 DEF Destroy
  <2>4. CASE delete_shm
    BY SMTT(30), <2>1, <2>4 DEF delete_shm
  <2>5. CASE DestroyEnd
    BY <2>1, <2>5 DEF DestroyEnd, locals
  <2> QED
    BY <2>2, <2>3, <2>4, <2>5
<1>2. TypeOK'
  BY <1>1 DEF IInv, TypeOK
<1>3. Reservation' /\ SplitAsserts' /\ Backed'
  BY Zenon, <1>1 DEF IInv, Reservation, SplitAsserts, Backed, Alive
<1> QED
  BY SMTT(30), <1>1, <1>2, <1>3, SameBuffers DEF IInv

(* IInv is inductive: every step of the allocator preserves it.            *)
LEMMA InductiveStep == IInv /\ [Next]_vars => IInv'
<1> SUFFICES ASSUME IInv, [Next]_vars PROVE IInv'
  OBVIOUS
<1>1. CASE UNCHANGED vars
  BY Zenon, <1>1 DEF vars, locals, IInv, TypeOK, ClassSizes, Reservation, SplitAsserts,
              Backed, Alive, BuffersDisjoint, InSegment, IsRaw, Apart, Disjoint
<1>2. ASSUME NEW size \in Sizes, AllocHit(size) PROVE IInv'
  BY <1>2, AllocHitInv
<1>3. ASSUME NEW size \in Sizes, AllocMiss(size) PROVE IInv'
  BY <1>3, AllocMissInv
<1>4. ASSUME NEW size \in RawSizes, AllocRaw(size) PROVE IInv'
  BY <1>4, AllocRawInv
<1>5. ASSUME NEW b \in held, FreeBuf(b) PROVE IInv'
  BY <1>5, FreeBufInv
<1>6. CASE Proceed
  BY <1>6, ReserveOkInv, ReserveFailsInv, SplitInv, AllocReturnInv, EndInv
     DEF Proceed
<1>7. CASE Destroy \/ AssertFails
  BY <1>7, EndInv
<1>8. CASE Gone
  BY <1>1, <1>8 DEF Gone
<1> QED
  BY <1>1, <1>2, <1>3, <1>4, <1>5, <1>6, <1>7, <1>8 DEF Next

(* The inductive invariant holds in every reachable state of the           *)
(* allocator, for every class count, region size and set of requests.      *)
THEOREM Inductive == Spec => []IInv
BY InitInv, InductiveStep, PTL DEF Spec

(* Type correctness.                                                       *)
THEOREM TypeCorrect == Spec => []TypeOK
<1>1. IInv => TypeOK
  BY DEF IInv
<1> QED
  BY <1>1, Inductive, PTL

(* No byte is in two Buffers: what alloc() hands out overlaps neither      *)
(* another Buffer in use nor a free one, and no Buffer is twice in the     *)
(* freelists.                                                              *)
THEOREM NoOverlap == Spec => []BuffersDisjoint
<1>1. IInv => BuffersDisjoint
  BY DEF IInv
<1> QED
  BY <1>1, Inductive, PTL

(* The asserts of split() and the one before the final alloc_from_class()  *)
(* hold whenever alloc() reaches them.                                     *)
THEOREM SplitIsSafe == Spec => []SplitAsserts
<1>1. IInv => SplitAsserts
  BY DEF IInv
<1> QED
  BY <1>1, Inductive, PTL
------------------------------------------------------------------------------
(* The class get_class() computes is large enough for the size, whatever   *)
(* bsrl leaves behind for a size of the first class.                       *)
LEMMA ClassFits ==
    ASSUME NEW size \in Sizes, NEW c \in get_class(size) \cap Classes
    PROVE  size <= class_max_size(c)
<1> DEFINE x == (size - 1) \div kMinClassSize
           p == 2^c
<1>1. size \in Nat \ {0} /\ kMinClassSize \in Nat \ {0} /\ size - 1 \in Nat
  BY ConstantsAssumption
<1>2. x \in Nat /\ size - 1 < x * kMinClassSize + kMinClassSize
  BY <1>1, DivBounds
<1>3. p \in Nat \ {0}
  BY PowersOfTwo
<1>4. x + 1 <= p
  <2>1. CASE x = 0
    BY <1>3, <2>1
  <2>2. CASE x # 0
    <3>1. x < p
      BY <2>2 DEF get_class, msb_index
    <3> QED
      BY <1>2, <1>3, <3>1
  <2> QED
    BY <2>1, <2>2
<1> HIDE DEF x, p
<1>5. (x + 1) * kMinClassSize <= p * kMinClassSize
  BY <1>1, <1>2, <1>3, <1>4, MulMonotone
<1>6. (x + 1) * kMinClassSize = x * kMinClassSize + kMinClassSize
  BY <1>1, <1>2
<1>7. class_max_size(c) = p * kMinClassSize
  BY <1>1, <1>3 DEF class_max_size, p
<1>8. x * kMinClassSize \in Nat /\ p * kMinClassSize \in Nat
  BY <1>1, <1>2, <1>3
<1> QED
  BY <1>1, <1>2, <1>5, <1>6, <1>7, <1>8

(* While alloc() runs, the class it works for is large enough.             *)
RequestFits ==
    pc \in {"reserve", "split"} =>
        request \in Sizes /\ request <= class_max_size(size_class)

(* The size that alloc() works for stays within its class.                 *)
LEMMA RequestStep == RequestFits /\ [Next]_vars => RequestFits'
<1> SUFFICES ASSUME RequestFits, [Next]_vars PROVE RequestFits'
  OBVIOUS
<1>1. ASSUME NEW size \in Sizes, AllocMiss(size) PROVE RequestFits'
  <2>1. PICK c \in get_class(size) \cap Classes : size_class' = c
    BY <1>1 DEF AllocMiss
  <2>2. size <= class_max_size(c)
    BY SMTT(30), ClassFits
  <2>3. request' = size
    BY <1>1 DEF AllocMiss
  <2> QED
    BY SMTT(30), <2>1, <2>2, <2>3 DEF RequestFits, class_max_size
<1>2. CASE /\ UNCHANGED <<request, size_class>>
           /\ pc' \in {"reserve", "split"} => pc \in {"reserve", "split"}
  BY <1>2 DEF RequestFits, class_max_size
<1>3. CASE pc' = "idle"
  BY <1>3 DEF RequestFits
<1>4. ASSUME NEW size \in Sizes, AllocHit(size) PROVE pc' = "idle"
  BY <1>4 DEF AllocHit
<1>5. ASSUME NEW size \in RawSizes, AllocRaw(size) PROVE pc' = "idle"
  BY <1>5 DEF AllocRaw
<1>6. ASSUME NEW b \in held, FreeBuf(b) PROVE pc' = "idle"
  BY <1>6 DEF FreeBuf
<1>7. CASE ReserveENOMEM \/ ReserveThrows \/ AllocReturn
  BY SMTT(30), <1>3, <1>7 DEF ReserveENOMEM, ReserveThrows, AllocReturn, Return
<1>8. CASE ReserveOk \/ Split
  BY <1>2, <1>8 DEF ReserveOk, Split
<1>9. CASE \/ delete_shm \/ DestroyEnd \/ Destroy \/ AssertFails \/ Gone
           \/ UNCHANGED vars
  BY Zenon, <1>2, <1>9 DEF delete_shm, DestroyEnd, Destroy, AssertFails, Gone, vars, locals
<1> QED
  BY <1>1, <1>3, <1>4, <1>5, <1>6, <1>7, <1>8, <1>9 DEF Next, Proceed

LEMMA PositiveIsGreater == \A n \in Nat \ {0} : n > 0
OBVIOUS

(* A Buffer taken from a class that is large enough is an abstract         *)
(* allocation: it is new to the user and overlaps nothing the user has.    *)
LEMMA TakenIsAllocated ==
    ASSUME IInv, Alive, NEW c \in Classes, freelist[c] # <<>>,
           alloc_from_class(c), raw' = raw,
           NEW size \in Sizes, size <= class_max_size(c)
    PROVE  A!Alloc(size)
<1> DEFINE n == Len(freelist[c])
           b == freelist[c][n]
<1>1. /\ freelist[c] \in Seq(Buffer) /\ held \subseteq Buffer
      /\ segments \subseteq shm_region_t
  BY DEF IInv, TypeOK
<1>2. n \in DOMAIN freelist[c] /\ b \in Buffer
  <2> DEFINE s == freelist[c]
  <2>1. s \in Seq(Buffer) /\ s # <<>>
    BY Zenon, <1>1
  <2> HIDE DEF s
  <2>2. Len(s) \in DOMAIN s /\ s[Len(s)] \in Buffer
    BY <2>1
  <2> QED
    BY Zenon, <2>2 DEF s
<1>3. held' = held \cup {b}
  BY Zenon DEF alloc_from_class, back
<1>4. b.class_size = class_max_size(c) /\ b.class_size \in Nat \ {0}
  BY SMTT(30), <1>2, DoublingLaw DEF IInv, ClassSizes
<1>5. \A h \in held : Disjoint(b, h)
  BY <1>2 DEF IInv, BuffersDisjoint
<1>6. PICK s \in segments : /\ ~IsRaw(s)
                            /\ s.buf <= b.buf
                            /\ b.buf + b.class_size <= s.buf + s.size
  BY Zenon, <1>2 DEF IInv, Backed, InSegment
<1> HIDE DEF b
<1>7. b.buf \in Nat /\ b.class_size \in Nat /\ s.buf \in Nat /\ s.size \in Nat
  BY SMTT(30), <1>1, <1>2 DEF Buffer, shm_region_t
<1> DEFINE buf == b.buf
           len == b.class_size
<1>8. b \notin held
  <2>1. len > 0 /\ buf \in Nat /\ len \in Nat
    BY Zenon, <1>4, <1>7, PositiveIsGreater
  <2> HIDE DEF buf, len
  <2>2. ~(buf + len <= buf)
    BY <2>1
  <2>3. ~Disjoint(b, b)
    BY Zenon, <2>2 DEF Disjoint, Apart, buf, len
  <2> QED
    BY Zenon, <1>5, <2>3
<1>9. \A h \in held : b.buf + b.class_size <= h.buf
                      \/ h.buf + h.class_size <= b.buf
  BY Zenon, <1>5 DEF Disjoint, Apart
<1>10. ASSUME NEW r \in raw
       PROVE  b.buf + b.class_size <= r.buf \/ r.buf + r.size <= b.buf
  <2>1. r = [buf |-> r.buf, size |-> r.size] /\ r.buf \in Nat /\ r.size \in Nat
    BY SMTT(30) DEF IInv, TypeOK
  <2>2. PICK u \in segments : u.buf = r.buf /\ u.size = r.size
    BY DEF IInv, Backed
  <2>3. IsRaw(u)
    BY <2>1, <2>2 DEF IsRaw
  <2>4. Apart(s.buf, s.size, u.buf, u.size)
    BY Zenon, <1>6, <2>3 DEF IInv, Backed
  <2> QED
    BY SMTT(30), <1>6, <1>7, <2>1, <2>2, <2>4 DEF Apart
<1>11. b \in A!Buffer /\ b.class_size >= size
  BY SMTT(30), <1>2, <1>4, ConstantsAssumption DEF Buffer, A!Buffer
<1> QED
  BY <1>3, <1>8, <1>9, <1>10, <1>11 DEF A!Alloc, A!Unused

(* alloc_raw() is an abstract raw allocation when it succeeds, and leaves  *)
(* the user's memory alone when it throws.                                 *)
LEMMA RawIsAllocated ==
    ASSUME IInv, NEW size \in RawSizes, AllocRaw(size)
    PROVE  A!AllocRaw(size) \/ UNCHANGED <<held, raw>>
<1>1. CASE alloc_raw_throws(size) /\ UNCHANGED raw
  BY SMTT(30), <1>1 DEF AllocRaw
<1>2. ASSUME NEW base \in Bases, alloc_raw_ok(size, base),
             raw' = raw \cup {[buf |-> base, size |-> round_up(size)]}
      PROVE  A!AllocRaw(size)
  <2> DEFINE r == [buf |-> base, size |-> round_up(size)]
  <2>1. PICK key \in Keys : NewSegment(key, base, round_up(size))
    BY SMTT(30), <1>2 DEF alloc_raw_ok
  <2>2. size \in Nat /\ size > 0 /\ Alive /\ held' = held
    BY SMTT(30), ConstantsAssumption DEF AllocRaw, Alive
  <2>3. /\ base \in Nat /\ round_up(size) \in Nat /\ round_up(size) >= size
        /\ r \notin raw
        /\ \A b \in Buffer : InSegment(b) =>
              Apart(base, round_up(size), b.buf, b.class_size)
        /\ \A q \in raw : Apart(base, round_up(size), q.buf, q.size)
    BY SMTT(30), <1>2, <2>1, <2>2, NewSegmentInv
  <2>4. \A h \in held : h \in Buffer /\ InSegment(h)
    BY SMTT(30), <2>2 DEF IInv, TypeOK, Backed
  <2>5. \A h \in held : Apart(base, round_up(size), h.buf, h.class_size)
    BY SMTT(30), <2>3, <2>4
  <2>6. r \in A!Region /\ r.buf = base /\ r.size = round_up(size)
    BY SMTT(30), <2>3 DEF A!Region
  <2>7. A!Unused(r.buf, r.size)
    BY SMTT(30), <2>3, <2>5, <2>6 DEF A!Unused, Apart
  <2>8. r \in raw' \ raw /\ raw' = raw \cup {r}
    BY <1>2, <2>3
  <2> HIDE DEF r
  <2> QED
    BY SMTT(30), <2>2, <2>3, <2>6, <2>7, <2>8 DEF A!AllocRaw
<1> QED
  BY <1>1, <1>2 DEF AllocRaw

(* Every step of the allocator is a step of what its users rely on, or     *)
(* changes nothing the user has.                                           *)
LEMMA StepRefines ==
    ASSUME IInv, RequestFits, [Next]_vars
    PROVE  [A!Next]_<<held, raw>>
<1>1. ASSUME NEW size \in Sizes, AllocHit(size) PROVE A!Alloc(size)
  <2>1. PICK c \in get_class(size) \cap Classes :
           freelist[c] # <<>> /\ alloc_from_class(c)
    BY SMTT(30), <1>1 DEF AllocHit
  <2>2. Alive /\ raw' = raw
    BY <1>1 DEF AllocHit, Alive
  <2>3. size <= class_max_size(c)
    BY ClassFits
  <2> QED
    BY SMTT(30), <2>1, <2>2, <2>3, TakenIsAllocated
<1>2. CASE AllocReturn
  <2>1. /\ Alive /\ raw' = raw /\ alloc_from_class(size_class)
        /\ freelist[size_class] # <<>> /\ size_class \in Classes
    BY <1>2 DEF AllocReturn, Alive, IInv, SplitAsserts
  <2>2. request \in Sizes /\ request <= class_max_size(size_class)
    BY SMTT(30), <1>2 DEF AllocReturn, RequestFits
  <2>3. A!Alloc(request)
    BY <2>1, <2>2, TakenIsAllocated
  <2> QED
    BY SMTT(30), <2>2, <2>3 DEF A!Next
<1>3. ASSUME NEW size \in RawSizes, AllocRaw(size)
      PROVE  A!AllocRaw(size) \/ UNCHANGED <<held, raw>>
  BY <1>3, RawIsAllocated
<1>4. ASSUME NEW b \in held, FreeBuf(b) PROVE A!Free(b)
  BY <1>4 DEF FreeBuf, A!Free
<1>5. ASSUME NEW size \in Sizes, AllocMiss(size) PROVE UNCHANGED <<held, raw>>
  BY Zenon, <1>5 DEF AllocMiss
<1>6. CASE \/ ReserveOk \/ ReserveENOMEM \/ ReserveThrows \/ Split \/ delete_shm
           \/ DestroyEnd \/ Destroy \/ AssertFails \/ Gone \/ UNCHANGED vars
  BY Zenon, <1>6 DEF ReserveOk, ReserveENOMEM, ReserveThrows, Split, delete_shm,
              DestroyEnd, Destroy, AssertFails, Gone, vars
<1> QED
  BY SMTT(30), <1>1, <1>2, <1>3, <1>4, <1>5, <1>6 DEF Next, Proceed, A!Next

(* The allocator implements Allocator: all that alloc() and alloc_raw()    *)
(* return is large enough and overlaps nothing the user already has.       *)
THEOREM Refinement == Spec => ImplementsAllocator
<1>1. Init => A!Init /\ RequestFits
  BY DEF Init, A!Init, RequestFits
<1>2. IInv /\ RequestFits /\ [Next]_vars => [A!Next]_<<held, raw>>
  BY StepRefines
<1>3. Spec => []RequestFits
  BY <1>1, RequestStep, PTL DEF Spec
<1> QED
  BY <1>1, <1>2, <1>3, Inductive, PTL DEF Spec, A!Spec, ImplementsAllocator
------------------------------------------------------------------------------
(* What a vector holds after push_back(), pop_back() and concatenation.    *)
LEMMA RangePush ==
    ASSUME NEW S, NEW s \in Seq(S), NEW a \in S
    PROVE  Range(push_back(s, a)) = Range(s) \cup {a}
<1> DEFINE t == push_back(s, a)
<1>1. /\ DOMAIN t = 1 .. Len(s) + 1 /\ DOMAIN s = 1 .. Len(s) /\ Len(s) \in Nat
      /\ \A i \in 1 .. Len(s) : t[i] = s[i]
      /\ t[Len(s) + 1] = a
  BY DEF push_back
<1>2. \A i \in 1 .. Len(s) + 1 : i \in 1 .. Len(s) \/ i = Len(s) + 1
  BY <1>1
<1>3. 1 .. Len(s) \subseteq DOMAIN t /\ Len(s) + 1 \in DOMAIN t
  BY <1>1
<1> HIDE DEF t
<1>4. Range(t) = Range(s) \cup {a}
  BY <1>1, <1>2, <1>3 DEF Range
<1> QED
  BY <1>4 DEF t

LEMMA RangePop ==
    ASSUME NEW S, NEW s \in Seq(S), s # <<>>
    PROVE  Range(s) = Range(pop_back(s)) \cup {back(s)}
<1>1. /\ DOMAIN pop_back(s) = 1 .. Len(s) - 1 /\ DOMAIN s = 1 .. Len(s)
      /\ \A i \in 1 .. Len(s) - 1 : pop_back(s)[i] = s[i]
      /\ Len(s) \in Nat \ {0}
  BY PopBack
<1>2. \A i \in DOMAIN s : i \in 1 .. Len(s) - 1 \/ i = Len(s)
  BY <1>1
<1>3. 1 .. Len(s) - 1 \subseteq DOMAIN s /\ Len(s) \in DOMAIN s
  BY <1>1
<1> QED
  BY <1>1, <1>2, <1>3 DEF Range, back

LEMMA RangeConcat ==
    ASSUME NEW S, NEW s \in Seq(S), NEW t \in Seq(S)
    PROVE  Range(s \o t) = Range(s) \cup Range(t)
<1>1. /\ DOMAIN s = 1 .. Len(s) /\ DOMAIN t = 1 .. Len(t)
      /\ DOMAIN (s \o t) = 1 .. Len(s) + Len(t)
      /\ Len(s) \in Nat /\ Len(t) \in Nat
      /\ \A i \in 1 .. Len(s) : (s \o t)[i] = s[i]
      /\ \A i \in 1 .. Len(t) : (s \o t)[Len(s) + i] = t[i]
  OBVIOUS
<1>2. \A i \in 1 .. Len(s) + Len(t) : i \in 1 .. Len(s) \/ i - Len(s) \in 1 .. Len(t)
  BY <1>1
<1>3. ASSUME NEW x \in Range(s \o t) PROVE x \in Range(s) \cup Range(t)
  <2>1. PICK i \in 1 .. Len(s) + Len(t) : x = (s \o t)[i]
    BY <1>1 DEF Range
  <2>2. CASE i \in 1 .. Len(s)
    BY <1>1, <2>1, <2>2 DEF Range
  <2>3. CASE i - Len(s) \in 1 .. Len(t)
    <3>1. x = t[i - Len(s)]
      BY <1>1, <2>1, <2>3
    <3> QED
      BY <1>1, <2>3, <3>1 DEF Range
  <2> QED
    BY <1>2, <2>2, <2>3
<1>4. ASSUME NEW x \in Range(s) \cup Range(t) PROVE x \in Range(s \o t)
  <2>1. CASE x \in Range(s)
    <3>1. PICK i \in 1 .. Len(s) : x = s[i]
      BY <1>1, <2>1 DEF Range
    <3>2. i \in 1 .. Len(s) + Len(t) /\ x = (s \o t)[i]
      BY <1>1, <3>1
    <3> QED
      BY <1>1, <3>2 DEF Range
  <2>2. CASE x \in Range(t)
    <3>1. PICK i \in 1 .. Len(t) : x = t[i]
      BY <1>1, <2>2 DEF Range
    <3>2. Len(s) + i \in 1 .. Len(s) + Len(t) /\ x = (s \o t)[Len(s) + i]
      BY <1>1, <3>1
    <3> QED
      BY <1>1, <3>2 DEF Range
  <2> QED
    BY <2>1, <2>2
<1> QED
  BY <1>3, <1>4

(* A Buffer that is free or held after a step covers what it covers.       *)
LEMMA CoveredBy ==
    ASSUME NEW a, NEW b \in FreeBuffers' \cup held', b.buf <= a, a < b.buf + b.class_size
    PROVE  Covered(a)'
BY DEF Covered

(* The Buffer that covers a is free in a class, or held.                   *)
LEMMA FreeIn ==
    FreeBuffers = UNION {Range(freelist[c]) : c \in Classes}
BY DEF FreeBuffers, Free, Range

(* A step after which every Buffer is still free or held loses no byte.    *)
LEMMA KeepsBuffers ==
    ASSUME FreeBuffers \cup held \subseteq FreeBuffers' \cup held', NEW a, Covered(a)
    PROVE  Covered(a)'
BY DEF Covered

(* alloc_from_class(): the Buffer goes from the freelist to the user.      *)
LEMMA TakeKeeps ==
    ASSUME IInv, NEW c \in Classes, freelist[c] # <<>>, alloc_from_class(c)
    PROVE  FreeBuffers \cup held \subseteq FreeBuffers' \cup held'
<1>1. freelist \in [Classes -> Seq(Buffer)] /\ freelist[c] \in Seq(Buffer)
  BY DEF IInv, TypeOK
<1>2. /\ freelist' = [freelist EXCEPT ![c] = pop_back(freelist[c])]
      /\ held' = held \cup {back(freelist[c])}
  BY <1>1 DEF alloc_from_class
<1>3. Range(freelist[c]) = Range(pop_back(freelist[c])) \cup {back(freelist[c])}
  BY <1>1, RangePop
<1>4. \A d \in Classes : freelist'[d] = IF d = c THEN pop_back(freelist[c]) ELSE freelist[d]
  BY <1>1, <1>2
<1>5. \A d \in Classes : Range(freelist[d]) \subseteq Range(freelist'[d]) \cup held'
  BY <1>2, <1>3, <1>4
<1>6. FreeBuffers' = UNION {Range(freelist'[d]) : d \in Classes}
  BY DEF FreeBuffers, Free, Range
<1> QED
  BY <1>2, <1>5, <1>6, FreeIn

(* free_buf(): the Buffer goes from the user to its freelist.              *)
LEMMA FreeKeeps ==
    ASSUME IInv, NEW b \in held, FreeBuf(b)
    PROVE  FreeBuffers \cup held \subseteq FreeBuffers' \cup held'
<1>1. PICK c \in Classes : freelist' = [freelist EXCEPT ![c] = push_back(@, b)]
  BY Zenon DEF FreeBuf
<1>2. /\ freelist \in [Classes -> Seq(Buffer)] /\ freelist[c] \in Seq(Buffer)
      /\ b \in Buffer /\ held' = held \ {b}
  BY DEF IInv, TypeOK, FreeBuf
<1>3. Range(push_back(freelist[c], b)) = Range(freelist[c]) \cup {b}
  BY <1>2, RangePush
<1>4. \A d \in Classes : freelist'[d] = IF d = c THEN push_back(freelist[c], b) ELSE freelist[d]
  BY <1>1, <1>2
<1>5. /\ \A d \in Classes : Range(freelist[d]) \subseteq Range(freelist'[d])
      /\ b \in Range(freelist'[c])
  BY <1>3, <1>4
<1>6. FreeBuffers' = UNION {Range(freelist'[d]) : d \in Classes}
  BY DEF FreeBuffers, Free, Range
<1> QED
  BY <1>2, <1>5, <1>6, FreeIn

(* reserve_hugepages(): the freelist of the largest class grows.           *)
LEMMA ReserveKeeps ==
    ASSUME IInv, NEW base \in Bases,
           freelist' = [freelist EXCEPT ![top] =
                           @ \o MaxBuffers(base, prev_allocation_size)],
           held' = held
    PROVE  /\ FreeBuffers \cup held \subseteq FreeBuffers' \cup held'
           /\ Range(MaxBuffers(base, prev_allocation_size)) \subseteq FreeBuffers'
<1> DEFINE t == MaxBuffers(base, prev_allocation_size)
<1>1. freelist \in [Classes -> Seq(Buffer)] /\ freelist[top] \in Seq(Buffer)
  BY ClassFacts DEF IInv, TypeOK
<1>2. t \in Seq(Buffer)
  <2>1. base \in Nat /\ prev_allocation_size \in Nat /\ prev_allocation_size >= kMaxClassSize
    BY ConstantsAssumption DEF IInv, TypeOK, Reservation
  <2> QED
    BY <2>1, MaxBuffersFacts
<1> HIDE DEF t
<1>3. Range(freelist[top] \o t) = Range(freelist[top]) \cup Range(t)
  BY <1>1, <1>2, RangeConcat
<1>4. freelist' = [freelist EXCEPT ![top] = freelist[top] \o t]
  BY <1>1 DEF t
<1>5. \A d \in Classes : freelist'[d] = IF d = top THEN freelist[top] \o t ELSE freelist[d]
  BY Zenon, <1>1, <1>4
<1>6. /\ \A d \in Classes : Range(freelist[d]) \subseteq Range(freelist'[d])
      /\ Range(t) \subseteq Range(freelist'[top])
  BY <1>3, <1>5, ClassFacts
<1>7. FreeBuffers' = UNION {Range(freelist'[d]) : d \in Classes}
  BY DEF FreeBuffers, Free, Range
<1>8. FreeBuffers \subseteq FreeBuffers'
  BY ONLY <1>6, <1>7, FreeIn
<1>9. top \in Classes
  BY ClassFacts
<1>10. Range(t) \subseteq FreeBuffers'
  BY ONLY <1>6, <1>7, <1>9
<1> QED
  BY <1>1, <1>8, <1>10 DEF t

(* split(): a byte of the Buffer that is split is in one of its halves.    *)
LEMMA SplitKeeps ==
    ASSUME IInv, Split, NEW a \in Int, Covered(a)
    PROVE  Covered(a)'
<1> DEFINE n == next_class
           m == next_class - 1
           s == freelist[next_class]
           b == back(s)
<1>1. /\ freelist \in [Classes -> Seq(Buffer)] /\ next_class \in Nat
      /\ size_class \in Classes
  BY DEF IInv, TypeOK
<1>2. /\ n \in Classes \ {0} /\ n \in Classes /\ m \in Classes /\ n # m
      /\ s # <<>> /\ freelist[m] = <<>> /\ held' = held
  BY <1>1, ClassFacts DEF IInv, SplitAsserts, Split, Classes
<1>3. s \in Seq(Buffer)
  BY <1>1, <1>2
<1>4. b \in Buffer /\ Range(s) = Range(pop_back(s)) \cup {b} /\ b \in Range(s)
  BY <1>2, <1>3, PopBack, RangePop
<1>5. b.class_size = class_max_size(n)
  <2>1. PICK i \in DOMAIN s : b = s[i]
    BY <1>4 DEF Range
  <2> QED
    BY <1>2, <2>1 DEF IInv, ClassSizes
<1>6. /\ class_max_size(n) = 2 * class_max_size(m)
      /\ class_max_size(m) \in Nat \ {0}
  BY <1>2, DoublingLaw
<1>7. /\ buffer_0(b) \in Buffer /\ buffer_1(b) \in Buffer
      /\ buffer_0(b).buf = b.buf /\ buffer_0(b).class_size = class_max_size(m)
      /\ buffer_1(b).buf = b.buf + class_max_size(m)
      /\ buffer_1(b).class_size = class_max_size(m)
      /\ b.buf \in Nat
  <2>1. b.class_size \div 2 = class_max_size(m)
    BY <1>5, <1>6
  <2>2. b.buf \in Nat
    BY <1>4 DEF Buffer
  <2> HIDE DEF b
  <2> QED
    BY <1>6, <2>1, <2>2 DEF buffer_0, buffer_1, Buffer
<1> DEFINE t == push_back(push_back(<<>>, buffer_0(b)), buffer_1(b))
<1>8. buffer_0(b) \in Range(t) /\ buffer_1(b) \in Range(t)
  <2>1. DOMAIN t = 1 .. 2 /\ t[1] = buffer_0(b) /\ t[2] = buffer_1(b)
    BY <1>7, PushTwo
  <2>2. 1 \in DOMAIN t /\ 2 \in DOMAIN t
    BY <2>1
  <2> HIDE DEF t
  <2> QED
    BY <2>1, <2>2 DEF Range
<1>9. freelist' = [freelist EXCEPT ![n] = pop_back(s), ![m] = t]
  BY <1>1, <1>2 DEF Split
<1> HIDE DEF b, t
<1>10. /\ freelist'[n] = pop_back(s) /\ freelist'[m] = t
       /\ \A d \in Classes \ {n, m} : freelist'[d] = freelist[d]
  <2> HIDE DEF s, n, m
  <2> QED
    BY Zenon, <1>1, <1>2, <1>9
<1>11. Range(<<>>) = {}
  BY DEF Range
<1>12. \A d \in Classes : \A x \in Range(freelist[d]) :
           x = b \/ \E e \in Classes : x \in Range(freelist'[e])
  <2> SUFFICES ASSUME NEW d \in Classes, NEW x \in Range(freelist[d]), x # b
               PROVE  \E e \in Classes : x \in Range(freelist'[e])
    OBVIOUS
  <2>1. CASE d = n
    BY Zenon, <1>2, <1>4, <1>10, <2>1
  <2>2. CASE d = m
    BY Zenon, <1>2, <1>11, <2>2
  <2>3. CASE d \in Classes \ {n, m}
    BY Zenon, <1>10, <2>3
  <2> QED
    BY Zenon, <2>1, <2>2, <2>3
<1>13. FreeBuffers' = UNION {Range(freelist'[d]) : d \in Classes}
  BY DEF FreeBuffers, Free, Range
<1>14. buffer_0(b) \in FreeBuffers' /\ buffer_1(b) \in FreeBuffers'
  BY <1>2, <1>8, <1>10, <1>13
<1>15. PICK x \in FreeBuffers \cup held : x.buf <= a /\ a < x.buf + x.class_size
  BY DEF Covered
<1>16. CASE x = b
  <2>1. a < b.buf + class_max_size(m) \/ b.buf + class_max_size(m) <= a
    BY <1>6, <1>7
  <2>2. a < b.buf + class_max_size(m) + class_max_size(m)
    BY <1>5, <1>6, <1>7, <1>15, <1>16
  <2>3. CASE a < b.buf + class_max_size(m)
    BY <1>7, <1>14, <1>15, <1>16, <2>3, CoveredBy
  <2>4. CASE b.buf + class_max_size(m) <= a
    BY <1>7, <1>14, <2>2, <2>4, CoveredBy
  <2> QED
    BY <2>1, <2>3, <2>4
<1>17. CASE x # b
  <2>1. x \in FreeBuffers' \cup held'
    BY <1>2, <1>12, <1>13, <1>17, FreeIn
  <2> QED
    BY <1>15, <2>1, CoveredBy
<1> QED
  BY <1>16, <1>17

(* No step loses a byte that is in a Buffer.                               *)
LEMMA CoverageKept ==
    ASSUME IInv, [Next]_vars, NEW a \in Int, Covered(a)
    PROVE  Covered(a)'
<1>1. CASE UNCHANGED <<freelist, held>>
  BY <1>1 DEF Covered, FreeBuffers, Free
<1>2. ASSUME NEW size \in Sizes, AllocHit(size) PROVE Covered(a)'
  <2>1. PICK c \in Classes : freelist[c] # <<>> /\ alloc_from_class(c)
    BY <1>2 DEF AllocHit
  <2> QED
    BY <2>1, TakeKeeps, KeepsBuffers
<1>3. CASE AllocReturn
  <2>1. size_class \in Classes /\ freelist[size_class] # <<>> /\ alloc_from_class(size_class)
    BY <1>3 DEF AllocReturn, IInv, SplitAsserts
  <2> QED
    BY <2>1, TakeKeeps, KeepsBuffers
<1>4. ASSUME NEW b \in held, FreeBuf(b) PROVE Covered(a)'
  BY <1>4, FreeKeeps, KeepsBuffers
<1>5. CASE ReserveOk
  <2>1. PICK base \in Bases :
          freelist' = [freelist EXCEPT ![top] =
                          @ \o MaxBuffers(base, prev_allocation_size)]
    BY Zenon, <1>5 DEF ReserveOk
  <2>2. held' = held
    BY <1>5 DEF ReserveOk
  <2> QED
    BY Zenon, <2>1, <2>2, ReserveKeeps, KeepsBuffers
<1>6. CASE Split
  BY <1>6, SplitKeeps
<1>7. ASSUME NEW size \in Sizes, AllocMiss(size) PROVE UNCHANGED <<freelist, held>>
  BY Zenon, <1>7 DEF AllocMiss
<1>8. ASSUME NEW size \in RawSizes, AllocRaw(size) PROVE UNCHANGED <<freelist, held>>
  BY Zenon, <1>8 DEF AllocRaw
<1>9. CASE \/ ReserveENOMEM \/ ReserveThrows \/ delete_shm \/ DestroyEnd \/ Destroy
           \/ AssertFails \/ Gone \/ UNCHANGED vars
  BY Zenon, <1>1, <1>9 DEF ReserveENOMEM, ReserveThrows, delete_shm, DestroyEnd, Destroy,
                      AssertFails, Gone, vars
<1> QED
  BY <1>1, <1>2, <1>3, <1>4, <1>5, <1>6, <1>7, <1>8, <1>9 DEF Next, Proceed

(* Rounding up adds less than a hugepage.                                  *)
LEMMA RoundUpTight ==
    ASSUME NEW x \in Nat
    PROVE  /\ round_up(x) \in Nat /\ round_up(x) >= x
           /\ round_up(x) - kHugepageSize + 1 <= x
<1> DEFINE y == x + kHugepageSize - 1
<1>1. y \in Nat /\ kHugepageSize \in Nat \ {0}
  BY ConstantsAssumption
<1>2. (y \div kHugepageSize) * kHugepageSize <= y
  BY <1>1, DivBounds
<1>3. round_up(x) <= y
  BY <1>2 DEF round_up
<1>4. round_up(x) \in Nat /\ round_up(x) >= x
  BY RoundUp
<1> QED
  BY <1>1, <1>3, <1>4

(* Twice a whole number of hugepages is a whole number of hugepages.       *)
LEMMA DoubleWhole ==
    ASSUME NEW p \in Nat, WholePages(p)
    PROVE  WholePages(2 * p)
<1> DEFINE h == kHugepageSize
           q == (p + kHugepageSize - 1) \div kHugepageSize
           y == 2 * p + kHugepageSize - 1
           d == y \div kHugepageSize
<1>1. h \in Nat \ {0} /\ y \in Nat
  BY ConstantsAssumption
<1>2. q \in Nat /\ q * h = p
  <2>1. p + h - 1 \in Nat
    BY <1>1
  <2>2. q \in Nat
    BY <1>1, <2>1, DivBounds
  <2> QED
    BY <2>2 DEF WholePages, round_up
<1>3. d \in Nat /\ d * h <= y /\ y < d * h + h
  BY <1>1, DivBounds
<1>4. round_up(2 * p) = d * h
  BY DEF round_up
<1>5. y = 2 * p + h - 1
  OBVIOUS
<1> HIDE DEF h, q, y, d
<1>6. (2 * q) * h = 2 * p /\ (2 * q + 1) * h = 2 * p + h /\ (d + 1) * h = d * h + h
  BY <1>1, <1>2, <1>3
<1>7. d * h \in Nat /\ 2 * q \in Nat /\ 2 * q + 1 \in Nat /\ d + 1 \in Nat
  BY <1>1, <1>2, <1>3
<1>8. ~(d + 1 <= 2 * q)
  <2> SUFFICES ASSUME d + 1 <= 2 * q PROVE FALSE
    OBVIOUS
  <2>1. (d + 1) * h <= (2 * q) * h
    BY ONLY <1>1, <1>7, d + 1 <= 2 * q, MulMonotone
  <2> QED
    BY <1>1, <1>3, <1>5, <1>6, <1>7, <2>1
<1>9. ~(2 * q + 1 <= d)
  <2> SUFFICES ASSUME 2 * q + 1 <= d PROVE FALSE
    OBVIOUS
  <2>1. (2 * q + 1) * h <= d * h
    BY ONLY <1>1, <1>3, <1>7, 2 * q + 1 <= d, MulMonotone
  <2> QED
    BY <1>1, <1>3, <1>5, <1>6, <1>7, <2>1
<1>10. d = 2 * q
  BY <1>3, <1>7, <1>8, <1>9
<1> QED
  BY <1>4, <1>6, <1>10 DEF WholePages

(* When the first size is a whole number of hugepages, so are all that     *)
(* doubling and undoing make of it.                                        *)
WholeReservations ==
    WholePages(FirstAllocationSize) =>
        /\ WholePages(prev_allocation_size)
        /\ pc = "reserve" => \E p \in Nat : prev_allocation_size = 2 * p /\ WholePages(p)

LEMMA WholeStep == IInv /\ WholeReservations /\ [Next]_vars => WholeReservations'
<1> SUFFICES ASSUME IInv, WholeReservations, [Next]_vars, WholePages(FirstAllocationSize)
             PROVE  /\ WholePages(prev_allocation_size')
                    /\ pc' = "reserve" => \E p \in Nat :
                          prev_allocation_size' = 2 * p /\ WholePages(p)
  BY DEF WholeReservations, WholePages, round_up, FirstAllocationSize
<1>1. prev_allocation_size \in Nat /\ WholePages(prev_allocation_size)
  BY DEF IInv, TypeOK, WholeReservations
<1>2. CASE UNCHANGED prev_allocation_size /\ (pc' # "reserve" \/ pc' = pc)
  BY <1>1, <1>2 DEF WholeReservations
<1>3. ASSUME NEW size \in Sizes, AllocMiss(size), prev_allocation_size' = 2 * prev_allocation_size
      PROVE  /\ WholePages(prev_allocation_size')
             /\ pc' = "reserve" => \E p \in Nat :
                   prev_allocation_size' = 2 * p /\ WholePages(p)
  <2>1. PICK p \in Nat : p = prev_allocation_size
    BY <1>1
  <2>2. WholePages(p) /\ WholePages(2 * p)
    BY <1>1, <2>1, DoubleWhole
  <2> QED
    BY <1>3, <2>1, <2>2
<1>4. CASE ReserveENOMEM
  <2>1. PICK p \in Nat : prev_allocation_size = 2 * p /\ WholePages(p)
    BY <1>4 DEF ReserveENOMEM, WholeReservations
  <2>2. prev_allocation_size' = p /\ pc' = "idle"
    BY <1>4, <2>1 DEF ReserveENOMEM, Return
  <2> QED
    BY <2>1, <2>2
<1>5. ASSUME NEW size \in Sizes, AllocHit(size) \/ AllocMiss(size)
      PROVE  \/ UNCHANGED prev_allocation_size /\ (pc' # "reserve" \/ pc' = pc)
             \/ AllocMiss(size) /\ prev_allocation_size' = 2 * prev_allocation_size
  BY Zenon, <1>5 DEF AllocHit, AllocMiss
<1>6. ASSUME NEW size \in RawSizes, AllocRaw(size)
      PROVE  UNCHANGED prev_allocation_size /\ pc' = pc
  BY Zenon, <1>6 DEF AllocRaw
<1>7. ASSUME NEW b \in held, FreeBuf(b)
      PROVE  UNCHANGED prev_allocation_size /\ pc' = pc
  BY Zenon, <1>7 DEF FreeBuf
<1>8. CASE \/ ReserveOk \/ ReserveThrows \/ Split \/ AllocReturn \/ delete_shm \/ DestroyEnd
           \/ Destroy \/ AssertFails \/ Gone \/ UNCHANGED vars
  <2>1. UNCHANGED prev_allocation_size /\ (pc' # "reserve" \/ pc' = pc)
    BY Zenon, <1>8 DEF ReserveOk, ReserveThrows, Return, Split, AllocReturn, delete_shm, DestroyEnd,
                Destroy, AssertFails, Gone, vars
  <2> QED
    BY <1>2, <2>1
<1> QED
  BY <1>2, <1>3, <1>4, <1>5, <1>6, <1>7, <1>8 DEF Next, Proceed

(* The Buffers made of a region cover what was carved from it.             *)
LEMMA CarvedCovered ==
    ASSUME NEW base \in Nat, NEW size \in Nat, size >= kMaxClassSize,
           NEW r \in shm_region_t, r.buf = base, r.size = round_up(size),
           WholePages(FirstAllocationSize) => WholePages(size),
           NEW a \in Carved(r)
    PROVE  \E b \in Range(MaxBuffers(base, size)) : b.buf <= a /\ a < b.buf + b.class_size
<1> DEFINE M == kMaxClassSize
           z == IF WholePages(FirstAllocationSize) THEN r.size
                ELSE r.size - kHugepageSize + 1
           n == z \div kMaxClassSize
           q == size \div kMaxClassSize
           t == MaxBuffers(base, size)
           o == a - base
           i == o \div kMaxClassSize
<1>1. M \in Nat \ {0} /\ kHugepageSize \in Nat \ {0}
  BY ClassFacts, ConstantsAssumption
<1>2. z \in Int /\ z <= size
  BY <1>1, RoundUpTight DEF WholePages
<1>3. q \in Nat /\ q * M <= size /\ size < q * M + M
  BY <1>1, DivBounds
<1>4. a \in base .. base + n * M - 1
  BY DEF Carved
<1>5. n \in Int /\ n * M <= z
  <2> HIDE DEF z, M
  <2>1. (z \div M) \in Int /\ (z \div M) * M <= z
    BY <1>1, <1>2
  <2> QED
    BY <2>1 DEF M
<1>6. o \in Nat /\ o < n * M /\ a \in Int /\ n * M \in Int
  <2> HIDE DEF n, M
  <2>1. n * M \in Int
    BY <1>1, <1>5
  <2> QED
    BY <1>4, <2>1
<1>7. i \in Nat /\ i * M <= o /\ o < i * M + M
  <2> HIDE DEF o
  <2> QED
    BY <1>1, <1>6, DivBounds
<1> HIDE DEF M, z, n, q, o, i
<1>8. i < q
  <2> SUFFICES ASSUME ~(i < q) PROVE FALSE
    OBVIOUS
  <2>1. q + 1 <= i + 1 /\ q + 1 \in Nat /\ i + 1 \in Nat /\ q <= i
    BY <1>3, <1>7
  <2>2. q * M <= i * M
    BY <1>1, <1>3, <1>7, <2>1, MulMonotone
  <2>3. n <= q
    <3> SUFFICES ASSUME ~(n <= q) PROVE FALSE
      OBVIOUS
    <3>1. n \in Nat /\ q + 1 <= n /\ q + 1 \in Nat
      BY <1>3, <1>5
    <3>2. (q + 1) * M <= n * M
      BY <1>1, <3>1, MulMonotone
    <3>3. (q + 1) * M = q * M + M
      BY <1>1, <1>3
    <3>4. q * M \in Nat
      BY <1>1, <1>3
    <3> QED
      BY <1>1, <1>2, <1>3, <1>5, <1>6, <3>2, <3>3, <3>4
  <2>4. n * M <= q * M
    <3>1. CASE n \in Nat
      BY <1>1, <1>3, <2>3, <3>1, MulMonotone
    <3>2. CASE n \notin Nat
      BY <1>1, <1>3, <1>5, <3>2
    <3> QED
      BY <3>1, <3>2
  <2>5. q * M \in Nat /\ i * M \in Nat
    BY <1>1, <1>3, <1>7
  <2> QED
    BY <1>6, <1>7, <2>2, <2>4, <2>5
<1>9. /\ DOMAIN t = 1 .. q
      /\ \A k \in 1 .. q : t[k] = [buf |-> base + (k - 1) * M, class_size |-> M]
  BY DEF MaxBuffers, q, M
<1>10. PICK k \in 1 .. q : k - 1 = i
  <2>1. i + 1 \in 1 .. q /\ (i + 1) - 1 = i
    BY <1>3, <1>7, <1>8
  <2> QED
    BY <2>1
<1>11. t[k] = [buf |-> base + i * M, class_size |-> M]
  BY <1>9, <1>10
<1>12. t[k] \in Range(t)
  BY <1>9 DEF Range
<1>13. base + i * M <= a /\ a < base + i * M + M
  <2>1. i * M \in Nat
    BY <1>1, <1>7
  <2> QED
    BY <1>1, <1>6, <1>7, <2>1 DEF o
<1>14. t[k].buf = base + i * M /\ t[k].class_size = M
  BY <1>11
<1>15. t[k].buf <= a /\ a < t[k].buf + t[k].class_size
  <2> HIDE DEF t
  <2> QED
    BY ONLY <1>13, <1>14
<1> QED
  BY Zenon, <1>12, <1>15

(* No step loses a byte, and a region comes with the Buffers it is cut     *)
(* into.                                                                   *)
LEMMA NoMemoryLostStep ==
    IInv /\ WholeReservations /\ NoMemoryLost /\ [Next]_vars => NoMemoryLost'
<1> SUFFICES ASSUME IInv, WholeReservations, NoMemoryLost, [Next]_vars,
                    NEW k \in PoolIndices', NEW a \in Carved(shm_list[k])'
             PROVE  Covered(a)'
  BY DEF NoMemoryLost
<1>1. shm_list \in Seq(shm_region_t) /\ raw \subseteq [buf : Nat, size : Nat]
  BY DEF IInv, TypeOK
<1>2. a \in Int
  BY DEF Carved
<1>3. ASSUME k \in DOMAIN shm_list, shm_list'[k] = shm_list[k], raw \subseteq raw'
      PROVE  Covered(a)'
  <2>1. k \in PoolIndices /\ a \in Carved(shm_list[k])
    BY <1>3 DEF PoolIndices, IsRaw, Carved
  <2>2. Covered(a)
    BY <2>1 DEF NoMemoryLost
  <2> QED
    BY <1>2, <2>2, CoverageKept
<1>4. CASE UNCHANGED shm_list /\ raw \subseteq raw'
  BY <1>3, <1>4 DEF PoolIndices
<1>5. ASSUME NEW x \in shm_region_t, shm_list' = push_back(shm_list, x)
      PROVE  \/ k \in DOMAIN shm_list /\ shm_list'[k] = shm_list[k]
             \/ shm_list'[k] = x
  <2>1. k \in DOMAIN shm_list'
    BY DEF PoolIndices
  <2> QED
    BY <1>1, <1>5, <2>1 DEF push_back
<1>6. ASSUME NEW size \in RawSizes, AllocRaw(size) PROVE Covered(a)'
  <2>1. CASE alloc_raw_throws(size) /\ UNCHANGED raw
    BY <1>4, <2>1 DEF alloc_raw_throws
  <2>2. ASSUME NEW base \in Bases, alloc_raw_ok(size, base),
               raw' = raw \cup {[buf |-> base, size |-> round_up(size)]}
        PROVE  Covered(a)'
    <3>1. PICK key \in Keys :
            shm_list' = push_back(shm_list, [shm_key |-> key, buf |-> base,
                                             size |-> round_up(size)])
      BY <2>2 DEF alloc_raw_ok
    <3> DEFINE x == [shm_key |-> key, buf |-> base, size |-> round_up(size)]
    <3>2. x \in shm_region_t
      BY RoundUp, ConstantsAssumption DEF shm_region_t
    <3>3. IsRaw(x)'
      BY <2>2 DEF IsRaw
    <3>4. shm_list'[k] # x
      BY <3>3 DEF PoolIndices, IsRaw
    <3> QED
      BY Zenon, <1>3, <1>5, <2>2, <3>1, <3>2, <3>4
  <2> QED
    BY <1>6, <2>1, <2>2 DEF AllocRaw
<1>7. CASE ReserveOk
  <2>1. PICK base \in Bases :
          /\ alloc_raw_ok(prev_allocation_size, base)
          /\ freelist' = [freelist EXCEPT ![top] =
                            @ \o MaxBuffers(base, prev_allocation_size)]
    BY Zenon, <1>7 DEF ReserveOk
  <2>2. PICK key \in Keys :
          shm_list' = push_back(shm_list, [shm_key |-> key, buf |-> base,
                                           size |-> round_up(prev_allocation_size)])
    BY <2>1 DEF alloc_raw_ok
  <2> DEFINE x == [shm_key |-> key, buf |-> base, size |-> round_up(prev_allocation_size)]
  <2>3. /\ prev_allocation_size \in Nat /\ prev_allocation_size >= kMaxClassSize
        /\ base \in Nat /\ held' = held /\ raw' = raw
    BY <1>7, ConstantsAssumption DEF IInv, TypeOK, Reservation, ReserveOk
  <2>4. x \in shm_region_t /\ x.buf = base /\ x.size = round_up(prev_allocation_size)
    BY <2>3, RoundUp, ConstantsAssumption DEF shm_region_t
  <2>5. CASE shm_list'[k] = x
    <3>1. a \in Carved(x)
      BY <2>5 DEF Carved
    <3>0. WholePages(FirstAllocationSize) => WholePages(prev_allocation_size)
      BY DEF WholeReservations
    <3>2. PICK b \in Range(MaxBuffers(base, prev_allocation_size)) :
            b.buf <= a /\ a < b.buf + b.class_size
      <4> HIDE DEF x
      <4> QED
        BY Zenon, <2>3, <2>4, <3>0, <3>1, CarvedCovered
    <3>3. b \in FreeBuffers'
      BY Zenon, <2>1, <2>3, ReserveKeeps
    <3> QED
      BY <3>2, <3>3, CoveredBy
  <2> QED
    BY Zenon, <1>3, <1>5, <2>2, <2>3, <2>4, <2>5
<1>8. CASE ReserveThrows
  BY <1>4, <1>8 DEF ReserveThrows, alloc_raw_throws
<1>9. ASSUME NEW size \in Sizes, AllocHit(size) \/ AllocMiss(size)
      PROVE  UNCHANGED <<shm_list, raw>>
  BY Zenon, <1>9 DEF AllocHit, AllocMiss
<1>10. ASSUME NEW b \in held, FreeBuf(b) PROVE UNCHANGED <<shm_list, raw>>
  BY Zenon, <1>10 DEF FreeBuf
<1>11. CASE \/ ReserveENOMEM \/ Split \/ AllocReturn \/ delete_shm \/ DestroyEnd
            \/ Destroy \/ AssertFails \/ Gone \/ UNCHANGED vars
  <2>1. UNCHANGED <<shm_list, raw>>
    BY Zenon, <1>11 DEF ReserveENOMEM, Split, AllocReturn, delete_shm, DestroyEnd, Destroy,
                        AssertFails, Gone, vars
  <2> QED
    BY <1>4, <2>1
<1> QED
  BY <1>4, <1>6, <1>7, <1>8, <1>9, <1>10, <1>11 DEF Next, Proceed

(* Whatever the kernel and the user do, each byte that was carved from a   *)
(* reserved region is in a freelist or in a Buffer the user holds.         *)
THEOREM NoByteLost == Spec => []NoMemoryLost
<1>1. Init => NoMemoryLost
  BY DEF Init, NoMemoryLost, PoolIndices
<1>2. Init => WholeReservations
  BY DEF Init, WholeReservations
<1> QED
  BY <1>1, <1>2, WholeStep, NoMemoryLostStep, Inductive, PTL DEF Spec
------------------------------------------------------------------------------
(* shmget(), shmat() and mbind() fail with ENOMEM only, and the random     *)
(* number generator does not return IPC_PRIVATE.                           *)
NoFaults == ~ShmgetThrows /\ ~BindFails /\ 0 \notin Keys

(* Every segment is a region of shm_list that the destructor has not       *)
(* deleted yet.                                                            *)
AllRecorded ==
    /\ \A i \in DOMAIN shm_list : shm_list[i].shm_key # 0
    /\ Alive => /\ \A s \in segments : \E i \in DOMAIN shm_list : s = shm_list[i]
                /\ \A i \in DOMAIN shm_list : shm_list[i] \in segments
    /\ pc = "destroy" => next_class >= 1 /\
           \A s \in segments : \E i \in DOMAIN shm_list : i >= next_class /\ s = shm_list[i]
    /\ pc = "destroyed" => segments = {}
    /\ pc # "exited"

(* What alloc_raw() does when it succeeds.                                 *)
LEMMA AllocRawOk ==
    ASSUME IInv, Alive, NEW size \in Nat, size > 0, NEW base \in Bases,
           alloc_raw_ok(size, base)
    PROVE  \E x \in shm_region_t :
              /\ x.shm_key \in Keys /\ x.buf = base /\ x.size = round_up(size)
              /\ x.size > 0
              /\ \A s \in segments : s.buf # x.buf \/ s.size # x.size
              /\ segments' = segments \cup {x}
              /\ shm_list' = push_back(shm_list, x)
<1>1. PICK key \in Keys :
        /\ NewSegment(key, base, round_up(size))
        /\ shm_list' = push_back(shm_list, [shm_key |-> key, buf |-> base,
                                            size |-> round_up(size)])
  BY DEF alloc_raw_ok
<1> DEFINE x == [shm_key |-> key, buf |-> base, size |-> round_up(size)]
<1>2. /\ round_up(size) \in Nat /\ round_up(size) > 0 /\ base \in Nat /\ key \in Nat
  BY RoundUp, ConstantsAssumption
<1>3. x \in shm_region_t /\ x.shm_key = key /\ x.buf = base /\ x.size = round_up(size)
  BY <1>2 DEF shm_region_t
<1>4. \A s \in segments : Apart(base, round_up(size), s.buf, s.size)
  BY <1>1 DEF NewSegment
<1>5. ASSUME NEW s \in segments PROVE s.buf # base \/ s.size # round_up(size)
  BY <1>2, <1>4 DEF Apart
<1>6. segments' = segments \cup {x}
  BY <1>1 DEF NewSegment
<1> HIDE DEF x
<1>7. shm_list' = push_back(shm_list, x)
  BY <1>1 DEF x
<1>8. \A s \in segments : s.buf # x.buf \/ s.size # x.size
  BY <1>3, <1>5
<1>9. x.size > 0 /\ x.shm_key \in Keys
  BY <1>2, <1>3
<1> QED
  BY Zenon, <1>3, <1>6, <1>7, <1>8, <1>9

(* A region recorded with its segment.                                     *)
LEMMA RecordedOne ==
    ASSUME NoFaults, AllRecorded, Alive, pc' \in {"idle", "split"},
           shm_list \in Seq(shm_region_t), NEW x \in shm_region_t,
           x.shm_key \in Keys, segments' = segments \cup {x},
           shm_list' = push_back(shm_list, x)
    PROVE  AllRecorded'
<1> DEFINE t == push_back(shm_list, x)
<1>0. /\ DOMAIN t = 1 .. Len(shm_list) + 1 /\ DOMAIN shm_list = 1 .. Len(shm_list)
      /\ Len(shm_list) \in Nat
      /\ \A i \in 1 .. Len(shm_list) : t[i] = shm_list[i]
      /\ t[Len(shm_list) + 1] = x
  <2>1. shm_list \in Seq(shm_region_t) /\ x \in shm_region_t
    OBVIOUS
  <2> QED
    BY ONLY <2>1, PushOne
<1>1. /\ DOMAIN shm_list' = 1 .. Len(shm_list) + 1 /\ DOMAIN shm_list = 1 .. Len(shm_list)
      /\ Len(shm_list) \in Nat
      /\ \A i \in 1 .. Len(shm_list) : shm_list'[i] = shm_list[i]
      /\ shm_list'[Len(shm_list) + 1] = x
  BY <1>0
<1>2. \A i \in DOMAIN shm_list' :
        \/ i \in DOMAIN shm_list /\ shm_list'[i] = shm_list[i]
        \/ shm_list'[i] = x
  BY <1>1
<1>3. /\ \A i \in DOMAIN shm_list : i \in DOMAIN shm_list' /\ shm_list'[i] = shm_list[i]
      /\ \E i \in DOMAIN shm_list' : x = shm_list'[i]
  BY <1>1
<1>4. x.shm_key # 0
  BY DEF NoFaults
<1>5. \A i \in DOMAIN shm_list' : shm_list'[i].shm_key # 0 /\ shm_list'[i] \in segments'
  BY <1>2, <1>4 DEF AllRecorded
<1>6. \A s \in segments' : \E i \in DOMAIN shm_list' : s = shm_list'[i]
  BY <1>3 DEF AllRecorded
<1> QED
  BY <1>5, <1>6 DEF AllRecorded

LEMMA AllRecordedStep ==
    ASSUME NoFaults
    PROVE  IInv /\ AllRecorded /\ [Next]_vars => AllRecorded'
<1> SUFFICES ASSUME IInv, AllRecorded, [Next]_vars PROVE AllRecorded'
  OBVIOUS
<1>1. shm_list \in Seq(shm_region_t) /\ next_class \in Nat
  BY DEF IInv, TypeOK
<1>2. CASE UNCHANGED <<segments, shm_list>> /\ Alive /\ pc' \in {"idle", "reserve", "split", "aborted"}
  BY Zenon, <1>2 DEF AllRecorded, Alive
<1>3. ASSUME NEW size \in RawSizes, AllocRaw(size) PROVE AllRecorded'
  <2>1. Alive /\ pc' = "idle" /\ size \in Nat /\ size > 0
    BY <1>3, ConstantsAssumption DEF AllocRaw, Alive
  <2>2. ~alloc_raw_throws(size)
    BY DEF NoFaults, alloc_raw_throws
  <2>3. PICK base \in Bases : alloc_raw_ok(size, base)
    BY <1>3, <2>2 DEF AllocRaw
  <2> QED
    BY <1>1, <2>1, <2>3, AllocRawOk, RecordedOne
<1>4. CASE ReserveOk
  <2>1. PICK base \in Bases : alloc_raw_ok(prev_allocation_size, base)
    BY Zenon, <1>4 DEF ReserveOk
  <2>2. Alive /\ pc' = "split" /\ prev_allocation_size \in Nat /\ prev_allocation_size > 0
    BY <1>4, ClassFacts DEF ReserveOk, Alive, IInv, TypeOK, Reservation
  <2> QED
    BY <1>1, <2>1, <2>2, AllocRawOk, RecordedOne
<1>5. CASE ReserveThrows
  BY <1>5 DEF ReserveThrows, alloc_raw_throws, NoFaults
<1>6. ASSUME NEW size \in Sizes, AllocHit(size) \/ AllocMiss(size) PROVE AllRecorded'
  <2>1. UNCHANGED <<segments, shm_list>> /\ Alive
    BY Zenon, <1>6 DEF AllocHit, AllocMiss, Alive
  <2>2. pc' \in {"idle", "reserve", "split"}
    BY <1>6 DEF AllocHit, AllocMiss
  <2> QED
    BY <1>2, <2>1, <2>2
<1>7. ASSUME NEW b \in held, FreeBuf(b) PROVE AllRecorded'
  <2>1. UNCHANGED <<segments, shm_list>> /\ Alive /\ pc' = "idle"
    BY Zenon, <1>7 DEF FreeBuf, Alive
  <2> QED
    BY <1>2, <2>1
<1>8. CASE ReserveENOMEM \/ Split \/ AllocReturn \/ AssertFails
  <2>1. UNCHANGED <<segments, shm_list>> /\ Alive
    BY Zenon, <1>8 DEF ReserveENOMEM, Split, AllocReturn, AssertFails, Alive
  <2>2. pc' \in {"idle", "split", "aborted"}
    BY Zenon, <1>8 DEF ReserveENOMEM, Split, AllocReturn, AssertFails, Return
  <2> QED
    BY <1>2, <2>1, <2>2
<1>9. CASE Destroy
  <2>1. \A i \in DOMAIN shm_list : i >= 1
    BY <1>1
  <2>2. /\ UNCHANGED <<segments, shm_list>> /\ Alive /\ pc' = "destroy"
        /\ next_class' = 1
    BY <1>9 DEF Destroy, Alive
  <2> QED
    BY <2>1, <2>2 DEF AllRecorded, Alive
<1>10. CASE delete_shm
  <2> DEFINE key == shm_list[next_class].shm_key
  <2>1. /\ pc = "destroy" /\ next_class <= Len(shm_list) /\ UNCHANGED shm_list
    BY Zenon, <1>10 DEF delete_shm
  <2>2. next_class \in DOMAIN shm_list
    <3>1. next_class >= 1
      BY <2>1 DEF AllRecorded
    <3> QED
      BY <1>1, <2>1, <3>1
  <2>4. AllRecorded'
    <3>1. key # 0
      BY <2>2 DEF AllRecorded
    <3>2. /\ segments' = {s \in segments : s.shm_key # key}
          /\ next_class' = next_class + 1 /\ pc' = pc
      BY <1>10, <3>1 DEF delete_shm
    <3>3. ASSUME NEW s \in segments'
          PROVE  \E i \in DOMAIN shm_list : i >= next_class + 1 /\ s = shm_list[i]
      <4>1. PICK i \in DOMAIN shm_list : i >= next_class /\ s = shm_list[i]
        BY <2>1, <3>2 DEF AllRecorded
      <4>2. i # next_class
        BY <3>2, <4>1
      <4>3. i \in Nat
        BY <1>1
      <4> QED
        BY <1>1, <4>1, <4>2, <4>3
    <3> QED
      BY <1>1, <2>1, <3>2, <3>3 DEF AllRecorded, Alive
  <2> QED
    BY <2>4
<1>11. CASE DestroyEnd
  <2>1. /\ pc = "destroy" /\ next_class > Len(shm_list) /\ pc' = "destroyed"
        /\ UNCHANGED <<segments, shm_list>>
    BY <1>11 DEF DestroyEnd
  <2>2. \A i \in DOMAIN shm_list : ~(i >= next_class)
    BY <1>1, <2>1
  <2>3. segments = {}
    BY <2>1, <2>2 DEF AllRecorded
  <2> QED
    BY <2>1, <2>3 DEF AllRecorded, Alive
<1>12. CASE Gone \/ UNCHANGED vars
  BY Zenon, <1>12 DEF Gone, vars, AllRecorded, Alive, locals
<1> QED
  BY <1>3, <1>4, <1>5, <1>6, <1>7, <1>8, <1>9, <1>10, <1>11, <1>12 DEF Next, Proceed

(* The size of the last region reserved for the freelists is p, rounded;   *)
(* while alloc() reserves, prev_allocation_size is already doubled.        *)
LastIs(p) ==
    IF PoolIndices = {}
    THEN p = FirstAllocationSize
    ELSE \E m \in PoolIndices : /\ \A k \in PoolIndices : k <= m
                                /\ shm_list[m].size = round_up(p)
Undoubled == IF pc = "reserve" THEN prev_allocation_size \div 2 ELSE prev_allocation_size
LastReservation == Alive => LastIs(Undoubled)

(* A step that leaves the regions for the freelists and their size alone.  *)
LEMMA SameLast ==
    ASSUME LastReservation, Alive, UNCHANGED <<shm_list, raw>>, Undoubled' = Undoubled
    PROVE  LastReservation'
<1>1. PoolIndices' = PoolIndices
  BY DEF PoolIndices, IsRaw
<1>2. LastIs(Undoubled)
  BY DEF LastReservation
<1>3. PICK p : p = Undoubled
  OBVIOUS
<1>4. LastIs(p)'
  BY <1>1, <1>2, <1>3 DEF LastIs
<1>5. p = Undoubled'
  BY <1>3
<1> QED
  BY <1>4, <1>5 DEF LastReservation, LastIs

(* alloc_raw() called by the user: the region is not for the freelists.    *)
LEMMA RawLast ==
    ASSUME IInv, AllRecorded, LastReservation, Alive, Alive', Undoubled' = Undoubled,
           NEW x \in shm_region_t,
           \A s \in segments : s.buf # x.buf \/ s.size # x.size,
           shm_list' = push_back(shm_list, x),
           raw' = raw \cup {[buf |-> x.buf, size |-> x.size]}
    PROVE  LastReservation'
<1> DEFINE t == push_back(shm_list, x)
<1>0. /\ DOMAIN t = 1 .. Len(shm_list) + 1 /\ DOMAIN shm_list = 1 .. Len(shm_list)
      /\ Len(shm_list) \in Nat
      /\ \A i \in 1 .. Len(shm_list) : t[i] = shm_list[i]
      /\ t[Len(shm_list) + 1] = x
  <2>1. shm_list \in Seq(shm_region_t) /\ x \in shm_region_t
    BY Zenon DEF IInv, TypeOK
  <2> QED
    BY ONLY <2>1, PushOne
<1> HIDE DEF t
<1>1. PICK n \in Nat :
        /\ DOMAIN t = 1 .. n + 1 /\ DOMAIN shm_list = 1 .. n
        /\ \A i \in 1 .. n : t[i] = shm_list[i]
        /\ t[n + 1] = x
  BY Zenon, <1>0
<1>2. shm_list' = t
  BY Zenon DEF t
<1>3. ASSUME NEW i \in 1 .. n PROVE IsRaw(shm_list[i])' <=> IsRaw(shm_list[i])
  <2>1. shm_list[i] \in segments
    BY <1>1 DEF AllRecorded
  <2>2. shm_list[i].buf # x.buf \/ shm_list[i].size # x.size
    BY <2>1
  <2>3. [buf |-> shm_list[i].buf, size |-> shm_list[i].size]
          # [buf |-> x.buf, size |-> x.size]
    BY <2>2
  <2>4. shm_list'[i] = shm_list[i]
    BY <1>1, <1>2
  <2> QED
    BY <2>3, <2>4 DEF IsRaw
<1>4. IsRaw(shm_list[n + 1])'
  <2>1. shm_list'[n + 1] = x
    BY <1>1, <1>2
  <2> QED
    BY <2>1 DEF IsRaw
<1>5. \A i \in 1 .. n + 1 : i \in 1 .. n \/ i = n + 1
  BY <1>1
<1>6. PoolIndices' = PoolIndices
  <2>1. \A i \in 1 .. n : i \in 1 .. n + 1
    BY <1>1
  <2>2. ASSUME NEW i \in PoolIndices' PROVE i \in PoolIndices
    BY Zenon, <1>1, <1>2, <1>3, <1>4, <1>5 DEF PoolIndices
  <2>3. ASSUME NEW i \in PoolIndices PROVE i \in PoolIndices'
    BY Zenon, <1>1, <1>2, <1>3, <2>1 DEF PoolIndices
  <2> QED
    BY Zenon, <2>2, <2>3
<1>7. PICK p : p = Undoubled
  OBVIOUS
<1>8. LastIs(p)
  BY Zenon, <1>7 DEF LastReservation
<1>9. \A i \in PoolIndices : shm_list'[i] = shm_list[i]
  BY Zenon, <1>1, <1>2 DEF PoolIndices
<1>10. LastIs(p)'
  BY <1>6, <1>8, <1>9 DEF LastIs
<1>11. p = Undoubled'
  BY Zenon, <1>7
<1> QED
  BY Zenon, <1>10, <1>11 DEF LastReservation, LastIs

(* reserve_hugepages(): the region is the last one for the freelists.      *)
LEMMA ReserveLast ==
    ASSUME IInv, Alive, pc' = "split",
           NEW x \in shm_region_t, x.size = round_up(prev_allocation_size),
           \A s \in segments : s.buf # x.buf \/ s.size # x.size,
           shm_list' = push_back(shm_list, x),
           UNCHANGED <<raw, prev_allocation_size>>
    PROVE  LastReservation'
<1> DEFINE t == push_back(shm_list, x)
<1>0. /\ DOMAIN t = 1 .. Len(shm_list) + 1 /\ DOMAIN shm_list = 1 .. Len(shm_list)
      /\ Len(shm_list) \in Nat
      /\ \A i \in 1 .. Len(shm_list) : t[i] = shm_list[i]
      /\ t[Len(shm_list) + 1] = x
  <2>1. shm_list \in Seq(shm_region_t) /\ x \in shm_region_t
    BY DEF IInv, TypeOK
  <2> QED
    BY ONLY <2>1, PushOne
<1> HIDE DEF t
<1>1. PICK n \in Nat :
        /\ DOMAIN t = 1 .. n + 1 /\ DOMAIN shm_list = 1 .. n
        /\ \A i \in 1 .. n : t[i] = shm_list[i]
        /\ t[n + 1] = x
  BY Zenon, <1>0
<1>2. shm_list' = t
  BY DEF t
<1>3. [buf |-> x.buf, size |-> x.size] \notin raw
  <2>1. \A r \in raw : \E s \in segments : s.buf = r.buf /\ s.size = r.size
    BY DEF IInv, Backed
  <2> QED
    BY <2>1
<1>4. n + 1 \in PoolIndices' /\ shm_list'[n + 1] = x
  <2>1. n + 1 \in 1 .. n + 1
    OBVIOUS
  <2>2. n + 1 \in DOMAIN shm_list' /\ shm_list'[n + 1] = x
    BY ONLY <1>1, <1>2, <2>1
  <2>3. ~IsRaw(x)'
    BY <1>3 DEF IsRaw
  <2> QED
    BY <2>2, <2>3 DEF PoolIndices, IsRaw
<1>5. \A k \in PoolIndices' : k <= n + 1
  <2>1. \A k \in PoolIndices' : k \in 1 .. n + 1
    BY <1>1, <1>2 DEF PoolIndices
  <2> QED
    BY <2>1
<1>6. PICK p : p = prev_allocation_size
  OBVIOUS
<1>7. LastIs(p)'
  BY <1>4, <1>5, <1>6 DEF LastIs
<1>8. Undoubled' = p
  BY <1>6 DEF Undoubled
<1> QED
  BY Zenon, <1>7, <1>8 DEF LastReservation, LastIs

LEMMA LastReservationStep ==
    ASSUME NoFaults
    PROVE  IInv /\ AllRecorded /\ LastReservation /\ [Next]_vars => LastReservation'
<1> SUFFICES ASSUME IInv, AllRecorded, LastReservation, [Next]_vars PROVE LastReservation'
  OBVIOUS
<1>1. prev_allocation_size \in Nat
  BY DEF IInv, TypeOK
<1>2. CASE ~Alive'
  BY <1>2 DEF LastReservation
<1>3. ASSUME NEW size \in RawSizes, AllocRaw(size) PROVE LastReservation'
  <2>1. /\ Alive /\ Alive' /\ Undoubled' = Undoubled /\ size \in Nat /\ size > 0
    BY <1>3, ConstantsAssumption DEF AllocRaw, Alive, Undoubled
  <2>2. ~alloc_raw_throws(size)
    BY DEF NoFaults, alloc_raw_throws
  <2>3. PICK base \in Bases :
          /\ alloc_raw_ok(size, base)
          /\ raw' = raw \cup {[buf |-> base, size |-> round_up(size)]}
    BY <1>3, <2>2 DEF AllocRaw
  <2>4. PICK x \in shm_region_t :
          /\ x.buf = base /\ x.size = round_up(size)
          /\ \A s \in segments : s.buf # x.buf \/ s.size # x.size
          /\ shm_list' = push_back(shm_list, x)
    BY <2>1, <2>3, AllocRawOk
  <2> QED
    BY <2>1, <2>3, <2>4, RawLast
<1>4. CASE ReserveOk
  <2>1. PICK base \in Bases : alloc_raw_ok(prev_allocation_size, base)
    BY Zenon, <1>4 DEF ReserveOk
  <2>2. /\ Alive /\ pc' = "split" /\ prev_allocation_size > 0
        /\ UNCHANGED <<raw, prev_allocation_size>>
    BY <1>4, ClassFacts DEF ReserveOk, Alive, IInv, TypeOK, Reservation
  <2>3. PICK x \in shm_region_t :
          /\ x.size = round_up(prev_allocation_size)
          /\ \A s \in segments : s.buf # x.buf \/ s.size # x.size
          /\ shm_list' = push_back(shm_list, x)
    BY <1>1, <2>1, <2>2, AllocRawOk
  <2> QED
    BY <2>2, <2>3, ReserveLast
<1>5. CASE ReserveThrows
  BY <1>5 DEF ReserveThrows, alloc_raw_throws, NoFaults
<1>6. ASSUME NEW size \in Sizes, AllocHit(size) \/ AllocMiss(size) PROVE LastReservation'
  <2>1. UNCHANGED <<shm_list, raw>> /\ Alive
    BY Zenon, <1>6 DEF AllocHit, AllocMiss, Alive
  <2>2. Undoubled' = Undoubled
    BY <1>1, <1>6 DEF AllocHit, AllocMiss, Undoubled
  <2> QED
    BY <2>1, <2>2, SameLast
<1>7. ASSUME NEW b \in held, FreeBuf(b) PROVE LastReservation'
  <2>1. UNCHANGED <<shm_list, raw>> /\ Alive /\ Undoubled' = Undoubled
    BY Zenon, <1>7 DEF FreeBuf, Alive, Undoubled
  <2> QED
    BY <2>1, SameLast
<1>8. CASE ReserveENOMEM \/ Split \/ AllocReturn
  <2>1. UNCHANGED <<shm_list, raw>> /\ Alive
    BY Zenon, <1>8 DEF ReserveENOMEM, Split, AllocReturn, Alive
  <2>2. Undoubled' = Undoubled
    BY Zenon, <1>8 DEF ReserveENOMEM, Split, AllocReturn, Return, Undoubled
  <2> QED
    BY <2>1, <2>2, SameLast
<1>9. CASE Destroy \/ delete_shm \/ DestroyEnd \/ AssertFails
  <2>1. ~Alive'
    BY <1>9 DEF Destroy, delete_shm, DestroyEnd, AssertFails, Alive
  <2> QED
    BY <1>2, <2>1
<1>10. CASE Gone \/ UNCHANGED vars
  <2>1. UNCHANGED vars
    BY <1>10 DEF Gone
  <2>2. CASE Alive
    BY Zenon, <2>1, <2>2, SameLast DEF vars, Undoubled
  <2>3. CASE ~Alive
    BY Zenon, <1>2, <2>1, <2>3 DEF vars, Alive
  <2> QED
    BY <2>2, <2>3
<1> QED
  BY <1>3, <1>4, <1>5, <1>6, <1>7, <1>8, <1>9, <1>10 DEF Next, Proceed

(* When shmget(), shmat() and mbind() fail with ENOMEM only, nothing is    *)
(* stranded: no byte is lost, the next reservation doubles the last one,   *)
(* and the destructor leaves no segment behind.                            *)
THEOREM NothingLeftBehind ==
    ASSUME NoFaults PROVE Spec => []NothingStranded
<1>1. Init => AllRecorded /\ LastReservation
  BY DEF Init, AllRecorded, LastReservation, LastIs, Undoubled, PoolIndices, Alive
<1>2. Spec => []AllRecorded
  BY <1>1, AllRecordedStep, Inductive, PTL DEF Spec
<1>3. Spec => []LastReservation
  BY <1>1, <1>2, LastReservationStep, Inductive, PTL DEF Spec
<1>4. AllRecorded => DestructorFreesAllShm
  BY DEF AllRecorded, DestructorFreesAllShm
<1>5. IInv /\ LastReservation => PrevAllocationIsLastReservation
  <2> SUFFICES ASSUME IInv, LastReservation, pc = "idle", PoolIndices # {}
               PROVE  shm_list[Max(PoolIndices)].size = round_up(prev_allocation_size)
    BY DEF PrevAllocationIsLastReservation, LastReservation, LastIs, Alive, Undoubled
  <2>1. PICK m \in PoolIndices : /\ \A k \in PoolIndices : k <= m
                                 /\ shm_list[m].size = round_up(prev_allocation_size)
    BY DEF LastReservation, LastIs, Alive, Undoubled
  <2>2. PoolIndices \subseteq Nat
    <3>1. shm_list \in Seq(shm_region_t)
      BY DEF IInv, TypeOK
    <3> QED
      BY <3>1 DEF PoolIndices
  <2>3. Max(PoolIndices) \in PoolIndices /\ \A k \in PoolIndices : Max(PoolIndices) >= k
    <3>1. \E x \in PoolIndices : \A y \in PoolIndices : x >= y
      BY <2>1, <2>2
    <3> QED
      BY <3>1 DEF Max
  <2>4. Max(PoolIndices) = m
    <3>1. \A a, b \in Nat : a <= b /\ a >= b => a = b
      OBVIOUS
    <3> QED
      BY Zenon, <2>1, <2>2, <2>3, <3>1
  <2> QED
    BY <2>1, <2>4
<1> QED
  BY <1>2, <1>3, <1>4, <1>5, NoByteLost, Inductive, PTL DEF NothingStranded
------------------------------------------------------------------------------
(* Above the smallest class, no class below the one get_class() computes   *)
(* is large enough: msb_index() returns the first power above (size - 1)   *)
(* in units of the smallest class.                                         *)
LEMMA ClassIsFirst ==
    ASSUME NEW size \in Sizes, size > kMinClassSize,
           NEW c \in get_class(size) \cap Classes,
           NEW d \in Classes, size <= class_max_size(d)
    PROVE  c <= d
<1> SUFFICES ASSUME d < c PROVE FALSE
  BY ConstantsAssumption DEF Classes, top
<1> DEFINE x == (size - 1) \div kMinClassSize
<1>1. size \in Nat \ {0} /\ kMinClassSize \in Nat \ {0} /\ size - 1 \in Nat
  BY ConstantsAssumption
<1>2. x \in Nat /\ x * kMinClassSize <= size - 1 /\ size - 1 < x * kMinClassSize + kMinClassSize
  BY <1>1, DivBounds
<1> HIDE DEF x
<1>3. x # 0
  BY <1>1, <1>2
<1>4. 2^(c - 1) <= x
  BY <1>3 DEF get_class, msb_index, x
<1>5. c - 1 \in Classes /\ d <= c - 1
  BY ConstantsAssumption DEF Classes, top
<1>6. 2^d \in Nat \ {0} /\ 2^(c - 1) \in Nat \ {0} /\ 2^d <= 2^(c - 1)
  BY Zenon, <1>5, PowersOfTwo
<1> DEFINE p == 2^d
           q == 2^(c - 1)
<1>7. p \in Nat /\ q \in Nat /\ p <= q /\ q <= x
  BY <1>4, <1>6
<1>8. class_max_size(d) = kMinClassSize * p
  BY DEF class_max_size
<1> HIDE DEF p, q
<1>9. p <= x
  BY <1>2, <1>7
<1>10. p * kMinClassSize <= x * kMinClassSize
  BY <1>1, <1>2, <1>7, <1>9, MulMonotone
<1>11. kMinClassSize * p = p * kMinClassSize /\ p * kMinClassSize \in Nat /\ x * kMinClassSize \in Nat
  BY <1>1, <1>2, <1>7
<1> QED
  BY <1>1, <1>2, <1>8, <1>10, <1>11

(* While alloc() runs, no class below the one it works for will do.        *)
RequestFirst ==
    pc \in {"reserve", "split"} =>
        /\ size_class \in Classes
        /\ request > kMinClassSize =>
               \A d \in Classes : request <= class_max_size(d) => size_class <= d

LEMMA RequestFirstStep == RequestFirst /\ [Next]_vars => RequestFirst'
<1> SUFFICES ASSUME RequestFirst, [Next]_vars PROVE RequestFirst'
  OBVIOUS
<1>1. ASSUME NEW size \in Sizes, AllocMiss(size) PROVE RequestFirst'
  <2>1. PICK c \in get_class(size) \cap Classes : size_class' = c
    BY <1>1 DEF AllocMiss
  <2>2. size > kMinClassSize => \A d \in Classes : size <= class_max_size(d) => c <= d
    BY ClassIsFirst
  <2>3. request' = size
    BY <1>1 DEF AllocMiss
  <2> QED
    BY Zenon, <2>1, <2>2, <2>3 DEF RequestFirst, class_max_size
<1>2. CASE /\ UNCHANGED <<request, size_class>>
           /\ pc' \in {"reserve", "split"} => pc \in {"reserve", "split"}
  BY Zenon, <1>2 DEF RequestFirst, class_max_size
<1>3. CASE pc' = "idle"
  BY <1>3 DEF RequestFirst
<1>4. ASSUME NEW size \in Sizes, AllocHit(size) PROVE pc' = "idle"
  BY <1>4 DEF AllocHit
<1>5. ASSUME NEW size \in RawSizes, AllocRaw(size) PROVE pc' = "idle"
  BY <1>5 DEF AllocRaw
<1>6. ASSUME NEW b \in held, FreeBuf(b) PROVE pc' = "idle"
  BY <1>6 DEF FreeBuf
<1>7. CASE ReserveENOMEM \/ ReserveThrows \/ AllocReturn
  BY SMTT(30), <1>3, <1>7 DEF ReserveENOMEM, ReserveThrows, AllocReturn, Return
<1>8. CASE ReserveOk \/ Split
  BY <1>2, <1>8 DEF ReserveOk, Split
<1>9. CASE \/ delete_shm \/ DestroyEnd \/ Destroy \/ AssertFails \/ Gone
           \/ UNCHANGED vars
  BY Zenon, <1>2, <1>9 DEF delete_shm, DestroyEnd, Destroy, AssertFails, Gone, vars, locals
<1> QED
  BY <1>1, <1>3, <1>4, <1>5, <1>6, <1>7, <1>8, <1>9 DEF Next, Proceed

(* get_class() (L332-344) computes what get_class_slow() (L346-357) does   *)
(* for every request above the smallest class, whatever bsrl leaves for    *)
(* the others.                                                             *)
THEOREM ClassIsReference == Spec => []GetClassIsReference
<1>1. Init => RequestFits /\ RequestFirst
  BY DEF Init, RequestFits, RequestFirst
<1>2. RequestFits /\ RequestFirst => GetClassIsReference
  <2> SUFFICES ASSUME RequestFits, RequestFirst,
                      pc \in {"reserve", "split"}, request > kMinClassSize
               PROVE  size_class = get_class_slow(request)
    BY DEF GetClassIsReference
  <2> DEFINE S == {c \in Classes : request <= class_max_size(c)}
  <2>1. size_class \in S /\ \A d \in S : size_class <= d
    BY Zenon DEF RequestFits, RequestFirst
  <2>2. S \subseteq Int
    BY ConstantsAssumption DEF Classes, top
  <2> HIDE DEF S
  <2>3. \E m \in S : \A y \in S : m <= y
    BY <2>1
  <2>4. Min(S) \in S /\ \A y \in S : Min(S) <= y
    BY <2>3 DEF Min
  <2>5. \A a, b \in Int : a <= b /\ b <= a => a = b
    OBVIOUS
  <2>6. size_class = Min(S)
    BY Zenon, <2>1, <2>2, <2>4, <2>5
  <2> QED
    BY <2>6 DEF get_class_slow, S
<1> QED
  BY <1>1, <1>2, RequestStep, RequestFirstStep, PTL DEF Spec

(* The destructor has deleted every segment of a key it has visited.       *)
Visited(i) == \A s \in segments : s.shm_key # shm_list[i].shm_key
DeletedSoFar ==
    /\ pc = "destroy" => \A i \in DOMAIN shm_list : i < next_class => Visited(i)
    /\ pc = "destroyed" => \A i \in DOMAIN shm_list : Visited(i)

LEMMA DeletedStep == IInv /\ DeletedSoFar /\ [Next]_vars => DeletedSoFar'
<1> SUFFICES ASSUME IInv, DeletedSoFar, [Next]_vars PROVE DeletedSoFar'
  OBVIOUS
<1>1. DOMAIN shm_list = 1 .. Len(shm_list) /\ Len(shm_list) \in Nat /\ next_class \in Nat
  BY DEF IInv, TypeOK
<1>2. CASE pc' \notin {"destroy", "destroyed"}
  BY <1>2 DEF DeletedSoFar
<1>3. CASE Destroy
  BY <1>1, <1>3 DEF Destroy, DeletedSoFar
<1>4. CASE delete_shm
  <2>1. CASE shm_list[next_class].shm_key = 0
    BY <1>2, <1>4, <2>1 DEF delete_shm
  <2>2. CASE shm_list[next_class].shm_key # 0
    <3>1. /\ segments' = {s \in segments : s.shm_key # shm_list[next_class].shm_key}
          /\ next_class' = next_class + 1 /\ pc' = "destroy" /\ pc = "destroy"
          /\ shm_list' = shm_list
      BY <1>4, <2>2 DEF delete_shm
    <3>2. ASSUME NEW i \in DOMAIN shm_list, i < next_class + 1 PROVE Visited(i)'
      <4>1. CASE i < next_class
        BY <3>1, <4>1 DEF DeletedSoFar, Visited
      <4>2. CASE i = next_class
        BY <3>1, <4>2 DEF Visited
      <4> QED
        BY <1>1, <3>2, <4>1, <4>2
    <3> QED
      BY <3>1, <3>2 DEF DeletedSoFar
  <2> QED
    BY <2>1, <2>2
<1>5. CASE DestroyEnd
  BY <1>1, <1>5 DEF DestroyEnd, DeletedSoFar, Visited
<1>6. CASE Gone \/ UNCHANGED vars
  <2>1. UNCHANGED vars
    BY <1>6 DEF Gone
  <2> QED
    BY Zenon, <2>1 DEF vars, locals, DeletedSoFar, Visited
<1>7. ASSUME NEW size \in Sizes, AllocHit(size) \/ AllocMiss(size)
      PROVE pc' \notin {"destroy", "destroyed"}
  BY <1>7 DEF AllocHit, AllocMiss
<1>8. ASSUME NEW size \in RawSizes, AllocRaw(size) PROVE pc' \notin {"destroy", "destroyed"}
  BY <1>8 DEF AllocRaw
<1>9. ASSUME NEW b \in held, FreeBuf(b) PROVE pc' \notin {"destroy", "destroyed"}
  BY <1>9 DEF FreeBuf
<1>10. CASE ReserveOk \/ ReserveENOMEM \/ ReserveThrows \/ Split \/ AllocReturn \/ AssertFails
  <2>1. pc' \notin {"destroy", "destroyed"}
    BY Zenon, <1>10 DEF ReserveOk, ReserveENOMEM, ReserveThrows, Split, AllocReturn, Return, AssertFails
  <2> QED
    BY <1>2, <2>1
<1> QED
  BY <1>2, <1>3, <1>4, <1>5, <1>6, <1>7, <1>8, <1>9, <1>10 DEF Next, Proceed

(* Whatever failed before, a destructor that ends has freed every region   *)
(* of shm_list (L155-159, L421-455).                                       *)
THEOREM DestructorFreesRecorded == Spec => []RecordedRegionsFreed
<1>1. Init => DeletedSoFar
  BY DEF Init, DeletedSoFar
<1>2. DeletedSoFar => RecordedRegionsFreed
  BY DEF DeletedSoFar, Visited, RecordedRegionsFreed
<1> QED
  BY <1>1, <1>2, DeletedStep, Inductive, PTL DEF Spec

(* The Buffers, the classes and the recorded regions are right with every  *)
(* fault the code handles, for every value of the constants.               *)
THEOREM FaultsAreContained == Spec => []FaultsContained
BY NoOverlap, ClassIsReference, DestructorFreesRecorded, PTL DEF FaultsContained
==============================================================================
