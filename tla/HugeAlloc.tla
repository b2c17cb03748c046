------------------------------ MODULE HugeAlloc ------------------------------
(***************************************************************************)
(* The hugepage allocator of src/utils/huge_alloc.h.                        *)
(*                                                                          *)
(* One thread owns the allocator.  A call of alloc() that finds its class   *)
(* empty is a sequence of steps (reserve hugepages, split a buffer once per *)
(* class, take the last one), so that the state between two of them can be  *)
(* observed; the other calls are one step each.  The kernel's shared-memory *)
(* segments and the buffers the user holds are part of the state.           *)
(***************************************************************************)
EXTENDS Integers, Sequences, FiniteSets, FiniteSetsExt

CONSTANTS
    kMinClassSize,    \* size of class 0
    kNumClasses,      \* number of size classes
    kHugepageSize,    \* granularity of a reservation
    InitialSize,      \* the constructor's initial_size argument
    Sizes,            \* sizes the user passes to alloc()
    RawSizes,         \* sizes the user passes to alloc_raw()
    Bases,            \* addresses at which shmat() can attach a segment
    Keys,             \* values abs(slow_rand.next_u64()) can take
    BsrZero,          \* what the build leaves in index after bsrl of 0
    ShmgetThrows,     \* TRUE iff shmget may fail with EACCES, EINVAL, ...
    BindFails,        \* TRUE iff shmat() or mbind() may fail
    MaxReservation,   \* bound: largest reservation alloc() tries
    MaxHeld           \* bound: Buffers the user holds at a time

Classes == 0 .. kNumClasses - 1
top == kNumClasses - 1

class_max_size(class_i) == kMinClassSize * 2^class_i

kMaxClassSize == class_max_size(top)

(* The constants of the class: L24, L129-135.  PowersOfTwo is the          *)
(* arithmetic fact about exponentiation the proofs rest on.                *)
ASSUME ConstantsAssumption ==
    /\ kMinClassSize \in Nat \ {0}
    /\ kNumClasses \in Nat \ {0}
    /\ kHugepageSize \in Nat \ {0}
    /\ InitialSize \in Nat
    /\ Sizes \subseteq Nat \ {0}
    /\ RawSizes \subseteq Nat \ {0}
    /\ Bases \subseteq Nat
    /\ Keys \subseteq Nat
    /\ BsrZero \subseteq Nat
    /\ ShmgetThrows \in BOOLEAN
    /\ BindFails \in BOOLEAN
    /\ MaxReservation \in Nat
    /\ MaxHeld \in Nat

ASSUME SizesAssumption == \A size \in Sizes : size <= kMaxClassSize

ASSUME PowersOfTwo ==
    /\ \A c \in Classes : 2^c \in Nat \ {0}
    /\ \A c \in Classes \ {0} : 2^c = 2 * 2^(c - 1)
    /\ \A c, d \in Classes : c <= d => 2^c <= 2^d

(* A Buffer: its first address and its class_size.                         *)
Buffer == [buf : Nat, class_size : Nat]
shm_region_t == [shm_key : Nat, buf : Nat, size : Nat]

(* The most significant bit of x, counted from 1.  bsrl leaves its         *)
(* destination undefined for 0, so msb_index(0) is whatever the build      *)
(* leaves in an uninitialised variable.                                    *)
msb_index(x) ==
    IF x = 0 THEN BsrZero
             ELSE {i \in 1 .. x : 2^(i - 1) <= x /\ x < 2^i}

(* Mutant: the size is not decremented before the shift.                   *)
get_class_OffByOne(size) == msb_index(size \div kMinClassSize)

get_class(size) == msb_index((size - 1) \div kMinClassSize)

round_up(x) == ((x + kHugepageSize - 1) \div kHugepageSize) * kHugepageSize

(* Operations of std::vector.                                              *)
back(s) == s[Len(s)]
pop_back(s) == [i \in 1 .. Len(s) - 1 |-> s[i]]
push_back(s, e) == Append(s, e)

(* Two stretches of memory share no address.                               *)
Apart(buf1, size1, buf2, size2) == buf1 + size1 <= buf2 \/ buf2 + size2 <= buf1

VARIABLES
    freelist,              \* per-class freelists
    shm_list,              \* regions the destructor will delete
    prev_allocation_size,
    shm_reserved,
    user_alloc_tot,
    segments,              \* the kernel's segments created by this allocator
    held,                  \* Buffers from alloc() the user has not freed
    raw,                   \* memory the user got from alloc_raw()
    pc,                    \* where the owning thread is
    request,               \* the size argument of the alloc() in progress
    size_class, next_class \* locals of alloc()

vars == <<freelist, shm_list, prev_allocation_size, shm_reserved,
          user_alloc_tot, segments, held, raw, pc, request, size_class,
          next_class>>
locals == <<request, size_class, next_class>>
------------------------------------------------------------------------------
(* What the constructor makes of its argument.  Mutant: no minimum.        *)
FirstAllocationSize_NoMinimum == InitialSize
FirstAllocationSize ==
    IF InitialSize < kMaxClassSize THEN kMaxClassSize ELSE InitialSize

(* The constructor: no memory is reserved yet.                             *)
Init ==
    /\ freelist = [c \in Classes |-> <<>>]
    /\ shm_list = <<>>
    /\ prev_allocation_size = FirstAllocationSize
    /\ shm_reserved = 0
    /\ user_alloc_tot = 0
    /\ segments = {}
    /\ held = {}
    /\ raw = {}
    /\ pc = "idle"
    /\ request = 0
    /\ size_class = 0
    /\ next_class = 0

(* shmget() creates a segment under a key that no segment has; the loop    *)
(* retries on EEXIST.  Key 0 is IPC_PRIVATE and is never found taken.      *)
FreshKey(key) == key = 0 \/ \A s \in segments : s.shm_key # key

(* A segment of the given size, under the given key and attached at base.  *)
NewSegment(key, base, size) ==
    /\ FreshKey(key)
    /\ \A s \in segments : Apart(base, size, s.buf, s.size)
    /\ segments' = segments \cup {[shm_key |-> key, buf |-> base, size |-> size]}

(* alloc_raw() succeeds: the segment is attached, bound and recorded.      *)
alloc_raw_ok(size, base) ==
    \E key \in Keys :
        LET rsize == round_up(size) IN
        /\ NewSegment(key, base, rsize)
        /\ shm_list' = push_back(shm_list,
                         [shm_key |-> key, buf |-> base, size |-> rsize])
        /\ shm_reserved' = shm_reserved + rsize

(* alloc_raw() throws: shmget() reports something other than ENOMEM, or    *)
(* shmat()/mbind() fail after the segment has been created.                *)
alloc_raw_throws(size) ==
    /\ \/ ShmgetThrows /\ UNCHANGED segments
       \/ BindFails /\ \E key \in Keys, base \in Bases :
                           NewSegment(key, base, round_up(size))
    /\ UNCHANGED <<shm_list, shm_reserved>>

(* The user calls alloc_raw(); on ENOMEM nothing changes (a stutter).      *)
AllocRaw(size) ==
    /\ pc = "idle"
    /\ \/ \E base \in Bases :
            /\ alloc_raw_ok(size, base)
            /\ raw' = raw \cup {[buf |-> base, size |-> round_up(size)]}
       \/ alloc_raw_throws(size) /\ UNCHANGED raw
    /\ UNCHANGED <<freelist, prev_allocation_size, user_alloc_tot, held, pc,
                   locals>>
------------------------------------------------------------------------------
(* alloc() returns or throws; its locals are gone.                         *)
Return ==
    /\ pc' = "idle"
    /\ request' = 0
    /\ size_class' = 0
    /\ next_class' = 0

(* Mutant: the Buffer stays in the freelist.                               *)
alloc_from_class_NoPop(c) ==
    LET buffer == back(freelist[c]) IN
    /\ user_alloc_tot' = user_alloc_tot + buffer.class_size
    /\ held' = held \cup {buffer}
    /\ UNCHANGED freelist

(* Take the last Buffer of a class and hand it to the user.                *)
alloc_from_class(c) ==
    LET buffer == back(freelist[c]) IN
    /\ freelist' = [freelist EXCEPT ![c] = pop_back(@)]
    /\ user_alloc_tot' = user_alloc_tot + buffer.class_size
    /\ held' = held \cup {buffer}

(* The search loop of alloc() ends at n: the first class from c upward     *)
(* that has free Buffers, or kNumClasses if there is none.                 *)
FirstNonEmpty(c, n) ==
    /\ n < kNumClasses => freelist[n] # <<>>
    /\ \A k \in c .. n - 1 : freelist[k] = <<>>

(* alloc(size), class not empty.                                           *)
AllocHit(size) ==
    /\ pc = "idle"
    /\ Cardinality(held) < MaxHeld
    /\ \E c \in get_class(size) \cap Classes :
        /\ freelist[c] # <<>>
        /\ alloc_from_class(c)
    /\ UNCHANGED <<shm_list, prev_allocation_size, shm_reserved, segments, raw,
                   pc, locals>>

(* alloc(size), class empty: look for a larger class, or double the        *)
(* reservation when there is none.                                         *)
AllocMiss(size) ==
    /\ pc = "idle"
    /\ Cardinality(held) < MaxHeld
    /\ \E c \in get_class(size) \cap Classes :
        /\ freelist[c] = <<>>
        /\ size_class' = c
        /\ \E n \in c + 1 .. kNumClasses : FirstNonEmpty(c + 1, n) /\ next_class' = n
    /\ \/ /\ next_class' < kNumClasses
          /\ pc' = "split"
          /\ UNCHANGED prev_allocation_size
       \/ /\ next_class' = kNumClasses
          /\ 2 * prev_allocation_size <= MaxReservation
          /\ prev_allocation_size' = 2 * prev_allocation_size
          /\ pc' = "reserve"
    /\ request' = size
    /\ UNCHANGED <<freelist, shm_list, shm_reserved, user_alloc_tot, segments,
                   held, raw>>

(* The max-class Buffers of a region reserved for the freelists.           *)
MaxBuffers(base, size) ==
    [i \in 1 .. size \div kMaxClassSize |->
        [buf |-> base + (i - 1) * kMaxClassSize, class_size |-> kMaxClassSize]]

(* reserve_hugepages() succeeds.                                           *)
ReserveOk ==
    /\ pc = "reserve"
    /\ \E base \in Bases :
        /\ alloc_raw_ok(prev_allocation_size, base)
        /\ freelist' = [freelist EXCEPT ![top] =
                           @ \o MaxBuffers(base, prev_allocation_size)]
    /\ next_class' = top
    /\ pc' = "split"
    /\ UNCHANGED <<prev_allocation_size, user_alloc_tot, held, raw, request,
                   size_class>>

(* Mutant: ENOMEM leaves the doubled size.                                 *)
ReserveENOMEM_NotRestored ==
    /\ pc = "reserve"
    /\ Return
    /\ UNCHANGED <<freelist, shm_list, prev_allocation_size, shm_reserved,
                   user_alloc_tot, segments, held, raw>>

(* reserve_hugepages() returns false (ENOMEM): alloc() restores            *)
(* prev_allocation_size and returns an invalid Buffer.                     *)
ReserveENOMEM ==
    /\ pc = "reserve"
    /\ prev_allocation_size' = prev_allocation_size \div 2
    /\ Return
    /\ UNCHANGED <<freelist, shm_list, shm_reserved, user_alloc_tot, segments,
                   held, raw>>

(* alloc_raw() throws through reserve_hugepages() and alloc().             *)
ReserveThrows ==
    /\ pc = "reserve"
    /\ alloc_raw_throws(prev_allocation_size)
    /\ Return
    /\ UNCHANGED <<freelist, prev_allocation_size, user_alloc_tot, held, raw>>

(* The two halves of a Buffer.                                             *)
buffer_0(b) == [buf |-> b.buf, class_size |-> b.class_size \div 2]
buffer_1(b) == [buf |-> b.buf + b.class_size \div 2,
                class_size |-> b.class_size \div 2]

(* Mutants: the Buffer that is split stays in its class; its second half   *)
(* is dropped.                                                             *)
SplitInto(pieces, keep) ==
    /\ pc = "split"
    /\ freelist' = [freelist EXCEPT
          ![next_class] = IF keep THEN @ ELSE pop_back(@),
          ![next_class - 1] = @ \o pieces]
    /\ next_class' = next_class - 1
    /\ UNCHANGED <<shm_list, prev_allocation_size, shm_reserved, user_alloc_tot,
                   segments, held, raw, pc, request, size_class>>

Halves == LET b == back(freelist[next_class]) IN <<buffer_0(b), buffer_1(b)>>

Split_KeepsParent == next_class # size_class /\ SplitInto(Halves, TRUE)
Split_DropsHalf == next_class # size_class /\ SplitInto(<<Head(Halves)>>, FALSE)

(* One turn of alloc()'s loop: split(next_class); next_class--.            *)
Split ==
    /\ pc = "split"
    /\ next_class # size_class
    /\ LET buffer == back(freelist[next_class]) IN
       freelist' = [freelist EXCEPT
          ![next_class] = pop_back(@),
          ![next_class - 1] = push_back(push_back(@, buffer_0(buffer)),
                                        buffer_1(buffer))]
    /\ next_class' = next_class - 1
    /\ UNCHANGED <<shm_list, prev_allocation_size, shm_reserved, user_alloc_tot,
                   segments, held, raw, pc, request, size_class>>

(* The loop is over: alloc_from_class(size_class) ends alloc().            *)
AllocReturn ==
    /\ pc = "split"
    /\ next_class = size_class
    /\ alloc_from_class(size_class)
    /\ Return
    /\ UNCHANGED <<shm_list, prev_allocation_size, shm_reserved, segments, raw>>

(* Mutant: free_buf() forgets the statistics.                              *)
FreeBuf_NoStats(b) ==
    /\ pc = "idle"
    /\ \E c \in get_class(b.class_size) \cap Classes :
          freelist' = [freelist EXCEPT ![c] = push_back(@, b)]
    /\ held' = held \ {b}
    /\ UNCHANGED <<shm_list, prev_allocation_size, shm_reserved, user_alloc_tot,
                   segments, raw, pc, locals>>

(* free_buf() of a Buffer that alloc() returned and the user still holds.  *)
FreeBuf(b) ==
    /\ pc = "idle"
    /\ \E c \in get_class(b.class_size) \cap Classes :
        /\ class_max_size(c) = b.class_size
        /\ freelist' = [freelist EXCEPT ![c] = push_back(@, b)]
    /\ user_alloc_tot' = user_alloc_tot - b.class_size
    /\ held' = held \ {b}
    /\ UNCHANGED <<shm_list, prev_allocation_size, shm_reserved, segments, raw,
                   pc, locals>>

(* The asserts on get_class()'s result in alloc() and free_buf() fail.     *)
AssertFails ==
    /\ pc = "idle"
    /\ \/ \E size \in Sizes : \E c \in get_class(size) : c \notin Classes
       \/ \E b \in held : \E c \in get_class(b.class_size) :
              c \notin Classes \/ class_max_size(c) # b.class_size
    /\ pc' = "aborted"
    /\ UNCHANGED <<freelist, shm_list, prev_allocation_size, shm_reserved,
                   user_alloc_tot, segments, held, raw, locals>>
------------------------------------------------------------------------------
(* The destructor deletes the regions of shm_list in order; next_class is  *)
(* reused as the index of the region to delete.                            *)
Destroy ==
    /\ pc = "idle"
    /\ pc' = "destroy"
    /\ next_class' = 1
    /\ UNCHANGED <<freelist, shm_list, prev_allocation_size, shm_reserved,
                   user_alloc_tot, segments, held, raw, request, size_class>>

(* Mutant: the loop does not advance past a region it has deleted.         *)
delete_shm_NoAdvance ==
    /\ pc = "destroy"
    /\ next_class <= Len(shm_list)
    /\ LET key == shm_list[next_class].shm_key IN
       segments' = {s \in segments : s.shm_key # key}
    /\ UNCHANGED <<freelist, shm_list, prev_allocation_size, shm_reserved,
                   user_alloc_tot, held, raw, pc, locals>>

(* delete_shm() of the next region.  shmget(0, 0, 0) asks for a new        *)
(* private segment of size 0 and fails with EINVAL: the process exits.     *)
delete_shm ==
    /\ pc = "destroy"
    /\ next_class <= Len(shm_list)
    /\ LET key == shm_list[next_class].shm_key IN
       IF key = 0
       THEN pc' = "exited" /\ UNCHANGED <<segments, next_class>>
       ELSE /\ segments' = {s \in segments : s.shm_key # key}
            /\ next_class' = next_class + 1
            /\ UNCHANGED pc
    /\ UNCHANGED <<freelist, shm_list, prev_allocation_size, shm_reserved,
                   user_alloc_tot, held, raw, request, size_class>>

(* Mutant: the last region is not visited.                                 *)
DestroyEnd_Early ==
    /\ pc = "destroy"
    /\ next_class >= Len(shm_list)
    /\ pc' = "destroyed"
    /\ UNCHANGED <<freelist, shm_list, prev_allocation_size, shm_reserved,
                   user_alloc_tot, segments, held, raw, locals>>

DestroyEnd ==
    /\ pc = "destroy"
    /\ next_class > Len(shm_list)
    /\ pc' = "destroyed"
    /\ UNCHANGED <<freelist, shm_list, prev_allocation_size, shm_reserved,
                   user_alloc_tot, segments, held, raw, locals>>

(* The allocator is gone; nothing happens any more.                        *)
Gone == pc \in {"destroyed", "exited", "aborted"} /\ UNCHANGED vars
------------------------------------------------------------------------------
(* The steps of the call in progress.                                      *)
Proceed == ReserveOk \/ ReserveENOMEM \/ ReserveThrows \/ Split \/ AllocReturn
           \/ delete_shm \/ DestroyEnd

Next ==
    \/ \E size \in Sizes : AllocHit(size) \/ AllocMiss(size)
    \/ \E size \in RawSizes : AllocRaw(size)
    \/ \E b \in held : FreeBuf(b)
    \/ Proceed
    \/ Destroy
    \/ AssertFails
    \/ Gone

Spec == Init /\ [][Next]_vars

(* A thread inside alloc() or the destructor keeps running.                *)
FairSpec == Spec /\ WF_vars(Proceed)
------------------------------------------------------------------------------
Free(c) == {freelist[c][i] : i \in DOMAIN freelist[c]}
FreeBuffers == UNION {Free(c) : c \in Classes}

(* The regions whose memory went to the freelists: reserve_hugepages()     *)
(* made them, not the user's alloc_raw().                                  *)
IsRaw(r) == [buf |-> r.buf, size |-> r.size] \in raw
PoolIndices == {i \in DOMAIN shm_list : ~IsRaw(shm_list[i])}

(* Every variable holds a value of its C++ type, and the locals of alloc() *)
(* are classes while it runs.                                              *)
TypeOK ==
    /\ freelist \in [Classes -> Seq(Buffer)]
    /\ shm_list \in Seq(shm_region_t)
    /\ prev_allocation_size \in Nat
    /\ shm_reserved \in Nat
    /\ user_alloc_tot \in Int
    /\ segments \subseteq shm_region_t
    /\ held \subseteq Buffer
    /\ raw \subseteq [buf : Nat, size : Nat]
    /\ pc \in {"idle", "reserve", "split", "destroy", "destroyed", "exited",
               "aborted"}
    /\ request \in Nat
    /\ size_class \in Classes
    /\ next_class \in Nat

(* No byte belongs to two Buffers: two entries of the freelists, an entry  *)
(* and a Buffer the user holds, or two Buffers the user holds never        *)
(* overlap, whatever sequence of alloc(), split and free_buf() came before *)
(* (L261-315, L361-393).                                                   *)
Disjoint(a, b) == Apart(a.buf, a.class_size, b.buf, b.class_size)

BuffersDisjoint ==
    /\ \A c, d \in Classes :
         \A i \in DOMAIN freelist[c], j \in DOMAIN freelist[d] :
            (c # d \/ i # j) => Disjoint(freelist[c][i], freelist[d][j])
    /\ \A c \in Classes : \A i \in DOMAIN freelist[c], h \in held :
            Disjoint(freelist[c][i], h)
    /\ \A g, h \in held : g # h => Disjoint(g, h)

(* While alloc() splits, the class it takes a Buffer from has one and the  *)
(* class below is empty: the asserts of split() (L362-364) and the one     *)
(* before alloc_from_class() (L297) never fail.                            *)
SplitAsserts ==
    pc = "split" =>
        /\ next_class \in Classes
        /\ size_class <= next_class
        /\ freelist[next_class] # <<>>
        /\ \A c \in size_class .. next_class - 1 : freelist[c] = <<>>

(* The rest of the inductive invariant.  A Buffer has the size of its      *)
(* class; the reservation to come is large enough and its class, and all   *)
(* above it, are empty; as long as the allocator lives, every Buffer is    *)
(* part of a segment that is not the user's raw memory, and all raw memory *)
(* is a segment.                                                           *)
ClassSizes ==
    /\ \A c \in Classes : \A i \in DOMAIN freelist[c] :
            freelist[c][i].class_size = class_max_size(c)
    /\ \A h \in held : h.class_size \in Nat \ {0}

Reservation ==
    /\ prev_allocation_size >= kMaxClassSize
    /\ pc = "reserve" =>
          /\ prev_allocation_size >= 2 * kMaxClassSize
          /\ \A c \in size_class .. top : freelist[c] = <<>>

InSegment(b) ==
    \E s \in segments :
        /\ ~IsRaw(s)
        /\ s.buf <= b.buf
        /\ b.buf + b.class_size <= s.buf + s.size

Alive == pc \in {"idle", "reserve", "split"}

Backed ==
    Alive =>
        /\ \A c \in Classes : \A i \in DOMAIN freelist[c] : InSegment(freelist[c][i])
        /\ \A h \in held : InSegment(h)
        /\ \A r \in raw : \E s \in segments : s.buf = r.buf /\ s.size = r.size
        /\ \A s, t \in segments : s # t => Apart(s.buf, s.size, t.buf, t.size)
        /\ \A s \in segments : s.size > 0

IInv == TypeOK /\ ClassSizes /\ Reservation /\ SplitAsserts /\ Backed
        /\ BuffersDisjoint

(* No memory is lost: each byte of the max-class Buffers carved from a     *)
(* reserved region is in a freelist or in a Buffer the user holds, between *)
(* any two steps of splitting, allocating and freeing (L261-315, L361-393). *)
(* The Buffers are counted in the size before it is rounded up to hugepages *)
(* (L405-417): the two are equal when the first size is a whole number of   *)
(* hugepages, and differ by less than one hugepage otherwise.               *)
Covered(a) ==
    \E b \in FreeBuffers \cup held : b.buf <= a /\ a < b.buf + b.class_size

WholePages(size) == round_up(size) = size

Carved(r) ==
    LET size == IF WholePages(FirstAllocationSize) THEN r.size
                ELSE r.size - kHugepageSize + 1
    IN  r.buf .. r.buf + (size \div kMaxClassSize) * kMaxClassSize - 1

NoMemoryLost == \A k \in PoolIndices : \A a \in Carved(shm_list[k]) : Covered(a)

(* The statistics are exact: user_alloc_tot is the memory the user holds   *)
(* (L325-329) and shm_reserved what the recorded regions add up to         *)
(* (L319-323), after every operation and also when one fails.              *)
StatsExact ==
    /\ user_alloc_tot = MapThenSumSet(LAMBDA b : b.class_size, held)
    /\ shm_reserved = MapThenSumSet(LAMBDA i : shm_list[i].size,
                                    DOMAIN shm_list)

(* prev_allocation_size is the size of the previous hugepage reservation   *)
(* (L462): between calls it is the size of the last region made for the    *)
(* freelists, or the constructor's value when there is none.               *)
PrevAllocationIsLastReservation ==
    pc = "idle" =>
        IF PoolIndices = {}
        THEN prev_allocation_size = FirstAllocationSize
        ELSE shm_list[Max(PoolIndices)].size = round_up(prev_allocation_size)

(* The allocator deallocates the SHM regions it creates when it is deleted *)
(* (L122-123): once the destructor is over, or the process exited in it,   *)
(* no segment is left.                                                     *)
DestructorFreesAllShm == pc \in {"destroyed", "exited"} => segments = {}

(* Whatever failed before, the destructor frees all it knows of: when it   *)
(* ends, no region of shm_list is left (L155-159, L421-455).               *)
RecordedRegionsFreed ==
    pc = "destroyed" =>
        \A i \in DOMAIN shm_list, s \in segments :
            s.buf = shm_list[i].buf => s.shm_key # shm_list[i].shm_key

(* Each byte carved from a region is free or held, between any two steps   *)
(* of alloc() and free_buf(); the doubling starts from the last            *)
(* reservation, also after one that ran out of hugepages; no segment       *)
(* survives delete (L122-123, L261-315, L361-393, L462).                   *)
NothingStranded == NoMemoryLost /\ PrevAllocationIsLastReservation
                   /\ DestructorFreesAllShm

(* A request above the smallest class is served from the class that        *)
(* get_class_slow (L346-357) computes, the first one that is large enough, *)
(* whatever bsrl leaves (L78) for a request within the smallest class.     *)
get_class_slow(size) == Min({c \in Classes : size <= class_max_size(c)})

GetClassIsReference ==
    pc \in {"reserve", "split"} /\ request > kMinClassSize =>
        size_class = get_class_slow(request)

(* Whatever fails, and whatever bsrl leaves for 0: no two Buffers overlap, *)
(* a request above the smallest class is served from the first class that  *)
(* is large enough, and a destructor that ends has freed every region it   *)
(* recorded (L78, L155-159, L261-315, L346-357).                           *)
FaultsContained == BuffersDisjoint /\ GetClassIsReference /\ RecordedRegionsFreed

(* Every alloc() returns and every destructor ends: the split loop and the *)
(* deletion loop terminate.                                                *)
CallsReturn ==
    (pc \in {"reserve", "split", "destroy"}) ~>
        (pc \in {"idle", "destroyed", "exited"})

(* The allocator implements what its users rely on.                        *)
A == INSTANCE Allocator
ImplementsAllocator == A!Spec
==============================================================================
