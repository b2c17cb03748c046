------------------------------ MODULE Allocator ------------------------------
(***************************************************************************)
(* What the users of src/utils/huge_alloc.h rely on: alloc() hands out a    *)
(* Buffer that is large enough and shares no byte with any memory the user  *)
(* already has, free_buf() takes one back, and memory from alloc_raw() is   *)
(* the user's until the allocator goes away.                                *)
(***************************************************************************)
EXTENDS Integers

CONSTANTS Sizes, RawSizes

VARIABLES held, raw

Buffer == [buf : Nat, class_size : Nat]
Region == [buf : Nat, size : Nat]

(* The memory from buf on, size bytes long, is none of the user's.         *)
Unused(buf, size) ==
    /\ \A h \in held : buf + size <= h.buf \/ h.buf + h.class_size <= buf
    /\ \A r \in raw : buf + size <= r.buf \/ r.buf + r.size <= buf

Init == held = {} /\ raw = {}

Alloc(size) ==
    \E b \in held' \ held :
        /\ b \in Buffer
        /\ b.class_size >= size
        /\ Unused(b.buf, b.class_size)
        /\ held' = held \cup {b}
        /\ UNCHANGED raw

AllocRaw(size) ==
    \E r \in raw' \ raw :
        /\ r \in Region
        /\ r.size >= size
        /\ Unused(r.buf, r.size)
        /\ raw' = raw \cup {r}
        /\ UNCHANGED held

Free(b) ==
    /\ held' = held \ {b}
    /\ UNCHANGED raw

Next ==
    \/ \E size \in Sizes : Alloc(size)
    \/ \E size \in RawSizes : AllocRaw(size)
    \/ \E b \in held : Free(b)

Spec == Init /\ [][Next]_<<held, raw>>
==============================================================================
