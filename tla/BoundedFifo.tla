----------------------------- MODULE BoundedFifo -----------------------------
(***************************************************************************)
(* What the users of spdlog's mpmc_bounded_queue rely on: a queue of at     *)
(* most Capacity items, taken out in the order they went in.  An item has   *)
(* its place before its producer has finished writing it, and a place is    *)
(* free again only when its consumer has finished reading it, so that an    *)
(* enqueue or a dequeue may also fail because another thread is slow.       *)
(***************************************************************************)
EXTENDS Integers, Sequences

CONSTANTS Threads, Items, Capacity, NoThread, NoItem

(* q: the items in the queue, each with the producer still writing it, or  *)
(* NoThread; reading: the consumers that have not released their place;    *)
(* ret: what the last call of a thread returned.                           *)
VARIABLES q, reading, ret
qvars == <<q, reading, ret>>

Slot == [item : Items, by : Threads \cup {NoThread}]
Result == [code : {"none", "ok", "full", "empty"}, item : Items \cup {NoItem}]
Answer(code) == [code |-> code, item |-> NoItem]

FifoInit == q = <<>> /\ reading = {} /\ ret = [t \in Threads |-> Answer("none")]

(* The next call of t starts.                                              *)
Call(t) == ret' = [ret EXCEPT ![t] = Answer("none")] /\ UNCHANGED <<q, reading>>

Put(t, v) ==
    /\ Len(q) < Capacity
    /\ q' = Append(q, [item |-> v, by |-> t])
    /\ UNCHANGED <<reading, ret>>

Ready(t) ==
    /\ \E i \in DOMAIN q : q[i].by = t
    /\ q' = [i \in DOMAIN q |-> IF q[i].by = t THEN [q[i] EXCEPT !.by = NoThread]
                                               ELSE q[i]]
    /\ ret' = [ret EXCEPT ![t] = Answer("ok")]
    /\ UNCHANGED reading

PutFails(t) ==
    /\ Len(q) = Capacity \/ reading # {}
    /\ ret' = [ret EXCEPT ![t] = Answer("full")]
    /\ UNCHANGED <<q, reading>>

Take(t) ==
    /\ q # <<>>
    /\ Head(q).by = NoThread
    /\ q' = Tail(q)
    /\ ret' = [ret EXCEPT ![t] = [code |-> "ok", item |-> Head(q).item]]
    /\ reading' = reading \cup {t}

Release(t) == t \in reading /\ reading' = reading \ {t} /\ UNCHANGED <<q, ret>>

TakeFails(t) ==
    /\ q # <<>> => Head(q).by # NoThread
    /\ ret' = [ret EXCEPT ![t] = Answer("empty")]
    /\ UNCHANGED <<q, reading>>

FifoNext ==
    \E t \in Threads :
        \/ Call(t) \/ Ready(t) \/ PutFails(t)
        \/ \E v \in Items : Put(t, v)
        \/ Take(t) \/ Release(t) \/ TakeFails(t)

FifoSpec == FifoInit /\ [][FifoNext]_qvars
==============================================================================
