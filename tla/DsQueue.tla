------------------------------ MODULE DsQueue ------------------------------
(***************************************************************************)
(* DS/queue/ds_queue.c: a queue of integers as a linked list with head,    *)
(* tail and count.  The heap is a function of addresses; malloc() may give  *)
(* a freed address again.  The queue implements a sequence (Contents).      *)
(***************************************************************************)
EXTENDS Integers, Sequences, FiniteSets

CONSTANTS
    Addr,        \* addresses malloc() may return
    Data,
    NULL

VARIABLES
    node,        \* node[a]: data and next at address a
    live,        \* allocated addresses
    head, tail, count,
    items,       \* what the queue should hold: specification only
    ret          \* what the last remove returned and should have returned

vars == <<node, live, head, tail, count, items, ret>>

Node == [data : Data, next : Addr \cup {NULL}]
NoRet == <<>>

-----------------------------------------------------------------------------
\* ds_queue_init(); memory that was never written holds anything.
Init ==
    /\ \E d \in Data : node = [a \in Addr |-> [data |-> d, next |-> NULL]]
    /\ live = {}
    /\ head = NULL /\ tail = NULL
    /\ count = 0
    /\ items = <<>>
    /\ ret = NoRet

\* Mutated: the new node is linked behind the head.
ds_queue_add_BehindHead(a, d) ==
    /\ a \notin live
    /\ live' = live \cup {a}
    /\ LET new == [data |-> d, next |-> NULL] IN
       node' = IF head = NULL
               THEN [node EXCEPT ![a] = new]
               ELSE [node EXCEPT ![a] = new, ![head].next = a]
    /\ head' = IF head = NULL THEN a ELSE head
    /\ tail' = a
    /\ count' = count + 1
    /\ items' = Append(items, d)
    /\ UNCHANGED ret

ds_queue_add(a, d) ==
    /\ a \notin live
    /\ live' = live \cup {a}
    /\ LET new == [data |-> d, next |-> NULL] IN
       node' = IF head = NULL
               THEN [node EXCEPT ![a] = new]
               ELSE [node EXCEPT ![a] = new, ![tail].next = a]
    /\ head' = IF head = NULL THEN a ELSE head
    /\ tail' = a
    /\ count' = count + 1
    /\ items' = Append(items, d)
    /\ UNCHANGED ret

\* Its first assertion is the caller's duty, and the guard.  ds_queue_free()
\* is this, while the count is not zero.
ds_queue_remove ==
    /\ head # NULL
    /\ ret' = <<node[head].data, Head(items)>>
    /\ items' = Tail(items)
    /\ head' = node[head].next
    /\ count' = count - 1
    /\ tail' = IF head' = NULL THEN NULL ELSE tail
    /\ live' = live \ {head}
    /\ UNCHANGED node

Next == ds_queue_remove \/ \E a \in Addr, d \in Data : ds_queue_add(a, d)

Spec == Init /\ [][Next]_vars

-----------------------------------------------------------------------------
\* The addresses met from head on, as ds_queue_print() follows them.
Path ==
    LET at[n \in 1 .. Cardinality(Addr) + 1] ==
            IF n = 1 THEN head
            ELSE IF at[n - 1] = NULL THEN NULL ELSE node[at[n - 1]].next
    IN  SelectSeq([n \in 1 .. Cardinality(Addr) + 1 |-> at[n]], LAMBDA a : a # NULL)

(***************************************************************************)
(* The type invariant: head and tail are null together, and the queue      *)
(* never points to freed memory from its ends.                             *)
(***************************************************************************)
TypeOK ==
    /\ node \in [Addr -> Node]
    /\ live \subseteq Addr
    /\ head \in live \cup {NULL} /\ tail \in live \cup {NULL}
    /\ head = NULL <=> tail = NULL
    /\ count \in Nat

(***************************************************************************)
(* The list is the sequence: from head on it holds the data in the order   *)
(* in which they were added, ends at tail, has count nodes (the assertion  *)
(* in ds_queue_remove included) and uses all the memory that is allocated, *)
(* whatever addresses malloc() gives again.                                *)
(***************************************************************************)
ListIsSequence ==
    /\ count = Len(items)
    /\ Len(Path) = count
    /\ [k \in DOMAIN Path |-> node[Path[k]].data] = items
    /\ count > 0 => Path[count] = tail
    /\ live = {Path[k] : k \in DOMAIN Path}

(***************************************************************************)
(* ds_queue_remove() returns the oldest item, as main() asserts.           *)
(***************************************************************************)
FirstInFirstOut == ret # NoRet => ret[1] = ret[2]
=============================================================================
