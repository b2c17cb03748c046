------------------------------- MODULE RawEth -------------------------------
(***************************************************************************)
(* raw_eth/rxtx: sender.cc posts one inlined UDP packet at a time to a      *)
(* random receiver thread; in receiver.cc each thread has a queue pair of   *)
(* its own, a flow rule for its port, and a ring of receive buffers that it *)
(* walks with ring_head, never looking at which buffer a completion is for. *)
(*                                                                          *)
(* The NICs, the wire and the verbs library are external: the wire keeps    *)
(* packets in order and may lose them, a NIC fills posted buffers in the    *)
(* order of posting, and a post to a full send queue returns an error.      *)
(***************************************************************************)
EXTENDS Integers, Sequences

CONSTANTS
    kReceiverThreads, kRQDepth, kSQDepth,
    MaxTx           \* bound: packets the sender tries to send

RecvThreads == 0 .. kReceiverThreads - 1
Slots == 0 .. kRQDepth - 1

VARIABLES
    packet,         \* the sender's packet buffer
    seq_num, nb_tx, spc,
    sq, send_cq,    \* packets posted and not transmitted; completions
    wire,
    rq, recv_cq,    \* per thread: slots posted, slots filled, in order
    ring,           \* the receive buffers
    rpc, ring_head,
    comp,           \* the slot of the completion in hand: not known to the code
    got             \* the last message read

svars == <<packet, seq_num, nb_tx, spc>>
rvars == <<rpc, ring_head, comp, got>>
vars == <<svars, sq, send_cq, wire, rq, recv_cq, ring, rvars>>

Packet == [dst_port : RecvThreads, receiver_thread : RecvThreads, seq_num : -1 .. MaxTx]
Blank == [dst_port |-> 0, receiver_thread |-> 0, seq_num |-> -1]

-----------------------------------------------------------------------------
\* The sender's first packet is formatted; every slot of a ring is posted.
Init ==
    /\ packet = Blank
    /\ seq_num = [r \in RecvThreads |-> 0] /\ nb_tx = 0 /\ spc = "post"
    /\ sq = <<>> /\ send_cq = 0 /\ wire = <<>>
    /\ rq = [r \in RecvThreads |-> [k \in 1 .. kRQDepth |-> k - 1]]
    /\ recv_cq = [r \in RecvThreads |-> <<>>]
    /\ ring = [r \in RecvThreads |-> [b \in Slots |-> Blank]]
    /\ rpc = [r \in RecvThreads |-> "poll"] /\ ring_head = [r \in RecvThreads |-> 0]
    /\ comp = [r \in RecvThreads |-> 0] /\ got = [r \in RecvThreads |-> Blank]

\* The packet is directed to thread d and posted inline.  A full queue makes
\* ibv_post_send() return a positive error, which `ret < 0' does not catch:
\* the number is used up and nothing is sent.
Post(d) ==
    /\ spc = "post" /\ nb_tx < MaxTx
    /\ packet' = [dst_port |-> d, receiver_thread |-> d, seq_num |-> seq_num[d]]
    /\ seq_num' = [seq_num EXCEPT ![d] = @ + 1]
    /\ sq' = IF Len(sq) + send_cq < kSQDepth THEN Append(sq, packet') ELSE sq
    /\ nb_tx' = nb_tx + 1
    /\ spc' = "poll"
    /\ UNCHANGED <<send_cq, wire, rq, recv_cq, ring, rvars>>

\* One poll of the send queue for each post, whether it finds anything or not.
PollSend ==
    /\ spc = "poll"
    /\ send_cq' = IF send_cq > 0 THEN send_cq - 1 ELSE 0
    /\ spc' = "post"
    /\ UNCHANGED <<packet, seq_num, nb_tx, sq, wire, rq, recv_cq, ring, rvars>>

\* Mutated: not inline, so that the packet is read when it is transmitted.
Transmit_NotInline ==
    /\ sq # <<>>
    /\ wire' = Append(wire, packet)
    /\ sq' = Tail(sq)
    /\ send_cq' = send_cq + 1
    /\ UNCHANGED <<svars, rq, recv_cq, ring, rvars>>

Transmit ==
    /\ sq # <<>>
    /\ wire' = Append(wire, Head(sq))
    /\ sq' = Tail(sq)
    /\ send_cq' = send_cq + 1
    /\ UNCHANGED <<svars, rq, recv_cq, ring, rvars>>

\* Lost on the wire, or no buffer is posted.
Drop ==
    /\ wire # <<>>
    /\ wire' = Tail(wire)
    /\ UNCHANGED <<svars, sq, send_cq, rq, recv_cq, ring, rvars>>

\* The flow rule of install_flow_rule() selects the thread by the port.
Deliver ==
    /\ wire # <<>>
    /\ LET r == Head(wire).dst_port IN
       /\ rq[r] # <<>>
       /\ ring' = [ring EXCEPT ![r][Head(rq[r])] = Head(wire)]
       /\ recv_cq' = [recv_cq EXCEPT ![r] = Append(@, Head(rq[r]))]
       /\ rq' = [rq EXCEPT ![r] = Tail(@)]
    /\ wire' = Tail(wire)
    /\ UNCHANGED <<svars, sq, send_cq, rvars>>

PollRecv(r) ==
    /\ rpc[r] = "poll" /\ recv_cq[r] # <<>>
    /\ comp' = [comp EXCEPT ![r] = Head(recv_cq[r])]
    /\ recv_cq' = [recv_cq EXCEPT ![r] = Tail(@)]
    /\ rpc' = [rpc EXCEPT ![r] = "read"]
    /\ UNCHANGED <<svars, sq, send_cq, wire, rq, ring, ring_head, got>>

\* The message is taken from the ring at ring_head, and the thread asserted.
Read(r) ==
    /\ rpc[r] = "read"
    /\ got' = [got EXCEPT ![r] = ring[r][ring_head[r]]]
    /\ rpc' = [rpc EXCEPT ![r] = IF got'[r].receiver_thread = r THEN "repost" ELSE "assert"]
    /\ UNCHANGED <<svars, sq, send_cq, wire, rq, recv_cq, ring, ring_head, comp>>

\* Mutated: the ring wraps around one slot early.
Repost_WrapsEarly(r) ==
    /\ rpc[r] = "repost"
    /\ rq' = [rq EXCEPT ![r] = Append(@, ring_head[r])]
    /\ ring_head' = [ring_head EXCEPT ![r] = (@ + 1) % (kRQDepth - 1)]
    /\ rpc' = [rpc EXCEPT ![r] = "poll"]
    /\ UNCHANGED <<svars, sq, send_cq, wire, recv_cq, ring, comp, got>>

Repost(r) ==
    /\ rpc[r] = "repost"
    /\ rq' = [rq EXCEPT ![r] = Append(@, ring_head[r])]
    /\ ring_head' = [ring_head EXCEPT ![r] = (@ + 1) % kRQDepth]
    /\ rpc' = [rpc EXCEPT ![r] = "poll"]
    /\ UNCHANGED <<svars, sq, send_cq, wire, recv_cq, ring, comp, got>>

\* The bound is reached and every packet has been dealt with.
Quiet ==
    /\ nb_tx = MaxTx /\ spc = "post" /\ sq = <<>> /\ wire = <<>>
    /\ \A r \in RecvThreads : recv_cq[r] = <<>> /\ rpc[r] = "poll"
    /\ UNCHANGED vars

Next ==
    \/ (\E d \in RecvThreads : Post(d)) \/ PollSend
    \/ Transmit \/ Drop \/ Deliver
    \/ (\E r \in RecvThreads : PollRecv(r) \/ Read(r) \/ Repost(r))
    \/ Quiet

Spec == Init /\ [][Next]_vars

-----------------------------------------------------------------------------
(***************************************************************************)
(* The type invariant; the send queue and its completions never outgrow    *)
(* the entries they were created with.                                     *)
(***************************************************************************)
TypeOK ==
    /\ packet \in Packet /\ spc \in {"post", "poll"} /\ nb_tx \in 0 .. MaxTx
    /\ seq_num \in [RecvThreads -> 0 .. MaxTx]
    /\ sq \in Seq(Packet) /\ send_cq \in Nat /\ Len(sq) + send_cq <= kSQDepth
    /\ wire \in Seq(Packet)
    /\ rq \in [RecvThreads -> Seq(Slots)] /\ recv_cq \in [RecvThreads -> Seq(Slots)]
    /\ ring \in [RecvThreads -> [Slots -> Packet]]
    /\ rpc \in [RecvThreads -> {"poll", "read", "repost", "assert"}]
    /\ ring_head \in [RecvThreads -> Slots] /\ comp \in [RecvThreads -> Slots]
    /\ got \in [RecvThreads -> Packet]

(***************************************************************************)
(* ring_head needs no help from the completion: it is always the slot that *)
(* the completion in hand filled, and while the thread uses that slot it   *)
(* is not posted, so that the NIC cannot write to it.                      *)
(***************************************************************************)
HeadIsCompletion ==
    \A r \in RecvThreads : rpc[r] \in {"read", "repost"} =>
        /\ ring_head[r] = comp[r]
        /\ \A i \in DOMAIN rq[r] : rq[r][i] # ring_head[r]

(***************************************************************************)
(* assert(data_hdr->receiver_thread == thread_id), receiver.cc:95.         *)
(***************************************************************************)
RightThread == \A r \in RecvThreads : rpc[r] # "assert"

(***************************************************************************)
(* What a thread reads has a greater sequence number than what it read     *)
(* before, whatever was lost or never posted, although the sender writes   *)
(* the next packet while the last may not have left.                       *)
(***************************************************************************)
InOrderStep ==
    \A r \in RecvThreads : got'[r] # got[r] \/ (rpc[r] = "read" /\ rpc'[r] # "read")
        => got'[r].seq_num > got[r].seq_num

-----------------------------------------------------------------------------
(***************************************************************************)
(* The inductive invariant.  From ring_head on, the ring is the slot in    *)
(* hand, the slots filled and the slots posted, in this order.             *)
(***************************************************************************)
Slot(h, k) == IF h + k < kRQDepth THEN h + k ELSE h + k - kRQDepth
Hand(r) == IF rpc[r] = "poll" THEN 0 ELSE 1

Consecutive(n, h, filled, posted) ==
    /\ n + Len(filled) + Len(posted) = kRQDepth
    /\ \A i \in DOMAIN filled : filled[i] = Slot(h, n + i - 1)
    /\ \A i \in DOMAIN posted : posted[i] = Slot(h, n + Len(filled) + i - 1)

Walk(r) ==
    /\ Hand(r) = 1 => comp[r] = ring_head[r]
    /\ Consecutive(Hand(r), ring_head[r], recv_cq[r], rq[r])

\* Packets carry the thread they are directed to, to the slot that is read.
Directed == \A q \in {sq, wire} : \A i \in DOMAIN q : q[i].receiver_thread = q[i].dst_port
Addressed(r) ==
    /\ rpc[r] = "read" => ring[r][comp[r]].receiver_thread = r
    /\ \A i \in DOMAIN recv_cq[r] : ring[r][recv_cq[r][i]].receiver_thread = r

\* What is on its way to thread r: the sequence numbers at their places in the
\* line that ends with the last packet posted, wire[1] being at place 1.
Of(q, r) == {i \in DOMAIN q : q[i].dst_port = r}
Pending(r) ==
    {[at |-> 0 - Len(recv_cq[r]), num |-> ring[r][comp[r]].seq_num] :
        x \in {t \in {r} : rpc[t] = "read"}}
    \cup {[at |-> i - Len(recv_cq[r]), num |-> ring[r][recv_cq[r][i]].seq_num] :
             i \in DOMAIN recv_cq[r]}
    \cup {[at |-> i, num |-> wire[i].seq_num] : i \in Of(wire, r)}
    \cup {[at |-> Len(wire) + i, num |-> sq[i].seq_num] : i \in Of(sq, r)}

Ordered(r) ==
    /\ \A a, b \in Pending(r) : a.at < b.at => a.num < b.num
    /\ \A a \in Pending(r) : got[r].seq_num < a.num /\ a.num < seq_num[r]
    /\ got[r].seq_num < seq_num[r]

IInv ==
    /\ TypeOK /\ RightThread /\ Directed
    /\ \A r \in RecvThreads : seq_num[r] <= nb_tx /\ Walk(r) /\ Addressed(r) /\ Ordered(r)
=============================================================================
