----------------------------- MODULE RawEthProofs -----------------------------
(***************************************************************************)
(* Proofs about RawEth for any number of receiver threads, queues of any   *)
(* depth and any number of packets.                                        *)
(***************************************************************************)
EXTENDS RawEth, TLAPS

(* What the constants of the two programs are.                             *)
Depths == /\ kReceiverThreads \in Nat \ {0} /\ kRQDepth \in Nat \ {0}
          /\ kSQDepth \in Nat /\ MaxTx \in Nat

(* What Tail() and Append() leave of a queue.                              *)
LEMMA TailFacts ==
    ASSUME NEW S, NEW q \in Seq(S), q # <<>>
    PROVE  /\ q[1] \in S /\ Head(q) = q[1]
           /\ Len(q) \in Nat /\ Len(q) >= 1 /\ DOMAIN q = 1 .. Len(q)
           /\ Tail(q) \in Seq(S) /\ Len(Tail(q)) = Len(q) - 1
           /\ DOMAIN Tail(q) = 1 .. Len(q) - 1
           /\ \A i \in 1 .. Len(q) - 1 : Tail(q)[i] = q[i + 1]
OBVIOUS

LEMMA AppendFacts ==
    ASSUME NEW S, NEW q \in Seq(S), NEW e \in S
    PROVE  /\ Len(q) \in Nat /\ DOMAIN q = 1 .. Len(q)
           /\ Append(q, e) \in Seq(S) /\ Len(Append(q, e)) = Len(q) + 1
           /\ DOMAIN Append(q, e) = 1 .. Len(q) + 1
           /\ \A i \in 1 .. Len(q) : Append(q, e)[i] = q[i]
           /\ Append(q, e)[Len(q) + 1] = e
OBVIOUS

(* The slots from h on are all different, and ring_head goes to the next.  *)
LEMMA SlotFacts ==
    ASSUME Depths, NEW h \in Slots
    PROVE  /\ Slot(h, 0) = h
           /\ \A k \in 0 .. kRQDepth - 1 : Slot(h, k) \in Slots
           /\ \A k, l \in 0 .. kRQDepth - 1 : Slot(h, k) = Slot(h, l) => k = l
BY DEF Depths, Slots, Slot

LEMMA NextSlot ==
    ASSUME Depths, NEW h \in Slots
    PROVE  /\ (h + 1) % kRQDepth \in Slots
           /\ \A k \in 1 .. kRQDepth - 1 : Slot((h + 1) % kRQDepth, k - 1) = Slot(h, k)
           /\ Slot((h + 1) % kRQDepth, kRQDepth - 1) = h
<1> DEFINE g == (h + 1) % kRQDepth
<1>1. kRQDepth \in Nat \ {0} /\ h \in Nat /\ h < kRQDepth
  BY DEF Depths, Slots
<1>2. g = IF h + 1 < kRQDepth THEN h + 1 ELSE 0
  <2>1. CASE h + 1 < kRQDepth
    BY <1>1, <2>1
  <2>2. CASE h + 1 = kRQDepth
    BY <1>1, <2>2
  <2> QED
    BY <1>1, <2>1, <2>2
<1> HIDE DEF g
<1> QED
  <2>1. g \in Slots /\ (\A k \in 1 .. kRQDepth - 1 : Slot(g, k - 1) = Slot(h, k))
                    /\ Slot(g, kRQDepth - 1) = h
    BY <1>1, <1>2 DEF Slots, Slot
  <2> QED
    BY <2>1 DEF g

(* What a step leaves alone of one thread.                                 *)
LEMMA SameWalk ==
    ASSUME NEW u \in RecvThreads, Walk(u), ring_head'[u] = ring_head[u], comp'[u] = comp[u],
           rpc'[u] = rpc[u], recv_cq'[u] = recv_cq[u], rq'[u] = rq[u]
    PROVE  Walk(u)'
BY Zenon DEF Walk, Hand, Consecutive, Slot

(* The same in terms of a thread's next state.                             *)
LEMMA WalkNext ==
    ASSUME NEW u \in RecvThreads, NEW n, NEW h, NEW q, NEW p, Consecutive(n, h, q, p),
           Hand(u)' = n, ring_head'[u] = h, recv_cq'[u] = q, rq'[u] = p, n = 1 => comp'[u] = h
    PROVE  Walk(u)'
BY DEF Walk, Consecutive, Slot

(* Taking a completion, filling a buffer and posting one keep the slots    *)
(* consecutive.                                                            *)
LEMMA TakeWalk ==
    ASSUME Depths, NEW h \in Slots, NEW q \in Seq(Slots), NEW p \in Seq(Slots),
           Consecutive(0, h, q, p), q # <<>>
    PROVE  q[1] = h /\ Consecutive(1, h, Tail(q), p)
<1>1. PICK t \in Seq(Slots) :
        /\ t = Tail(q) /\ Len(q) \in Nat /\ Len(q) >= 1 /\ DOMAIN q = 1 .. Len(q)
        /\ Len(t) = Len(q) - 1 /\ DOMAIN t = 1 .. Len(q) - 1
        /\ \A i \in 1 .. Len(q) - 1 : t[i] = q[i + 1]
  <2>1. Tail(q) \in Seq(Slots)
    BY TailFacts
  <2>2. PICK t \in Seq(Slots) : t = Tail(q)
    BY Zenon, <2>1
  <2>3. /\ Len(q) \in Nat /\ Len(q) >= 1 /\ DOMAIN q = 1 .. Len(q)
        /\ Len(t) = Len(q) - 1 /\ DOMAIN t = 1 .. Len(q) - 1
        /\ \A i \in 1 .. Len(q) - 1 : t[i] = q[i + 1]
    BY <2>2, TailFacts
  <2> QED
    BY Zenon, <2>2, <2>3
<1>2. Len(p) \in Nat /\ DOMAIN p = 1 .. Len(p) /\ kRQDepth \in Nat /\ h \in Nat /\ h < kRQDepth
  BY DEF Depths, Slots
<1>3. /\ 0 + Len(q) + Len(p) = kRQDepth
      /\ \A i \in 1 .. Len(q) : q[i] = Slot(h, 0 + i - 1)
      /\ \A i \in 1 .. Len(p) : p[i] = Slot(h, 0 + Len(q) + i - 1)
  BY Zenon, <1>1, <1>2 DEF Consecutive
<1>4. q[1] = h
  BY <1>1, <1>2, <1>3 DEF Slot
<1>5. \A i \in 1 .. Len(q) - 1 : t[i] = Slot(h, 1 + i - 1)
  BY <1>1, <1>2, <1>3 DEF Slot
<1>6. \A i \in 1 .. Len(p) : p[i] = Slot(h, 1 + Len(t) + i - 1)
  BY <1>1, <1>2, <1>3 DEF Slot
<1>7. 1 + Len(t) + Len(p) = kRQDepth
  BY <1>1, <1>2, <1>3
<1> QED
  BY <1>1, <1>2, <1>4, <1>5, <1>6, <1>7 DEF Consecutive

LEMMA FillWalk ==
    ASSUME Depths, NEW n \in {0, 1}, NEW h \in Slots, NEW q \in Seq(Slots), NEW p \in Seq(Slots),
           Consecutive(n, h, q, p), p # <<>>
    PROVE  /\ Consecutive(n, h, Append(q, p[1]), Tail(p))
           /\ \A i \in DOMAIN q : q[i] # p[1]
           /\ n = 1 => p[1] # h
<1>1. PICK t \in Seq(Slots) :
        /\ t = Tail(p) /\ Len(p) \in Nat /\ Len(p) >= 1 /\ DOMAIN p = 1 .. Len(p)
        /\ Len(t) = Len(p) - 1 /\ DOMAIN t = 1 .. Len(p) - 1
        /\ \A i \in 1 .. Len(p) - 1 : t[i] = p[i + 1]
        /\ p[1] \in Slots
  BY Zenon, TailFacts
<1>2. PICK s \in Seq(Slots) :
        /\ s = Append(q, p[1]) /\ Len(q) \in Nat /\ DOMAIN q = 1 .. Len(q)
        /\ Len(s) = Len(q) + 1 /\ DOMAIN s = 1 .. Len(q) + 1
        /\ \A i \in 1 .. Len(q) : s[i] = q[i]
        /\ s[Len(q) + 1] = p[1]
  <2>1. Append(q, p[1]) \in Seq(Slots)
    BY <1>1, AppendFacts
  <2>2. PICK s \in Seq(Slots) : s = Append(q, p[1])
    BY Zenon, <2>1
  <2>3. /\ Len(q) \in Nat /\ DOMAIN q = 1 .. Len(q)
        /\ Len(s) = Len(q) + 1 /\ DOMAIN s = 1 .. Len(q) + 1
        /\ \A i \in 1 .. Len(q) : s[i] = q[i]
        /\ s[Len(q) + 1] = p[1]
    BY <1>1, <2>2, AppendFacts
  <2> QED
    BY Zenon, <2>2, <2>3
<1>3. kRQDepth \in Nat /\ h \in Nat /\ h < kRQDepth
  BY DEF Depths, Slots
<1>4. /\ n + Len(q) + Len(p) = kRQDepth
      /\ \A i \in 1 .. Len(q) : q[i] = Slot(h, n + i - 1)
      /\ \A i \in 1 .. Len(p) : p[i] = Slot(h, n + Len(q) + i - 1)
  BY Zenon, <1>1, <1>2 DEF Consecutive
<1>5. p[1] = Slot(h, n + Len(q))
  BY <1>1, <1>2, <1>3, <1>4 DEF Slot
<1>6. \A i \in 1 .. Len(q) + 1 : s[i] = Slot(h, n + i - 1)
  <2>1. \A i \in 1 .. Len(q) + 1 : i \in 1 .. Len(q) \/ i = Len(q) + 1
    BY <1>2
  <2>2. s[Len(q) + 1] = Slot(h, n + (Len(q) + 1) - 1)
    BY <1>2, <1>3, <1>5 DEF Slot
  <2>3. \A i \in 1 .. Len(q) : s[i] = Slot(h, n + i - 1)
    BY <1>2, <1>4
  <2> QED
    BY <2>1, <2>2, <2>3
<1>7. ASSUME NEW i \in 1 .. Len(p) - 1 PROVE t[i] = Slot(h, n + Len(s) + i - 1)
  <2>1. i + 1 \in 1 .. Len(p) /\ t[i] = p[i + 1]
    BY <1>1
  <2>2. t[i] = Slot(h, n + Len(q) + (i + 1) - 1)
    BY <1>4, <2>1
  <2>3. n + Len(q) + (i + 1) - 1 = n + Len(s) + i - 1
    BY <1>1, <1>2
  <2> QED
    BY Zenon, <2>2, <2>3
<1>8. n + Len(s) + Len(t) = kRQDepth
  <2>1. Len(s) = Len(q) + 1 /\ Len(q) \in Nat
    BY <1>2
  <2>2. Len(t) = Len(p) - 1 /\ Len(p) \in Nat
    BY <1>1
  <2>3. n + Len(q) + Len(p) = kRQDepth
    BY <1>4
  <2> QED
    BY ONLY n \in {0, 1}, <2>1, <2>2, <2>3
<1>9. Consecutive(n, h, s, t)
  <2>1. \A i \in DOMAIN s : s[i] = Slot(h, n + i - 1)
    BY <1>2, <1>6
  <2>2. \A i \in DOMAIN t : t[i] = Slot(h, n + Len(s) + i - 1)
    BY <1>1, <1>7
  <2> QED
    BY <1>8, <2>1, <2>2 DEF Consecutive
<1>10. \A i \in 1 .. Len(q) : q[i] # p[1]
  BY <1>1, <1>2, <1>3, <1>4, <1>5 DEF Slot
<1>11. n = 1 => p[1] # h
  BY <1>1, <1>2, <1>3, <1>4, <1>5 DEF Slot
<1> QED
  BY <1>1, <1>2, <1>9, <1>10, <1>11

LEMMA RepostWalk ==
    ASSUME Depths, NEW h \in Slots, NEW q \in Seq(Slots), NEW p \in Seq(Slots),
           Consecutive(1, h, q, p)
    PROVE  Consecutive(0, (h + 1) % kRQDepth, q, Append(p, h))
<1>1. PICK s \in Seq(Slots) :
        /\ s = Append(p, h) /\ Len(p) \in Nat /\ DOMAIN p = 1 .. Len(p)
        /\ Len(s) = Len(p) + 1 /\ DOMAIN s = 1 .. Len(p) + 1
        /\ \A i \in 1 .. Len(p) : s[i] = p[i]
        /\ s[Len(p) + 1] = h
  <2>1. Append(p, h) \in Seq(Slots)
    BY AppendFacts
  <2>2. PICK s \in Seq(Slots) : s = Append(p, h)
    BY Zenon, <2>1
  <2>3. /\ Len(p) \in Nat /\ DOMAIN p = 1 .. Len(p)
        /\ Len(s) = Len(p) + 1 /\ DOMAIN s = 1 .. Len(p) + 1
        /\ \A i \in 1 .. Len(p) : s[i] = p[i]
        /\ s[Len(p) + 1] = h
    BY <2>2, AppendFacts
  <2> QED
    BY <2>2, <2>3
<1>2. PICK g \in Slots :
        /\ g = (h + 1) % kRQDepth
        /\ \A k \in 1 .. kRQDepth - 1 : Slot(g, k - 1) = Slot(h, k)
        /\ Slot(g, kRQDepth - 1) = h
  BY NextSlot
<1>3. Len(q) \in Nat /\ DOMAIN q = 1 .. Len(q) /\ kRQDepth \in Nat
  BY DEF Depths
<1>4. /\ 1 + Len(q) + Len(p) = kRQDepth
      /\ \A i \in 1 .. Len(q) : q[i] = Slot(h, 1 + i - 1)
      /\ \A i \in 1 .. Len(p) : p[i] = Slot(h, 1 + Len(q) + i - 1)
  BY Zenon, <1>1, <1>3 DEF Consecutive
<1>5. ASSUME NEW i \in 1 .. Len(q) PROVE q[i] = Slot(g, 0 + i - 1)
  <2>1. 1 + i - 1 = i /\ 0 + i - 1 = i - 1 /\ i \in 1 .. kRQDepth - 1
    BY <1>1, <1>3, <1>4
  <2> QED
    BY <1>2, <1>4, <2>1
<1>6. ASSUME NEW i \in 1 .. Len(p) + 1 PROVE s[i] = Slot(g, 0 + Len(q) + i - 1)
  <2>1. CASE i = Len(p) + 1
    <3>1. 0 + Len(q) + i - 1 = kRQDepth - 1
      BY <1>1, <1>3, <1>4, <2>1
    <3> QED
      BY <1>1, <1>2, <2>1, <3>1
  <2>2. CASE i \in 1 .. Len(p)
    <3>1. PICK k \in 1 .. kRQDepth - 1 : k = Len(q) + i
      BY <1>1, <1>3, <1>4, <2>2
    <3>2. 1 + Len(q) + i - 1 = k /\ 0 + Len(q) + i - 1 = k - 1
      BY <1>3, <2>2, <3>1
    <3> QED
      BY <1>1, <1>2, <1>4, <2>2, <3>1, <3>2
  <2> QED
    BY <1>1, <2>1, <2>2
<1>7. 0 + Len(q) + Len(s) = kRQDepth
  BY <1>1, <1>3, <1>4
<1>8. Consecutive(0, g, q, s)
  BY Zenon, <1>1, <1>3, <1>5, <1>6, <1>7 DEF Consecutive
<1> QED
  BY <1>1, <1>2, <1>8

LEMMA SameAddressed ==
    ASSUME NEW u \in RecvThreads, Addressed(u), comp'[u] = comp[u],
           rpc'[u] = rpc[u], recv_cq'[u] = recv_cq[u], ring'[u] = ring[u]
    PROVE  Addressed(u)'
BY DEF Addressed

LEMMA SameOrdered ==
    ASSUME NEW u \in RecvThreads, Ordered(u), Pending(u)' \subseteq Pending(u),
           got'[u] = got[u], seq_num'[u] = seq_num[u]
    PROVE  Ordered(u)'
BY DEF Ordered

LEMMA SamePending ==
    ASSUME NEW u \in RecvThreads, comp'[u] = comp[u], rpc'[u] = rpc[u],
           recv_cq'[u] = recv_cq[u], ring'[u] = ring[u], UNCHANGED <<wire, sq>>
    PROVE  Pending(u)' \subseteq Pending(u)
BY DEF Pending, Of

(* Places and numbers are integers, and the last place is that of sq.      *)
LEMMA PendingType ==
    ASSUME IInv, NEW r \in RecvThreads, NEW a \in Pending(r)
    PROVE  a.at \in Int /\ a.num \in Int /\ a.at <= Len(wire) + Len(sq)
<1>1. /\ sq \in Seq(Packet) /\ wire \in Seq(Packet) /\ recv_cq[r] \in Seq(Slots)
      /\ ring[r] \in [Slots -> Packet] /\ comp[r] \in Slots
  BY DEF IInv, TypeOK
<1>2. \A x \in Packet : x.seq_num \in Int
  BY DEF Packet
<1>3. /\ Len(sq) \in Nat /\ Len(wire) \in Nat /\ Len(recv_cq[r]) \in Nat
      /\ DOMAIN sq = 1 .. Len(sq) /\ DOMAIN wire = 1 .. Len(wire)
      /\ DOMAIN recv_cq[r] = 1 .. Len(recv_cq[r])
  BY <1>1
<1>4. /\ \A i \in DOMAIN sq : sq[i].seq_num \in Int
      /\ \A i \in DOMAIN wire : wire[i].seq_num \in Int
      /\ \A i \in DOMAIN recv_cq[r] : ring[r][recv_cq[r][i]].seq_num \in Int
      /\ ring[r][comp[r]].seq_num \in Int
  BY <1>1, <1>2
<1>5. CASE a = [at |-> 0 - Len(recv_cq[r]), num |-> ring[r][comp[r]].seq_num]
  BY <1>3, <1>4, <1>5
<1>6. CASE \E i \in DOMAIN recv_cq[r] :
             a = [at |-> i - Len(recv_cq[r]), num |-> ring[r][recv_cq[r][i]].seq_num]
  BY <1>3, <1>4, <1>6
<1>7. CASE \E i \in Of(wire, r) : a = [at |-> i, num |-> wire[i].seq_num]
  BY <1>3, <1>4, <1>7 DEF Of
<1>8. CASE \E i \in Of(sq, r) : a = [at |-> Len(wire) + i, num |-> sq[i].seq_num]
  BY <1>3, <1>4, <1>8 DEF Of
<1> QED
  BY <1>5, <1>6, <1>7, <1>8 DEF Pending

LEMMA InitInv == ASSUME Depths, Init PROVE IInv
<1>1. 0 \in RecvThreads /\ 0 \in Slots
  BY DEF Depths, RecvThreads, Slots
<1>2. Blank \in Packet
  BY <1>1 DEF Depths, Packet, Blank
<1>3. sq = <<>> /\ wire = <<>> /\ \A r \in RecvThreads : recv_cq[r] = <<>> /\ rpc[r] = "poll"
  BY DEF Init
<1>4. [k \in 1 .. kRQDepth |-> k - 1] \in Seq(Slots)
  BY DEF Slots, Depths
<1>5. TypeOK
  <2>1. rq \in [RecvThreads -> Seq(Slots)] /\ recv_cq \in [RecvThreads -> Seq(Slots)]
    <3> DEFINE all == [k \in 1 .. kRQDepth |-> k - 1]
    <3>1. rq = [r \in RecvThreads |-> all] /\ all \in Seq(Slots)
      BY <1>4 DEF Init
    <3> HIDE DEF all
    <3>2. rq \in [RecvThreads -> Seq(Slots)]
      BY <3>1
    <3>3. recv_cq \in [RecvThreads -> Seq(Slots)]
      BY DEF Init
    <3> QED
      BY <3>2, <3>3
  <2>2. ring \in [RecvThreads -> [Slots -> Packet]] /\ got \in [RecvThreads -> Packet]
    BY <1>2 DEF Init
  <2>3. /\ seq_num \in [RecvThreads -> 0 .. MaxTx] /\ nb_tx \in 0 .. MaxTx
        /\ rpc \in [RecvThreads -> {"poll", "read", "repost", "assert"}]
        /\ ring_head \in [RecvThreads -> Slots] /\ comp \in [RecvThreads -> Slots]
    BY <1>1 DEF Init, Depths
  <2>4. sq \in Seq(Packet) /\ wire \in Seq(Packet) /\ send_cq = 0 /\ Len(sq) = 0
    BY DEF Init
  <2> QED
    BY <1>2, <2>1, <2>2, <2>3, <2>4 DEF Init, TypeOK, Depths
<1>6. RightThread /\ Directed
  BY <1>3 DEF RightThread, Directed
<1>7. ASSUME NEW r \in RecvThreads PROVE Walk(r) /\ Addressed(r) /\ Ordered(r)
  <2>1. Pending(r) = {}
    BY <1>3 DEF Pending, Of
  <2>2. Ordered(r)
    BY <2>1 DEF Ordered, Init, Blank
  <2>3. Walk(r)
    <3>1. Hand(r) = 0 /\ ring_head[r] = 0 /\ recv_cq[r] = <<>>
      BY <1>3 DEF Hand, Init
    <3>2. rq[r] = [k \in 1 .. kRQDepth |-> k - 1]
      BY DEF Init
    <3>3. Len(rq[r]) = kRQDepth /\ Len(recv_cq[r]) = 0 /\ DOMAIN recv_cq[r] = {}
          /\ DOMAIN rq[r] = 1 .. kRQDepth
      BY <3>1, <3>2 DEF Depths
    <3>4. \A i \in 1 .. kRQDepth : rq[r][i] = Slot(0, i - 1)
      BY <3>2 DEF Slot, Depths
    <3> QED
      BY <3>1, <3>3, <3>4 DEF Walk, Consecutive, Depths
  <2>4. Addressed(r)
    BY <1>3 DEF Addressed
  <2> QED
    BY <2>2, <2>3, <2>4
<1>8. \A r \in RecvThreads : seq_num[r] <= nb_tx
  BY DEF Init
<1> QED
  BY <1>5, <1>6, <1>7, <1>8 DEF IInv

(* main() of the sender, L134-170: the packet posted is the last of the    *)
(* line and has the next number of its thread.                             *)
LEMMA PostInv == ASSUME Depths, IInv, NEW d \in RecvThreads, Post(d) PROVE IInv'
<1>0. TypeOK /\ RightThread /\ Directed
      /\ \A r \in RecvThreads : seq_num[r] <= nb_tx /\ Walk(r) /\ Addressed(r) /\ Ordered(r)
  BY DEF IInv
<1> DEFINE p == [dst_port |-> d, receiver_thread |-> d, seq_num |-> seq_num[d]]
<1>1. /\ packet' = p /\ nb_tx < MaxTx /\ nb_tx' = nb_tx + 1 /\ spc' = "poll"
      /\ seq_num' = [seq_num EXCEPT ![d] = seq_num[d] + 1]
      /\ UNCHANGED <<send_cq, wire, rq, recv_cq, ring, rpc, ring_head, comp, got>>
  BY DEF Post, rvars
<1>2. /\ Len(sq) + send_cq < kSQDepth => sq' = Append(sq, p)
      /\ ~(Len(sq) + send_cq < kSQDepth) => sq' = sq
  BY DEF Post
<1>3. nb_tx \in Nat /\ MaxTx \in Nat /\ \A r \in RecvThreads : seq_num[r] \in Nat
  BY <1>0 DEF TypeOK, Depths
<1>4. /\ p \in Packet /\ p.dst_port = d /\ p.receiver_thread = d /\ p.seq_num = seq_num[d]
  BY <1>0 DEF TypeOK, Packet
<1> HIDE DEF p
<1>5. /\ Len(sq) \in Nat /\ DOMAIN sq = 1 .. Len(sq)
      /\ Append(sq, p) \in Seq(Packet) /\ Len(Append(sq, p)) = Len(sq) + 1
      /\ DOMAIN Append(sq, p) = 1 .. Len(sq) + 1
      /\ \A i \in 1 .. Len(sq) : Append(sq, p)[i] = sq[i]
      /\ Append(sq, p)[Len(sq) + 1] = p
  <2>1. sq \in Seq(Packet)
    BY <1>0 DEF TypeOK
  <2> QED
    BY ONLY <1>4, <2>1, AppendFacts
<1>6. /\ seq_num'[d] = seq_num[d] + 1
      /\ \A r \in RecvThreads : r # d => seq_num'[r] = seq_num[r]
  BY <1>0, <1>1 DEF TypeOK
<1>7. TypeOK'
  <2>1. sq' \in Seq(Packet) /\ Len(sq') + send_cq' <= kSQDepth
    <3>1. /\ send_cq \in Nat /\ Len(sq) + send_cq <= kSQDepth /\ kSQDepth \in Nat
          /\ sq \in Seq(Packet) /\ send_cq' = send_cq
      BY <1>0, <1>1 DEF TypeOK, Depths
    <3>2. CASE Len(sq) + send_cq < kSQDepth
      <4>1. sq' \in Seq(Packet) /\ Len(sq') = Len(sq) + 1
        BY <1>2, <1>5, <3>2
      <4> QED
        BY <1>5, <3>1, <3>2, <4>1
    <3>3. CASE ~(Len(sq) + send_cq < kSQDepth)
      BY <1>2, <3>1, <3>3
    <3> QED
      BY <3>2, <3>3
  <2>2. seq_num' \in [RecvThreads -> 0 .. MaxTx]
    <3>1. seq_num[d] + 1 \in 0 .. MaxTx
      BY <1>0, <1>1, <1>3
    <3> QED
      BY <1>0, <1>1, <3>1 DEF TypeOK
  <2>3. nb_tx' \in 0 .. MaxTx
    BY <1>1, <1>3
  <2> QED
    BY <1>0, <1>1, <1>4, <2>1, <2>2, <2>3 DEF TypeOK
<1>8. RightThread'
  BY <1>0, <1>1 DEF RightThread
<1>9. Directed'
  <2>1. \A i \in DOMAIN sq' : sq'[i].receiver_thread = sq'[i].dst_port
    <3>1. CASE sq' = sq
      BY <1>0, <3>1 DEF Directed
    <3>2. CASE sq' = Append(sq, p)
      <4>1. \A i \in 1 .. Len(sq) + 1 : i \in 1 .. Len(sq) \/ i = Len(sq) + 1
        BY <1>5
      <4>2. \A i \in 1 .. Len(sq) : sq[i].receiver_thread = sq[i].dst_port
        BY <1>0, <1>5 DEF Directed
      <4> QED
        BY <1>4, <1>5, <3>2, <4>1, <4>2
    <3> QED
      BY <1>2, <3>1, <3>2
  <2> QED
    BY <1>0, <1>1, <2>1 DEF Directed
<1>10. ASSUME NEW u \in RecvThreads
       PROVE  seq_num'[u] <= nb_tx' /\ Walk(u)' /\ Addressed(u)' /\ Ordered(u)'
  <2>1. seq_num'[u] <= nb_tx'
    BY <1>0, <1>1, <1>3, <1>6
  <2>2. Walk(u)' /\ Addressed(u)'
    BY <1>0, <1>1, SameWalk, SameAddressed
  <2>3. ASSUME NEW b \in Pending(u)'
        PROVE  b \in Pending(u) \/ (u = d /\ b = [at |-> Len(wire) + Len(sq) + 1, num |-> seq_num[d]])
    <3>1. CASE sq' = sq
      BY <1>1, <3>1, SamePending
    <3>2. CASE sq' = Append(sq, p)
      <4>1. ASSUME NEW i \in Of(sq', u)
            PROVE  (i \in Of(sq, u) /\ sq'[i] = sq[i]) \/ (u = d /\ i = Len(sq) + 1 /\ sq'[i] = p)
        BY <1>4, <1>5, <3>2 DEF Of
      <4> QED
        BY <1>1, <1>4, <4>1 DEF Pending, Of
    <3> QED
      BY <1>2, <3>1, <3>2
  <2>4. CASE u # d
    <3>1. Pending(u)' \subseteq Pending(u)
      BY <2>3, <2>4
    <3> QED
      BY <1>0, <1>1, <1>6, <2>1, <2>2, <2>4, <3>1, SameOrdered
  <2>5. CASE u = d
    <3>1. Ordered(u)
      BY <1>0
    <3>2. \A a \in Pending(u) : a.at \in Int /\ a.num \in Int /\ a.at <= Len(wire) + Len(sq)
      BY PendingType
    <3>3. got[u].seq_num \in Int /\ seq_num[u] \in Int /\ Len(wire) \in Nat /\ Len(sq) \in Nat
      <4>1. got[u] \in Packet /\ wire \in Seq(Packet)
        BY <1>0 DEF TypeOK
      <4> QED
        BY <1>3, <1>5, <4>1 DEF Packet
    <3> DEFINE e == [at |-> Len(wire) + Len(sq) + 1, num |-> seq_num[d]]
    <3>4. e.at = Len(wire) + Len(sq) + 1 /\ e.num = seq_num[u]
      BY <2>5
    <3>5. \A b \in Pending(u)' : b \in Pending(u) \/ b = e
      BY <2>3
    <3> HIDE DEF e
    <3>6. ASSUME NEW a \in Pending(u)', NEW b \in Pending(u)', a.at < b.at
          PROVE  a.num < b.num
      <4>1. CASE b \in Pending(u)
        <5>1. a # e
          BY <3>2, <3>3, <3>4, <3>6, <4>1
        <5> QED
          BY <3>1, <3>5, <3>6, <4>1, <5>1 DEF Ordered
      <4>2. CASE b = e
        <5>1. a # e
          BY <3>3, <3>4, <3>6, <4>2
        <5>2. a \in Pending(u)
          BY <3>5, <5>1
        <5> QED
          BY <3>1, <3>4, <4>2, <5>2 DEF Ordered
      <4> QED
        BY <3>5, <4>1, <4>2
    <3>7. ASSUME NEW a \in Pending(u)' PROVE got'[u].seq_num < a.num /\ a.num < seq_num'[u]
      <4>1. CASE a \in Pending(u)
        <5>1. got[u].seq_num < a.num /\ a.num < seq_num[u]
          BY <3>1, <4>1 DEF Ordered
        <5> QED
          BY <1>1, <1>6, <2>5, <3>2, <3>3, <4>1, <5>1
      <4>2. CASE a = e
        <5>1. got[u].seq_num < seq_num[u]
          BY <3>1 DEF Ordered
        <5> QED
          BY <1>1, <1>6, <2>5, <3>3, <3>4, <4>2, <5>1
      <4> QED
        BY <3>5, <4>1, <4>2
    <3>8. got'[u].seq_num < seq_num'[u]
      <4>1. got[u].seq_num < seq_num[u]
        BY <3>1 DEF Ordered
      <4> QED
        BY <1>1, <1>6, <2>5, <3>3, <4>1
    <3>9. Ordered(u)'
      BY <3>6, <3>7, <3>8 DEF Ordered
    <3> QED
      BY <2>1, <2>2, <3>9
  <2> QED
    BY <2>4, <2>5
<1> QED
  BY <1>7, <1>8, <1>9, <1>10 DEF IInv

(* A step that moves nothing.                                              *)
LEMMA SameInv ==
    ASSUME Depths, IInv,
           UNCHANGED <<packet, seq_num, nb_tx, sq, wire, rq, recv_cq, ring, rpc,
                       ring_head, comp, got>>,
           spc' \in {"post", "poll"}, send_cq' \in Nat, send_cq' <= send_cq
    PROVE  IInv'
<1>0. TypeOK /\ RightThread /\ Directed
      /\ \A r \in RecvThreads : seq_num[r] <= nb_tx /\ Walk(r) /\ Addressed(r) /\ Ordered(r)
  BY DEF IInv
<1>1. TypeOK'
  <2>1. Len(sq) + send_cq' <= kSQDepth
    <3>1. sq \in Seq(Packet) /\ send_cq \in Nat /\ Len(sq) + send_cq <= kSQDepth
      BY <1>0 DEF TypeOK
    <3>2. Len(sq) \in Nat
      BY <3>1
    <3> QED
      BY <3>1, <3>2 DEF Depths
  <2> QED
    BY <1>0, <2>1 DEF TypeOK
<1>2. RightThread' /\ Directed'
  BY <1>0 DEF RightThread, Directed
<1>3. ASSUME NEW u \in RecvThreads
      PROVE  seq_num'[u] <= nb_tx' /\ Walk(u)' /\ Addressed(u)' /\ Ordered(u)'
  BY <1>0, SameWalk, SameAddressed, SameOrdered, SamePending
<1> QED
  BY <1>1, <1>2, <1>3 DEF IInv

(* The NIC sends the first packet of the send queue: it keeps its place.   *)
LEMMA TransmitInv == ASSUME Depths, IInv, Transmit PROVE IInv'
<1>0. TypeOK /\ RightThread /\ Directed
      /\ \A r \in RecvThreads : seq_num[r] <= nb_tx /\ Walk(r) /\ Addressed(r) /\ Ordered(r)
  BY DEF IInv
<1>1. /\ sq # <<>> /\ wire' = Append(wire, Head(sq)) /\ sq' = Tail(sq) /\ send_cq' = send_cq + 1
      /\ UNCHANGED <<packet, seq_num, nb_tx, spc, rq, recv_cq, ring, rpc, ring_head, comp, got>>
  BY DEF Transmit, svars, rvars
<1>2. sq \in Seq(Packet) /\ wire \in Seq(Packet)
  BY <1>0 DEF TypeOK
<1>3. PICK p \in Packet : p = Head(sq) /\ p = sq[1]
  BY <1>1, <1>2, TailFacts
<1>4. /\ Len(sq) \in Nat /\ Len(sq) >= 1 /\ DOMAIN sq = 1 .. Len(sq)
      /\ sq' \in Seq(Packet) /\ Len(sq') = Len(sq) - 1 /\ DOMAIN sq' = 1 .. Len(sq) - 1
      /\ \A i \in 1 .. Len(sq) - 1 : sq'[i] = sq[i + 1]
  <2> DEFINE t == Tail(sq)
  <2>1. /\ Len(sq) \in Nat /\ Len(sq) >= 1 /\ DOMAIN sq = 1 .. Len(sq)
        /\ t \in Seq(Packet) /\ Len(t) = Len(sq) - 1 /\ DOMAIN t = 1 .. Len(sq) - 1
        /\ \A i \in 1 .. Len(sq) - 1 : t[i] = sq[i + 1]
    BY <1>1, <1>2, TailFacts
  <2>2. sq' = t
    BY <1>1
  <2> HIDE DEF t
  <2> QED
    BY Zenon, <2>1, <2>2
<1>5. /\ Len(wire) \in Nat /\ DOMAIN wire = 1 .. Len(wire)
      /\ wire' \in Seq(Packet) /\ Len(wire') = Len(wire) + 1 /\ DOMAIN wire' = 1 .. Len(wire) + 1
      /\ \A i \in 1 .. Len(wire) : wire'[i] = wire[i]
      /\ wire'[Len(wire) + 1] = p
  <2> DEFINE t == Append(wire, p)
  <2>1. /\ Len(wire) \in Nat /\ DOMAIN wire = 1 .. Len(wire)
        /\ t \in Seq(Packet) /\ Len(t) = Len(wire) + 1 /\ DOMAIN t = 1 .. Len(wire) + 1
        /\ \A i \in 1 .. Len(wire) : t[i] = wire[i]
        /\ t[Len(wire) + 1] = p
    BY <1>2, <1>3, AppendFacts
  <2>2. wire' = t
    BY <1>1, <1>3
  <2> HIDE DEF t
  <2> QED
    BY <2>1, <2>2
<1>6. TypeOK'
  <2>1. send_cq' \in Nat /\ Len(sq') + send_cq' <= kSQDepth
    BY <1>0, <1>1, <1>4 DEF TypeOK, Depths
  <2> QED
    BY <1>0, <1>1, <1>4, <1>5, <2>1 DEF TypeOK
<1>7. RightThread'
  BY <1>0, <1>1 DEF RightThread
<1>8. \A i \in DOMAIN wire' :
        \/ i \in DOMAIN wire /\ wire'[i] = wire[i]
        \/ i = Len(wire) + 1 /\ wire'[i] = sq[1]
  <2>1. \A i \in 1 .. Len(wire) + 1 : i \in 1 .. Len(wire) \/ i = Len(wire) + 1
    BY <1>5
  <2>2. wire'[Len(wire) + 1] = sq[1]
    BY <1>3, <1>5
  <2>3. \A i \in 1 .. Len(wire) : i \in DOMAIN wire /\ wire'[i] = wire[i]
    BY <1>5
  <2>4. DOMAIN wire' = 1 .. Len(wire) + 1
    BY <1>5
  <2>5. ASSUME NEW i \in DOMAIN wire'
        PROVE  \/ i \in DOMAIN wire /\ wire'[i] = wire[i]
               \/ i = Len(wire) + 1 /\ wire'[i] = sq[1]
    <3>1. i \in 1 .. Len(wire) \/ i = Len(wire) + 1
      BY <2>1, <2>4
    <3> QED
      BY <2>2, <2>3, <3>1
  <2> QED
    BY <2>5
<1>9. \A i \in DOMAIN sq' : i + 1 \in DOMAIN sq /\ sq'[i] = sq[i + 1]
  BY <1>4
<1>10. 1 \in DOMAIN sq
  BY <1>4
<1>11. Directed'
  <2>1. /\ \A i \in DOMAIN sq : sq[i].receiver_thread = sq[i].dst_port
        /\ \A i \in DOMAIN wire : wire[i].receiver_thread = wire[i].dst_port
    BY <1>0 DEF Directed
  <2>2. \A i \in DOMAIN sq' : sq'[i].receiver_thread = sq'[i].dst_port
    BY <1>9, <2>1
  <2>3. \A i \in DOMAIN wire' : wire'[i].receiver_thread = wire'[i].dst_port
    BY <1>8, <1>10, <2>1
  <2> QED
    BY <2>2, <2>3 DEF Directed
<1>12. ASSUME NEW u \in RecvThreads
       PROVE  seq_num'[u] <= nb_tx' /\ Walk(u)' /\ Addressed(u)' /\ Ordered(u)'
  <2>1. Walk(u)' /\ Addressed(u)' /\ seq_num'[u] <= nb_tx'
    BY <1>0, <1>1, SameWalk, SameAddressed
  <2>2. ASSUME NEW b \in Pending(u)' PROVE b \in Pending(u)
    <3>1. CASE \E i \in Of(wire', u) : b = [at |-> i, num |-> wire'[i].seq_num]
      <4>1. PICK i \in Of(wire', u) : b = [at |-> i, num |-> wire'[i].seq_num]
        BY <3>1
      <4>2. CASE i \in DOMAIN wire /\ wire'[i] = wire[i]
        BY <4>1, <4>2 DEF Pending, Of
      <4>3. CASE i = Len(wire) + 1 /\ wire'[i] = sq[1]
        <5>1. 1 \in Of(sq, u) /\ b = [at |-> Len(wire) + 1, num |-> sq[1].seq_num]
          BY <1>10, <4>1, <4>3 DEF Of
        <5> QED
          BY <5>1 DEF Pending
      <4> QED
        BY <1>8, <4>1, <4>2, <4>3 DEF Of
    <3>2. CASE \E i \in Of(sq', u) : b = [at |-> Len(wire') + i, num |-> sq'[i].seq_num]
      <4>1. PICK i \in Of(sq', u) : b = [at |-> Len(wire') + i, num |-> sq'[i].seq_num]
        BY <3>2
      <4>2. i + 1 \in Of(sq, u) /\ sq'[i] = sq[i + 1] /\ i \in Nat
        BY <1>4, <1>9, <4>1 DEF Of
      <4>3. Len(wire') + i = Len(wire) + (i + 1)
        BY <1>5, <4>2
      <4> QED
        BY Zenon, <4>1, <4>2, <4>3 DEF Pending
    <3> QED
      BY Zenon, <1>1, <3>1, <3>2 DEF Pending
  <2> QED
    BY <1>0, <1>1, <2>1, <2>2, SameOrdered
<1> QED
  BY <1>6, <1>7, <1>11, <1>12 DEF IInv

(* The line moves up by one place from place cut on.                       *)
LEMMA OrderedShift ==
    ASSUME IInv, NEW u \in RecvThreads, NEW cut \in Int,
           got'[u] = got[u], seq_num'[u] = seq_num[u],
           \A b \in Pending(u)' :
              \E a \in Pending(u) : /\ a.num = b.num /\ b.at \in Int
                                    /\ a.at = IF b.at >= cut THEN b.at + 1 ELSE b.at
    PROVE  Ordered(u)'
<1>1. Ordered(u)
  BY DEF IInv
<1>2. ASSUME NEW b \in Pending(u)', NEW c \in Pending(u)', b.at < c.at PROVE b.num < c.num
  <2>1. PICK a \in Pending(u) : a.num = b.num /\ b.at \in Int
                                /\ a.at = IF b.at >= cut THEN b.at + 1 ELSE b.at
    OBVIOUS
  <2>2. PICK e \in Pending(u) : e.num = c.num /\ c.at \in Int
                                /\ e.at = IF c.at >= cut THEN c.at + 1 ELSE c.at
    OBVIOUS
  <2>3. a.at < e.at
    BY <1>2, <2>1, <2>2
  <2> QED
    BY <1>1, <2>1, <2>2, <2>3 DEF Ordered
<1>3. \A b \in Pending(u)' : got'[u].seq_num < b.num /\ b.num < seq_num'[u]
  BY <1>1 DEF Ordered
<1>4. got'[u].seq_num < seq_num'[u]
  BY <1>1 DEF Ordered
<1> QED
  BY <1>2, <1>3, <1>4 DEF Ordered

(* The first packet leaves the wire.                                       *)
LEMMA WireTail ==
    ASSUME TypeOK, wire # <<>>, wire' = Tail(wire)
    PROVE  /\ Len(wire) \in Nat /\ Len(wire) >= 1 /\ DOMAIN wire = 1 .. Len(wire)
           /\ wire[1] \in Packet /\ Head(wire) = wire[1]
           /\ wire' \in Seq(Packet) /\ Len(wire') = Len(wire) - 1
           /\ DOMAIN wire' = 1 .. Len(wire) - 1
           /\ \A i \in DOMAIN wire' : i + 1 \in DOMAIN wire /\ i \in Nat /\ i >= 1
                                      /\ wire'[i] = wire[i + 1]
<1> DEFINE t == Tail(wire)
<1>1. wire \in Seq(Packet)
  BY DEF TypeOK
<1>2. /\ Len(wire) \in Nat /\ Len(wire) >= 1 /\ DOMAIN wire = 1 .. Len(wire)
      /\ wire[1] \in Packet /\ Head(wire) = wire[1]
      /\ t \in Seq(Packet) /\ Len(t) = Len(wire) - 1 /\ DOMAIN t = 1 .. Len(wire) - 1
      /\ \A i \in 1 .. Len(wire) - 1 : t[i] = wire[i + 1]
  BY <1>1, TailFacts
<1>3. wire' = t
  OBVIOUS
<1> HIDE DEF t
<1>4. \A i \in 1 .. Len(wire) - 1 : i + 1 \in 1 .. Len(wire) /\ i \in Nat /\ i >= 1
  BY <1>2
<1> QED
  BY Zenon, <1>2, <1>3, <1>4

(* A packet still to come, after the first one has left the wire.          *)
LEMMA StillComing ==
    ASSUME TypeOK, wire # <<>>, wire' = Tail(wire), UNCHANGED sq,
           NEW u \in RecvThreads, NEW b,
           \/ \E i \in Of(wire', u) : b = [at |-> i, num |-> wire'[i].seq_num]
           \/ \E i \in Of(sq', u) : b = [at |-> Len(wire') + i, num |-> sq'[i].seq_num]
    PROVE  /\ b.at \in Int /\ b.at >= 1
           /\ \E a \in Pending(u) : a.num = b.num /\ a.at = b.at + 1
<1>1. CASE \E i \in Of(wire', u) : b = [at |-> i, num |-> wire'[i].seq_num]
  <2>1. PICK i \in Of(wire', u) : b = [at |-> i, num |-> wire'[i].seq_num]
    BY Zenon, <1>1
  <2>2. i + 1 \in Of(wire, u) /\ i \in Nat /\ i >= 1 /\ wire'[i] = wire[i + 1]
    BY <2>1, WireTail DEF Of
  <2>3. [at |-> i + 1, num |-> wire[i + 1].seq_num] \in Pending(u)
    BY Zenon, <2>2 DEF Pending
  <2>4. b.at = i /\ b.num = wire[i + 1].seq_num
    BY Zenon, <2>1, <2>2
  <2> QED
    BY <2>2, <2>3, <2>4
<1>2. CASE \E i \in Of(sq', u) : b = [at |-> Len(wire') + i, num |-> sq'[i].seq_num]
  <2>1. PICK i \in Of(sq, u) : b = [at |-> Len(wire') + i, num |-> sq[i].seq_num]
    BY <1>2
  <2>2. i \in Nat /\ i >= 1
    <3>1. sq \in Seq(Packet)
      BY DEF TypeOK
    <3>2. DOMAIN sq = 1 .. Len(sq)
      BY <3>1
    <3> QED
      BY <2>1, <3>2 DEF Of
  <2>3. Len(wire) \in Nat /\ Len(wire) >= 1 /\ Len(wire') = Len(wire) - 1
    BY WireTail
  <2>4. [at |-> Len(wire) + i, num |-> sq[i].seq_num] \in Pending(u)
    BY <2>1 DEF Pending
  <2>5. Len(wire') + i \in Int /\ Len(wire') + i >= 1 /\ Len(wire) + i = (Len(wire') + i) + 1
    BY <2>2, <2>3
  <2>6. b.at = Len(wire') + i /\ b.num = sq[i].seq_num
    BY <2>1
  <2> QED
    BY <2>4, <2>5, <2>6
<1> QED
  BY Zenon, <1>1, <1>2

(* For a thread the first packet is not for, or when it is lost.           *)
LEMMA OrderedPassed ==
    ASSUME IInv, wire # <<>>, wire' = Tail(wire), UNCHANGED sq,
           NEW u \in RecvThreads, comp'[u] = comp[u], rpc'[u] = rpc[u],
           recv_cq'[u] = recv_cq[u], ring'[u] = ring[u], got'[u] = got[u],
           seq_num'[u] = seq_num[u]
    PROVE  Ordered(u)'
<1>0. TypeOK
  BY DEF IInv
<1>1. recv_cq[u] \in Seq(Slots)
  BY <1>0 DEF TypeOK
<1>2. Len(recv_cq[u]) \in Nat /\ DOMAIN recv_cq[u] = 1 .. Len(recv_cq[u])
  BY <1>1
<1>3. ASSUME NEW b \in Pending(u)'
      PROVE  \E a \in Pending(u) : /\ a.num = b.num /\ b.at \in Int
                                   /\ a.at = IF b.at >= 1 THEN b.at + 1 ELSE b.at
  <2>1. CASE rpc[u] = "read" /\ b = [at |-> 0 - Len(recv_cq[u]), num |-> ring[u][comp[u]].seq_num]
    <3>1. b \in Pending(u)
      BY Zenon, <2>1 DEF Pending
    <3> QED
      BY <1>2, <2>1, <3>1
  <2>2. CASE \E i \in DOMAIN recv_cq[u] :
               b = [at |-> i - Len(recv_cq[u]), num |-> ring[u][recv_cq[u][i]].seq_num]
    <3>1. b \in Pending(u)
      BY Zenon, <2>2 DEF Pending
    <3> QED
      BY <1>2, <2>2, <3>1
  <2>3. CASE \/ \E i \in Of(wire', u) : b = [at |-> i, num |-> wire'[i].seq_num]
             \/ \E i \in Of(sq', u) : b = [at |-> Len(wire') + i, num |-> sq'[i].seq_num]
    BY Zenon, <1>0, <2>3, StillComing
  <2> QED
    BY Zenon, <2>1, <2>2, <2>3 DEF Pending
<1> QED
  BY <1>3, OrderedShift

(* A packet is lost, or finds no buffer posted.                            *)
LEMMA DropInv == ASSUME Depths, IInv, Drop PROVE IInv'
<1>0. TypeOK /\ RightThread /\ Directed
      /\ \A r \in RecvThreads : seq_num[r] <= nb_tx /\ Walk(r) /\ Addressed(r) /\ Ordered(r)
  BY DEF IInv
<1>1. /\ wire # <<>> /\ wire' = Tail(wire)
      /\ UNCHANGED <<packet, seq_num, nb_tx, spc, sq, send_cq, rq, recv_cq, ring, rpc,
                     ring_head, comp, got>>
  BY DEF Drop, svars, rvars
<1>2. TypeOK'
  BY <1>0, <1>1, WireTail DEF TypeOK
<1>3. RightThread'
  BY <1>0, <1>1 DEF RightThread
<1>4. Directed'
  <2>1. \A i \in DOMAIN wire' : wire'[i].receiver_thread = wire'[i].dst_port
    BY <1>0, <1>1, WireTail DEF Directed
  <2>2. \A i \in DOMAIN sq : sq[i].receiver_thread = sq[i].dst_port
    BY <1>0 DEF Directed
  <2> QED
    BY <1>1, <2>1, <2>2 DEF Directed
<1>5. ASSUME NEW u \in RecvThreads
      PROVE  seq_num'[u] <= nb_tx' /\ Walk(u)' /\ Addressed(u)' /\ Ordered(u)'
  BY <1>0, <1>1, SameWalk, SameAddressed, OrderedPassed
<1> QED
  BY <1>2, <1>3, <1>4, <1>5 DEF IInv

(* A thread takes the first completion (receiver.cc L76-84): the slot it   *)
(* filled is at ring_head, and its packet keeps its place.                 *)
LEMMA PollRecvInv == ASSUME Depths, IInv, NEW r \in RecvThreads, PollRecv(r) PROVE IInv'
<1>0. TypeOK /\ RightThread /\ Directed
      /\ \A u \in RecvThreads : seq_num[u] <= nb_tx /\ Walk(u) /\ Addressed(u) /\ Ordered(u)
  BY DEF IInv
<1>1. /\ rpc[r] = "poll" /\ recv_cq[r] # <<>>
      /\ comp' = [comp EXCEPT ![r] = Head(recv_cq[r])]
      /\ recv_cq' = [recv_cq EXCEPT ![r] = Tail(recv_cq[r])]
      /\ rpc' = [rpc EXCEPT ![r] = "read"]
      /\ UNCHANGED <<packet, seq_num, nb_tx, spc, sq, send_cq, wire, rq, ring, ring_head, got>>
  BY DEF PollRecv, svars
<1>2. PICK q \in Seq(Slots) : q = recv_cq[r]
  BY <1>0 DEF TypeOK
<1>3. PICK t \in Seq(Slots) : t = Tail(q)
  BY Zenon, <1>1, <1>2, TailFacts
<1>4. /\ q[1] \in Slots /\ Head(q) = q[1]
      /\ Len(q) \in Nat /\ Len(q) >= 1 /\ DOMAIN q = 1 .. Len(q)
      /\ Len(t) = Len(q) - 1 /\ DOMAIN t = 1 .. Len(q) - 1
      /\ \A i \in 1 .. Len(q) - 1 : t[i] = q[i + 1]
  BY <1>1, <1>2, <1>3, TailFacts
<1>5. comp'[r] = q[1] /\ recv_cq'[r] = t /\ rpc'[r] = "read" /\ Hand(r) = 0 /\ Hand(r)' = 1
  BY <1>0, <1>1, <1>2, <1>3, <1>4 DEF TypeOK, Hand
<1>6. \A u \in RecvThreads : u # r =>
        comp'[u] = comp[u] /\ recv_cq'[u] = recv_cq[u] /\ rpc'[u] = rpc[u]
  BY <1>0, <1>1 DEF TypeOK
<1>7. TypeOK'
  <2>1. recv_cq' \in [RecvThreads -> Seq(Slots)]
    BY <1>0, <1>1, <1>2, <1>3 DEF TypeOK
  <2>2. comp' \in [RecvThreads -> Slots]
    BY <1>0, <1>1, <1>2, <1>4 DEF TypeOK
  <2>3. rpc' \in [RecvThreads -> {"poll", "read", "repost", "assert"}]
    BY <1>0, <1>1 DEF TypeOK
  <2> QED
    BY <1>0, <1>1, <2>1, <2>2, <2>3 DEF TypeOK
<1>8. RightThread'
  BY <1>0, <1>5, <1>6 DEF RightThread
<1>9. Directed'
  BY <1>0, <1>1 DEF Directed
<1>13. Walk(r)'
  <2>1. PICK h \in Slots, o \in Seq(Slots) : h = ring_head[r] /\ o = rq[r]
    BY <1>0 DEF TypeOK
  <2>2. Consecutive(0, h, q, o)
    BY <1>0, <1>2, <1>5, <2>1 DEF Walk
  <2>3. q[1] = h /\ Consecutive(1, h, t, o)
    BY <1>1, <1>2, <1>3, <2>2, TakeWalk
  <2>4. ring_head'[r] = h /\ rq'[r] = o
    BY <1>1, <2>1
  <2> QED
    BY <1>5, <2>3, <2>4, WalkNext
<1>14. Addressed(r)'
  <2>1. \A i \in 1 .. Len(q) : ring[r][q[i]].receiver_thread = r
    BY <1>0, <1>2, <1>4 DEF Addressed
  <2>2. ring[r][q[1]].receiver_thread = r
    BY <1>4, <2>1
  <2>3. \A i \in 1 .. Len(q) - 1 : i + 1 \in 1 .. Len(q)
    BY <1>4
  <2>4. \A i \in DOMAIN t : ring[r][t[i]].receiver_thread = r
    BY <1>4, <2>1, <2>3
  <2> QED
    BY <1>1, <1>5, <2>2, <2>4 DEF Addressed
<1>15. Ordered(r)'
  <2>1. ASSUME NEW b \in Pending(r)' PROVE b \in Pending(r)
    <3>1. CASE b = [at |-> 0 - Len(t), num |-> ring[r][q[1]].seq_num]
      <4>1. 0 - Len(t) = 1 - Len(q) /\ 1 \in DOMAIN q
        BY <1>4
      <4>2. b = [at |-> 1 - Len(q), num |-> ring[r][q[1]].seq_num]
        BY <3>1, <4>1
      <4> QED
        BY Zenon, <1>2, <4>1, <4>2 DEF Pending
    <3>2. CASE \E i \in DOMAIN t : b = [at |-> i - Len(t), num |-> ring[r][t[i]].seq_num]
      <4>1. PICK i \in DOMAIN t : b = [at |-> i - Len(t), num |-> ring[r][t[i]].seq_num]
        BY <3>2
      <4>2. PICK k \in DOMAIN q : k = i + 1 /\ t[i] = q[k] /\ i - Len(t) = k - Len(q)
        BY <1>4, <4>1
      <4>3. b = [at |-> k - Len(q), num |-> ring[r][q[k]].seq_num]
        BY <4>1, <4>2
      <4> QED
        BY Zenon, <1>2, <4>3 DEF Pending
    <3>3. CASE \/ \E i \in Of(wire, r) : b = [at |-> i, num |-> wire[i].seq_num]
               \/ \E i \in Of(sq, r) : b = [at |-> Len(wire) + i, num |-> sq[i].seq_num]
      BY Zenon, <3>3 DEF Pending
    <3> QED
      BY Zenon, <1>1, <1>5, <3>1, <3>2, <3>3 DEF Pending
  <2> QED
    BY <1>0, <1>1, <2>1, SameOrdered
<1>16. ASSUME NEW u \in RecvThreads
       PROVE  seq_num'[u] <= nb_tx' /\ Walk(u)' /\ Addressed(u)' /\ Ordered(u)'
  <2>1. CASE u = r
    BY <1>0, <1>1, <1>13, <1>14, <1>15, <2>1
  <2>2. CASE u # r
    <3>1. /\ comp'[u] = comp[u] /\ recv_cq'[u] = recv_cq[u] /\ rpc'[u] = rpc[u]
          /\ ring_head'[u] = ring_head[u] /\ rq'[u] = rq[u] /\ ring'[u] = ring[u]
          /\ got'[u] = got[u] /\ seq_num'[u] = seq_num[u] /\ nb_tx' = nb_tx
          /\ wire' = wire /\ sq' = sq
      BY Zenon, <1>1, <1>6, <2>2
    <3> QED
      BY Zenon, <1>0, <3>1, SameWalk, SameAddressed, SameOrdered, SamePending
  <2> QED
    BY <2>1, <2>2
<1> QED
  BY <1>7, <1>8, <1>9, <1>16 DEF IInv

(* The message is read at ring_head (receiver.cc L86-95), which is the slot *)
(* of the completion: the assertion holds, and the number read is less     *)
(* than every number still to come.                                        *)
LEMMA ReadInv ==
    ASSUME Depths, IInv, NEW r \in RecvThreads, Read(r)
    PROVE  IInv' /\ got'[r].seq_num > got[r].seq_num
<1>0. TypeOK /\ RightThread /\ Directed
      /\ \A u \in RecvThreads : seq_num[u] <= nb_tx /\ Walk(u) /\ Addressed(u) /\ Ordered(u)
  BY DEF IInv
<1>1. /\ rpc[r] = "read"
      /\ got' = [got EXCEPT ![r] = ring[r][ring_head[r]]]
      /\ UNCHANGED <<packet, seq_num, nb_tx, spc, sq, send_cq, wire, rq, recv_cq, ring,
                     ring_head, comp>>
  BY Zenon DEF Read, svars
<1>2. comp[r] = ring_head[r]
  BY <1>0, <1>1 DEF Walk, Hand
<1>3. PICK m \in Packet : m = ring[r][comp[r]]
  BY <1>0 DEF TypeOK
<1>4. got' = [got EXCEPT ![r] = m] /\ got'[r] = m
  BY <1>0, <1>1, <1>2, <1>3 DEF TypeOK
<1>5. m.receiver_thread = r
  BY Zenon, <1>0, <1>1, <1>3 DEF Addressed
<1>6. rpc' = [rpc EXCEPT ![r] = "repost"]
  BY Zenon, <1>4, <1>5 DEF Read
<1>7. rpc'[r] = "repost" /\ \A u \in RecvThreads : u # r => rpc'[u] = rpc[u] /\ got'[u] = got[u]
  BY <1>0, <1>4, <1>6 DEF TypeOK
<1>8. TypeOK'
  <2>1. got' \in [RecvThreads -> Packet]
    BY <1>0, <1>4 DEF TypeOK
  <2>2. rpc' \in [RecvThreads -> {"poll", "read", "repost", "assert"}]
    BY <1>0, <1>6 DEF TypeOK
  <2> QED
    BY <1>0, <1>1, <2>1, <2>2 DEF TypeOK
<1>9. RightThread'
  BY <1>0, <1>7 DEF RightThread
<1>10. Directed'
  BY <1>0, <1>1 DEF Directed
<1>11. Walk(r)'
  <2>1. Hand(r) = 1 /\ Hand(r)' = 1
    BY <1>1, <1>7 DEF Hand
  <2>2. Consecutive(1, ring_head[r], recv_cq[r], rq[r])
    BY <1>0, <2>1 DEF Walk
  <2> QED
    BY <1>1, <1>2, <2>1, <2>2, WalkNext
<1>12. Addressed(r)'
  BY <1>0, <1>1, <1>7 DEF Addressed
<1> DEFINE e == [at |-> 0 - Len(recv_cq[r]), num |-> m.seq_num]
<1>13. e \in Pending(r) /\ e.at = 0 - Len(recv_cq[r]) /\ e.num = m.seq_num
  BY <1>1, <1>3 DEF Pending
<1> HIDE DEF e
<1>14. ASSUME NEW b \in Pending(r)' PROVE b \in Pending(r) /\ e.at < b.at
  <2>1. b \in Pending(r)
    BY Zenon, <1>1, <1>7 DEF Pending
  <2>2. /\ Len(recv_cq[r]) \in Nat /\ DOMAIN recv_cq[r] = 1 .. Len(recv_cq[r])
        /\ Len(wire) \in Nat /\ DOMAIN wire = 1 .. Len(wire) /\ DOMAIN sq = 1 .. Len(sq)
    <3>1. recv_cq[r] \in Seq(Slots) /\ wire \in Seq(Packet) /\ sq \in Seq(Packet)
      BY <1>0 DEF TypeOK
    <3> QED
      BY <3>1
  <2>3. CASE \E i \in DOMAIN recv_cq[r] :
               b = [at |-> i - Len(recv_cq[r]), num |-> ring[r][recv_cq[r][i]].seq_num]
    <3>1. PICK i \in 1 .. Len(recv_cq[r]) : b.at = i - Len(recv_cq[r])
      BY <2>2, <2>3
    <3> QED
      BY ONLY <1>13, <2>1, <2>2, <3>1
  <2>4. CASE \E i \in Of(wire, r) : b = [at |-> i, num |-> wire[i].seq_num]
    <3>1. PICK i \in 1 .. Len(wire) : b.at = i
      BY <2>2, <2>4 DEF Of
    <3> QED
      BY ONLY <1>13, <2>1, <2>2, <3>1
  <2>5. CASE \E i \in Of(sq, r) : b = [at |-> Len(wire) + i, num |-> sq[i].seq_num]
    <3>1. PICK i \in 1 .. Len(sq) : b.at = Len(wire) + i
      BY <2>2, <2>5 DEF Of
    <3> QED
      BY ONLY <1>13, <2>1, <2>2, <3>1
  <2>6. \/ \E i \in DOMAIN recv_cq[r] :
               b = [at |-> i - Len(recv_cq[r]), num |-> ring[r][recv_cq[r][i]].seq_num]
        \/ \E i \in Of(wire, r) : b = [at |-> i, num |-> wire[i].seq_num]
        \/ \E i \in Of(sq, r) : b = [at |-> Len(wire) + i, num |-> sq[i].seq_num]
    BY Zenon, <1>1, <1>7 DEF Pending
  <2> QED
    BY <2>1, <2>3, <2>4, <2>5, <2>6
<1>15. Ordered(r)' /\ got'[r].seq_num > got[r].seq_num
  <2>1. Ordered(r)
    BY <1>0
  <2>2. \A a, b \in Pending(r)' : a.at < b.at => a.num < b.num
    BY <1>14, <2>1 DEF Ordered
  <2>3. \A b \in Pending(r)' : m.seq_num < b.num /\ b.num < seq_num[r]
    BY <1>13, <1>14, <2>1 DEF Ordered
  <2>4. got[r].seq_num < m.seq_num /\ m.seq_num < seq_num[r]
    BY <1>13, <2>1 DEF Ordered
  <2>5. got'[r].seq_num = m.seq_num /\ seq_num'[r] = seq_num[r]
    BY <1>1, <1>4
  <2>6. got[r].seq_num \in Int /\ m.seq_num \in Int
    <3>1. got[r] \in Packet
      BY <1>0 DEF TypeOK
    <3> QED
      BY <1>3, <3>1 DEF Packet
  <2> QED
    BY <2>2, <2>3, <2>4, <2>5, <2>6 DEF Ordered
<1>16. ASSUME NEW u \in RecvThreads
       PROVE  seq_num'[u] <= nb_tx' /\ Walk(u)' /\ Addressed(u)' /\ Ordered(u)'
  <2>1. CASE u = r
    BY <1>0, <1>1, <1>11, <1>12, <1>15, <2>1
  <2>2. CASE u # r
    BY Zenon, <1>0, <1>1, <1>7, <2>2, SameWalk, SameAddressed, SameOrdered, SamePending
  <2> QED
    BY <2>1, <2>2
<1> QED
  BY Zenon, <1>8, <1>9, <1>10, <1>15, <1>16 DEF IInv

(* The slot is posted again and ring_head goes on (L97-104).               *)
LEMMA RepostInv == ASSUME Depths, IInv, NEW r \in RecvThreads, Repost(r) PROVE IInv'
<1>0. TypeOK /\ RightThread /\ Directed
      /\ \A u \in RecvThreads : seq_num[u] <= nb_tx /\ Walk(u) /\ Addressed(u) /\ Ordered(u)
  BY DEF IInv
<1>1. /\ rpc[r] = "repost"
      /\ rq' = [rq EXCEPT ![r] = Append(rq[r], ring_head[r])]
      /\ ring_head' = [ring_head EXCEPT ![r] = (ring_head[r] + 1) % kRQDepth]
      /\ rpc' = [rpc EXCEPT ![r] = "poll"]
      /\ UNCHANGED <<packet, seq_num, nb_tx, spc, sq, send_cq, wire, recv_cq, ring, comp, got>>
  BY DEF Repost, svars
<1>2. PICK h \in Slots, q \in Seq(Slots), o \in Seq(Slots) :
        h = ring_head[r] /\ q = recv_cq[r] /\ o = rq[r]
  BY <1>0 DEF TypeOK
<1>3. PICK g \in Slots : g = (h + 1) % kRQDepth
  BY NextSlot
<1>4. PICK s \in Seq(Slots) : s = Append(o, h)
  BY Zenon, AppendFacts
<1>5. rq' = [rq EXCEPT ![r] = s] /\ ring_head' = [ring_head EXCEPT ![r] = g]
  BY <1>1, <1>2, <1>3, <1>4
<1>6. rq'[r] = s /\ ring_head'[r] = g /\ rpc'[r] = "poll" /\ Hand(r) = 1 /\ Hand(r)' = 0
  BY <1>0, <1>1, <1>5 DEF TypeOK, Hand
<1>7. \A u \in RecvThreads : u # r =>
        rq'[u] = rq[u] /\ ring_head'[u] = ring_head[u] /\ rpc'[u] = rpc[u]
  BY <1>0, <1>1, <1>5 DEF TypeOK
<1>8. TypeOK'
  <2>1. rq' \in [RecvThreads -> Seq(Slots)]
    BY <1>0, <1>4, <1>5 DEF TypeOK
  <2>2. ring_head' \in [RecvThreads -> Slots]
    BY <1>0, <1>3, <1>5 DEF TypeOK
  <2>3. rpc' \in [RecvThreads -> {"poll", "read", "repost", "assert"}]
    BY <1>0, <1>1 DEF TypeOK
  <2> QED
    BY <1>0, <1>1, <2>1, <2>2, <2>3 DEF TypeOK
<1>9. RightThread'
  BY Zenon, <1>0, <1>6, <1>7 DEF RightThread
<1>10. Directed'
  BY Zenon, <1>0, <1>1 DEF Directed
<1>11. Walk(r)'
  <2>1. Consecutive(1, h, q, o)
    BY Zenon, <1>0, <1>2, <1>6 DEF Walk
  <2>2. Consecutive(0, g, q, s)
    BY <1>3, <1>4, <2>1, RepostWalk
  <2> QED
    BY <1>1, <1>2, <1>6, <2>2, WalkNext
<1>12. Addressed(r)'
  BY <1>0, <1>1, <1>6 DEF Addressed
<1>13. Ordered(r)'
  <2>1. Pending(r)' \subseteq Pending(r)
    BY Zenon, <1>1, <1>6 DEF Pending
  <2> QED
    BY <1>0, <1>1, <2>1, SameOrdered
<1>14. ASSUME NEW u \in RecvThreads
       PROVE  seq_num'[u] <= nb_tx' /\ Walk(u)' /\ Addressed(u)' /\ Ordered(u)'
  <2>1. CASE u = r
    BY <1>0, <1>1, <1>11, <1>12, <1>13, <2>1
  <2>2. CASE u # r
    BY Zenon, <1>0, <1>1, <1>7, <2>2, SameWalk, SameAddressed, SameOrdered, SamePending
  <2> QED
    BY <2>1, <2>2
<1> QED
  BY Zenon, <1>8, <1>9, <1>10, <1>14 DEF IInv

(* The NIC fills the first buffer posted by the thread of the packet's port: *)
(* it is neither in hand nor filled already, and the packet keeps its      *)
(* place in the line.                                                      *)
LEMMA DeliverInv == ASSUME Depths, IInv, Deliver PROVE IInv'
<1>0. TypeOK /\ RightThread /\ Directed
      /\ \A u \in RecvThreads : seq_num[u] <= nb_tx /\ Walk(u) /\ Addressed(u) /\ Ordered(u)
  BY DEF IInv
<1>1. /\ wire # <<>> /\ wire' = Tail(wire)
      /\ UNCHANGED <<packet, seq_num, nb_tx, spc, sq, send_cq, rpc, ring_head, comp, got>>
  BY DEF Deliver, svars, rvars
<1>2. PICK m \in Packet : m = wire[1] /\ m = Head(wire)
  BY <1>0, <1>1, WireTail
<1>3. PICK r \in RecvThreads : r = m.dst_port
  BY <1>2 DEF Packet
<1>4. 1 \in DOMAIN wire
  BY <1>0, <1>1, WireTail
<1>5. m.receiver_thread = r
  BY <1>0, <1>2, <1>3, <1>4 DEF Directed
<1>6. /\ rq[r] # <<>>
      /\ ring' = [ring EXCEPT ![r][Head(rq[r])] = m]
      /\ recv_cq' = [recv_cq EXCEPT ![r] = Append(recv_cq[r], Head(rq[r]))]
      /\ rq' = [rq EXCEPT ![r] = Tail(rq[r])]
  BY <1>2, <1>3 DEF Deliver
<1>7. PICK h \in Slots, q \in Seq(Slots), o \in Seq(Slots) :
        h = ring_head[r] /\ q = recv_cq[r] /\ o = rq[r]
  BY <1>0 DEF TypeOK
<1>8. PICK s \in Slots : s = Head(o) /\ s = o[1]
  BY <1>6, <1>7, TailFacts
<1>9. PICK t \in Seq(Slots) : t = Tail(o)
  BY Zenon, <1>6, <1>7, TailFacts
<1>10. PICK c \in Seq(Slots) : c = Append(q, s)
  BY Zenon, AppendFacts
<1>11. /\ Len(q) \in Nat /\ DOMAIN q = 1 .. Len(q)
       /\ Len(c) = Len(q) + 1 /\ DOMAIN c = 1 .. Len(q) + 1
       /\ (\A i \in 1 .. Len(q) : c[i] = q[i]) /\ c[Len(q) + 1] = s
  BY <1>10, AppendFacts
<1>12. /\ ring' = [ring EXCEPT ![r][s] = m]
       /\ recv_cq' = [recv_cq EXCEPT ![r] = c] /\ rq' = [rq EXCEPT ![r] = t]
  BY <1>6, <1>7, <1>8, <1>9, <1>10
<1>13. /\ recv_cq'[r] = c /\ rq'[r] = t
       /\ ring'[r][s] = m /\ \A b \in Slots : b # s => ring'[r][b] = ring[r][b]
  BY <1>0, <1>12 DEF TypeOK
<1>14. \A u \in RecvThreads : u # r =>
         rq'[u] = rq[u] /\ recv_cq'[u] = recv_cq[u] /\ ring'[u] = ring[u]
  BY <1>0, <1>12 DEF TypeOK
<1>15. TypeOK'
  <2>1. ring' \in [RecvThreads -> [Slots -> Packet]]
    BY <1>0, <1>12 DEF TypeOK
  <2>2. rq' \in [RecvThreads -> Seq(Slots)] /\ recv_cq' \in [RecvThreads -> Seq(Slots)]
    BY <1>0, <1>9, <1>10, <1>12 DEF TypeOK
  <2>3. wire' \in Seq(Packet)
    BY <1>0, <1>1, WireTail
  <2> QED
    BY <1>0, <1>1, <2>1, <2>2, <2>3 DEF TypeOK
<1>16. RightThread'
  BY <1>0, <1>1 DEF RightThread
<1>17. Directed'
  <2>1. \A i \in DOMAIN wire' : wire'[i].receiver_thread = wire'[i].dst_port
    BY <1>0, <1>1, WireTail DEF Directed
  <2>2. \A i \in DOMAIN sq : sq[i].receiver_thread = sq[i].dst_port
    BY <1>0 DEF Directed
  <2> QED
    BY Zenon, <1>1, <2>1, <2>2 DEF Directed
<1>18. PICK n \in {0, 1} : n = Hand(r) /\ n = Hand(r)'
  BY <1>1 DEF Hand
<1>19. /\ Consecutive(n, h, c, t)
       /\ \A i \in DOMAIN q : q[i] # s
       /\ n = 1 => s # h
  <2>1. Consecutive(n, h, q, o) /\ o # <<>>
    BY Zenon, <1>0, <1>6, <1>7, <1>18 DEF Walk
  <2>2. Consecutive(n, h, Append(q, o[1]), Tail(o)) /\ (\A i \in DOMAIN q : q[i] # o[1])
        /\ (n = 1 => o[1] # h)
    BY <2>1, FillWalk
  <2> QED
    BY <1>8, <1>9, <1>10, <2>2
<1>20. n = 1 => comp[r] = h
  BY Zenon, <1>0, <1>7, <1>18 DEF Walk
<1>21. Walk(r)'
  BY Zenon, <1>1, <1>7, <1>13, <1>18, <1>19, <1>20, WalkNext
<1>22. rpc[r] = "read" => ring'[r][comp[r]] = ring[r][comp[r]]
  <2>1. rpc[r] = "read" => n = 1
    BY <1>18 DEF Hand
  <2> QED
    BY Zenon, <1>13, <1>19, <1>20, <2>1
<1>23. \A i \in 1 .. Len(q) : ring'[r][c[i]] = ring[r][q[i]]
  <2>1. \A i \in 1 .. Len(q) : q[i] \in Slots
    BY <1>11
  <2> QED
    BY <1>11, <1>13, <1>19, <2>1
<1>24. Addressed(r)'
  <2>1. rpc[r] = "read" => ring[r][comp[r]].receiver_thread = r
    BY Zenon, <1>0 DEF Addressed
  <2>2. \A i \in 1 .. Len(q) : ring[r][q[i]].receiver_thread = r
    BY <1>0, <1>7, <1>11 DEF Addressed
  <2>3. ASSUME NEW i \in DOMAIN c PROVE ring'[r][c[i]].receiver_thread = r
    <3>1. i \in 1 .. Len(q) \/ i = Len(q) + 1
      BY <1>11
    <3> QED
      BY <1>5, <1>11, <1>13, <1>23, <2>2, <3>1
  <2> QED
    BY Zenon, <1>1, <1>13, <1>22, <2>1, <2>3 DEF Addressed
<1>25. Ordered(r)'
  <2>0. Len(q) \in Nat /\ Len(c) = Len(q) + 1
    BY <1>11
  <2>1. PICK cut \in Int : cut = 0 - Len(q) - 1
    <3>1. 0 - Len(q) - 1 \in Int
      BY <2>0
    <3> QED
      BY Zenon, <3>1
  <2>2. ASSUME NEW b \in Pending(r)'
        PROVE  \E a \in Pending(r) : a.num = b.num /\ b.at \in Int /\ b.at >= cut /\ a.at = b.at + 1
    <3>1. CASE rpc[r] = "read" /\ b = [at |-> 0 - Len(c), num |-> ring'[r][comp[r]].seq_num]
      <4>1. [at |-> 0 - Len(q), num |-> ring[r][comp[r]].seq_num] \in Pending(r)
        BY Zenon, <1>7, <3>1 DEF Pending
      <4>2. b.at = 0 - Len(c) /\ b.num = ring[r][comp[r]].seq_num
        BY <1>22, <3>1
      <4>3. b.at \in Int /\ b.at >= cut /\ 0 - Len(q) = b.at + 1
        BY ONLY <2>0, <2>1, <4>2
      <4> QED
        BY Zenon, <4>1, <4>2, <4>3
    <3>2. CASE \E i \in DOMAIN c : b = [at |-> i - Len(c), num |-> ring'[r][c[i]].seq_num]
      <4>1. PICK i \in DOMAIN c : b = [at |-> i - Len(c), num |-> ring'[r][c[i]].seq_num]
        BY <3>2
      <4>2. b.at = i - Len(c) /\ b.num = ring'[r][c[i]].seq_num
        BY <4>1
      <4>3. CASE i \in 1 .. Len(q)
        <5>1. [at |-> i - Len(q), num |-> ring[r][q[i]].seq_num] \in Pending(r)
          BY Zenon, <1>7, <1>11, <4>3 DEF Pending
        <5>2. b.num = ring[r][q[i]].seq_num
          BY <1>23, <4>2, <4>3
        <5>3. b.at \in Int /\ b.at >= cut /\ i - Len(q) = b.at + 1
          BY ONLY <2>0, <2>1, <4>2, <4>3
        <5> QED
          BY Zenon, <5>1, <5>2, <5>3
      <4>4. CASE i = Len(q) + 1
        <5>1. [at |-> 1, num |-> m.seq_num] \in Pending(r)
          BY Zenon, <1>2, <1>3, <1>4 DEF Pending, Of
        <5>2. b.num = m.seq_num
          BY <1>11, <1>13, <4>2, <4>4
        <5>3. b.at \in Int /\ b.at >= cut /\ 1 = b.at + 1
          BY ONLY <2>0, <2>1, <4>2, <4>4
        <5> QED
          BY <5>1, <5>2, <5>3
      <4> QED
        BY <1>11, <4>3, <4>4
    <3>3. CASE \/ \E i \in Of(wire', r) : b = [at |-> i, num |-> wire'[i].seq_num]
               \/ \E i \in Of(sq', r) : b = [at |-> Len(wire') + i, num |-> sq'[i].seq_num]
      <4>1. b.at \in Int /\ b.at >= 1 /\ \E a \in Pending(r) : a.num = b.num /\ a.at = b.at + 1
        BY Zenon, <1>0, <1>1, <3>3, StillComing
      <4> QED
        BY <2>0, <2>1, <4>1
    <3> QED
      BY Zenon, <1>1, <1>13, <3>1, <3>2, <3>3 DEF Pending
  <2>3. got'[r] = got[r] /\ seq_num'[r] = seq_num[r]
    BY <1>1
  <2>4. \A b \in Pending(r)' :
          \E a \in Pending(r) : /\ a.num = b.num /\ b.at \in Int
                                /\ a.at = IF b.at >= cut THEN b.at + 1 ELSE b.at
    BY <2>2
  <2> QED
    BY <2>3, <2>4, OrderedShift
<1>26. ASSUME NEW u \in RecvThreads
       PROVE  seq_num'[u] <= nb_tx' /\ Walk(u)' /\ Addressed(u)' /\ Ordered(u)'
  <2>1. CASE u = r
    BY <1>0, <1>1, <1>21, <1>24, <1>25, <2>1
  <2>2. CASE u # r
    BY Zenon, <1>0, <1>1, <1>14, <2>2, SameWalk, SameAddressed, OrderedPassed
  <2> QED
    BY <2>1, <2>2
<1> QED
  BY Zenon, <1>15, <1>16, <1>17, <1>26 DEF IInv

(* Every step keeps the invariant and the order of what is read.           *)
LEMMA StepInv == ASSUME Depths, IInv, [Next]_vars PROVE IInv' /\ InOrderStep
<1>1. ASSUME UNCHANGED <<rpc, got>> \/ \E r \in RecvThreads :
               /\ rpc[r] # "read" /\ UNCHANGED got
               /\ \A u \in RecvThreads : u # r => rpc'[u] = rpc[u]
      PROVE  InOrderStep
  BY <1>1 DEF InOrderStep
<1>2. ASSUME NEW d \in RecvThreads, Post(d) PROVE IInv' /\ InOrderStep
  <2>1. UNCHANGED <<rpc, got>>
    BY <1>2 DEF Post, rvars
  <2> QED
    BY <1>1, <1>2, <2>1, PostInv
<1>3. CASE PollSend \/ Quiet \/ UNCHANGED vars
  <2>1. UNCHANGED <<packet, seq_num, nb_tx, sq, wire, rq, recv_cq, ring, rpc, ring_head, comp, got>>
    BY <1>3 DEF PollSend, Quiet, vars, svars, rvars
  <2>2. spc' \in {"post", "poll"} /\ send_cq' \in Nat /\ send_cq' <= send_cq
    <3>1. spc \in {"post", "poll"} /\ send_cq \in Nat
      BY DEF IInv, TypeOK
    <3> QED
      BY <1>3, <3>1 DEF PollSend, Quiet, vars, svars
  <2> QED
    BY <1>1, <2>1, <2>2, SameInv
<1>4. CASE Transmit
  <2>1. UNCHANGED <<rpc, got>>
    BY <1>4 DEF Transmit, rvars
  <2> QED
    BY <1>1, <1>4, <2>1, TransmitInv
<1>5. CASE Drop
  <2>1. UNCHANGED <<rpc, got>>
    BY <1>5 DEF Drop, rvars
  <2> QED
    BY <1>1, <1>5, <2>1, DropInv
<1>6. CASE Deliver
  <2>1. UNCHANGED <<rpc, got>>
    BY <1>6 DEF Deliver, rvars
  <2> QED
    BY <1>1, <1>6, <2>1, DeliverInv
<1>7. ASSUME NEW r \in RecvThreads, PollRecv(r) PROVE IInv' /\ InOrderStep
  <2>1. rpc[r] # "read" /\ UNCHANGED got /\ \A u \in RecvThreads : u # r => rpc'[u] = rpc[u]
    BY <1>7 DEF PollRecv, IInv, TypeOK
  <2> QED
    BY <1>1, <1>7, <2>1, PollRecvInv
<1>8. ASSUME NEW r \in RecvThreads, Read(r) PROVE IInv' /\ InOrderStep
  <2>1. \A u \in RecvThreads : u # r => rpc'[u] = rpc[u] /\ got'[u] = got[u]
    BY <1>8 DEF Read, IInv, TypeOK
  <2>2. IInv' /\ got'[r].seq_num > got[r].seq_num
    BY <1>8, ReadInv
  <2> QED
    BY <2>1, <2>2 DEF InOrderStep
<1>9. ASSUME NEW r \in RecvThreads, Repost(r) PROVE IInv' /\ InOrderStep
  <2>1. rpc[r] # "read" /\ UNCHANGED got /\ \A u \in RecvThreads : u # r => rpc'[u] = rpc[u]
    BY <1>9 DEF Repost, IInv, TypeOK
  <2> QED
    BY <1>1, <1>9, <2>1, RepostInv
<1> QED
  BY <1>2, <1>3, <1>4, <1>5, <1>6, <1>7, <1>8, <1>9 DEF Next

(* From the slots' order follows what the threads rely on.                 *)
LEMMA WalkHead == ASSUME Depths, IInv PROVE HeadIsCompletion
<1>1. SUFFICES ASSUME NEW r \in RecvThreads, rpc[r] \in {"read", "repost"},
                      NEW i \in DOMAIN rq[r]
               PROVE  ring_head[r] = comp[r] /\ rq[r][i] # ring_head[r]
  <2>1. \A r \in RecvThreads : rpc[r] \in {"read", "repost"} => ring_head[r] = comp[r]
    BY Zenon DEF IInv, Walk, Hand
  <2> QED
    BY <2>1 DEF HeadIsCompletion
<1>2. PICK h \in Slots, q \in Seq(Slots), o \in Seq(Slots) :
        h = ring_head[r] /\ q = recv_cq[r] /\ o = rq[r]
  BY DEF IInv, TypeOK
<1>3. Hand(r) = 1 /\ Walk(r)
  BY <1>1 DEF IInv, Hand
<1>4. comp[r] = h /\ Consecutive(1, h, q, o)
  BY Zenon, <1>2, <1>3 DEF Walk
<1>5. /\ i \in 1 .. Len(o) /\ Len(o) \in Nat /\ Len(q) \in Nat
      /\ 1 + Len(q) + Len(o) = kRQDepth
      /\ o[i] = Slot(h, 1 + Len(q) + i - 1)
  <2>1. i \in DOMAIN o
    BY <1>2
  <2>2. i \in 1 .. Len(o) /\ Len(o) \in Nat /\ Len(q) \in Nat
    BY <2>1
  <2> QED
    BY <1>4, <2>1, <2>2 DEF Consecutive
<1>6. o[i] # h
  <2>1. kRQDepth \in Nat /\ h \in Nat /\ h < kRQDepth
    BY DEF Slots, Depths
  <2> QED
    BY ONLY <1>5, <2>1 DEF Slot
<1> QED
  BY <1>2, <1>4, <1>6

(***************************************************************************)
(* A receiver thread's ring_head is the slot of the completion it has in   *)
(* hand, that slot is not posted while it is used, and the assertion of    *)
(* receiver.cc:95 never fails, for any number of threads, any depth of the *)
(* queues and whatever is lost.                                            *)
(***************************************************************************)
THEOREM RingInStep ==
    ASSUME Depths
    PROVE  Spec => [](IInv /\ HeadIsCompletion /\ RightThread)
<1>1. Init => IInv
  BY InitInv
<1>2. IInv /\ [Next]_vars => IInv'
  BY StepInv
<1>3. IInv => HeadIsCompletion /\ RightThread
  BY WalkHead DEF IInv
<1> QED
  BY <1>1, <1>2, <1>3, PTL DEF Spec

(***************************************************************************)
(* Every message a thread reads has a greater sequence number than the one *)
(* it read before.                                                         *)
(***************************************************************************)
THEOREM ReadInOrder ==
    ASSUME Depths
    PROVE  Spec => [][InOrderStep]_vars
<1>1. Init => IInv
  BY InitInv
<1>2. IInv /\ [Next]_vars => IInv' /\ [InOrderStep]_vars
  BY StepInv
<1> QED
  BY <1>1, <1>2, PTL DEF Spec

===============================================================================
