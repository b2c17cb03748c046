----------------------------- MODULE SigioProofs -----------------------------
(***************************************************************************)
(* Proofs about Sigio for every number of packets and every receive buffer. *)
(***************************************************************************)
EXTENDS Sigio, TLAPS

(* Every step keeps a packet for each signal that is pending or being      *)
(* handled: the kernel sets the one only when it queues the other, and an  *)
(* invocation of io_handler() takes one packet and no more.                *)
LEMMA InductiveStep ==
    ASSUME MaxPkts \in Nat, RcvBuf \in Nat, IInv, [Next]_vars
    PROVE  IInv'
<1> USE DEF IInv, TypeOK, NoFatal, Owed
<1>1. CASE Setup
  BY <1>1 DEF Setup, After
<1>2. CASE Arrive
  <2> USE <1>2 DEF Arrive
  <2>1. pending' \in BOOLEAN /\ killed' \in BOOLEAN
    OBVIOUS
  <2>2. CASE queue < RcvBuf
    BY <2>1, <2>2
  <2>3. CASE ~ (queue < RcvBuf)
    <3>1. pending' = pending
      BY <2>3
    <3> QED
      BY <2>1, <2>3, <3>1
  <2> QED
    BY <2>2, <2>3
<1>3. CASE Signal
  <2> USE <1>3 DEF Signal
  <2>1. pending' \in BOOLEAN /\ killed' \in BOOLEAN
    BY Zenon
  <2>2. pending' = FALSE /\ queue >= 1
    OBVIOUS
  <2>3. hpc' \in {"idle", "recv"}
    OBVIOUS
  <2> QED
    BY <2>1, <2>2, <2>3
<1>4. CASE Recv
  BY <1>4 DEF Recv
<1>5. CASE Return
  BY <1>5 DEF Return
<1>6. CASE UNCHANGED vars
  BY <1>6 DEF vars
<1> QED
  BY <1>1, <1>2, <1>3, <1>4, <1>5, <1>6 DEF Next, Rest

(* However packets arrive, "Fatal error in recvfrom()" is unreachable: an  *)
(* invocation of io_handler() always finds a packet.                       *)
THEOREM HandlerFindsPacket ==
    ASSUME MaxPkts \in Nat, RcvBuf \in Nat
    PROVE  Spec => []NoFatal
<1>1. Init => IInv
  <2> SUFFICES ASSUME Init PROVE IInv
    OBVIOUS
  <2>1. pending \in BOOLEAN /\ killed \in BOOLEAN
    BY Zenon DEF Init
  <2>2. Owed = 0
    BY DEF Init, Owed
  <2> QED
    BY <2>1, <2>2 DEF Init, IInv, TypeOK, NoFatal
<1>2. IInv /\ [Next]_vars => IInv'
  BY InductiveStep
<1>3. IInv => NoFatal
  BY DEF IInv
<1> QED
  BY <1>1, <1>2, <1>3, PTL DEF Spec
==============================================================================
