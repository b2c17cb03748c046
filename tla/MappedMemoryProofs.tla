-------------------------- MODULE MappedMemoryProofs --------------------------
(***************************************************************************)
(* Proofs about MappedMemory for every number of packets and of rounds and  *)
(* for both kernels.                                                        *)
(***************************************************************************)
EXTENDS MappedMemory, TLAPS

(* The index of a loop of the CPU after one more packet.                   *)
LEMMA NextIndex ==
    ASSUME NUM_PKTS \in Nat \ {0}, NEW k \in Pkts
    PROVE  (k + 1) % NUM_PKTS = IF k + 1 = NUM_PKTS THEN 0 ELSE k + 1
  BY SMT DEF Pkts

(* What a GPU thread leaves in B is a number, and not zero if its packet   *)
(* was written: waitForNonZero() can tell it from a cleared entry.         *)
LEMMA OutputNonZero ==
    ASSUME NEW n \in Nat, NEW i \in Pkts, NEW a \in Nat, NUM_PKTS \in Nat
    PROVE  /\ Output(n, i, a) \in Nat
           /\ a > 0 => Output(n, i, a) # 0
  BY DEF Output, LOG_STEP, Pkts

LEMMA InputPositive ==
    ASSUME NEW n \in Nat, NEW i \in Pkts, NUM_PKTS \in Nat
    PROVE  Input(n, i) \in Nat /\ Input(n, i) > 0
  BY DEF Input, Pkts

(* Every step of the CPU and of a GPU thread keeps the inductive           *)
(* invariant.                                                              *)
LEMMA InductiveStep ==
    ASSUME NUM_PKTS \in Nat \ {0}, ITERS \in Nat, IInv, [Next]_vars
    PROVE  IInv'
<1> USE DEF IInv, TypeOK, Before, Asleep
<1> j \in Pkts /\ iter \in Nat /\ Pkts \subseteq Nat
  BY DEF Pkts
<1>n. (j + 1) % NUM_PKTS = IF j + 1 = NUM_PKTS THEN 0 ELSE j + 1
  BY NextIndex
<1>l. /\ j + 1 = NUM_PKTS => \A i \in Pkts : i < j + 1
      /\ j + 1 # NUM_PKTS => j + 1 \in Pkts
      /\ 0 \in Pkts
      /\ \A i \in Pkts : i < j + 1 <=> i < j \/ i = j
  BY DEF Pkts
<1>1. CASE Clear
  BY <1>1, <1>n, <1>l DEF Clear, Loop, gvars
<1>2. CASE Fill
  <2>1. Input(iter, j) \in Nat /\ Input(iter, j) > 0
    BY InputPositive
  <2> QED
    BY <1>2, <1>n, <1>l, <2>1 DEF Fill, Loop, gvars
<1>3. CASE Raise
  BY <1>3, <1>l DEF Raise, Pending, Answered, Output, gvars
<1>4. CASE Poll
  BY <1>4, <1>n, <1>l DEF Poll, Pending, Answered, Output, gvars
<1>5. CASE Check
  BY <1>5, <1>n, <1>l DEF Check, Pending, Answered, Output, gvars
<1>6. ASSUME NEW i \in Pkts, Kernel(i) PROVE IInv'
  BY <1>6 DEF Kernel, hvars, Pending, Answered, Output
<1>7. ASSUME NEW i \in Pkts, Load(i) PROVE IInv'
  BY <1>7, OutputNonZero DEF Load, hvars, Pending, Answered, Output
<1>8. ASSUME NEW i \in Pkts, Store(i) PROVE IInv'
  BY <1>8, OutputNonZero DEF Store, hvars, Pending, Answered, Output
<1>9. CASE UNCHANGED vars
  BY <1>9 DEF vars, hvars, gvars, Pending, Answered, Output
<1> QED
  BY <1>1, <1>2, <1>3, <1>4, <1>5, <1>6, <1>7, <1>8, <1>9
  DEF Next, CPU, GPU, Over

(* The inductive invariant holds in every reachable state.                 *)
THEOREM Inductive ==
    ASSUME NUM_PKTS \in Nat \ {0}, ITERS \in Nat
    PROVE  Spec => []IInv
<1>1. Init => IInv
  BY DEF Init, IInv, TypeOK, Before, Asleep, Pkts
<1>2. IInv /\ [Next]_vars => IInv'
  BY InductiveStep
<1> QED
  BY <1>1, <1>2, PTL DEF Spec

(* "Kernel output mismatch error" is unreachable, for any number of        *)
(* packets and rounds and both kernels.                                    *)
THEOREM ResultsOfThisRound ==
    ASSUME NUM_PKTS \in Nat \ {0}, ITERS \in Nat
    PROVE  Spec => []NoMismatch
<1>1. IInv => NoMismatch
  BY DEF IInv, NoMismatch
<1> QED
  BY <1>1, Inductive, PTL

(* The two sides stay in step without an acknowledgement but B: no GPU     *)
(* thread is ever two rounds away from the CPU, and none writes to B while *)
(* the CPU clears it.                                                      *)
THEOREM SidesInStep ==
    ASSUME NUM_PKTS \in Nat \ {0}, ITERS \in Nat
    PROVE  Spec => []InStep
<1>1. IInv => InStep
  BY DEF IInv, InStep, TypeOK, Before, Asleep, Pending, Answered
<1> QED
  BY <1>1, Inductive, PTL
==============================================================================
