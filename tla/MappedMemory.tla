---------------------------- MODULE MappedMemory ----------------------------
(***************************************************************************)
(* gpu/mappedMemory/mappedMemory.cu (P) and gpu/mtMappedMemory (M): a CPU   *)
(* thread and a kernel that is launched once talk through mapped memory.    *)
(* In each iteration the CPU clears h_B, writes h_A, raises the flag and    *)
(* waits until no entry of h_B is zero (waitForNonZero, common.cu); GPU     *)
(* thread i waits for the flag to move and writes B[i].  The flag is        *)
(* compared for equality with the last round only, and nothing tells the    *)
(* CPU that a GPU thread is late but B.                                     *)
(*                                                                          *)
(* One access to mapped memory is one step and takes effect in order: the   *)
(* CPU's stores are ordered by x86, the kernel's accesses are volatile.     *)
(***************************************************************************)
EXTENDS Integers

CONSTANTS
    NUM_PKTS,    \* packets, which are also the GPU threads
    ITERS,
    Kernels      \* subset of {"log", "double"}: the kernels of P and of M

Pkts == 0 .. NUM_PKTS - 1

VARIABLES
    kernel,      \* which of the two programs this is
    flag, A, B,  \* the mapped memory
    hpc, iter, j,             \* the CPU thread: where it is, its round and index
    gpc, giter, reg           \* the GPU threads; reg: the value to be stored

hvars == <<hpc, iter, j>>
gvars == <<gpc, giter, reg>>
vars == <<kernel, flag, A, B, hvars, gvars>>

-----------------------------------------------------------------------------
\* main(): the flag is -1, the vectors are zero, and both sides start.
Init ==
    /\ kernel \in Kernels
    /\ flag = -1
    /\ A = [i \in Pkts |-> 0] /\ B = [i \in Pkts |-> 0]
    /\ hpc = "clear" /\ iter = 0 /\ j = 0
    /\ gpc = [i \in Pkts |-> "wait"]
    /\ giter = [i \in Pkts |-> 0]
    /\ reg = [i \in Pkts |-> 0]

\* h_A[j] = (iter & 0xff) + j + 1.
Input(n, i) == (n % 256) + i + 1

\* What the kernel leaves in B[i] when A[i] is a; entry k of the log is k + 1.
LOG_STEP == 16
Output(n, i, a) == IF kernel = "log" THEN i * LOG_STEP + 1 + n ELSE a * 2

\* The CPU's loops over the packets: one index a step, then on to `next'.
Loop(here, next) ==
    /\ hpc = here
    /\ j' = (j + 1) % NUM_PKTS
    /\ hpc' = IF j + 1 = NUM_PKTS THEN next ELSE here
    /\ UNCHANGED iter

\* memset(h_B, 0).
Clear ==
    /\ iter < ITERS
    /\ Loop("clear", "fill")
    /\ B' = [B EXCEPT ![j] = 0]
    /\ UNCHANGED <<kernel, flag, A, gvars>>

\* Mutated: the flag is raised while the packets are still being written.
Fill_RaisesFirst ==
    /\ Loop("fill", "raise")
    /\ A' = [A EXCEPT ![j] = Input(iter, j)]
    /\ flag' = iter
    /\ UNCHANGED <<kernel, B, gvars>>

Fill ==
    /\ Loop("fill", "raise")
    /\ A' = [A EXCEPT ![j] = Input(iter, j)]
    /\ UNCHANGED <<kernel, flag, B, gvars>>

Raise ==
    /\ hpc = "raise"
    /\ flag' = iter
    /\ hpc' = "poll"
    /\ UNCHANGED <<kernel, A, B, iter, j, gvars>>

\* waitForNonZero(): a scan that finds a zero starts again.
Poll ==
    /\ hpc = "poll"
    /\ IF B[j] = 0
       THEN j' = 0 /\ hpc' = "poll"
       ELSE /\ j' = (j + 1) % NUM_PKTS
            /\ hpc' = IF j + 1 = NUM_PKTS THEN "check" ELSE "poll"
    /\ UNCHANGED <<kernel, flag, A, B, iter, gvars>>

\* "Kernel output mismatch error", or the next packet, or the next round.
Check ==
    /\ hpc = "check"
    /\ IF B[j] # Output(iter, j, A[j])
       THEN hpc' = "mismatch" /\ UNCHANGED <<iter, j>>
       ELSE /\ j' = (j + 1) % NUM_PKTS
            /\ hpc' = IF j + 1 = NUM_PKTS THEN "clear" ELSE "check"
            /\ iter' = IF j + 1 = NUM_PKTS THEN iter + 1 ELSE iter
    /\ UNCHANGED <<kernel, flag, A, B, gvars>>

\* A GPU thread sees the flag moved and computes.
Kernel(i) ==
    /\ gpc[i] = "wait"
    /\ giter[i] < ITERS
    /\ flag # giter[i] - 1
    /\ gpc' = [gpc EXCEPT ![i] = "load"]
    /\ UNCHANGED <<kernel, flag, A, B, hvars, giter, reg>>

Load(i) ==
    /\ gpc[i] = "load"
    /\ reg' = [reg EXCEPT ![i] = Output(giter[i], i, A[i])]
    /\ gpc' = [gpc EXCEPT ![i] = "store"]
    /\ UNCHANGED <<kernel, flag, A, B, hvars, giter>>

Store(i) ==
    /\ gpc[i] = "store"
    /\ B' = [B EXCEPT ![i] = reg[i]]
    /\ giter' = [giter EXCEPT ![i] = @ + 1]
    /\ gpc' = [gpc EXCEPT ![i] = "wait"]
    /\ UNCHANGED <<kernel, flag, A, hvars, reg>>

CPU == Clear \/ Fill \/ Raise \/ Poll \/ Check
GPU(i) == Kernel(i) \/ Load(i) \/ Store(i)

\* The program is over: every round is done, or exit(-1) after a mismatch.
Stopped == hpc = "mismatch" \/ (iter = ITERS /\ \A i \in Pkts : giter[i] = ITERS)
Over == Stopped /\ UNCHANGED vars

Next == CPU \/ (\E i \in Pkts : GPU(i)) \/ Over

\* The CPU and every GPU thread run on their own.
Spec == Init /\ [][Next]_vars /\ WF_vars(CPU) /\ \A i \in Pkts : WF_vars(GPU(i))

-----------------------------------------------------------------------------
(***************************************************************************)
(* The type invariant.                                                     *)
(***************************************************************************)
TypeOK ==
    /\ kernel \in Kernels
    /\ flag \in -1 .. ITERS - 1
    /\ A \in [Pkts -> Nat] /\ B \in [Pkts -> Nat]
    /\ hpc \in {"clear", "fill", "raise", "poll", "check", "mismatch"}
    /\ iter \in 0 .. ITERS /\ j \in Pkts
    /\ gpc \in [Pkts -> {"wait", "load", "store"}]
    /\ giter \in [Pkts -> 0 .. ITERS]
    /\ reg \in [Pkts -> Nat]

(***************************************************************************)
(* The CPU never finds a result of another round or of half-written input: *)
(* "Kernel output mismatch error" (P58, M68) is unreachable.               *)
(***************************************************************************)
NoMismatch == hpc # "mismatch"

(***************************************************************************)
(* The handshake keeps the sides in step without an acknowledgement: a GPU *)
(* thread is in the CPU's round or, when it has answered, one ahead, and   *)
(* no thread stores to B while the CPU clears it or writes A.              *)
(***************************************************************************)
InStep ==
    /\ \A i \in Pkts : giter[i] \in {iter, iter + 1}
    /\ hpc \in {"clear", "fill", "raise"} =>
           \A i \in Pkts : giter[i] = iter /\ gpc[i] = "wait"

(***************************************************************************)
(* The inductive invariant.  Before the flag is raised every GPU thread    *)
(* waits for it, and the loops of the CPU have cleared B and written A up  *)
(* to j.  After that a thread that has not answered has left its entry of  *)
(* B zero, and one that has is waiting for a flag that is not raised yet;  *)
(* the CPU has passed only the entries of threads that have answered.      *)
(***************************************************************************)
Before == hpc \in {"clear", "fill", "raise"}
Asleep(i) == giter[i] = iter /\ gpc[i] = "wait"
Pending(i) ==
    /\ giter[i] = iter /\ B[i] = 0
    /\ gpc[i] = "store" => reg[i] = Output(iter, i, A[i])
Answered(i) ==
    /\ giter[i] = iter + 1 /\ gpc[i] = "wait"
    /\ B[i] = Output(iter, i, A[i])
IInv ==
    /\ TypeOK
    /\ hpc # "mismatch"
    /\ hpc # "clear" => iter < ITERS
    /\ hpc = "raise" => j = 0
    /\ Before => flag = iter - 1 /\ \A i \in Pkts : Asleep(i)
    /\ hpc = "clear" => \A i \in Pkts : i < j => B[i] = 0
    /\ hpc \in {"fill", "raise"} => \A i \in Pkts : B[i] = 0
    /\ hpc = "fill" => \A i \in Pkts : i < j => A[i] > 0
    /\ hpc \in {"raise", "poll", "check"} => \A i \in Pkts : A[i] > 0
    /\ ~Before => flag = iter /\ \A i \in Pkts : Pending(i) \/ Answered(i)
    /\ hpc = "poll" => \A i \in Pkts : i < j => Answered(i)
    /\ hpc = "check" => \A i \in Pkts : Answered(i)

(***************************************************************************)
(* All rounds are finished.                                                *)
(***************************************************************************)
Finished == iter = ITERS
=============================================================================
