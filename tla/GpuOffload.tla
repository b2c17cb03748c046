----------------------------- MODULE GpuOffload -----------------------------
(***************************************************************************)
(* The CUDA programs that hand a batch to the device and use what comes    *)
(* back: gpu/streams, gpu/unifiedMemory, gpu/randMem and gpu/seqMem.  A    *)
(* host thread queues copies and kernels on its stream and goes on; the    *)
(* device takes each stream's operations in order, and different streams   *)
(* and the GPU threads of a kernel in any order, one access at a time.     *)
(* Streams and the blocking of copies are CUDA's, modelled from their use. *)
(***************************************************************************)
EXTENDS Integers, Sequences, SequencesExt

CONSTANTS Programs,        \* which of the programs are run
          NUM_PKTS,        \* packets of a batch, or GPU threads of seqMem
          NUM_THREADS,     \* host threads of streams; the others have one
          ITERS,           \* batches
          Wrap,            \* 0xff + 1, after which the input repeats
          threadsPerBlock, \* by program
          LOG,             \* the log of randMem and seqMem: its entries, from 0
          DEPTH            \* lookups of randMem

VARIABLES program,
          host, dev,       \* each thread's vector in host and in device memory
          queue,           \* the operations on each thread's stream
          left,            \* what the GPU threads of the running kernel have left to do
          pc, iter, freed
gpuVars == <<program, host, dev, queue, left, pc, iter, freed>>

HostThreads == 0 .. NUM_THREADS - 1
Pkts == 0 .. NUM_PKTS - 1
LOG_CAP == Len(LOG)
log(k) == LOG[k + 1]
Running(t) == program = "streams" \/ t = 0

(* Each program's loop; a copy from or to pageable memory, "copy...",      *)
(* returns when it is done, one from or to pinned memory, "async...", is   *)
(* only queued.                                                            *)
StreamsLoop_NoSync == <<"init", "async h2d", "kernel", "async d2h", "verify">>
StreamsLoop == <<"init", "async h2d", "kernel", "async d2h", "sync", "verify">>
UnifiedLoop == <<"init", "kernel", "sync", "verify">>
RandMemLoop == <<"init", "copy h2d", "kernel", "sync", "copy d2h", "verify">>
SeqMemLoop == <<"kernel", "sync", "copy d2h", "verify">>
Loop == CASE program = "streams" -> StreamsLoop [] program = "unified" -> UnifiedLoop
          [] program = "randMem" -> RandMemLoop [] program = "seqMem" -> SeqMemLoop
At(t) == IF pc[t] <= Len(Loop) THEN Loop[pc[t]] ELSE "end"

(* The input of a batch: randMem's packets are indices of the log.         *)
Input(t, i, j) == IF program = "randMem" THEN (i * NUM_PKTS + j) % LOG_CAP ELSE (i % Wrap) + j

GpuInit ==
    /\ program \in Programs
    /\ host = [t \in HostThreads |-> [j \in Pkts |-> t + j]]
    /\ dev = [t \in HostThreads |-> [j \in Pkts |-> 0]]
    /\ queue = [t \in HostThreads |-> <<>>] /\ left = [t \in HostThreads |-> <<>>]
    /\ pc = [t \in HostThreads |-> IF Running(t) THEN 1 ELSE 99]
    /\ iter = [t \in HostThreads |-> 0] /\ freed = {}
------------------------------------------------------------------------------
Next1(t) == pc' = [pc EXCEPT ![t] = @ + 1]

(* The batch is written to host memory.                                    *)
HostInit(t) ==
    /\ At(t) = "init"
    /\ host' = [host EXCEPT ![t] = [j \in Pkts |-> Input(t, iter[t], j)]]
    /\ Next1(t) /\ UNCHANGED <<program, dev, queue, left, iter, freed>>

(* What the host may rely on before it goes on: nothing on the stream      *)
(* after a synchronisation, no blocking copy on it otherwise.              *)
MayGoOn(t) == IF At(t) = "sync" THEN queue[t] = <<>>
              ELSE ~Contains(queue[t], "copy h2d") /\ ~Contains(queue[t], "copy d2h")

(* A copy or a kernel is queued.                                           *)
Enqueue(t) ==
    /\ At(t) \in {"async h2d", "async d2h", "copy h2d", "copy d2h", "kernel"} /\ MayGoOn(t)
    /\ queue' = [queue EXCEPT ![t] = Append(@, At(t))]
    /\ Next1(t) /\ UNCHANGED <<program, host, dev, left, iter, freed>>

(* cudaStreamSynchronize and cudaDeviceSynchronize.                        *)
Synchronize(t) ==
    /\ At(t) = "sync" /\ MayGoOn(t)
    /\ Next1(t) /\ UNCHANGED <<program, host, dev, queue, left, iter, freed>>

(* The results are compared with the input's, or summed up, and the next   *)
(* batch begins; a mismatch ends the program.                              *)
Result(t) == IF program = "unified" THEN dev[t] ELSE host[t]
Square(n) == n * n
cpu_run[n \in 0..DEPTH, k \in 0..LOG_CAP - 1] == IF n = 0 THEN k ELSE cpu_run[n - 1, log(k)]
num_iters == LOG_CAP \div NUM_PKTS
Expected(t, j) ==
    CASE program \in {"streams", "unified"} -> Square(Input(t, iter[t], j))
      [] program = "randMem" -> cpu_run[DEPTH, Input(t, iter[t], j)]
      [] program = "seqMem"  -> FoldLeft(LAMBDA s, n : s + log(n * NUM_PKTS + j), 0, [n \in 1..num_iters |-> n - 1])
Matches(t) == \A j \in Pkts : Result(t)[j] = Expected(t, j)
Verify(t) ==
    /\ At(t) = "verify" /\ MayGoOn(t)
    /\ IF Matches(t)
       THEN /\ iter' = [iter EXCEPT ![t] = @ + 1]
            /\ pc' = [pc EXCEPT ![t] = IF iter'[t] < ITERS THEN 1 ELSE 99]
            /\ freed' = IF iter'[t] < ITERS THEN freed ELSE freed \cup {t}
       ELSE pc' = [u \in HostThreads |-> 99] /\ UNCHANGED <<iter, freed>>
    /\ UNCHANGED <<program, host, dev, queue, left>>

(* The device: a copy is one step; a kernel starts its grid, whose GPU     *)
(* threads beyond the vector do nothing, and ends when all have finished.  *)
Copied(t) ==
    /\ host' = IF Head(queue[t]) \in {"async d2h", "copy d2h"} THEN [host EXCEPT ![t] = dev[t]] ELSE host
    /\ dev' = IF Head(queue[t]) \in {"async h2d", "copy h2d"} THEN [dev EXCEPT ![t] = host[t]] ELSE dev
Copy(t) ==
    /\ queue[t] # <<>> /\ Head(queue[t]) # "kernel"
    /\ Copied(t)
    /\ queue' = [queue EXCEPT ![t] = Tail(@)]
    /\ UNCHANGED <<program, left, pc, iter, freed>>

perBlock == threadsPerBlock[program]
blocksPerGrid == IF program = "seqMem" THEN NUM_PKTS \div perBlock
                 ELSE (NUM_PKTS + perBlock - 1) \div perBlock
StepsOf(j) == IF j \notin Pkts THEN 0
              ELSE CASE program = "randMem" -> DEPTH [] program = "seqMem" -> num_iters + 1 [] OTHER -> 1
StartKernel(t) ==
    /\ queue[t] # <<>> /\ Head(queue[t]) = "kernel" /\ left[t] = <<>>
    /\ left' = [left EXCEPT ![t] = [j \in 0 .. blocksPerGrid * perBlock - 1 |-> StepsOf(j)]]
    /\ UNCHANGED <<program, host, dev, queue, pc, iter, freed>>

(* One access of GPU thread j, the kernels' bodies.                        *)
Computed(t, j) ==
    LET v == dev[t][j]
        n == num_iters - left[t][j]
    IN  CASE program = "streams" -> Square(v)
          [] program = "unified" -> Square(host[t][j])
          [] program = "randMem" -> log(v)
          [] program = "seqMem"  -> IF n = -1 THEN 0 ELSE v + log(n * NUM_PKTS + j)
RunThread(t) ==
    \E j \in DOMAIN left[t] :
        /\ left[t][j] > 0
        /\ left' = [left EXCEPT ![t][j] = @ - 1]
        /\ dev' = [dev EXCEPT ![t][j] = Computed(t, j)]
        /\ UNCHANGED <<program, host, queue, pc, iter, freed>>
EndKernel(t) ==
    /\ left[t] # <<>> /\ \A j \in DOMAIN left[t] : left[t][j] = 0
    /\ left' = [left EXCEPT ![t] = <<>>] /\ queue' = [queue EXCEPT ![t] = Tail(@)]
    /\ UNCHANGED <<program, host, dev, pc, iter, freed>>

GpuNext ==
    \E t \in HostThreads :
        \/ HostInit(t) \/ Enqueue(t) \/ Synchronize(t) \/ Verify(t)
        \/ Copy(t) \/ StartKernel(t) \/ RunThread(t) \/ EndKernel(t)
------------------------------------------------------------------------------
(* Whenever a host thread reads its results, every one is what the kernel  *)
(* makes of this batch's input, not of an earlier batch and not half done; *)
(* and no operation is on a stream whose memory has been freed.            *)
BatchesVerified ==
    \A t \in HostThreads :
        /\ At(t) = "verify" /\ MayGoOn(t) => Matches(t)
        /\ t \in freed => queue[t] = <<>>
=============================================================================
