------------------------------ MODULE MCPrograms ------------------------------
(***************************************************************************)
(* The benchmarks and example programs of the repository, one of which      *)
(* runs: threads that wait for each other or count together, batches of     *)
(* packets, a GPU and its host, DMA channels, a network card, a signal      *)
(* handler.  prog says which; the variables that only others have stay 0,   *)
(* or where they start if a property reads them.                            *)
(***************************************************************************)
EXTENDS CondWait, Counters

CONSTANTS
    BATCH_SIZE, DEPTH, NUM_BS, SLOTS_PER_BKT, DiffMod, StopMod,  \* FppBatch
    StylePkts, LogCap, COMPUTE, Values,                          \* BatchStyles
    NUM_PKTS, Rounds, Kernels,                                   \* MappedMemory
    Programs, NUM_THREADS, Batches, Wrap, Lookups,               \* GpuOffload
    NumWorkers, NumChans, PoolSize, QueueDepth,                  \* IoatBench
    kReceiverThreads, kRQDepth, kSQDepth, MaxTx,                 \* RawEth
    MaxPkts, RcvBuf                                              \* Sigio

VARIABLES
    prog,
    I, batch_rips, iMask, sum,                         \* of both batchings
    cache, pkt, jumper, lane, returned,                \* FppBatch
    style, pkts, lo, label, mem_addr,                  \* BatchStyles
    hpc,                                               \* mapped and sigio
    kernel, flag, A, B, iter, j, gpc, giter, greg,     \* MappedMemory
    program, host, dev, ops, todo, cpc, batch, freed,  \* GpuOffload
    ring,                                              \* ioat and raweth
    data, task, buf, finished, depth, draining, at, dpc, left, timeUp, main,
    packet, seq_num, nb_tx, spc, sq, send_cq, wire, rq, recv_cq, rpc,
    ring_head, comp, got,                              \* IoatBench, RawEth
    step, queue, arrived, pending, total, killed       \* Sigio

threads == <<vars, cvars>>
batching == <<I, batch_rips, iMask, sum>>
fppOnly == <<cache, pkt, jumper, lane, returned>>
stylesOnly == <<style, pkts, lo, label, mem_addr>>
batches == <<batching, fppOnly, stylesOnly>>
mappedOnly == <<kernel, flag, A, B, iter, j, gpc, giter, greg>>
gpu == <<program, host, dev, ops, todo, cpc, batch, freed>>
ioatOnly == <<data, task, buf, finished, depth, draining, at, dpc, left, timeUp, main>>
rawethOnly == <<packet, seq_num, nb_tx, spc, sq, send_cq, wire, rq, recv_cq, rpc,
                ring_head, comp, got>>
sigioOnly == <<step, queue, arrived, pending, total, killed>>
devices == <<hpc, mappedOnly, gpu, ring, ioatOnly, rawethOnly, sigioOnly>>
allvars == <<prog, threads, batches, devices>>

(* Every cache of NUM_BS buckets whose first bucket leads to the other two. *)
TheCaches ==
    {c \in [0 .. NUM_BS - 1 -> [0 .. SLOTS_PER_BKT - 1 -> 0 .. NUM_BS - 1]] :
        c[0][0] = 1 /\ c[0][1] = 2}

(* Blocks of GPU threads: the last one has idle threads, but seqMem's.      *)
TheBlocks == [streams |-> 2, unified |-> 2, randMem |-> 2, seqMem |-> 3]
TheLog == <<3, 5, 1, 4, 0, 2>>

F == INSTANCE FppBatch WITH Caches <- TheCaches, i <- lane, done <- returned
S == INSTANCE BatchStyles WITH NUM_PKTS <- StylePkts, LOG_CAP <- LogCap, pc <- label
M == INSTANCE MappedMemory WITH ITERS <- Rounds, reg <- greg
G == INSTANCE GpuOffload WITH ITERS <- Batches, DEPTH <- Lookups, LOG <- TheLog,
        threadsPerBlock <- TheBlocks, queue <- ops, left <- todo, pc <- cpc, iter <- batch
D == INSTANCE IoatBench WITH pc <- dpc
R == INSTANCE RawEth
H == INSTANCE Sigio WITH mpc <- step, counter <- total
-----------------------------------------------------------------------------
NoFpp == cache = 0 /\ pkt = 0 /\ jumper = 0 /\ lane = 0 /\ returned = FALSE
NoStyles == style = 0 /\ pkts = 0 /\ lo = 0 /\ label = 0 /\ mem_addr = 0
NoBatches == /\ I = 0 /\ batch_rips = 0 /\ iMask = 0 /\ sum = 0 /\ NoFpp /\ NoStyles
NoMapped == /\ kernel = 0 /\ flag = 0 /\ A = 0 /\ B = 0 /\ iter = 0 /\ j = 0
            /\ gpc = 0 /\ giter = 0 /\ greg = 0
NoGpu == /\ program = 0 /\ host = 0 /\ dev = 0 /\ ops = 0 /\ todo = 0 /\ cpc = 0
         /\ batch = 0 /\ freed = 0
NoIoat == /\ data = 0 /\ task = 0 /\ buf = 0 /\ finished = 0 /\ depth = 0 /\ draining = 0
          /\ at = 0 /\ dpc = 0 /\ left = 0 /\ timeUp = 0 /\ main = ""
NoRawEth == /\ packet = 0 /\ seq_num = 0 /\ nb_tx = 0 /\ spc = 0 /\ sq = 0 /\ send_cq = 0
            /\ wire = 0 /\ rq = 0 /\ recv_cq = 0 /\ rpc = 0 /\ ring_head = 0
            /\ comp = 0 /\ got = 0
NoSigio == /\ step = "" /\ queue = 0 /\ arrived = 0 /\ pending = FALSE /\ total = 0
           /\ killed = FALSE
NoDevices == hpc = "" /\ NoMapped /\ NoGpu /\ ring = 0 /\ NoIoat /\ NoRawEth /\ NoSigio

NoCounters == /\ method = 0 /\ lock = 0 /\ pc = 0 /\ row = 0 /\ reg = 0 /\ iters = 0
              /\ counter = [r \in Rows |-> 0] /\ done = [r \in Rows |-> 0] /\ printed = <<>>

MCInit ==
    /\ Init
    /\ \/ prog = "cond_wait" /\ NoCounters /\ NoBatches /\ NoDevices
       \/ prog = "counters" /\ CountersInit /\ NoBatches /\ NoDevices
       \/ prog = "fpp" /\ F!Init /\ NoStyles /\ NoCounters /\ NoDevices
       \/ prog = "styles" /\ S!Init /\ NoFpp /\ NoCounters /\ NoDevices
       \/ /\ NoCounters /\ NoBatches
          /\ \/ /\ prog = "mapped" /\ M!Init
                /\ NoGpu /\ ring = 0 /\ NoIoat /\ NoRawEth /\ NoSigio
             \/ /\ prog = "gpu" /\ G!GpuInit
                /\ hpc = "" /\ NoMapped /\ ring = 0 /\ NoIoat /\ NoRawEth /\ NoSigio
             \/ /\ prog = "ioat" /\ D!Init
                /\ hpc = "" /\ NoMapped /\ NoGpu /\ NoRawEth /\ NoSigio
             \/ /\ prog = "raweth" /\ R!Init
                /\ hpc = "" /\ NoMapped /\ NoGpu /\ NoIoat /\ NoSigio
             \/ /\ prog = "sigio" /\ H!Init
                /\ NoMapped /\ NoGpu /\ ring = 0 /\ NoIoat /\ NoRawEth

CondWaitDoes(act) == prog = "cond_wait" /\ act /\ UNCHANGED <<prog, cvars, batches, devices>>
CountersDoes(act) == prog = "counters" /\ act /\ UNCHANGED <<prog, vars, batches, devices>>
FppDoes(act) == prog = "fpp" /\ act /\ UNCHANGED <<prog, threads, stylesOnly, devices>>
StylesDoes(act) == prog = "styles" /\ act /\ UNCHANGED <<prog, threads, fppOnly, devices>>
MappedDoes(act) ==
    /\ prog = "mapped" /\ act
    /\ UNCHANGED <<prog, threads, batches, gpu, ring, ioatOnly, rawethOnly, sigioOnly>>
GpuDoes(act) ==
    /\ prog = "gpu" /\ act
    /\ UNCHANGED <<prog, threads, batches, hpc, mappedOnly, ring, ioatOnly, rawethOnly, sigioOnly>>
IoatDoes(act) ==
    /\ prog = "ioat" /\ act
    /\ UNCHANGED <<prog, threads, batches, hpc, mappedOnly, gpu, rawethOnly, sigioOnly>>
RawEthDoes(act) ==
    /\ prog = "raweth" /\ act
    /\ UNCHANGED <<prog, threads, batches, hpc, mappedOnly, gpu, ioatOnly, sigioOnly>>
SigioDoes(act) ==
    /\ prog = "sigio" /\ act
    /\ UNCHANGED <<prog, threads, batches, mappedOnly, gpu, ring, ioatOnly, rawethOnly>>

CondWaitStep == CondWaitDoes(Next)
CountersStep == CountersDoes(CountersNext)
FppStep == FppDoes(F!Next)
StylesStep == StylesDoes(S!Next)
MappedStep == MappedDoes(M!Next)
GpuStep == GpuDoes(G!GpuNext)
GpuOver == prog = "gpu" /\ (\A t \in 0 .. NUM_THREADS - 1 : cpc[t] = 99) /\ UNCHANGED allvars
IoatStep == IoatDoes(D!Next)
RawEthStep == RawEthDoes(R!Next)
SigioStep == SigioDoes(H!Next)

MCNext == \/ CondWaitStep \/ CountersStep \/ FppStep \/ StylesStep \/ MappedStep \/ GpuStep
          \/ GpuOver \/ IoatStep \/ RawEthStep \/ SigioStep

(* The fairness of each program, while it is the one that runs.             *)
MCFairness ==
    /\ WF_allvars(CondWaitDoes(Worker)) /\ SF_allvars(CondWaitDoes(WorkerLock))
    /\ WF_allvars(CondWaitDoes(Main)) /\ SF_allvars(CondWaitDoes(MainLock))
    /\ WF_allvars(FppStep) /\ WF_allvars(StylesStep)
    /\ WF_allvars(MappedDoes(M!CPU))
    /\ \A t \in 0 .. NUM_PKTS - 1 : WF_allvars(MappedDoes(M!GPU(t)))
    /\ \A w \in 0 .. NumWorkers - 1 :
          WF_allvars(IoatDoes(D!work_fn(w))) /\ WF_allvars(IoatDoes(D!Expire(w)))
    /\ \A c \in 0 .. NumChans - 1 : WF_allvars(IoatDoes(D!Hardware(c)))
    /\ WF_allvars(IoatDoes(D!WaitAll)) /\ WF_allvars(IoatDoes(D!Cleanup))
    /\ WF_allvars(SigioDoes(H!Setup))
    /\ WF_allvars(SigioDoes(H!Signal \/ H!Recv \/ H!Return))

MCSpec == MCInit /\ [][MCNext]_allvars /\ MCFairness
-----------------------------------------------------------------------------

(* The GPU programs: a host thread reads the results of this batch, all of   *)
(* them; through mapped memory the CPU and the GPU threads stay in the same  *)
(* round.                                                                    *)
GpuRounds ==
    /\ prog = "mapped" => M!IInv /\ M!InStep /\ M!NoMismatch
    /\ prog = "gpu" => G!BatchesVerified

(* I/OAT: every buffer and task is free or in flight, in one place, and      *)
(* main() cleans up channels on which nothing is in flight.                  *)
Conserved == prog = "ioat" => D!TypeOK /\ D!Conserved /\ D!QuietAtCleanup

(* Raw Ethernet: ring_head is the slot of the completion in hand, and the    *)
(* receiver's assert on the thread of a packet holds, as what is on its way  *)
(* to a thread is addressed to it and in order.  SIGIO: an invocation of     *)
(* io_handler() always finds a packet.                                       *)
ReceiversInStep ==
    /\ prog = "raweth" => R!IInv /\ R!HeadIsCompletion
    /\ prog = "sigio" => H!IInv /\ H!NoFatal

(* Raw Ethernet: a thread reads ever greater sequence numbers.  The counter  *)
(* under one lock: every multiple of a step is printed once and in order.    *)
InOrder == /\ [][prog = "raweth" => R!InOrderStep]_allvars
           /\ [](prog = "counters" => PrintedInOrder /\ PrintsComplete)

(* What the programs begin and have to come to an end of.                    *)
Begun == \/ prog \in {"cond_wait", "fpp", "styles", "mapped", "ioat"}
         \/ prog = "sigio" /\ H!SignalWaits
AtEnd == \/ prog = "cond_wait" /\ Returned
         \/ prog = "fpp" /\ F!BatchReturned
         \/ prog = "styles" /\ S!AllProcessed
         \/ prog = "mapped" /\ M!Finished
         \/ prog = "ioat" /\ D!Ended
         \/ prog = "sigio" /\ H!PacketCounted

(* cond_wait's main() returns, process_pkts_in_batch() returns although it   *)
(* cycles through finished lanes too, main() reaches the end of the packets, *)
(* mapped-memory finishes all rounds, the I/OAT benchmark exits although     *)
(* channels resubmit for ever, and a signal is answered by a packet counted. *)
Completes == Begun ~> AtEnd
==============================================================================
