------------------------------ MODULE FppBatch ------------------------------
(***************************************************************************)
(* goto/synthetic-divergence: the batched packet walk.                     *)
(*                                                                         *)
(* goto.c turns the body of the per-packet loop of nogoto.c into a set of  *)
(* hand-written coroutines.  Every local of the body becomes an array      *)
(* indexed by the batch index I, FPP_PSS (fpp.h) saves where packet I must *)
(* go on and jumps to where the next packet stopped, and a bit of iMask    *)
(* records the packets that reached `end'.  Packets diverge: each one      *)
(* leaves the loop after its own number of hops.  One action is the code   *)
(* between two indirect jumps.  nogoto.c is the reference: Walk follows    *)
(* one packet from start to end.                                           *)
(***************************************************************************)
EXTENDS Integers, Sequences, FiniteSetsExt

CONSTANTS
    BATCH_SIZE,      \* packets per batch, a power of two
    DEPTH,           \* hops a packet takes at most
    NUM_BS,          \* buckets of the cache, which are also packet values
    SLOTS_PER_BKT,
    DiffMod,         \* the 8 of "ABS(...) % 8"
    StopMod,         \* the 16 of "jumper % 16 == 0"
    Caches           \* the caches main() may have filled in

Lanes == 0 .. BATCH_SIZE - 1
Bkts == 0 .. NUM_BS - 1
Slots == 0 .. SLOTS_PER_BKT - 1

VARIABLES
    cache,           \* cache[b][s]: slot s of bucket b
    pkt,             \* pkt_lo, the batch being processed
    I,               \* the lane that runs
    batch_rips,      \* where each lane goes on: "label_0", "label_1" or "end"
    iMask,           \* the lanes whose bit is set
    jumper,          \* jumper[I], -1 before it is assigned
    i,               \* i[I], the hops made by each lane
    sum,
    done             \* process_pkts_in_batch has returned

vars == <<cache, pkt, I, batch_rips, iMask, jumper, i, sum, done>>

-----------------------------------------------------------------------------
\* The C remainder, which takes the sign of the dividend.
Rem(a, m) == IF a >= 0 THEN a % m ELSE -((-a) % m)

\* ABS(x - y) as the macro expands: its argument has no parentheses, so the
\* second arm is (-1 * x) - y.
ABS(x, y) == IF x - y > 0 THEN x - y ELSE (-1 * x) - y

Diff(x, y) == Rem(ABS(x, y), DiffMod)

\* The slot the inner loop picks: the first one with the largest difference.
best_j(arr, jump) ==
    CHOOSE s \in Slots :
        /\ \A k \in Slots : Diff(arr[k], jump) <= Diff(arr[s], jump)
        /\ \A k \in Slots : k < s => Diff(arr[k], jump) < Diff(arr[s], jump)

Hop(jump) == cache[jump][best_j(cache[jump], jump)]

\* nogoto.c: where one packet, processed on its own, ends up.
Walk(p) ==
    LET hops[n \in 0 .. DEPTH] ==
            IF n = 0
            THEN [at |-> p, stop |-> FALSE]
            ELSE IF hops[n - 1].stop
                 THEN hops[n - 1]
                 ELSE LET to == Hop(hops[n - 1].at)
                      IN  [at |-> to, stop |-> to % StopMod = 0]
    IN  hops[DEPTH].at

NextLane == (I + 1) % BATCH_SIZE

-----------------------------------------------------------------------------
Init ==
    /\ cache \in Caches
    /\ pkt \in [Lanes -> Bkts]
    /\ I = 0
    /\ batch_rips = [l \in Lanes |-> "label_0"]
    /\ iMask = {}
    /\ jumper = [l \in Lanes |-> -1]
    /\ i = [l \in Lanes |-> 0]
    /\ sum = 0
    /\ done = FALSE

\* Mutated: the switch comes before the label is saved.
FPP_PSS_SwitchFirst(label) ==
    /\ batch_rips' = [batch_rips EXCEPT ![NextLane] = label]
    /\ I' = NextLane

\* FPP_PSS: save this lane's label and switch to the next lane.
FPP_PSS(label) ==
    /\ batch_rips' = [batch_rips EXCEPT ![I] = label]
    /\ I' = NextLane

\* Mutated: the saved label is not replaced by `end'.
end_KeepsLabel ==
    /\ iMask' = iMask \cup {I}
    /\ done' = (iMask' = Lanes)
    /\ I' = IF done' THEN I ELSE NextLane
    /\ UNCHANGED batch_rips

\* The code at `end': mark the lane, and return or switch.
end ==
    /\ batch_rips' = [batch_rips EXCEPT ![I] = "end"]
    /\ iMask' = iMask \cup {I}
    /\ done' = (iMask' = Lanes)
    /\ I' = IF done' THEN I ELSE NextLane

At(label) == ~done /\ batch_rips[I] = label

\* label_0: the packet is read, the first bucket prefetched (DEPTH > 0).
Label0 ==
    /\ At("label_0")
    /\ jumper' = [jumper EXCEPT ![I] = pkt[I]]
    /\ i' = [i EXCEPT ![I] = 0]
    /\ FPP_PSS("label_1")
    /\ UNCHANGED <<cache, pkt, iMask, sum, done>>

\* label_1, and the loop goes on: one hop, then the next bucket's prefetch.
HopOn ==
    /\ At("label_1")
    /\ LET to == Hop(jumper[I]) IN
        /\ to % StopMod # 0
        /\ i[I] + 1 < DEPTH
        /\ jumper' = [jumper EXCEPT ![I] = to]
    /\ i' = [i EXCEPT ![I] = @ + 1]
    /\ FPP_PSS("label_1")
    /\ UNCHANGED <<cache, pkt, iMask, sum, done>>

\* label_1, and the loop ends by its break or its bound: add up, then `end'.
HopLast ==
    /\ At("label_1")
    /\ LET to == Hop(jumper[I]) IN
        /\ to % StopMod = 0 \/ i[I] + 1 = DEPTH
        /\ jumper' = [jumper EXCEPT ![I] = to]
        /\ i' = [i EXCEPT ![I] = IF to % StopMod = 0 THEN @ ELSE @ + 1]
        /\ sum' = sum + to
    /\ end
    /\ UNCHANGED <<cache, pkt>>

\* A lane that already finished is switched to again: it only runs `end'.
EndAgain ==
    /\ At("end")
    /\ end
    /\ UNCHANGED <<cache, pkt, jumper, i, sum>>

Returned == done /\ UNCHANGED vars

Next == Label0 \/ HopOn \/ HopLast \/ EndAgain \/ Returned

Spec == Init /\ [][Next]_vars /\ WF_vars(Next)

-----------------------------------------------------------------------------
(***************************************************************************)
(* The type invariant: lanes stay within the batch, hop counts within      *)
(* DEPTH, and only lane values of the cache are used as an index.          *)
(***************************************************************************)
TypeOK ==
    /\ cache \in Caches /\ pkt \in [Lanes -> Bkts]
    /\ I \in Lanes
    /\ batch_rips \in [Lanes -> {"label_0", "label_1", "end"}]
    /\ iMask \subseteq Lanes
    /\ jumper \in [Lanes -> Bkts \cup {-1}]
    /\ i \in [Lanes -> 0 .. DEPTH]
    /\ sum \in Nat /\ done \in BOOLEAN

(***************************************************************************)
(* The batched walk computes what nogoto.c computes: at every moment sum   *)
(* is the total of the sequential walks of exactly the packets whose bit   *)
(* is set in iMask, whatever the order in which lanes leave the loop, so   *)
(* no packet is added twice when the scheduler comes back to its `end'.    *)
(***************************************************************************)
SumIsSequential == sum = FoldSet(LAMBDA l, acc : Walk(pkt[l]) + acc, 0, iMask)

(***************************************************************************)
(* A lane that must go on at label_1 is one whose locals were written by   *)
(* its own label_0: jumper[I] lies on the sequential path of its packet,   *)
(* i[I] hops from the start, so the indirect jumps never run a lane on     *)
(* uninitialised locals or on another lane's.                              *)
(***************************************************************************)
OwnLocals ==
    \A l \in Lanes : batch_rips[l] = "label_1" =>
        LET path[n \in 0 .. DEPTH] == IF n = 0 THEN pkt[l] ELSE Hop(path[n - 1])
        IN  jumper[l] = path[i[l]]

(***************************************************************************)
(* The batch has returned, with every bit of iMask set.                    *)
(***************************************************************************)
BatchReturned == done /\ iMask = Lanes
=============================================================================
