---------------------------- MODULE BatchStyles ----------------------------
(***************************************************************************)
(* goto/simple and goto/locals: four ways to run a two-stage packet        *)
(* handler over a batch.  Stage one hashes the packet into an address and  *)
(* prefetches it; stage two adds up what is stored there.  nogoto.c does   *)
(* both stages packet by packet and is the reference; the others do stage  *)
(* one for the whole batch first:                                          *)
(*   "fpp"     simple/goto.c, with FPP_PSS, iMask and the `end' label;     *)
(*   "locals"  locals/goto.c, without a mask: the wrap of I ends a stage;  *)
(*   "manual"  simple/manual.c, two plain loops.                           *)
(* main() calls the function once per batch and sum is never reset.        *)
(***************************************************************************)
EXTENDS Integers, Sequences, FiniteSetsExt

CONSTANTS
    BATCH_SIZE,
    NUM_PKTS,        \* packets in all, a multiple of BATCH_SIZE
    LOG_CAP,         \* entries of ht_log
    COMPUTE,         \* rounds of the hash
    Values           \* packet values that are looked at, within 0 .. LOG_CAP - 1

Lanes == 0 .. BATCH_SIZE - 1
Styles == {"fpp", "locals", "manual"}

VARIABLES
    style,           \* which of the programs this is
    pkts,            \* the packet array
    lo,              \* i of main(): the first packet of the current batch
    pc,              \* "main", "label_0", "label_1" or "end"
    I,               \* batch index
    batch_rips,
    iMask,
    mem_addr,        \* mem_addr[I] (a1[I]), -1 while uninitialised
    sum

vars == <<style, pkts, lo, pc, I, batch_rips, iMask, mem_addr, sum>>

-----------------------------------------------------------------------------
hash(a) ==
    LET ret[n \in 0 .. COMPUTE] ==
            IF n = 0 THEN a ELSE ret[n - 1] + (((n - 1) * ret[n - 1]) % 8)
    IN  ret[COMPUTE]

Addr(p) == hash(p) % LOG_CAP

\* main() fills ht_log with its own indices.
ht_log(a) == a

\* nogoto.c: the sum over the packets of a set of indices, one by one.
NoGoto(ks) == FoldSet(LAMBDA k, acc : ht_log(Addr(pkts[k])) + acc, 0, ks)

NextLane == (I + 1) % BATCH_SIZE

-----------------------------------------------------------------------------
Init ==
    /\ style \in Styles
    /\ pkts \in [0 .. NUM_PKTS - 1 -> Values]
    /\ lo = 0
    /\ pc = "main"
    /\ I = 0
    /\ batch_rips = [l \in Lanes |-> "label_0"]
    /\ iMask = {}
    /\ mem_addr = [l \in Lanes |-> -1]
    /\ sum = 0


\* main() calls process_pkts_in_batch: fresh locals, every label is label_0.
Call ==
    /\ pc = "main"
    /\ lo < NUM_PKTS
    /\ pc' = "label_0"
    /\ I' = 0
    /\ batch_rips' = [l \in Lanes |-> "label_0"]
    /\ iMask' = {}
    /\ mem_addr' = [l \in Lanes |-> -1]
    /\ UNCHANGED <<style, pkts, lo, sum>>

\* Back in main(), on to the next batch.
Return ==
    /\ pc' = "main"
    /\ lo' = lo + BATCH_SIZE
    /\ UNCHANGED I

\* Where the lane switched to goes on after stage one: at the wrap the styles
\* without a mask fall into stage two, else the saved label is jumped to.
AfterStageOne ==
    pc' = IF style # "fpp" /\ I' = 0 THEN "label_1"
          ELSE IF style = "manual" THEN "label_0"
          ELSE batch_rips'[I']

\* Mutated: the lane's label is not saved before the switch.
Label0_LabelNotSaved ==
    /\ pc = "label_0"
    /\ mem_addr' = [mem_addr EXCEPT ![I] = Addr(pkts[lo + I])]
    /\ I' = NextLane
    /\ batch_rips' = batch_rips
    /\ AfterStageOne
    /\ UNCHANGED <<style, pkts, lo, iMask, sum>>

\* Stage one of lane I.
Label0 ==
    /\ pc = "label_0"
    /\ mem_addr' = [mem_addr EXCEPT ![I] = Addr(pkts[lo + I])]
    /\ batch_rips' = [batch_rips EXCEPT ![I] = "label_1"]
    /\ I' = NextLane
    /\ AfterStageOne
    /\ UNCHANGED <<style, pkts, lo, iMask, sum>>

AddUp == sum' = sum + ht_log(mem_addr[I])

\* Stage two of lane I in "locals" and "manual": the wrap of I returns.
Label1 ==
    /\ pc = "label_1"
    /\ style # "fpp"
    /\ AddUp
    /\ IF NextLane = 0
       THEN Return
       ELSE /\ I' = NextLane
            /\ pc' = IF style = "manual" THEN "label_1" ELSE batch_rips[I']
            /\ UNCHANGED lo
    /\ UNCHANGED <<style, pkts, batch_rips, iMask, mem_addr>>

\* Stage two in "fpp" falls through to `end', which marks the lane and
\* returns once all are marked.  Lanes finish in order, so no lane is
\* switched to after its `end'.
Label1Fpp ==
    /\ pc = "label_1"
    /\ style = "fpp"
    /\ AddUp
    /\ batch_rips' = [batch_rips EXCEPT ![I] = "end"]
    /\ iMask' = iMask \cup {I}
    /\ IF iMask' = Lanes
       THEN Return
       ELSE /\ I' = NextLane
            /\ pc' = batch_rips'[I']
            /\ UNCHANGED lo
    /\ UNCHANGED <<style, pkts, mem_addr>>

Over ==
    /\ pc = "main"
    /\ lo = NUM_PKTS
    /\ UNCHANGED vars

Next == Call \/ Label0 \/ Label1 \/ Label1Fpp \/ Over

Spec == Init /\ [][Next]_vars /\ WF_vars(Next)

-----------------------------------------------------------------------------
(***************************************************************************)
(* The type invariant; pc = "end" does not occur, so the `end' label is    *)
(* only ever reached by falling through from label_1.                      *)
(***************************************************************************)
TypeOK ==
    /\ style \in Styles /\ pkts \in [0 .. NUM_PKTS - 1 -> Values]
    /\ lo \in 0 .. NUM_PKTS
    /\ pc \in {"main", "label_0", "label_1"}
    /\ I \in Lanes
    /\ batch_rips \in [Lanes -> {"label_0", "label_1", "end"}]
    /\ iMask \subseteq Lanes
    /\ mem_addr \in [Lanes -> -1 .. LOG_CAP - 1]
    /\ sum \in Nat

(***************************************************************************)
(* Stage two never reads an address its own lane did not compute: the      *)
(* fall-through at the wrap and the indirect jumps only reach label_1      *)
(* after label_0 ran for that packet.                                      *)
(***************************************************************************)
AddressReady == pc = "label_1" => mem_addr[I] = Addr(pkts[lo + I])

(***************************************************************************)
(* All styles print the sum that nogoto.c prints: whenever main() has the  *)
(* control, sum is the sequential sum of the packets handed over so far.   *)
(***************************************************************************)
SameSum == pc = "main" => sum = NoGoto(0 .. lo - 1)

(***************************************************************************)
(* Every batch has returned and main() is at the end of the packets.       *)
(***************************************************************************)
AllProcessed == lo = NUM_PKTS
=============================================================================
