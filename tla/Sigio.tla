-------------------------------- MODULE Sigio --------------------------------
(***************************************************************************)
(* client-server/sigio/server.cc: a UDP server whose packets are received   *)
(* by a SIGIO handler, one recvfrom() for each invocation.  main() sets the *)
(* socket up in four calls, between which packets may already arrive.       *)
(*                                                                          *)
(* The kernel is external: a packet queued on an O_ASYNC socket that has an *)
(* owner raises SIGIO, which is pending once however often it is raised, is *)
(* not delivered while its handler runs, and kills a process without one.   *)
(***************************************************************************)
EXTENDS Naturals

CONSTANTS
    MaxPkts,     \* bound: packets that arrive
    RcvBuf       \* packets the socket holds

VARIABLES
    mpc,         \* how far main() has come
    queue, arrived,
    pending,     \* SIGIO is pending for the main thread
    hpc,         \* io_handler(): "idle", "recv", "print", or "fatal"
    counter,
    killed

vars == <<mpc, queue, arrived, pending, hpc, counter, killed>>

-----------------------------------------------------------------------------
Init ==
    /\ mpc = "bind" /\ queue = 0 /\ arrived = 0
    /\ pending = FALSE /\ hpc = "idle" /\ counter = 0 /\ killed = FALSE

\* main() up to its busy loop: bind(), F_SETFL, F_SETOWN_EX, sigaction().
After(p) == CASE p = "bind" -> "setfl" [] p = "setfl" -> "setown"
              [] p = "setown" -> "sigaction" [] p = "sigaction" -> "loop"

Setup ==
    /\ ~killed /\ hpc = "idle" /\ mpc # "loop"
    /\ mpc' = After(mpc)
    /\ UNCHANGED <<queue, arrived, pending, hpc, counter, killed>>

\* A packet: queued, with a signal if there is an owner, or dropped.
Arrive ==
    /\ ~killed /\ mpc # "bind" /\ arrived < MaxPkts
    /\ arrived' = arrived + 1
    /\ queue' = IF queue < RcvBuf THEN queue + 1 ELSE queue
    /\ pending' = (pending \/ (queue < RcvBuf /\ mpc \in {"sigaction", "loop"}))
    /\ UNCHANGED <<mpc, hpc, counter, killed>>

\* Mutated: the handler is reset when it is entered (SA_RESETHAND).
Signal_Resets ==
    /\ ~killed /\ pending /\ hpc = "idle"
    /\ pending' = FALSE
    /\ IF mpc = "loop" /\ counter = 0
       THEN hpc' = "recv" /\ UNCHANGED killed
       ELSE killed' = TRUE /\ UNCHANGED hpc
    /\ UNCHANGED <<mpc, queue, arrived, counter>>

\* SIGIO reaches the main thread.
Signal ==
    /\ ~killed /\ pending /\ hpc = "idle"
    /\ pending' = FALSE
    /\ IF mpc = "loop"
       THEN hpc' = "recv" /\ UNCHANGED killed
       ELSE killed' = TRUE /\ UNCHANGED hpc
    /\ UNCHANGED <<mpc, queue, arrived, counter>>

\* Mutated: recvfrom() until the queue is empty, as the comment discusses.
Recv_All ==
    /\ ~killed /\ hpc = "recv"
    /\ hpc' = IF queue > 0 THEN "print" ELSE "fatal"
    /\ queue' = 0
    /\ UNCHANGED <<mpc, arrived, pending, counter, killed>>

\* recvfrom(); an empty socket is "Fatal error" and exit(-1).
Recv ==
    /\ ~killed /\ hpc = "recv"
    /\ hpc' = IF queue > 0 THEN "print" ELSE "fatal"
    /\ queue' = IF queue > 0 THEN queue - 1 ELSE 0
    /\ UNCHANGED <<mpc, arrived, pending, counter, killed>>

Return ==
    /\ ~killed /\ hpc = "print"
    /\ counter' = counter + 1
    /\ hpc' = "idle"
    /\ UNCHANGED <<mpc, queue, arrived, pending, killed>>

Rest ==
    /\ killed \/ hpc = "fatal" \/ (mpc = "loop" /\ arrived = MaxPkts /\ ~pending /\ hpc = "idle")
    /\ UNCHANGED vars

Next == Setup \/ Arrive \/ Signal \/ Recv \/ Return \/ Rest

\* main() runs, and a signal that may be delivered is.
Spec == Init /\ [][Next]_vars /\ WF_vars(Setup) /\ WF_vars(Signal \/ Recv \/ Return)

-----------------------------------------------------------------------------
(***************************************************************************)
(* The type invariant: no packet is counted that did not arrive.           *)
(***************************************************************************)
TypeOK ==
    /\ mpc \in {"bind", "setfl", "setown", "sigaction", "loop"}
    /\ queue \in 0 .. RcvBuf /\ arrived \in 0 .. MaxPkts
    /\ pending \in BOOLEAN /\ killed \in BOOLEAN
    /\ hpc \in {"idle", "recv", "print", "fatal"}
    /\ counter \in 0 .. arrived

(***************************************************************************)
(* An invocation of io_handler() always finds a packet: "Fatal error in    *)
(* recvfrom()" (server.cc:146) is unreachable, since one packet is taken   *)
(* for each signal and signals are merged, never multiplied.               *)
(***************************************************************************)
NoFatal == hpc # "fatal"

(***************************************************************************)
(* The inductive invariant: there is a packet for the signal that is       *)
(* pending and another for the invocation that has not received, and every *)
(* packet queued, in hand or counted has arrived.                          *)
(***************************************************************************)
Owed == (IF pending THEN 1 ELSE 0) + (IF hpc = "recv" THEN 1 ELSE 0)
IInv ==
    /\ TypeOK
    /\ NoFatal
    /\ Owed <= queue
    /\ queue + counter + (IF hpc = "print" THEN 1 ELSE 0) <= arrived

(***************************************************************************)
(* A signal is pending while main() is in its loop, and io_handler() has   *)
(* received and counted a packet.                                          *)
(***************************************************************************)
SignalWaits == mpc = "loop" /\ pending
PacketCounted == hpc = "print"
=============================================================================
