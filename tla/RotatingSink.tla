----------------------------- MODULE RotatingSink -----------------------------
(***************************************************************************)
(* spdlog's rotating_file_sink (sinks/file_sinks.h, L) on its file_helper   *)
(* (details/file_helper.h, H) and the file system: a log call at a time     *)
(* under the sink's mutex, flush() without it, system calls that fail, and  *)
(* a process that crashes anywhere and starts again.                        *)
(***************************************************************************)
EXTENDS Integers, Sequences, SequencesExt, FiniteSets

CONSTANTS max_size,    \* limit of a file
          max_files,   \* rotated files that are kept
          Sizes,       \* sizes of formatted messages
          MaxMsgs,     \* bound: log() calls
          MaxCrashes,  \* bound: crashes of the process
          Faults,      \* may system calls fail?
          NoFile

Indices == 0 .. max_files
Msg == [id : 1 .. MaxMsgs, size : Sizes]

(* file: what is on disk under each name; buffer: what the FILE has not    *)
(* written yet; fd: the open FILE, 0 for a null pointer; fds: the FILEs    *)
(* opened so far; logged: every message passed to log(), which is not in   *)
(* the code; ffd: the FILE of a flush() in progress, -1 for none.          *)
VARIABLES file, buffer, fd, fds, current_size, pc, i, msg, logged, ffd, crashes
vars == <<file, buffer, fd, fds, current_size, pc, i, msg, logged, ffd, crashes>>

exists(f) == file[f] # NoFile
size(s) == FoldLeft(LAMBDA n, m : n + m.size, 0, s)

NoMsg == [id |-> 0, size |-> 0]

Init ==
    /\ file = [f \in Indices |-> NoFile]
    /\ buffer = <<>>
    /\ fd = 0 /\ fds = 0
    /\ current_size = 0
    /\ pc = "down"
    /\ i = 0
    /\ msg = NoMsg
    /\ logged = <<>>
    /\ ffd = -1
    /\ crashes = 0

(* file_helper::close(): fclose() writes the buffer, then the pointer is   *)
(* null.                                                                   *)
close ==
    /\ fd' = 0
    /\ buffer' = <<>>
    /\ file' = IF fd # 0 THEN [file EXCEPT ![0] = @ \o buffer] ELSE file

(* A successful fopen() of the base file, with the content c.              *)
fopen(c) ==
    /\ file' = [file EXCEPT ![0] = c]
    /\ fd' = fds + 1
    /\ fds' = fds + 1
    /\ buffer' = <<>>

(* The call throws: the logger's error handler gets it.                    *)
Throw ==
    /\ pc' = "idle"
    /\ i' = 0
    /\ msg' = NoMsg
------------------------------------------------------------------------------
(* Mutant: the base file is truncated at the start.                        *)
Construct_Truncates ==
    /\ pc = "down"
    /\ fopen(<<>>)
    /\ current_size' = 0
    /\ pc' = "idle"
    /\ UNCHANGED <<i, msg, logged, ffd, crashes>>

(* The constructor opens the base file for appending; it fails after five  *)
(* tries, and then there is no sink.                                       *)
Construct ==
    /\ pc = "down"
    /\ LET c == IF exists(0) THEN file[0] ELSE <<>> IN
       /\ fopen(c)
       /\ current_size' = size(c)
    /\ pc' = "idle"
    /\ UNCHANGED <<i, msg, logged, ffd, crashes>>

(* Mutant: the new size is noted before the rotation.                      *)
SinkIt_SizeFirst(n) ==
    /\ pc = "idle"
    /\ Len(logged) < MaxMsgs
    /\ msg' = [id |-> Len(logged) + 1, size |-> n]
    /\ logged' = Append(logged, msg')
    /\ current_size' = IF current_size + n > max_size THEN n ELSE current_size + n
    /\ IF current_size + n > max_size
       THEN close /\ pc' = "remove" /\ i' = max_files
       ELSE pc' = "write" /\ UNCHANGED <<file, buffer, fd, i>>
    /\ UNCHANGED <<fds, ffd, crashes>>

(* log() takes the mutex and calls _sink_it(): the file is closed for a    *)
(* rotation if the message does not fit.                                   *)
SinkIt(n) ==
    /\ pc = "idle"
    /\ Len(logged) < MaxMsgs
    /\ msg' = [id |-> Len(logged) + 1, size |-> n]
    /\ logged' = Append(logged, msg')
    /\ current_size' = current_size + n
    /\ IF current_size + n > max_size
       THEN close /\ pc' = "remove" /\ i' = max_files
       ELSE pc' = "write" /\ UNCHANGED <<file, buffer, fd, i>>
    /\ UNCHANGED <<fds, ffd, crashes>>

(* _rotate(): remove the target if it exists ...                           *)
RemoveTarget ==
    /\ pc = "remove"
    /\ \/ /\ file' = [file EXCEPT ![i] = NoFile]
          /\ pc' = "rename"
          /\ UNCHANGED <<i, msg>>
       \/ Faults /\ exists(i) /\ Throw /\ UNCHANGED file
    /\ UNCHANGED <<buffer, fd, fds, current_size, logged, ffd, crashes>>

(* Mutant: the source is copied.                                           *)
RenameSource_Copies ==
    /\ pc = "rename"
    /\ file' = IF exists(i - 1) THEN [file EXCEPT ![i] = file[i - 1]] ELSE file
    /\ i' = i - 1
    /\ pc' = IF i > 1 THEN "remove" ELSE "reopen"
    /\ UNCHANGED <<msg, buffer, fd, fds, current_size, logged, ffd, crashes>>

(* ... and rename the source to it.                                        *)
RenameSource ==
    /\ pc = "rename"
    /\ \/ /\ file' = IF exists(i - 1)
                     THEN [file EXCEPT ![i] = file[i - 1], ![i - 1] = NoFile]
                     ELSE file
          /\ i' = i - 1
          /\ pc' = IF i > 1 THEN "remove" ELSE "reopen"
          /\ UNCHANGED msg
       \/ Faults /\ exists(i - 1) /\ Throw /\ UNCHANGED file
    /\ UNCHANGED <<buffer, fd, fds, current_size, logged, ffd, crashes>>

(* Mutant: the size of the last file is kept.                              *)
Reopen_SizeKept ==
    /\ pc = "reopen"
    /\ fopen(<<>>) /\ pc' = "write" /\ UNCHANGED <<i, msg, current_size>>
    /\ UNCHANGED <<logged, ffd, crashes>>

(* reopen(true) truncates the base file, or throws after five tries.       *)
Reopen ==
    /\ pc = "reopen"
    /\ \/ /\ fopen(<<>>)
          /\ current_size' = msg.size
          /\ pc' = "write"
          /\ UNCHANGED <<i, msg>>
       \/ Faults /\ Throw /\ UNCHANGED <<file, fd, fds, buffer, current_size>>
    /\ UNCHANGED <<logged, ffd, crashes>>

(* fwrite(): the FILE keeps the message, and writes some of what it keeps. *)
Write ==
    /\ pc = "write"
    /\ \/ \E k \in 0 .. Len(buffer) + 1 :
             LET b == Append(buffer, msg) IN
             /\ file' = [file EXCEPT ![0] = @ \o SubSeq(b, 1, k)]
             /\ buffer' = SubSeq(b, k + 1, Len(b))
       \/ Faults /\ UNCHANGED <<file, buffer>>
    /\ Throw
    /\ UNCHANGED <<fd, fds, current_size, logged, ffd, crashes>>

(* flush() takes no lock: it loads the pointer, ...                        *)
Flush ==
    /\ pc # "down"
    /\ ffd = -1
    /\ ffd' = fd
    /\ UNCHANGED <<file, buffer, fd, fds, current_size, pc, i, msg, logged, crashes>>

(* ... and calls fflush(), which for a null pointer flushes every FILE.    *)
Fflush ==
    /\ ffd \in {0, fd}
    /\ ffd' = -1
    /\ file' = IF fd # 0 THEN [file EXCEPT ![0] = @ \o buffer] ELSE file
    /\ buffer' = <<>>
    /\ UNCHANGED <<fd, fds, current_size, pc, i, msg, logged, crashes>>

(* Undefined behaviour: fflush() of a closed FILE.                         *)
FflushClosed ==
    /\ ffd \notin {-1, 0, fd}
    /\ ffd' = -1
    /\ UNCHANGED <<file, buffer, fd, fds, current_size, pc, i, msg, logged, crashes>>

(* The process dies with what its FILE has not written.                    *)
Crash ==
    /\ pc # "down"
    /\ crashes < MaxCrashes
    /\ crashes' = crashes + 1
    /\ pc' = "down" /\ i' = 0 /\ msg' = NoMsg
    /\ fd' = 0 /\ buffer' = <<>> /\ ffd' = -1 /\ current_size' = 0
    /\ UNCHANGED <<file, fds, logged>>

Over == pc = "idle" /\ Len(logged) = MaxMsgs /\ UNCHANGED vars

Next ==
    \/ Construct
    \/ \E n \in Sizes : SinkIt(n)
    \/ RemoveTarget \/ RenameSource \/ Reopen \/ Write
    \/ Flush \/ Fflush \/ FflushClosed
    \/ Crash
    \/ Over

Spec == Init /\ [][Next]_vars
------------------------------------------------------------------------------
(* Every variable holds a value of its type.                               *)
TypeOK ==
    /\ \A f \in Indices : file[f] = NoFile \/ file[f] \in Seq(Msg)
    /\ buffer \in Seq(Msg)
    /\ fd \in {0, fds} /\ fds \in Nat
    /\ current_size \in Nat
    /\ pc \in {"down", "idle", "remove", "rename", "reopen", "write"}
    /\ i \in Indices
    /\ msg \in Msg \cup {NoMsg}
    /\ logged \in Seq(Msg)
    /\ ffd \in -1 .. fds
    /\ crashes \in 0 .. MaxCrashes

(* All that is in a file, also what its FILE has not written yet.          *)
Content(f) == (IF exists(f) THEN file[f] ELSE <<>>)
              \o (IF f = 0 THEN buffer ELSE <<>>)

(* The messages in the files, the oldest file first.                       *)
Kept == FlattenSeq([k \in 1 .. max_files + 1 |-> Content(max_files + 1 - k)])

(* Whatever fails in a rotation and wherever the process crashes, the      *)
(* files stay in the order of their age and no message is in them twice    *)
(* (_rotate(), L107-135).                                                  *)
AgeOrder == \A j, k \in DOMAIN Kept : j < k => Kept[j].id < Kept[k].id

(* A file is larger than max_size only if it holds a single message        *)
(* (_sink_it(), L85-94).                                                   *)
SizeBound ==
    \A f \in Indices : size(Content(f)) > max_size => Len(Content(f)) = 1

(* A message is written to an open file, also after a rotation that threw  *)
(* with the file closed: the size stays above the limit, so that the next  *)
(* call rotates again (L87-93).                                            *)
WritesToOpenFile == pc = "write" => fd # 0 /\ exists(0)

(* The reference for the rotation: put each message behind the last one,   *)
(* in a new file if it does not fit.                                       *)
Greedy(s) ==
    FoldLeft(LAMBDA cs, m :
               IF size(Last(cs)) + m.size > max_size THEN Append(cs, <<m>>)
               ELSE Append(Front(cs), Append(Last(cs), m)),
             << <<>> >>, s)

(* Without faults and crashes the files are, between calls, the last       *)
(* max_files + 1 of the reference.                                         *)
RotationIsGreedy ==
    (pc = "idle") =>
        LET cs == Greedy(logged) IN
        \A f \in Indices :
            Content(f) = IF f < Len(cs) THEN cs[Len(cs) - f] ELSE <<>>

(* The ids on disk.                                                        *)
OnDisk == UNION {{file[f][k].id : k \in DOMAIN file[f]} :
                 f \in {g \in Indices : exists(g)}}

(* A step that deletes messages deletes older ones than it keeps.          *)
OldestGoFirstStep == \A m \in OnDisk \ OnDisk', k \in OnDisk' : m < k

(* "All locking is taken care of" in the base class (sinks/base_sink.h     *)
(* L8-10): flush() never gets at a FILE that a log() call is closing.      *)
FlushSeesOpenFile == ffd \in {-1, 0, fd}
==============================================================================
