----------------------------- MODULE MCHugeAlloc -----------------------------
EXTENDS HugeAlloc

(* Deep: three classes of 1, 2 and 4 units, one reservation.               *)
DeepSizes == {1, 2, 3}
DeepBases == {0, 8}
(* Wide: two classes of 1 and 2 units, two reservations of 4 and 8 units,  *)
(* hugepages of 2 units, to which the user's raw regions are rounded up.   *)
WideSizes == {1, 2}
WideBases == {0, 4, 6}
OneUnit == {1}
==============================================================================
