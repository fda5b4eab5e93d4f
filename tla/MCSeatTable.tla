---------------------------- MODULE MCSeatTable ----------------------------
EXTENDS SeatTable, TLC

CONSTANTS p1, p2, b1, b2

(* People are interchangeable, and so are bots; all properties are safety.  *)
Interchangeable == Permutations(People) \cup Permutations(Bots)
============================================================================
