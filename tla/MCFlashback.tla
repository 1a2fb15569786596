------------------------------ MODULE MCFlashback ------------------------------
(* Constants of Flashback for TLC.                                          *)
EXTENDS Flashback, TLC

CONSTANTS v

\* The binary log begins with one row in the table.
MCInitial == {[k \in Keys |-> IF k = r THEN v ELSE Absent] : r \in Keys}

KeySymmetry == Permutations(Keys)

===============================================================================
