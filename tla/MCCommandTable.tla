--------------------------- MODULE MCCommandTable ---------------------------
(* Small instances of CommandTable: one module, one cfg per question. *)
EXTENDS CommandTable, TLC

CONSTANTS c1, c2, c3, l1

MCLidarOf == [c \in Calls |-> l1]
AllMid360 == [c \in Calls |-> "Mid360"]
AllPort == [c \in Calls |-> "Port"]
Mixed == [c \in Calls |-> IF c = c1 THEN "Mid360" ELSE IF c = c2 THEN "Port" ELSE "Hap"]

ThreadSymmetry == Permutations(IOThreads)
=============================================================================
