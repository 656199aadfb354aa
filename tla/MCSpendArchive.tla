--------------------------- MODULE MCSpendArchive ----------------------------
EXTENDS SpendArchive, TLC

CONSTANTS c1, c2

\* Each conversation has a process of its own.
MCWorker == [c \in Convs |-> c]

\* One conversation spends; the other one's deletions come in between.
MCMaxSpend == (c1 :> 2) @@ (c2 :> 0)
=============================================================================
