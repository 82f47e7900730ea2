----------------------------- MODULE MCFuseNodes -----------------------------
(* TLC instance of FuseNodes: two threads, two names and two node ids as   *)
(* model values; t2 only reads.  Names and ids are each interchangeable.   *)
EXTENDS FuseNodes, TLC

CONSTANTS t1, t2, a, b, n1, n2

MCThreads1 == {t1}
MCThreads  == {t1, t2}
MCNames   == {a, b}
MCNodes   == {n1, n2}
MCReaders  == {t2}
MCSymmetry == Permutations(MCNames) \cup Permutations(MCNodes)
====
