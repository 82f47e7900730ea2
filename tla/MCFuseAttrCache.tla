--------------------------- MODULE MCFuseAttrCache ---------------------------
(* TLC instances of FuseAttrCache: threads as model values.  In the    *)
(* purge race only t1 writes; in the write race both threads write.    *)
EXTENDS FuseAttrCache, TLC

CONSTANTS t1, t2

MCThreads1 == {t1}
MCThreads2 == {t1, t2}
MCWriters  == {t1}
MCWriters2 == {t1, t2}
====
