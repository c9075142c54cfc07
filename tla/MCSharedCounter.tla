--------------------------- MODULE MCSharedCounter ---------------------------
(* A small instance of SharedCounter for TLC: the threads of each lab. *)
EXTENDS SharedCounter
CONSTANTS t0, t1, t2, t3
Disciplines == {"none", "lock", "rw", "seq", "atomic"}
LabThreads == [g \in Disciplines |->
                 CASE g = "rw"  -> {t0, t2, t3}
                   [] g = "seq" -> {t0, t2}
                   [] OTHER     -> {t0, t1}]
ThreadOrder == <<t0, t1, t2, t3>>
=============================================================================
