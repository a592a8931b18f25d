--------------------------- MODULE MCSolveAdmission ---------------------------
(* Two workers, one of them with two request threads, and fewer permits    *)
(* than threads, so that requests meet on locks, permits and within one    *)
(* process.                                                                *)
EXTENDS SolveAdmission, TLC
CONSTANTS t1, t2, t3, w1, w2, a1, a2

MCWorkerOf == t1 :> w1 @@ t2 :> w1 @@ t3 :> w2

(* Addresses are interchangeable, and so are the threads of one process.   *)
Symmetry == Permutations(IPs) \cup Permutations({t1, t2})
(* Bounded jobs only: what the race over an orphaned lock file does        *)
(* without any slow client.                                                *)
JobSpec == Init /\ [][Next /\ \A t \in Threads : kind'[t] = "job"]_vars
================================================================================
