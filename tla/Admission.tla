------------------------------- MODULE Admission -------------------------------
(***************************************************************************)
(* What the solver admission of EFTForge promises to the rest of the       *)
(* program, without files, locks or processes: at most MaxSolves requests  *)
(* solve at once on the whole server, and at most one per client address   *)
(* as long as no lock of that address was ever given up as abandoned.      *)
(***************************************************************************)
EXTENDS Naturals, FiniteSets

CONSTANTS Threads,      \* request threads of all the workers
          IPs,          \* client addresses
          MaxSolves,    \* OPTIMIZER_MAX_SOLVES
          NoIP          \* the address of a thread that is not solving

VARIABLES solving,      \* solving[t]: the address thread t solves for, or NoIP
          doubted       \* addresses whose lock was given up as abandoned

vars == <<solving, doubted>>

Solvers(f) == {t \in Threads : f[t] # NoIP}

Init == /\ solving = [t \in Threads |-> NoIP]
        /\ doubted = {}

(* A request gets both guards: a permit is free, and nobody solves for the *)
(* same address unless that address is in doubt.                           *)
Enter(t, i) ==
  /\ solving[t] = NoIP
  /\ Cardinality(Solvers(solving)) < MaxSolves
  /\ i \in doubted \/ \A u \in Threads : solving[u] # i
  /\ solving' = [solving EXCEPT ![t] = i]
  /\ UNCHANGED doubted

(* One request ends, or a whole worker process dies.                       *)
Leave(T) ==
  /\ solving' = [t \in Threads |-> IF t \in T THEN NoIP ELSE solving[t]]
  /\ UNCHANGED doubted

(* The lock of an address is judged abandoned.                             *)
Doubt(i) ==
  /\ doubted' = doubted \cup {i}
  /\ UNCHANGED solving

Next == \/ \E t \in Threads, i \in IPs : Enter(t, i)
        \/ \E T \in SUBSET Threads : Leave(T)
        \/ \E i \in IPs : Doubt(i)

Spec == Init /\ [][Next]_vars
================================================================================
