------------------------------ MODULE CatalogData ------------------------------
(***************************************************************************)
(* What the caches may rely on, whoever syncs and however syncs overlap or *)
(* fail: the synchronized tables of tarkov.db change by commits, each of   *)
(* which moves the file's mtime, and a generation of solver_cache_epoch is *)
(* published once and for all.                                             *)
(***************************************************************************)
EXTENDS Naturals

CONSTANTS Tokens        \* the generations that can be published

ASSUME TokensType == Tokens \subseteq Nat \ {0}

VARIABLES writes,       \* commits so far
          epoch,        \* the current generation, 0 before the first
          used          \* the generations published so far

dataVars == <<writes, epoch, used>>

DataInit == writes = 0 /\ epoch = 0 /\ used = {}

Commit == writes' = writes + 1 /\ UNCHANGED <<epoch, used>>

(* bump_solver_cache_epoch: time, process and random bytes make a token    *)
(* nobody used before; os.replace makes it visible at once.                *)
Publish(t) ==
  /\ t \in Tokens \ used
  /\ epoch' = t
  /\ used' = used \cup {t}
  /\ UNCHANGED writes

DataNext == Commit \/ \E t \in Tokens : Publish(t)

DataSpec == DataInit /\ [][DataNext]_dataVars
================================================================================
