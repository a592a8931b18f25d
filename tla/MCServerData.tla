----------------------------- MODULE MCServerData -----------------------------
(***************************************************************************)
(* SolverCache and Votes on small instances, one or the other: the result  *)
(* caches and the vote tables share no state, so a state of one adds       *)
(* nothing to what the other can do.                                       *)
(***************************************************************************)
EXTENDS SolverCache, Votes, TLC

VARIABLE focus      \* the component that takes the steps

ServerInit == focus \in {"caches", "votes"} /\ SolverInit /\ VotesInit

ServerNext ==
  /\ UNCHANGED focus
  /\ IF focus = "caches" THEN SolverNext ELSE UNCHANGED solverVars
  /\ IF focus = "votes" THEN VotesNext ELSE UNCHANGED voteVars

ServerSpec == ServerInit /\ [][ServerNext]_<<focus, solverVars, voteVars>>

(* Members of these sets are told apart by what refers to them only.       *)
ServerSymmetry ==
  Permutations(Workers) \cup Permutations(Requests) \cup Permutations(Queries) \cup
  Permutations(Clients) \cup Permutations(VoteRequests) \cup Permutations(Items)
================================================================================
