----------------------------- MODULE MCSearchFlag -----------------------------
(***************************************************************************)
(* One keyword search, whose answer is kept for two ticks, by a member or  *)
(* by anybody.                                                             *)
(***************************************************************************)
EXTENDS SearchCaches

MCLives == [s \in Sources |-> [items |-> {2}, empty |-> {0}]]

=============================================================================
