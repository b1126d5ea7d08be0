-------------------------- MODULE MCShelfRankLoop --------------------------
(***************************************************************************)
(* Every pair of keys of an alphabet of BASE characters, up to MAX_LENGTH. *)
(***************************************************************************)
EXTENDS ShelfRankLoop

AllKeys == {r \in UNION {[1 .. l -> Digit] : l \in 1 .. MAX_LENGTH} : r[Len(r)] # 0}

\* How many keys a rebalance is tried for.
MaxCount == 20

\* rebalanced_sequence yields keys in increasing order, none of which ends in 0.
ASSUME RebalancedIsSpread ==
  \A c \in 1 .. MaxCount :
    LET s == RebalancedSequence(c)
    IN  /\ \A i \in 1 .. c : s[i] # None /\ s[i][Len(s[i])] # 0
        /\ \A i \in 1 .. c - 1 : Less(s[i], s[i + 1])

=============================================================================
