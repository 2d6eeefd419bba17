------------------------------- MODULE Filter -------------------------------
(* A list comprehension with a condition, as in bulk_delete_history          *)
(* (shareclip/app.py:436) and ddns_config_post.                              *)
EXTENDS Naturals, Sequences

\* The elements of s that are in S, in their order.
Filter(s, S) ==
    LET kept[i \in 0..Len(s)] ==
          IF i = 0 THEN << >>
          ELSE IF s[i] \in S THEN Append(kept[i - 1], s[i]) ELSE kept[i - 1]
    IN  kept[Len(s)]
=============================================================================
