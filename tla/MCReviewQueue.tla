--------------------------- MODULE MCReviewQueue ---------------------------
(* Small instances of ReviewQueue. *)
EXTENDS ReviewQueue, TLC

Interchangeable ==
    Permutations(Reviews) \cup Permutations(Deliveries) \cup Permutations(Hooks)
        \cup Permutations(Crons)
=============================================================================
