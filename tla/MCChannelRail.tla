--------------------------- MODULE MCChannelRail ---------------------------
(* Small instances of ChannelRail. *)
EXTENDS ChannelRail, TLC

\* Calls, challenges and workers are interchangeable in every safety property.
Interchangeable ==
    Permutations(Calls) \cup Permutations(Challenges) \cup Permutations(Workers)
=============================================================================
