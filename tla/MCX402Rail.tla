---------------------------- MODULE MCX402Rail ----------------------------
(* Small instances of X402Rail. *)
EXTENDS X402Rail, TLC

\* Calls, authorizations and targets are interchangeable in every safety
\* property.
Interchangeable ==
    Permutations(Calls) \cup Permutations(Auths) \cup Permutations(Targets)
        \cup Permutations(Workers)
=============================================================================
