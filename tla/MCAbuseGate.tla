---------------------------- MODULE MCAbuseGate ----------------------------
(* AbuseGate for TLC: gates, administrators and all keys are alike. *)
EXTENDS AbuseGate, TLC

Symmetry ==
    Permutations(Gates) \cup Permutations(Ids) \cup Permutations(Admins)
        \cup Permutations(Entries) \cup Permutations(Recipients)
=============================================================================
