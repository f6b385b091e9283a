---------------------------- MODULE MCOtpService ----------------------------
(* Instances of OtpService for TLC.  Keys, codes and handlers are          *)
(* interchangeable: nothing orders them and no property names one.         *)
EXTENDS OtpServiceRefinement, TLC

Symmetry == Permutations(Ids) \cup Permutations(Codes) \cup Permutations(Sessions)
=============================================================================
