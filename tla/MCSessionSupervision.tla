------------------------ MODULE MCSessionSupervision ------------------------
(* Two logins, so that the second meets what the first left behind. *)
EXTENDS SessionSupervision, TLC

CONSTANTS a, b

MCLifecycleIds == {a, b}
MCSymmetry == Permutations(MCLifecycleIds)
=============================================================================
