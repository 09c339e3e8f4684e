------------------------- MODULE MCPrecommitRuntime -------------------------
(* Small instances of PrecommitRuntime.                                    *)
EXTENDS PrecommitRuntime
=============================================================================
