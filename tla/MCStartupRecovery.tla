------------------------- MODULE MCStartupRecovery -------------------------
(* StartupRecovery for TLC. *)
EXTENDS StartupRecovery

\* Everything; nothing that has a worker; and three of those: all but the
\* worker, a VT that is busy, and nothing.
AnyLeftovers == Hosts
WithoutWorker == {h \in Hosts : ~h.worker}
FewLeftovers == {[Running EXCEPT !.worker = FALSE], [Gone EXCEPT !.vt = TRUE], Gone}
=============================================================================
