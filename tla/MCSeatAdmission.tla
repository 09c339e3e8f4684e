-------------------------- MODULE MCSeatAdmission --------------------------
(* Two lifecycle identifiers that may be reused, four generations. *)
EXTENDS SeatAdmission

CONSTANTS a, b

MCLifecycleIds == {a, b}
=============================================================================
