--------------------------- MODULE MCLoginService ---------------------------
(***************************************************************************)
(* Two connections of one user, each with two request ids.                 *)
(***************************************************************************)
EXTENDS LoginService
=============================================================================
