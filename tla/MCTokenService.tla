--------------------------- MODULE MCTokenService ---------------------------
(* TokenService on a small instance; the callers keep their names, because a *)
(* temporal property is checked.                                             *)
EXTENDS TokenService
=============================================================================
