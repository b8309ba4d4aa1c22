------------------------------ MODULE MCSessions ------------------------------
(***************************************************************************)
(* Small instances of Sessions.  Users share nothing but the handlers, so  *)
(* one user with two handlers is the case that matters.                    *)
(***************************************************************************)
EXTENDS Sessions, TLC

===============================================================================
