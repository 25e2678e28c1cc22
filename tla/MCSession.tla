------------------------------- MODULE MCSession -------------------------------
(* Small instance of Session for TLC. *)
EXTENDS Session

CONSTANT t1

MCCallers == Tabs \X {"boot", "shared", "login"}
=============================================================================
