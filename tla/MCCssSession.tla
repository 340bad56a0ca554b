---------------------------- MODULE MCCssSession ----------------------------
(* CssSession with two consumers, one of them on two threads. *)
EXTENDS CssSession, TLC

CONSTANTS t1, t2, t3, a, b

MCCookie == t1 :> a @@ t2 :> a @@ t3 :> b

============================================================================
