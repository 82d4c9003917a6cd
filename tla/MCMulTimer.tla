----------------------------- MODULE MCMulTimer -----------------------------
(***************************************************************************)
(* Procedures with intervals of one and two ticks, without an argument,    *)
(* with one, and with one that is too long.                                *)
(***************************************************************************)
EXTENDS MulTimer, TLC

CONSTANTS p, q, r

MCProcs == {p, q, r}
MCInterval == p :> 2 @@ q :> 1 @@ r :> 1
MCArg == p :> "null" @@ q :> "fits" @@ r :> "long"
=============================================================================
