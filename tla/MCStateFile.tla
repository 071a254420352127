------------------------------ MODULE MCStateFile -----------------------------
(***************************************************************************)
(* Two gateways, one given a port and one relying on the recorded one, and *)
(* two SSO commands.                                                       *)
(***************************************************************************)
EXTENDS StateFile, TLC

CONSTANTS g1, g2, c1, c2, p1

MCPortOf == g1 :> p1 @@ g2 :> None
MCAsks == c1 :> "header" @@ c2 :> "hmac"
===============================================================================
