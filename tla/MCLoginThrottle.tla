--------------------------- MODULE MCLoginThrottle ----------------------------
(***************************************************************************)
(* Three keys compete for a table of two; two requests run at once; two    *)
(* failures block a key.                                                   *)
(***************************************************************************)
EXTENDS LoginThrottle
===============================================================================
