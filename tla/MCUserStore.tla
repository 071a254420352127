----------------------------- MODULE MCUserStore ------------------------------
(***************************************************************************)
(* Two slugs, one of which is what the other becomes when it is suffixed;  *)
(* one host name; three services at a time.                                *)
(***************************************************************************)
EXTENDS UserStore

Web == [name |-> "web", suffix |-> <<>>]
Web2 == [name |-> "web", suffix |-> <<2>>]
MCSlugs == {Web, Web2}
MCCustoms == {Root, Web2}
MCMinOrder == -1
===============================================================================
