---------------------------- MODULE MCJoinOrder -----------------------------
(***************************************************************************)
(* Every graph over three join keys, the undefined keys and the cycles     *)
(* included, with every set of needed keys.                                *)
(***************************************************************************)
EXTENDS JoinOrder

MCKey == 1 .. 3
=============================================================================
