---------------------------- MODULE MCJobDialog ----------------------------
(* JobDialog for TLC: three triggers, enough for a share to be overtaken,   *)
(* twice, by later ones, of plugins two of which need an argument of the    *)
(* same name, as bluetooth and kdeconnect do.                               *)
EXTENDS JobDialog

CONSTANTS bluetooth, kdeconnect

MCCommon ==
  {<<p, q>> \in Plugins \X Plugins : p = q \/ {p, q} = {bluetooth, kdeconnect}}
=============================================================================
