------------------------- MODULE MCAlternativesView -------------------------
(* AlternativesView for TLC: three shares of two plugins, each in a view of *)
(* its own, enough for one to be stacked over another and over a third.    *)
EXTENDS AlternativesView, TLC

(* A page is only ever edited for the plugin it was loaded for (OwnPage).   *)
MCCommon == {<<p, p>> : p \in Plugins}

Symmetry == Permutations(Views)
=============================================================================
