---------------------------- MODULE MCProcessJob ----------------------------
(* ProcessJob for TLC.  Two values of each property are enough for a lost  *)
(* or reordered line to show; a transmission of three units can be cut in  *)
(* the size line's wake, inside the payload, or not at all.                *)
EXTENDS ProcessJob

MCPercents == {0, 50}
MCErrors == {1}
MCPrograms == {"purposeprocess", "script"}
=============================================================================
