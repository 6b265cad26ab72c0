----------------------------- MODULE MCGameBuild -----------------------------
(* One source besides the generated unit, on every kind of target *)
EXTENDS GameBuild

MCUnits == {"Globals"}
MCTargets == {"linux", "macos", "ios", "switch", "android"}
==============================================================================
