--------------------------- MODULE MCNativeBuild ---------------------------
(***************************************************************************)
(* NativeBuild for TLC: the recipes of iOS (codecs, okgf, launcher) and of *)
(* the browser and the Switch (okgf, adapters, link), two compiler paths.  *)
(***************************************************************************)
EXTENDS NativeBuild

MCRecipes == {<<"codec", "okgf", "adapter">>, <<"okgf", "adapter", "link">>}
MCDrivers == {"clang", "cc"}
=============================================================================
