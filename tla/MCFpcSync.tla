----------------------------- MODULE MCFpcSync -----------------------------
(* FpcSync alone, as python3 tools/sync_fpc.py runs it *)
EXTENDS FpcSync

MCFiles == {"compiler/cutils.pas", "rtl/system.pp"}
=============================================================================
