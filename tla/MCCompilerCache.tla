--------------------------- MODULE MCCompilerCache ---------------------------
(* One file of the compiler, one of the shared RTL and one of the Switch's *)
EXTENDS CompilerCache

MCFiles == {"compiler/cutils.pas", "rtl/system.pp", "rtl/switch/system.pp"}
MCPinned == {"compiler/cutils.pas", "rtl/system.pp"}
MCCompilerFiles == {"compiler/cutils.pas"}
MCSwitchFiles == {"rtl/switch/system.pp"}
==============================================================================
