---------------------------- MODULE MCSaveWriter ----------------------------
(* Three quick-save slots; one disk operation that fails and one death of    *)
(* the program, each at any moment.                                          *)
EXTENDS SaveWriterProofs
=============================================================================
