---------------------------- MODULE MCGameEvents ----------------------------
(* Two events, one of each kind, and two threads that wait for one, any or *)
(* both of them.                                                           *)
EXTENDS GameEvents

CONSTANTS m, a

Req(hs, all, timeout) == [handles |-> hs, all |-> all, timeout |-> timeout]

MCEvent == {m, a}
MCManual == {m}
MCRequests == {Req(<<a>>, FALSE, "infinite"),
               Req(<<a, m>>, FALSE, "timed"),
               Req(<<m, a>>, FALSE, "infinite"),
               Req(<<a, m>>, TRUE, "infinite"),
               Req(<<m>>, FALSE, "poll"),
               Req(<<a, NoHandle>>, FALSE, "infinite")}
=============================================================================
