--------------------------- MODULE MCTunnelSession ---------------------------
(***************************************************************************)
(* TunnelSession on small windows: two model values for the ends.          *)
(***************************************************************************)
EXTENDS TunnelSession

CONSTANTS D, A      \* model values: the dialer and the acceptor

MCNobody == {}
MCDialer == {D}
MCAcceptor == {A}
=============================================================================
