--------------------------- MODULE MCTunnelListener ---------------------------
(***************************************************************************)
(* TunnelListener with two dialers, room for one or two and two values.    *)
(***************************************************************************)
EXTENDS TunnelListener

CONSTANTS c1, c2     \* model values: dialers

MCTwo == {c1, c2}
=============================================================================
