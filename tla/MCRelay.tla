-------------------------------- MODULE MCRelay --------------------------------
(***************************************************************************)
(* Relay with every combination of header, preamble and client.            *)
(***************************************************************************)
EXTENDS Relay

\* A service with a Minecraft outbound has a rule that sniffs; without sniffing it
\* makes no difference whether the client speaks Minecraft.
MCSetups ==
  {s \in Setup : /\ s.outbound = "minecraft" => s.sniff # "no"
                 /\ s.sniff = "no" => ~s.speaks}

\* A plain outbound behind a rule that sniffs, and a client that is recognised.
MCSniffed ==
  {s \in Setup : s.outbound = "plain" /\ s.sniff = "minecraft" /\ s.speaks}
=============================================================================
