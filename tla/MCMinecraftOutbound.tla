------------------------- MODULE MCMinecraftOutbound -------------------------
(***************************************************************************)
(* MinecraftOutbound with two clients, whose requests and whose outbound   *)
(* are of every kind a test can tell apart.                                *)
(***************************************************************************)
EXTENDS MinecraftOutbound, TLC

CONSTANTS c1, c2    \* model values: connections

MCTwo == {c1, c2}

MCSymmetry == Permutations(MCTwo)

MCAsk(intent, network, host, name) ==
  [intent |-> intent, network |-> network, hostListed |-> host, nameListed |-> name]

\* Everything a client can ask over TCP, listed or not.
MCOverTCP ==
  {MCAsk(i, "tcp", h, n) : i \in {"login", "status"}, h \in BOOLEAN, n \in BOOLEAN}
    \cup {MCAsk("transfer", "tcp", TRUE, TRUE), MCAsk("invalid", "tcp", TRUE, TRUE)}

MCAllConfigs ==
  [hostAccess : {TRUE}, nameAccess : BOOLEAN, ownMotd : BOOLEAN, pingMode : {"0ms", "echo"},
   max : {NoLimit, 1}, sendSecret : BOOLEAN, haveSecret : BOOLEAN, proxy : BOOLEAN]
=============================================================================
