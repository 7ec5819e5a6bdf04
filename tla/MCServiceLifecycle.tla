-------------------------- MODULE MCServiceLifecycle --------------------------
(***************************************************************************)
(* ServiceLifecycle with three versions and one connection: connections    *)
(* share nothing but what the service holds.                               *)
(***************************************************************************)
EXTENDS ServiceLifecycle

CONSTANTS c1      \* model value: a connection

MCConns == {c1}

MCGuarded == [nets |-> {"tcp", "udp"}, require |-> TRUE, access |-> TRUE,
              minecraft |-> TRUE, haveSecret |-> TRUE]

\* Guarded on both ports, without lists and legacy outbound, then guarded again.
MCConfigs ==
  <<MCGuarded,
    [MCGuarded EXCEPT !.nets = {"tcp"}, !.access = FALSE, !.minecraft = FALSE],
    MCGuarded>>
=============================================================================
