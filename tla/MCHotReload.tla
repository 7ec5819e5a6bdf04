----------------------------- MODULE MCHotReload -----------------------------
(***************************************************************************)
(* HotReload with a Minecraft and a plain outbound, one service, and files *)
(* that add and remove outbounds and the service, are cut short or are     *)
(* refused.  One of the two clients is silent.                             *)
(***************************************************************************)
EXTENDS HotReload

CONSTANTS mc, plain, in, c1, c2   \* model values

MCOutbounds == {mc, plain}
MCInjects == {mc}
MCServices == {in}
MCTwo == {c1, c2}
MCSilent == {c2}

MCGood(outs) ==
  [loads |-> TRUE, outs |-> outs, refused |-> {}, rules |-> TRUE, svcs |-> {in}, bad |-> {},
   tunnels |-> {}]

\* Version 1 has a tunnel.  Then a file read half written; one refused at an outbound;
\* one without the service, which is removed and added again; one refused at the rules,
\* after it made an outbound; one whose service Start refuses; and the last, which
\* replaces the Minecraft outbound by the plain one.
MCFiles ==
  <<[MCGood({mc}) EXCEPT !.tunnels = {in}],
    [MCGood({mc}) EXCEPT !.loads = FALSE],
    [MCGood({mc}) EXCEPT !.refused = {mc}],
    [MCGood({mc}) EXCEPT !.svcs = {}],
    [MCGood({plain}) EXCEPT !.rules = FALSE],
    [MCGood({mc}) EXCEPT !.bad = {in}],
    MCGood({plain})>>
=============================================================================
