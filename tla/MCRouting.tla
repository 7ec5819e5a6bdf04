------------------------------- MODULE MCRouting -------------------------------
(***************************************************************************)
(* Routing with a handful of configurations, one for each way a rule can   *)
(* look at a connection, and every short host name.                        *)
(***************************************************************************)
EXTENDS Routing

\* "a", "b", "B" and the dot.
A == 97
B == 98
UpperB == 66
\* A handshake with an empty name is a bad one; a modded client's mark follows a 0.
Hosts == (SeqOf({A, UpperB, Dot}, 4) \ {<<>>}) \cup {<<A, Dot, B, 0, A>>, <<0, A>>}
Steve == <<UpperB>>
LowerSteve == <<B>>

Here == [address |-> "v4", version |-> 4, port |-> 1]
There == [address |-> "v6", version |-> 6, port |-> 2]

Anybody == [secret |-> TRUE, peer |-> Here, header |-> "source", source |-> There,
            sends |-> "login", intent |-> IntentLogin, host |-> <<A, Dot, B>>, player |-> Steve]

MCClients ==
  {[Anybody EXCEPT !.host = h] : h \in Hosts} \cup
  {[Anybody EXCEPT !.sends = s, !.intent = i, !.player = p] :
     s \in {"nothing", "destination", "handshake", "login"}, i \in 1 .. 3,
     p \in {Steve, <<A>>}} \cup
  {[Anybody EXCEPT !.secret = s, !.peer = p, !.header = h] :
     s \in BOOLEAN, p \in {Here, There}, h \in {"bad", "local", "source"}}

MCKind == [minecraft |-> "inject", plain |-> "plain", default |-> "plain"]

R(type) ==
  [type |-> type, invert |-> FALSE, sniff |-> <<>>, outbound |-> "", target |-> NoTarget,
   minecraft |-> NoTarget, intent |-> 0]
Not(rule) == [rule EXCEPT !.invert = TRUE]
To(rule, name) == [rule EXCEPT !.outbound = name]
Sniffing(rule, what) == [rule EXCEPT !.sniff = what]

Always == R("always")
Sniffer == Sniffing(Always, <<"minecraft">>)
Logic(type, rules) == [rules |-> rules] @@ R(type)
Names(type, names) == [names |-> names] @@ R(type)
Players(names, lower) == [lowerCase |-> lower] @@ Names("MinecraftPlayerName", names)
Hostname(domains, suffixes) ==
  [domains |-> domains, suffixes |-> suffixes] @@ R("MinecraftHostname")
Version(v) == [version |-> v] @@ R("SourceIPVersion")
Status == R("MinecraftStatus")
Transfer == R("MinecraftTransfer")
Custom(accepts) == [accepts |-> accepts] @@ R("custom")

Plain == [service |-> "s", target |-> [host |-> "t", port |-> 1], legacy |-> FALSE,
          secret |-> "off", access |-> [mode |-> "off", list |-> {}], proxy |-> FALSE,
          default |-> "plain", rules |-> <<>>]
With(rules) == [Plain EXCEPT !.rules = rules]

MCConfigs == <<
  \* names with an upper-case letter, beside the same in lower case
  With(<<Sniffer, To(Hostname(<<<<A>>, <<UpperB, Dot, A>>>>, <<<<UpperB>>>>), "minecraft"),
         To(Hostname(<<<<UpperB>>>>, <<<<B>>, <<A, Dot, UpperB>>>>), "RESET")>>),
  \* rules of another program, before and after the sniffing, inverted and nested
  With(<<To(Custom({<<"v4", IntentTransfer>>}), "REJECT"), Sniffer,
         To(Logic("and", <<Not(Custom({<<"v4", IntentStatus>>, <<"v6", IntentLogin>>})),
                           Not(Transfer)>>), "minecraft")>>),
  \* host names: suffixes with and without a dot, beside and under domains
  With(<<Sniffer, To(Hostname(<<>>, <<<<A>>>>), "minecraft")>>),
  With(<<Sniffer, To(Hostname(<<<<A, Dot, A>>>>, <<<<Dot, B>>>>), "minecraft"),
         To(Not(Hostname(<<<<A>>, <<B>>>>, <<<<B, Dot, A>>, <<B>>, <<A, B>>>>)), "RESET")>>),
  With(<<To(Hostname(<<>>, <<<<A>>>>), "minecraft"), Sniffer, To(Not(Status), "REJECT")>>),
  \* logic, inverted inside and outside, before and after the sniffing
  With(<<To(Logic("and", <<Not(Status), Not(Transfer), Not(Always)>>), "REJECT"),
         To(Not(Logic("or", <<Status, Not(Logic("and", <<Not(Transfer), Always>>))>>)),
            "minecraft")>>),
  With(<<Sniffer, To(Not(Logic("and", <<Not(Status), Not(Transfer)>>)), "minecraft"),
         To(Logic("or", <<Players({Steve}, FALSE), Not(Players({LowerSteve}, TRUE))>>), "RESET")>>),
  \* an intent written over what was sniffed, and one before there is anything
  With(<<[Always EXCEPT !.intent = IntentTransfer, !.minecraft = [host |-> "x", port |-> 4]],
         [Sniffing(Always, <<"minecraft", "all", "tls">>)
            EXCEPT !.minecraft = [host |-> "y", port |-> 5]],
         To(Status, "REJECT"),
         [Not(Transfer) EXCEPT !.intent = IntentTransfer, !.minecraft.port = 6],
         [Always EXCEPT !.minecraft.host = "z"],
         To(Transfer, "minecraft")>>),
  \* destinations rewritten by parts, outbounds that do not exist
  With(<<[Version(4) EXCEPT !.target.host = "u"], [Version(6) EXCEPT !.target.port = 2],
         To([Names("SourcePort", {2}) EXCEPT !.target.port = 3], "nowhere"),
         To(Names("ServiceName", {"s"}), "plain")>>),
  [With(<<To(Names("SourceIP", {"v4"}), "plain")>>) EXCEPT !.target.port = 0],
  \* a name nothing sniffs; a PROXY header; who may connect; a legacy service
  With(<<Sniffing(Not(Version(6)), <<"tls">>)>>),
  [With(<<Sniffer, To(Names("SourceIP", {"v6"}), "minecraft"), To(Version(4), "REJECT")>>)
     EXCEPT !.proxy = TRUE, !.secret = "set", !.access = [mode |-> "block", list |-> {"v6"}]],
  [With(<<>>) EXCEPT !.secret = "unset"],
  [With(<<>>) EXCEPT !.legacy = TRUE, !.access = [mode |-> "allow", list |-> {"v4"}]]
>>
=============================================================================
