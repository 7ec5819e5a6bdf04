--------------------------------- MODULE Rules ---------------------------------
(***************************************************************************)
(* The rules of package route: whether one matches the metadata of a       *)
(* connection.  A rule is a record with a type, invert, and the parameter  *)
(* of its type, in which "list:" references stand for the list's members   *)
(* (they are resolved when the rule is made).  Metadata is a record:       *)
(*   service, address, version and port of the source, and                 *)
(*   minecraft: known (Metadata.Minecraft is not nil), state, host, player.*)
(***************************************************************************)
EXTENDS DomainMatcher

IntentStatus == 1
IntentLogin == 2
IntentTransfer == 3

MinecraftTypes == {"MinecraftHostname", "MinecraftPlayerName", "MinecraftStatus",
                   "MinecraftTransfer"}

\* MinecraftMetadata.CleanOriginDestination: what precedes the mark of a modded client.
Clean(host) ==
  IF \E i \in DOMAIN host : host[i] = 0
  THEN SubSeq(host, 1, SelectInSeq(host, LAMBDA c : c = 0) - 1)
  ELSE host

ServiceMatch(rule, meta) == meta.service \in rule.names
IPMatch(rule, meta) == meta.address \in rule.names
IPVersionMatch(rule, meta) == rule.version = (IF meta.version = 4 THEN 4 ELSE 6)
PortMatch(rule, meta) == meta.port \in rule.names
HostnameMatch(rule, meta) ==
  MatchName(Build(rule.domains, rule.suffixes), Clean(meta.minecraft.host))
PlayerNameMatch(rule, meta) ==
  (IF rule.lowerCase THEN Lower(meta.minecraft.player) ELSE meta.minecraft.player) \in rule.names
StatusMatch(rule, meta) == meta.minecraft.state = IntentStatus
TransferMatch(rule, meta) == meta.minecraft.state = IntentTransfer

\* A rule of another program, under "custom." and a name of the RuleRegistry: its
\* Match is that program's, here one that looks at two parts of the metadata at once.
CustomMatch(rule, meta) == <<meta.address, meta.minecraft.state>> \in rule.accepts

\* What a rule says of one connection, but for logic, invert and absent metadata.
Leaf(rule, meta) ==
  CASE rule.type = "always" -> TRUE
    [] rule.type = "ServiceName" -> ServiceMatch(rule, meta)
    [] rule.type = "SourceIP" -> IPMatch(rule, meta)
    [] rule.type = "SourceIPVersion" -> IPVersionMatch(rule, meta)
    [] rule.type = "SourcePort" -> PortMatch(rule, meta)
    [] rule.type = "MinecraftHostname" -> HostnameMatch(rule, meta)
    [] rule.type = "MinecraftPlayerName" -> PlayerNameMatch(rule, meta)
    [] rule.type = "MinecraftStatus" -> StatusMatch(rule, meta)
    [] rule.type = "MinecraftTransfer" -> TransferMatch(rule, meta)
    [] rule.type = "custom" -> CustomMatch(rule, meta)

\* A rule about Minecraft says no of a connection that was not sniffed.
SimpleMatch(rule, meta) ==
  /\ rule.type \in MinecraftTypes => meta.minecraft.known
  /\ Leaf(rule, meta)

RECURSIVE Match(_, _)

\* Mutant: invert is skipped together with the rest when there is no metadata.
Inverted_Known(rule, meta, match) ==
  IF rule.type \in MinecraftTypes /\ ~meta.minecraft.known THEN FALSE ELSE match # rule.invert

Inverted(rule, meta, match) == match # rule.invert

\* Match of the logical rules, and of the others.
AndMatch(rule, meta) == \A i \in DOMAIN rule.rules : Match(rule.rules[i], meta)
OrMatch(rule, meta) == \E i \in DOMAIN rule.rules : Match(rule.rules[i], meta)

Match(rule, meta) ==
  Inverted(rule, meta,
           CASE rule.type = "and" -> AndMatch(rule, meta)
             [] rule.type = "or" -> OrMatch(rule, meta)
             [] OTHER -> SimpleMatch(rule, meta))

-----------------------------------------------------------------------------
(***************************************************************************)
(* What a rule means, `wanted` or denied: inversions are pushed down to    *)
(* the simple rules, which say what they say of a name by its letters.     *)
(***************************************************************************)
SimplyMeans(rule, meta) ==
  /\ rule.type \in MinecraftTypes => meta.minecraft.known
  /\ IF rule.type = "MinecraftHostname"
     THEN Means(rule.domains, rule.suffixes, Clean(meta.minecraft.host))
     ELSE Leaf(rule, meta)

RECURSIVE Says(_, _, _)
Says(rule, meta, wanted) ==
  LET positive == wanted # rule.invert
      each(i) == Says(rule.rules[i], meta, positive)
  IN CASE rule.type \in {"and", "or"} ->
            IF (rule.type = "and") = positive
            THEN \A i \in DOMAIN rule.rules : each(i)
            ELSE \E i \in DOMAIN rule.rules : each(i)
       [] OTHER -> SimplyMeans(rule, meta) = positive
=============================================================================
