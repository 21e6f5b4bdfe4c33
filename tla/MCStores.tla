------------------------------ MODULE MCStores ------------------------------
(* What menus read and write without a guard: the two files that are loaded *)
(* and saved as a whole, Happ's log and server list, the runtime config,    *)
(* WireGuard's profiles, the lines of a menu.  No state is shared between   *)
(* them, so a behaviour looks at one of them.                               *)
EXTENDS Settings, KeyStore, HappLog, HappServers, HappConfig, Labels, Profiles, TLC

CONSTANTS wireguard, ping, abuseipdb, u1, u2, m1, m2, k1, k2, k3, a, b, p1, p2,
          fa, fb, fc, de, fde, nl, nl2

VARIABLE looksAt

partVars == <<settingsVars, keyVars, logVars, serverVars, configVars, labelVars, profileVars>>

-----------------------------------------------------------------------------
(* config.json, keys.json                                                   *)

OneGeneral  == <<"killswitch_mode">>
OneProvider == <<wireguard>>
OneTool     == <<ping>>
OneSource   == <<abuseipdb>>
KeyedSource == {abuseipdb}
OldFiles    == {<<>>, [s \in {"killswitch_mode", "urls"} |->
                         IF s = "urls" THEN <<u1>> ELSE "bad"]}

SettingsAtBound ==
  /\ ops = MaxOps /\ wpc = "closed" /\ \A m \in Menus : op[m] = "none"
  /\ UNCHANGED settingsVars

Kinds    == (k1 :> "ss") @@ (k2 :> "ss") @@ (k3 :> "vless")
OldStore == <<[name |-> <<a>>, key |-> k1, uid |-> NoUid]>>

KeysAtBound == (\A p \in Importers : ~ENABLED KeyStoreStep(p)) /\ UNCHANGED keyVars

-----------------------------------------------------------------------------
(* Happ: two subscriptions on one host and one on another, a server list of *)
(* two subscriptions, and the configurations of servers.                    *)

Hosts == (fa :> "h") @@ (fb :> "h") @@ (fc :> "k")
Paths == (fa :> << <<"c", "x">>, <<"c", "y">>, <<"c", "z">> >>)
      @@ (fb :> << <<"k", "x">>, <<"k">>, <<"c", "w">> >>)
      @@ (fc :> << <<"c", "x">>, <<"x", "y">>, <<"k">> >>)

LogAtBound ==
  /\ Len(lines) = MaxLines /\ \A f \in Feeds : token[f] \in {0, MaxTokens}
  /\ UNCHANGED logVars

Entry(n, addr) == [name |-> n, addr |-> addr]
TwoLists    == {<<>>, <<Entry(de, 1), Entry(fde, 2)>>, <<Entry(fde, 3)>>}
TwoCaptures == {<<>>, <<Entry(nl, 9), Entry(de, 4)>>}
InFlags     == {<<de, fde>>}
TwoSubs     == <<"s1", "s2">>

SomeWords == {Unnamed, "proxy", "direct", "alt", "block", "balancer", "socks", "tun-in",
  "dns-in", "dns-bootstrap", "dns-direct", "dns-out", "freedom", "blackhole", "dns",
  "vless", "trojan", "wireguard", "ip", "srv", "srv2"}

Out(tag, protocol, host) ==
  [tag |-> tag, protocol |-> protocol, host |-> host, marked |-> FALSE, via |-> Unnamed]
Direct == Out("direct", "freedom", Unnamed)
SomeOutbounds == {
  <<Out("proxy", "vless", "srv"), Direct>>,
  <<Direct, Out("proxy", "vless", "ip")>>,
  <<Out(Unnamed, "vless", "srv"), Direct, Out("alt", "trojan", "srv2"), Out("dns-out", "dns", Unnamed)>>,
  <<Direct, Out("block", "blackhole", Unnamed)>>,
  <<Out(Unnamed, "wireguard", Unnamed)>> }
RulesNumbered(n) ==
  [from : {{}, {"socks"}, {"tun-in"}}, narrow : BOOLEAN, tcpudp : BOOLEAN,
   to : {"proxy", "direct", "balancer"}, nr : {n}]
UpToTwoRules == {<<>>} \cup {<<r>> : r \in RulesNumbered(1)}
                       \cup (RulesNumbered(1) \X RulesNumbered(2))
Resolver(addr, only) == [addr |-> addr, only |-> only, tag |-> "dns-in"]
SomeResolvers == {<<>>, <<Resolver("name", {})>>,
                  <<Resolver("ip", {"srv"}), Resolver("name", {}), Resolver("ip", {})>>}
SomeServers == [outbounds : SomeOutbounds, rules : UpToTwoRules, resolvers : SomeResolvers]

-----------------------------------------------------------------------------
(* Profiles: "nl" and "nl2".                                                *)

TwoProfiles == <<nl, nl2>>
NamesStartWith == {<<nl2, nl>>}

-----------------------------------------------------------------------------

MCInit ==
  /\ looksAt \in {"config.json", "keys.json", "log", "servers", "build", "lines", "profiles"}
  /\ IF looksAt = "config.json" THEN SettingsInit
     ELSE /\ file = <<>> /\ wpc = "closed" /\ saved = <<>> /\ draft = <<>>
          /\ cursor = 1 /\ top = 1 /\ height = 1
          /\ op = [m \in Menus |-> "none"] /\ copy = [m \in Menus |-> <<>>]
          /\ ops = 0 /\ intent = Load
  /\ KeyStoreInit /\ HappLogInit
  /\ IF looksAt = "servers" THEN HappServersInit
     ELSE /\ lists = [s \in Range(SubIds) |-> <<>>] /\ captured = <<>>
          /\ tunnel = Nobody /\ procs = "none" /\ record = NoServer /\ pending = NoServer
          /\ gui = [runs |-> FALSE, last |-> de]
          /\ rows = <<>> /\ clicked = NoServer /\ left = {}
          /\ refreshes = 0 /\ clicks = 0
  /\ IF looksAt = "build" THEN ConfigInit
     ELSE server = <<>> /\ tunnelDns = FALSE /\ built = NoBuild
  /\ IF looksAt = "lines" THEN LabelsInit
     ELSE items = <<>> /\ offered = <<>> /\ chosen = 0 /\ ran = 0
  /\ IF looksAt = "profiles" THEN ProfilesInit
     ELSE /\ conf = [dir \in Dirs |-> {}] /\ iface = [n \in Profile |-> NoIface]
          /\ enabled = {} /\ manager = [m \in Managers |-> NotManaging]

MCNext ==
  /\ UNCHANGED looksAt
  /\ \/ /\ looksAt = "config.json" /\ (SettingsNext \/ SettingsAtBound)
        /\ UNCHANGED <<keyVars, logVars, serverVars, configVars, labelVars, profileVars>>
     \/ /\ looksAt = "keys.json" /\ (KeyStoreNext \/ KeysAtBound)
        /\ UNCHANGED <<settingsVars, logVars, serverVars, configVars, labelVars, profileVars>>
     \/ /\ looksAt = "log" /\ (HappLogNext \/ LogAtBound)
        /\ UNCHANGED <<settingsVars, keyVars, serverVars, configVars, labelVars, profileVars>>
     \/ /\ looksAt = "servers" /\ HappServersNext
        /\ UNCHANGED <<settingsVars, keyVars, logVars, configVars, labelVars, profileVars>>
     \/ /\ looksAt = "build" /\ ConfigNext
        /\ UNCHANGED <<settingsVars, keyVars, logVars, serverVars, labelVars, profileVars>>
     \/ /\ looksAt = "lines" /\ LabelsNext
        /\ UNCHANGED <<settingsVars, keyVars, logVars, serverVars, configVars, profileVars>>
     \/ /\ looksAt = "profiles" /\ ProfilesNext
        /\ UNCHANGED <<settingsVars, keyVars, logVars, serverVars, configVars, labelVars>>

MCSpec == MCInit /\ [][MCNext]_<<partVars, looksAt>>

Symmetry == Permutations(Menus) \cup Permutations(Importers)
=============================================================================
