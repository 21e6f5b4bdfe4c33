----------------------------- MODULE HappConfig ----------------------------
(***************************************************************************)
(* What xray is run with: a server of a subscription, or a key, and what   *)
(* build_runtime_config (happmeta.py) adds: local inbounds, the marks the  *)
(* killswitch looks for, the way of DNS lookups.  The last part is how     *)
(* xray routes by such a configuration.                                    *)
(***************************************************************************)
EXTENDS ListOps, FiniteSets, FiniteSetsExt, Functions

CONSTANTS
  Servers,   \* configurations: records of outbounds, rules and resolvers
  ConfigWords,  \* tags, protocols and hosts
  Unnamed,   \* no tag, no host
  NoBuild

\* An outbound is [tag, protocol, host, marked, via]; host is "ip", a name, or
\* Unnamed where _outbound_target finds no address.  A rule is [from, narrow,
\* tcpudp, to, nr]: from which inbounds (none: all), whether it has other
\* matchers, whether its network is "tcp,udp", the outbound or balancer, and its
\* number in the subscription (0 for ours).  A resolver is [addr, only, tag]: by
\* "ip" or "name", for which names only (none: all).
NonProxy == {"freedom", "blackhole", "dns"}

OutboundSet == [tag : ConfigWords, protocol : ConfigWords, host : ConfigWords, marked : BOOLEAN, via : ConfigWords]
RuleSet     == [from : SUBSET ConfigWords, narrow : BOOLEAN, tcpudp : BOOLEAN, to : ConfigWords, nr : Nat]
ResolverSet == [addr : {"ip", "name"}, only : SUBSET ConfigWords, tag : ConfigWords]

ASSUME WordsAssumption ==
  {"proxy", "direct", "freedom", "dns", "tun-in", "dns-in", "dns-bootstrap",
   "dns-direct", "dns-out", Unnamed} \subseteq ConfigWords

\* xray refuses two outbounds of one tag, so none has that of ours; no resolver
\* has our tag, and what a subscription does not send to a server is unmarked.
ASSUME ConfigAssumption ==
  \A s \in Servers :
    /\ s.outbounds \in Seq(OutboundSet) /\ s.rules \in Seq(RuleSet) /\ s.resolvers \in Seq(ResolverSet)
    /\ \A i, j \in DOMAIN s.outbounds : s.outbounds[i].tag = s.outbounds[j].tag =>
         i = j \/ s.outbounds[i].tag = Unnamed
    /\ \A i \in DOMAIN s.outbounds :
         /\ s.outbounds[i].tag # "dns-direct"
         /\ s.outbounds[i].protocol \in NonProxy => ~s.outbounds[i].marked
    /\ \A i \in DOMAIN s.resolvers : s.resolvers[i].tag # "dns-bootstrap"
    /\ \A i \in DOMAIN s.rules : s.rules[i].nr # 0

VARIABLES server, tunnelDns, built

configVars == <<server, tunnelDns, built>>

Indices(s, Test(_)) == {i \in DOMAIN s : Test(s[i])}

IsProxy(o) == o.protocol \notin NonProxy
IsTaggedProxy(o) == IsProxy(o) /\ o.tag # Unnamed
FirstTag(outbounds, else) ==
  LET proxies == Indices(outbounds, IsTaggedProxy)
  IN IF proxies = {} THEN else ELSE outbounds[Min(proxies)].tag
TagsOf(protocol, outbounds) == {o.tag : o \in {p \in Range(outbounds) : p.protocol = protocol}}

\* server_endpoints_of, the names among them
HostNames(outbounds) == {o.host : o \in {p \in Range(outbounds) : IsProxy(p)}} \ {"ip", Unnamed}

Rule(from, narrow, to) == [from |-> from, narrow |-> narrow, tcpudp |-> TRUE, to |-> to, nr |-> 0]
SelfRule  == Rule({"tun-in"}, TRUE, "direct")
BootRule  == Rule({"dns-bootstrap"}, FALSE, "dns-direct")
Port53    == Rule({"tun-in"}, TRUE, "dns-out")
CatchAll  == Rule({}, FALSE, "proxy")
IsCatchAll(r) == r.from = {} /\ ~r.narrow

\* Mutant: DNS follows the default route wherever it leads.
TunnelTargetAnywhere(rules, outbounds) ==
  LET all == Indices(rules, IsCatchAll)
  IN IF all = {} THEN CatchAll.to ELSE rules[Max(all)].to

\* The last catch-all's target; not a freedom outbound if there is a proxy.
TunnelTarget(rules, outbounds) ==
  LET all == Indices(rules, IsCatchAll)
      default == IF all = {} THEN CatchAll.to ELSE rules[Max(all)].to
  IN IF default \in TagsOf("freedom", outbounds)
     THEN FirstTag(outbounds, default) ELSE default

\* The first unrestricted resolver with an IP address, or the fallback 1.1.1.1.
BootstrapResolver(resolvers) ==
  LET usable == Indices(resolvers, LAMBDA r : r.only = {} /\ r.addr = "ip")
  IN IF usable = {} THEN "ip" ELSE resolvers[Min(usable)].addr

Resolvers(s) ==
  LET names == HostNames(s.outbounds)
      boot == [addr |-> BootstrapResolver(s.resolvers), only |-> names, tag |-> "dns-bootstrap"]
  IN IF names = {} THEN s.resolvers ELSE <<boot>> \o s.resolvers

\* The proxies and our own freedom outbound get the mark; the dns outbound dials
\* through "proxy" or the first proxy that has a tag.
Outbounds(s) ==
  LET tags == {s.outbounds[i].tag : i \in Indices(s.outbounds, IsTaggedProxy)}
      via == IF "proxy" \in tags THEN "proxy" ELSE FirstTag(s.outbounds, Unnamed)
      direct == [tag |-> "dns-direct", protocol |-> "freedom", host |-> Unnamed,
                 marked |-> TRUE, via |-> Unnamed]
      dns == [tag |-> "dns-out", protocol |-> "dns", host |-> Unnamed,
              marked |-> FALSE, via |-> Unnamed]
      first == Indices(s.outbounds, LAMBDA o : o.protocol = "dns")
      all == s.outbounds \o <<direct>> \o IF first = {} THEN <<dns>> ELSE <<>>
      dnsAt == Min(Indices(all, LAMBDA o : o.protocol = "dns"))
  IN [i \in DOMAIN all |->
        IF IsProxy(all[i]) THEN [all[i] EXCEPT !.marked = TRUE]
        ELSE IF i = dnsAt /\ all[i].via = Unnamed THEN [all[i] EXCEPT !.via = via]
        ELSE all[i]]

Kept(s) == Only(s.rules, {r \in Range(s.rules) : ~(r.to = "proxy" /\ r.tcpudp)})
LookupRules(s, inTunnel) ==
  IF inTunnel THEN <<Rule({"dns-in"}, FALSE, TunnelTarget(Kept(s), Outbounds(s)))>> ELSE <<>>

\* Mutant: our own catch-all before the subscription's rules.
RulesCatchAllFirst(s, inTunnel) ==
  <<SelfRule, BootRule, Port53>> \o LookupRules(s, inTunnel) \o <<CatchAll>> \o Kept(s)

\* Ours, then the lookups' way, then the subscription's without its own catch-all.
RoutingRules(s, inTunnel) ==
  <<SelfRule, BootRule, Port53>> \o LookupRules(s, inTunnel) \o Kept(s) \o <<CatchAll>>

Build ==
  /\ built = NoBuild
  /\ built' = [outbounds |-> Outbounds(server), rules |-> RoutingRules(server, tunnelDns),
               resolvers |-> Resolvers(server)]
  /\ UNCHANGED <<server, tunnelDns>>

\* The keeper has handed the configuration to happd and is gone.
BuildAgain ==
  /\ built # NoBuild
  /\ built' = NoBuild
  /\ UNCHANGED <<server, tunnelDns>>

ConfigInit == server \in Servers /\ tunnelDns \in BOOLEAN /\ built = NoBuild
ConfigNext == Build \/ BuildAgain
ConfigSpec == ConfigInit /\ [][ConfigNext]_configVars

-----------------------------------------------------------------------------
(* xray: the first rule that matches; the outbound it names or, if none     *)
(* matches, the first one.  hits are the narrow rules a packet meets.       *)

WayOut(c, from, hits) ==
  LET matching == Indices(c.rules, LAMBDA r : (r.from = {} \/ from \in r.from)
                                              /\ (r.narrow => r.nr \in hits))
  IN IF matching = {} THEN c.outbounds[1].tag ELSE c.rules[Min(matching)].to

\* The resolver that answers for a name: one for just this name, or any.
AsksFor(c, name) ==
  LET own == Indices(c.resolvers, LAMBDA r : name \in r.only)
  IN IF own # {} THEN {c.resolvers[Min(own)]}
     ELSE {c.resolvers[i] : i \in Indices(c.resolvers, LAMBDA r : r.only = {})}

NarrowRules(s) == {s.rules[i].nr : i \in Indices(s.rules, LAMBDA r : r.narrow)}

-----------------------------------------------------------------------------

\* No lookup leaves outside the tunnel, and none waits for the tunnel it is
\* needed for: a server's own name is asked from a resolver that needs no lookup
\* itself, through the marked outbound the killswitch lets out, whatever rules
\* and resolvers the subscription has; nothing else uses that way; with dns_mode
\* "tunnel" the rest does not go to a freedom outbound if there is a proxy to
\* name.  The mark is on what dials a server, and not on the subscription's own
\* freedom outbounds.
LookupsStayInside ==
  built # NoBuild =>
    LET names == HostNames(server.outbounds)
        free == TagsOf("freedom", built.outbounds)
        boots == {r \in Range(built.resolvers) : r.tag = "dns-bootstrap"}
    IN /\ \A n \in names : AsksFor(built, n) = boots /\ \A r \in boots : r.addr = "ip"
       /\ \A r \in boots : r.only = names
       /\ \A hits \in SUBSET NarrowRules(server) :
            /\ WayOut(built, "dns-bootstrap", hits) = "dns-direct"
            /\ tunnelDns /\ Indices(server.outbounds, IsTaggedProxy) # {} =>
                 WayOut(built, "dns-in", hits) \notin free
       /\ \A o \in Range(built.outbounds) :
            o.marked <=> IsProxy(o) \/ o.tag = "dns-direct"

\* The subscription's own catch-all is dropped for ours by its target and its
\* network; these are the configurations where that changes something.
DropsMore(s) ==
  LET dropped == Indices(s.rules, LAMBDA r : r.to = "proxy" /\ r.tcpudp)
  IN \/ \E i \in dropped : s.rules[i].narrow \/ s.rules[i].from # {} \/ i # Len(s.rules)
     \/ Indices(s.rules, IsCatchAll) = {} /\ s.outbounds[1].tag # "proxy"

\* Apart from those the split tunnel is the provider's: an app's packet, whichever
\* of the subscription's rules it meets, leaves where the subscription sends it.
RoutesAsSubscribed ==
  built # NoBuild /\ ~DropsMore(server) =>
    \A hits \in SUBSET NarrowRules(server) :
      WayOut(built, "tun-in", hits) = WayOut(server, "tun-in", hits)
=============================================================================
