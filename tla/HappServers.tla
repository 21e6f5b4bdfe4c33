---------------------------- MODULE HappServers ----------------------------
(***************************************************************************)
(* Which Happ server a name means: the menu's rows (HappProvider.          *)
(* connections), the connect a click on one starts, and the keeper that    *)
(* looks the name up again (happmeta.all_servers, match_server), while     *)
(* subscriptions change, Happ's own window connects and keepers die.       *)
(***************************************************************************)
EXTENDS ListOps, FiniteSets, FiniteSetsExt, Functions

CONSTANTS
  ServerNames,
  PartOf,   \* pairs of names, the first a part of the second
  SubIds,      \* subscriptions, in the order of providers()
  Lists,       \* the lists a subscription may have: sequences of [name, addr]
  Captures,    \* what xray-configs.json may hold: sequences of the same kind
  NoServer,    \* no name, no subscription, no record
  MaxRefresh, MaxClicks  \* bounds

Addresses == {e.addr : e \in UNION {Range(l) : l \in Lists \cup Captures}}
Subs      == Range(SubIds) \cup {NoServer}
ServerSet == [name : ServerNames, sub : Subs, addr : Addresses]
Ids       == [name : ServerNames, sub : Subs]

\* Names are unique within one subscription (base.py:47).
ASSUME HappServersAssumption ==
  /\ SubIds \in Seq(Range(SubIds)) /\ NoServer \notin ServerNames \cup Range(SubIds)
  /\ NoServer \notin ServerSet /\ NoServer \notin Ids
  /\ Lists \cup Captures \subseteq Seq([name : ServerNames, addr : Addresses])
  /\ PartOf \subseteq ServerNames \X ServerNames
  /\ \A l \in Lists \cup Captures : \A i, j \in DOMAIN l : l[i].name = l[j].name => i = j
  /\ MaxRefresh \in Nat /\ MaxClicks \in Nat

VARIABLES
  lists,    \* the cached list of each subscription
  captured, \* xray-configs.json
  tunnel,   \* who runs it and to which server; servers are [name, sub, addr]
  procs,    \* a process list with Happ's in it: "none", "listed", "cached"
  record,   \* happ-keeper.json: [name, sub] once connected, or NoServer
  pending,  \* the argv of a keeper that is not connected yet
  gui,      \* the GUI: whether it runs, and lastServerName
  rows,     \* the menu that is open
  clicked,  \* the row it was left by
  left,     \* history: servers that were off the list since the menu opened,
            \* until the keeper of a click in it has its server
  refreshes, clicks

menuVars == <<rows, clicked, left, clicks>>
serverVars == <<lists, captured, tunnel, procs, record, pending, gui, refreshes, menuVars>>

Nobody == [by |-> "nobody", to |-> NoServer]
IsPart(n, m) == n = m \/ <<n, m>> \in PartOf

\* The rows of one list.
Of(sub, list) ==
  [i \in DOMAIN list |-> [name |-> list[i].name, sub |-> sub, addr |-> list[i].addr]]

Subscribed(ls) ==
  LET upTo[i \in 0..Len(SubIds)] ==
        IF i = 0 THEN <<>> ELSE upTo[i - 1] \o Of(SubIds[i], ls[SubIds[i]])
  IN upTo[Len(SubIds)]

\* all_servers: a captured server is left out when its name or its address is known.
ServersOf(ls) ==
  LET listed == Subscribed(ls)
      new == {e \in Range(captured) :
                \A s \in Range(listed) : s.name # e.name /\ s.addr # e.addr}
  IN listed \o Of(NoServer, Only(captured, new))

AllServers == ServersOf(lists)

\* An exact match, or the only one of which the name is a part or the reverse.
ByName(n, servers) ==
  LET exact == {i \in DOMAIN servers : servers[i].name = n}
      like  == {i \in DOMAIN servers : IsPart(n, servers[i].name) \/ IsPart(servers[i].name, n)}
  IN IF exact # {} THEN servers[Min(exact)]
     ELSE IF Cardinality(like) = 1 THEN servers[Min(like)] ELSE NoServer

\* Mutant: the subscription is not looked at.
MatchByName(n, sub, servers) == ByName(n, servers)

\* match_server: in its own subscription first.
MatchServer(n, sub, servers) ==
  LET own  == Only(servers, {s \in Range(servers) : s.sub = sub})
      mine == IF sub # NoServer /\ own # <<>> THEN ByName(n, own) ELSE NoServer
  IN IF mine # NoServer THEN mine ELSE ByName(n, servers)

-----------------------------------------------------------------------------
(* HappProvider.connections.                                               *)

\* Mutant: the record's name is believed, its subscription is not.
ActiveNameOnly ==
  [name |-> IF record # NoServer THEN record.name ELSE IF gui.runs THEN gui.last ELSE NoServer,
   sub |-> NoServer]

\* The keeper's record, or else what a GUI that runs last connected to.
ActiveName ==
  IF record # NoServer THEN record
  ELSE [name |-> IF gui.runs THEN gui.last ELSE NoServer, sub |-> NoServer]

Neutral == [name |-> NoServer, sub |-> NoServer, active |-> TRUE]

\* An interface, or a process in a list that is up to three seconds old.
IsActive == tunnel.by # "nobody" \/ procs = "cached"

\* The server rows; a neutral row when the tunnel is up and nobody knows whose it
\* is.  Without servers one row with the GUI's last name.
MenuRows ==
  LET servers == AllServers
      matched == IF IsActive /\ ActiveName.name # NoServer
                 THEN MatchServer(ActiveName.name, ActiveName.sub, servers) ELSE NoServer
      listed == [i \in DOMAIN servers |->
                   [name |-> servers[i].name, sub |-> servers[i].sub,
                    active |-> servers[i] = matched]]
  IN IF servers = <<>> THEN <<[name |-> gui.last, sub |-> NoServer, active |-> IsActive]>>
     ELSE IF IsActive /\ matched = NoServer THEN <<Neutral>> \o listed ELSE listed

-----------------------------------------------------------------------------

Identity(r) == [name |-> r.name, sub |-> r.sub]
ListedIn(ls) == {Identity(s) : s \in Range(ServersOf(ls))}
Listed == ListedIn(lists)

\* A background worker writes a subscription's cache.
RefreshList(sub, l) ==
  /\ refreshes < MaxRefresh
  /\ refreshes' = refreshes + 1
  /\ lists' = [lists EXCEPT ![sub] = l]
  /\ UNCHANGED <<captured, tunnel, procs, record, pending, gui, rows, clicked, clicks>>
  /\ left' = IF rows = <<>> /\ pending = NoServer THEN left
             ELSE left \cup (Listed \ ListedIn(lists'))

OpenMenu ==
  /\ rows = <<>> /\ pending = NoServer
  /\ rows' = MenuRows
  /\ clicked' = NoServer
  /\ left' = {Identity(r) : r \in Range(rows')} \ Listed
  /\ UNCHANGED <<lists, captured, tunnel, procs, record, pending, gui, refreshes, clicks>>

\* A status tick or a menu asks happd while the tunnel is up, and keeps the list.
ReaderLists ==
  /\ tunnel # Nobody /\ procs = "none"
  /\ procs' = "listed"
  /\ UNCHANGED <<lists, captured, tunnel, record, pending, gui, refreshes, menuVars>>

ReaderCaches ==
  /\ procs = "listed"
  /\ procs' = "cached"
  /\ UNCHANGED <<lists, captured, tunnel, record, pending, gui, refreshes, menuVars>>

\* It is too old, or dropped by a menu whose wait for a keeper has ended.
CacheGoes ==
  /\ procs = "cached"
  /\ procs' = "none"
  /\ UNCHANGED <<lists, captured, tunnel, record, pending, gui, refreshes, menuVars>>

\* Who stops the tunnel drops the cache.
StopTunnel ==
  /\ tunnel' = Nobody
  /\ procs' = IF tunnel # Nobody /\ procs = "cached" THEN "none" ELSE procs

\* HappProvider.connect: look the row up, stop what runs, spawn a keeper with the
\* name that was found and the row's subscription.
Click(i) ==
  LET r == rows[i]
      found == MatchServer(r.name, r.sub, AllServers)
  IN /\ clicks < MaxClicks /\ i \in DOMAIN rows /\ ~r.active
     /\ clicks' = clicks + 1
     /\ rows' = <<>>
     /\ IF found = NoServer THEN UNCHANGED <<tunnel, procs, record, pending, clicked>>
        ELSE /\ StopTunnel /\ record' = NoServer
             /\ pending' = [name |-> found.name, sub |-> r.sub]
             /\ clicked' = r
     /\ UNCHANGED <<lists, captured, gui, left, refreshes>>

Disconnect ==
  /\ rows # <<>>
  /\ StopTunnel /\ record' = NoServer
  /\ rows' = <<>>
  /\ UNCHANGED <<lists, captured, pending, gui, clicked, left, refreshes, clicks>>

\* run_keeper looks the name up again; happd starts its xray.
KeeperResolves ==
  LET found == MatchServer(pending.name, pending.sub, AllServers)
  IN /\ pending # NoServer /\ tunnel.by # "keeper"
     /\ IF found = NoServer THEN pending' = NoServer /\ UNCHANGED tunnel
        ELSE tunnel' = [by |-> "keeper", to |-> found] /\ UNCHANGED pending
     /\ UNCHANGED <<lists, captured, procs, record, gui, refreshes, menuVars>>

KeeperRecords ==
  /\ pending # NoServer /\ tunnel.by = "keeper"
  /\ record' = pending
  /\ pending' = NoServer
  /\ UNCHANGED <<lists, captured, tunnel, procs, gui, refreshes, menuVars>>

\* Killed: happd stops its xray, the record stays.
KeeperCrashes ==
  /\ tunnel.by = "keeper"
  /\ tunnel' = Nobody
  /\ pending' = NoServer
  /\ UNCHANGED <<lists, captured, procs, record, gui, refreshes, menuVars>>

\* The GUI remembers the name, or the part of it without the emoji.
GuiConnects ==
  /\ tunnel = Nobody /\ pending = NoServer
  /\ \E s \in Range(AllServers), last \in ServerNames :
       /\ IsPart(last, s.name)
       /\ tunnel' = [by |-> "gui", to |-> s]
       /\ gui' = [runs |-> TRUE, last |-> last]
  /\ UNCHANGED <<lists, captured, procs, record, pending, refreshes, menuVars>>

GuiQuits ==
  /\ gui.runs
  /\ gui' = [gui EXCEPT !.runs = FALSE]
  /\ tunnel' = IF tunnel.by = "gui" THEN Nobody ELSE tunnel
  /\ UNCHANGED <<lists, captured, procs, record, pending, refreshes, menuVars>>

HappServersInit ==
  /\ lists \in [Range(SubIds) -> Lists] /\ captured \in Captures
  /\ tunnel = Nobody /\ procs = "none" /\ record = NoServer /\ pending = NoServer
  /\ gui \in [runs : {FALSE}, last : ServerNames]
  /\ rows = <<>> /\ clicked = NoServer /\ left = {}
  /\ refreshes = 0 /\ clicks = 0

HappServersNext ==
  \/ \E sub \in Range(SubIds), l \in Lists : RefreshList(sub, l)
  \/ ReaderLists \/ ReaderCaches \/ CacheGoes
  \/ OpenMenu \/ Disconnect
  \/ KeeperResolves \/ KeeperRecords \/ KeeperCrashes
  \/ GuiConnects \/ GuiQuits
  \/ \E i \in DOMAIN rows : Click(i)

HappServersSpec == HappServersInit /\ [][HappServersNext]_serverVars

-----------------------------------------------------------------------------

\* Two lookups lie between a click and the tunnel, and the lists may change before
\* each: the tunnel goes to the row's own server in its own subscription, however
\* its name resembles others, unless that server was off the list meanwhile.
ClickReachesItsRow ==
  clicked # NoServer /\ tunnel.by = "keeper" =>
    \/ Identity(tunnel.to) = Identity(clicked)
    \/ Identity(clicked) \in left

\* One row is active while there is a tunnel or a list of processes says so, and
\* none otherwise.  While a keeper runs the tunnel that its record says and the
\* server is on the list, it is that row.  For a tunnel of the GUI only the name is
\* known: the active row's is the same, or a part of the other.  Of a tunnel that
\* has ended, the row shown for three seconds more is the record's; and when nobody
\* knows whose the tunnel is or was, no server's.  The record of a keeper that was
\* killed still counts when the GUI connects: the row may then be a wrong one.
ActiveRowIsTheTunnel ==
  LET active == {r \in Range(MenuRows) : r.active}
      Alike(r) == IsPart(r.name, tunnel.to.name) \/ IsPart(tunnel.to.name, r.name)
  IN /\ Cardinality(active) = IF tunnel = Nobody /\ procs # "cached" THEN 0 ELSE 1
     /\ tunnel.by = "keeper" /\ Identity(tunnel.to) = record /\ record \in Listed =>
          {Identity(r) : r \in active} = {record}
     /\ tunnel.by = "gui" /\ record = NoServer /\ Identity(tunnel.to) \in Listed =>
          \A r \in active : r = Neutral \/ Alike(r)
     /\ tunnel = Nobody /\ record \in Listed => {Identity(r) : r \in active} \subseteq {record}
     /\ record = NoServer /\ ~gui.runs /\ Listed # {} => active \subseteq {Neutral}
=============================================================================
