----------------------------- MODULE HappProofs -----------------------------
(***************************************************************************)
(* Theorems about what the Happ provider does without a guard: which       *)
(* server a name means (HappServers), what xray is run with (HappConfig)   *)
(* and which urls the subscriptions have (HappLog).                        *)
(***************************************************************************)
EXTENDS HappServers, HappConfig, HappLog, FiniteSetTheorems, SequenceTheorems, ListProofs

-----------------------------------------------------------------------------
(* The list of all servers.                                                *)

ListType == Seq([name : ServerNames, addr : Addresses])

LEMMA OfIsASequence ==
  ASSUME NEW sub \in Subs, NEW list \in ListType
  PROVE  /\ Of(sub, list) \in Seq(ServerSet)
         /\ Len(Of(sub, list)) = Len(list)
         /\ \A i \in DOMAIN list : Of(sub, list)[i] = [name |-> list[i].name, sub |-> sub, addr |-> list[i].addr]
         /\ \A s \in Range(Of(sub, list)) : s.sub = sub
<1>1. /\ DOMAIN list = 1..Len(list) /\ Len(list) \in Nat
      /\ \A i \in 1..Len(list) : list[i].name \in ServerNames /\ list[i].addr \in Addresses
  <2> DEFINE E == [name : ServerNames, addr : Addresses]
  <2>1. \A e \in E : e.name \in ServerNames /\ e.addr \in Addresses
    OBVIOUS
  <2>2. list \in Seq(E)
    BY DEF ListType
  <2> HIDE DEF E
  <2>3. \A i \in 1..Len(list) : list[i] \in E
    BY <2>2
  <2> QED BY <2>1, <2>2, <2>3
<1> DEFINE r == Of(sub, list)
<1>2. r = [i \in 1..Len(list) |-> [name |-> list[i].name, sub |-> sub, addr |-> list[i].addr]]
  BY <1>1 DEF Of
<1> HIDE DEF r
<1>3. \A i \in 1..Len(list) : r[i] \in ServerSet /\ r[i].sub = sub
  BY <1>1, <1>2 DEF ServerSet
<1>4. r \in [1..Len(list) -> ServerSet]
  BY <1>2, <1>3
<1>5. r \in Seq(ServerSet) /\ Len(r) = Len(list)
  BY <1>1, <1>4
<1> QED BY <1>1, <1>2, <1>3, <1>5 DEF r, Range

\* The cached lists are of the kind subscriptions have.
ListsOK == lists \in [Range(SubIds) -> Lists] /\ captured \in Captures

LEMMA ListsAre ==
  ASSUME ListsOK
  PROVE  /\ \A i \in 1..Len(SubIds) : SubIds[i] \in Subs /\ lists[SubIds[i]] \in ListType
         /\ captured \in ListType /\ Len(SubIds) \in Nat
<1>1. Lists \cup Captures \subseteq ListType
  BY HappServersAssumption DEF ListType
<1>2. SubIds \in Seq(Range(SubIds))
  BY HappServersAssumption
<1>3. \A i \in 1..Len(SubIds) : SubIds[i] \in Range(SubIds)
  BY <1>2 DEF Range
<1>4. Len(SubIds) \in Nat
  BY <1>2
<1> QED BY <1>1, <1>3, <1>4 DEF ListsOK, Subs

\* The recursive function inside Subscribed.
SubscribedUpTo ==
  LET upTo[i \in 0..Len(SubIds)] ==
        IF i = 0 THEN <<>> ELSE upTo[i - 1] \o Of(SubIds[i], lists[SubIds[i]])
  IN upTo

\* The servers of the subscriptions, each under one of them.
LEMMA SubscribedIs ==
  ASSUME ListsOK
  PROVE  Subscribed(lists) \in Seq(ServerSet) /\ \A s \in Range(Subscribed(lists)) : s.sub \in Range(SubIds)
<1> DEFINE N == Len(SubIds)
           A == Seq({s \in ServerSet : s.sub \in Range(SubIds)})
           part(i) == Of(SubIds[i], lists[SubIds[i]])
           G == [n \in 1..N |-> [r \in A |-> r \o part(n)]]
           unfold(f) == [i \in 0..N |-> IF i = 0 THEN <<>> ELSE f[i - 1] \o part(i)]
<1>1. N \in Nat /\ <<>> \in A
  BY ListsAre
<1>2. ASSUME NEW n \in 1..N PROVE part(n) \in A
  <2>1. SubIds[n] \in Subs /\ lists[SubIds[n]] \in ListType /\ SubIds[n] \in Range(SubIds)
    <3>1. SubIds \in Seq(Range(SubIds))
      BY HappServersAssumption
    <3> QED BY <3>1, ListsAre DEF Range
  <2> DEFINE p == part(n)
  <2>2. p \in Seq(ServerSet) /\ \A s \in Range(p) : s.sub = SubIds[n]
    BY <2>1, OfIsASequence
  <2> HIDE DEF p
  <2>3. DOMAIN p = 1..Len(p) /\ Len(p) \in Nat
    BY <2>2
  <2>4. \A i \in 1..Len(p) : p[i] \in {s \in ServerSet : s.sub \in Range(SubIds)}
    BY <2>1, <2>2, <2>3 DEF Range
  <2>5. p \in A
    BY <2>2, <2>3, <2>4
  <2> QED BY <2>5 DEF p
<1>3. \A n \in 1..N, r \in A : r \o part(n) \in A
  <2> HIDE DEF part
  <2> QED BY <1>2
<1> HIDE DEF A, part, N
<1>4. G \in [1..N -> [A -> A]] /\ \A n \in 1..N, r \in A : G[n][r] = r \o part(n)
  BY <1>3
<1> HIDE DEF G
<1>5. PICK f : Recursion(f, N, A, <<>>, G)
  BY <1>1, <1>4, RecursionExists
<1>6. f \in [0..N -> A] /\ f[0] = <<>> /\ \A n \in 1..N : f[n] = G[n][f[n - 1]]
  BY <1>5 DEF Recursion
<1>7. \A i \in 0..N : f[i] = IF i = 0 THEN <<>> ELSE f[i - 1] \o part(i)
  <2> TAKE i \in 0..N
  <2>1. i = 0 \/ (i # 0 /\ i \in 1..N /\ i - 1 \in 0..N)
    BY <1>1
  <2> QED BY <1>4, <1>6, <2>1
<1>8. f = unfold(f)
  BY <1>6, <1>7
<1> DEFINE h == SubscribedUpTo
<1>9. h = unfold(h)
  <2>1. h = CHOOSE g : g = unfold(g)
    BY DEF SubscribedUpTo, N, part
  <2> HIDE DEF unfold, h
  <2> QED BY <1>8, <2>1
<1> HIDE DEF h
<1>10. \A i \in 0..N : h[i] = IF i = 0 THEN <<>> ELSE h[i - 1] \o part(i)
  BY <1>9
<1> DEFINE Bad == {i \in 0..N : h[i] \notin A}
<1>11. Bad = {}
  <2> SUFFICES ASSUME Bad # {} PROVE FALSE
    OBVIOUS
  <2>1. Bad \in SUBSET Nat
    OBVIOUS
  <2>2. PICK n \in Bad : \A k \in Bad : n <= k
    <3> HIDE DEF Bad
    <3> QED BY <2>1, LeastOne
  <2>3. n # 0
    BY <1>1, <1>10
  <2>4. n \in 1..N /\ n - 1 \in 0..N /\ n - 1 \notin Bad
    <3>1. n \in 1..N /\ n - 1 \in 0..N /\ ~(n <= n - 1)
      BY <1>1, <2>3
    <3> HIDE DEF Bad
    <3> QED BY <2>2, <3>1
  <2>5. h[n - 1] \in A
    BY <2>4
  <2>6. n \in 0..N /\ h[n] \notin A
    BY <2>2
  <2> HIDE DEF Bad
  <2>7. h[n] = h[n - 1] \o part(n)
    BY <1>10, <2>3, <2>6
  <2> QED BY <1>3, <2>4, <2>5, <2>6, <2>7
<1>12. Subscribed(lists) = h[N] /\ h[N] \in A
  <2>1. Subscribed(lists) = h[N]
    BY DEF Subscribed, SubscribedUpTo, h, N
  <2> QED BY <1>1, <1>11, <2>1
<1> QED
  <2> DEFINE r == Subscribed(lists)
  <2>1. r \in Seq({s \in ServerSet : s.sub \in Range(SubIds)})
    BY <1>12 DEF A
  <2> HIDE DEF r
  <2>2. \A i \in DOMAIN r : r[i] \in {s \in ServerSet : s.sub \in Range(SubIds)}
    BY <2>1
  <2>3. r \in Seq(ServerSet)
    BY <2>1
  <2> QED BY <2>2, <2>3 DEF r, Range

\* A server without a subscription has a name that no server of one has.
LEMMA AllServersAre ==
  ASSUME ListsOK
  PROVE  /\ AllServers \in Seq(ServerSet)
         /\ \A s, t \in Range(AllServers) : s.name = t.name /\ s.sub = NoServer => t.sub = NoServer
<1> DEFINE new == {e \in Range(captured) :
                     \A s \in Range(Subscribed(lists)) : s.name # e.name /\ s.addr # e.addr}
           extra == Only(captured, new)
           a == Subscribed(lists)
           b == Of(NoServer, extra)
<1>1. a \in Seq(ServerSet) /\ \A s \in Range(a) : s.sub \in Range(SubIds) /\ s.sub # NoServer
  BY SubscribedIs, HappServersAssumption
<1>2. extra \in ListType /\ \A i \in DOMAIN extra : extra[i] \in new
  <2>1. captured \in ListType
    BY ListsAre
  <2> HIDE DEF new
  <2>2. extra \in ListType
    BY <2>1, OnlyProperties DEF ListType
  <2>3. \A x : (\E i \in DOMAIN extra : extra[i] = x) => x \in new
    BY <2>1, OnlyProperties DEF ListType
  <2> HIDE DEF extra
  <2> QED BY <2>2, <2>3
<1>3. AllServers = a \o b
  BY DEF AllServers, ServersOf
<1>4. \A e \in new : \A s \in Range(a) : s.name # e.name
  OBVIOUS
<1> HIDE DEF new, extra
<1>5. /\ b \in Seq(ServerSet) /\ Len(b) = Len(extra)
      /\ \A i \in DOMAIN extra : b[i] = [name |-> extra[i].name, sub |-> NoServer, addr |-> extra[i].addr]
      /\ \A s \in Range(b) : s.sub = NoServer
  BY <1>2, OfIsASequence DEF Subs
<1>6. DOMAIN extra = 1..Len(extra) /\ DOMAIN b = 1..Len(b)
  BY <1>2, <1>5 DEF ListType
<1> HIDE DEF a, b
<1>7. \A t \in Range(b) : \A s \in Range(a) : s.name # t.name
  <2> TAKE t \in Range(b)
  <2>1. PICK i \in 1..Len(b) : t = b[i]
    BY <1>6 DEF Range
  <2>2. t.name = extra[i].name /\ extra[i] \in new
    BY <1>2, <1>5, <1>6, <2>1
  <2> QED BY <1>4, <2>2
<1>8. a \o b \in Seq(ServerSet) /\ Range(a \o b) = Range(a) \cup Range(b)
  BY <1>1, <1>5, RangeOfConcat
<1> QED BY <1>1, <1>3, <1>5, <1>7, <1>8

-----------------------------------------------------------------------------
(* What a name means.                                                      *)

\* The first of the servers with just this name, if there is one.
LEMMA ByNameExact ==
  ASSUME NEW servers \in Seq(ServerSet), NEW n, NEW s \in Range(servers), s.name = n
  PROVE  ByName(n, servers) \in Range(servers) /\ ByName(n, servers).name = n
<1> DEFINE exact == {i \in DOMAIN servers : servers[i].name = n}
<1>1. DOMAIN servers = 1..Len(servers)
  OBVIOUS
<1>2. exact \in SUBSET Nat /\ exact # {}
  BY <1>1 DEF Range
<1>3. ByName(n, servers) = servers[Min(exact)]
  BY <1>2, Zenon DEF ByName
<1>4. Min(exact) \in exact
  <2> HIDE DEF exact
  <2> QED BY <1>2, MinIsLeast
<1> QED BY <1>3, <1>4 DEF Range

\* Else nothing, or the only server alike.
LEMMA ByNameAlike ==
  ASSUME NEW servers \in Seq(ServerSet), NEW n, \A s \in Range(servers) : s.name # n
  PROVE  \/ ByName(n, servers) = NoServer
         \/ /\ ByName(n, servers) \in Range(servers)
            /\ \A s \in Range(servers) :
                 IsPart(n, s.name) \/ IsPart(s.name, n) => s = ByName(n, servers)
<1> DEFINE exact == {i \in DOMAIN servers : servers[i].name = n}
           like  == {i \in DOMAIN servers : IsPart(n, servers[i].name) \/ IsPart(servers[i].name, n)}
<1>1. exact = {}
  BY DEF Range
<1>2. DOMAIN servers = 1..Len(servers) /\ Len(servers) \in Nat
  OBVIOUS
<1>3. like \subseteq 1..Len(servers) /\ IsFiniteSet(like)
  <2>1. like \subseteq 1..Len(servers) /\ IsFiniteSet(1..Len(servers))
    BY <1>2, FS_Interval
  <2> HIDE DEF like
  <2> QED BY <2>1, FS_Subset
<1>4. ByName(n, servers) = IF Cardinality(like) = 1 THEN servers[Min(like)] ELSE NoServer
  BY <1>1, Zenon DEF ByName
<1>5. ASSUME NEW s \in Range(servers), IsPart(n, s.name) \/ IsPart(s.name, n)
      PROVE  \E i \in like : servers[i] = s
  BY <1>5 DEF Range
<1> HIDE DEF like
<1>6. CASE Cardinality(like) = 1
  <2>1. PICK i : like = {i}
    BY <1>3, <1>6, FS_Singleton
  <2>2. Min(like) = i /\ i \in 1..Len(servers)
    <3>1. like \in SUBSET Nat /\ like # {}
      BY <1>2, <1>3, <2>1
    <3> QED BY <1>3, <2>1, <3>1, MinIsLeast
  <2>3. ByName(n, servers) = servers[i]
    BY <1>4, <1>6, <2>2
  <2>4. servers[i] \in Range(servers)
    BY <1>2, <2>2 DEF Range
  <2> QED BY <1>5, <2>1, <2>3, <2>4
<1>7. CASE Cardinality(like) # 1
  BY <1>4, <1>7
<1> QED BY <1>6, <1>7

\* A server on the list is found by its name and subscription, though it may be
\* another of one name in one subscription.
LEMMA ListedIsFound ==
  ASSUME NEW servers \in Seq(ServerSet), NEW t \in Range(servers),
         \A r, s \in Range(servers) : r.name = s.name /\ r.sub = NoServer => s.sub = NoServer
  PROVE  /\ MatchServer(t.name, t.sub, servers) \in Range(servers)
         /\ Identity(MatchServer(t.name, t.sub, servers)) = Identity(t)
<1> DEFINE in  == {s \in Range(servers) : s.sub = t.sub}
           own == Only(servers, in)
           found == ByName(t.name, servers)
<1>1. found \in Range(servers) /\ found.name = t.name
  BY ByNameExact
<1>2. MatchServer(t.name, t.sub, servers) =
        IF t.sub # NoServer /\ own # <<>> /\ ByName(t.name, own) # NoServer
        THEN ByName(t.name, own) ELSE found
  BY DEF MatchServer
<1>3. own \in Seq(ServerSet) /\ \A x : (\E i \in DOMAIN own : own[i] = x)
                                          <=> x \in in /\ \E i \in DOMAIN servers : servers[i] = x
  <2> HIDE DEF in
  <2> QED BY OnlyProperties
<1>4. t \in in
  OBVIOUS
<1>5. \A s \in in : s \in Range(servers) /\ s.sub = t.sub
  OBVIOUS
<1> HIDE DEF in, own, found
<1>6. Range(own) \subseteq in /\ t \in Range(own)
  BY <1>3, <1>4 DEF Range
<1>7. CASE t.sub # NoServer
  <2>1. ByName(t.name, own) \in Range(own) /\ ByName(t.name, own).name = t.name
    BY <1>3, <1>6, ByNameExact
  <2>2. own # <<>>
    BY <1>6 DEF Range
  <2>3. ByName(t.name, own) # NoServer
    <3>1. ByName(t.name, own) \in ServerSet
      BY <1>3, <2>1 DEF Range
    <3> QED BY <3>1, HappServersAssumption
  <2>4. MatchServer(t.name, t.sub, servers) = ByName(t.name, own)
    BY <1>2, <1>7, <2>2, <2>3
  <2>5. ByName(t.name, own) \in Range(servers) /\ ByName(t.name, own).sub = t.sub
    BY <1>5, <1>6, <2>1
  <2> QED BY <2>1, <2>4, <2>5 DEF Identity
<1>8. CASE t.sub = NoServer
  <2>1. MatchServer(t.name, t.sub, servers) = found
    BY <1>2, <1>8
  <2>2. found.sub = NoServer
    BY <1>1, <1>8
  <2> QED BY <1>1, <1>8, <2>1, <2>2 DEF Identity
<1> QED BY <1>7, <1>8

\* Whatever is found is on the list.
LEMMA FoundIsListed ==
  ASSUME NEW servers \in Seq(ServerSet), NEW n, NEW sub
  PROVE  \/ MatchServer(n, sub, servers) = NoServer
         \/ MatchServer(n, sub, servers) \in Range(servers)
<1> DEFINE in  == {s \in Range(servers) : s.sub = sub}
           own == Only(servers, in)
<1>1. \A x \in {n} : \A q \in Seq(ServerSet) : ByName(x, q) = NoServer \/ ByName(x, q) \in Range(q)
  <2> TAKE x \in {n}
  <2> TAKE q \in Seq(ServerSet)
  <2>1. CASE \E s \in Range(q) : s.name = x
    BY <2>1, ByNameExact
  <2>2. CASE \A s \in Range(q) : s.name # x
    BY <2>2, ByNameAlike
  <2> QED BY <2>1, <2>2
<1>2. MatchServer(n, sub, servers) =
        IF sub # NoServer /\ own # <<>> /\ ByName(n, own) # NoServer
        THEN ByName(n, own) ELSE ByName(n, servers)
  BY DEF MatchServer
<1>3. own \in Seq(ServerSet) /\ \A x : (\E i \in DOMAIN own : own[i] = x)
                                          <=> x \in in /\ \E i \in DOMAIN servers : servers[i] = x
  <2> HIDE DEF in
  <2> QED BY OnlyProperties
<1> HIDE DEF own
<1>4. Range(own) \subseteq Range(servers)
  BY <1>3 DEF Range
<1> QED BY <1>1, <1>2, <1>3, <1>4

-----------------------------------------------------------------------------
(* The inductive invariant.  What a click waits for is the row it was made  *)
(* on, as long as that row's server has stayed on the list.                *)

RowSet == [name : ServerNames \cup {NoServer}, sub : Subs, active : BOOLEAN]

ServersTypeOK ==
  /\ ListsOK
  /\ tunnel = Nobody \/ (tunnel.by \in {"keeper", "gui"} /\ tunnel.to \in ServerSet)
  /\ procs \in {"none", "listed", "cached"}
  /\ record \in Ids \cup {NoServer} /\ pending \in Ids \cup {NoServer}
  /\ gui \in [runs : BOOLEAN, last : ServerNames]
  /\ rows \in Seq(RowSet)

\* The GUI's tunnel is the one whose name it remembers.
GuiTold == tunnel.by = "gui" => gui.runs /\ IsPart(gui.last, tunnel.to.name)

RowsListed ==
  /\ \A r \in Range(rows) : Identity(r) \in Listed \cup left
  /\ rows # <<>> => clicked = NoServer /\ pending = NoServer

ClickWaits ==
  clicked # NoServer /\ pending # NoServer =>
    \/ Identity(clicked) \in left
    \/ Identity(clicked) \in Listed /\ pending = Identity(clicked)

ServersInv == ServersTypeOK /\ GuiTold /\ RowsListed /\ ClickWaits /\ ClickReachesItsRow

LEMMA SameLists ==
  ASSUME lists' = lists, captured' = captured
  PROVE  AllServers' = AllServers /\ Listed' = Listed
<1>1. Subscribed(lists)' = Subscribed(lists)
  BY DEF Subscribed
<1>2. AllServers' = AllServers
  BY <1>1 DEF AllServers, ServersOf
<1> QED BY <1>2 DEF Listed, ListedIn, AllServers

LEMMA ServersInitEstablishesInv == HappServersInit => ServersInv
<1> SUFFICES ASSUME HappServersInit PROVE ServersInv
  OBVIOUS
<1>1. ServersTypeOK
  <2>1. gui \in [runs : BOOLEAN, last : ServerNames]
    BY DEF HappServersInit
  <2>2. rows \in Seq(RowSet)
    BY DEF HappServersInit
  <2> QED BY <2>1, <2>2 DEF HappServersInit, ServersTypeOK, ListsOK
<1>2. GuiTold /\ RowsListed /\ ClickWaits /\ ClickReachesItsRow
  BY DEF HappServersInit, GuiTold, RowsListed, ClickWaits, ClickReachesItsRow, Nobody, Range
<1> QED BY <1>1, <1>2 DEF ServersInv

\* The menu's rows: those of the servers, after a neutral one perhaps.
MenuMatch ==
  IF IsActive /\ ActiveName.name # NoServer
  THEN MatchServer(ActiveName.name, ActiveName.sub, AllServers) ELSE NoServer

MenuListed ==
  [i \in DOMAIN AllServers |-> [name |-> AllServers[i].name, sub |-> AllServers[i].sub,
                                active |-> AllServers[i] = MenuMatch]]

LEMMA MenuRowsAre ==
  ASSUME ServersTypeOK
  PROVE  /\ MenuRows \in Seq(RowSet)
         /\ \/ AllServers = <<>> /\ MenuRows = <<[name |-> gui.last, sub |-> NoServer, active |-> IsActive]>>
            \/ /\ AllServers # <<>> /\ IsActive /\ MenuMatch = NoServer
               /\ MenuRows = <<Neutral>> \o MenuListed
            \/ /\ AllServers # <<>> /\ ~(IsActive /\ MenuMatch = NoServer)
               /\ MenuRows = MenuListed
         /\ MenuListed \in Seq(RowSet)
         /\ DOMAIN MenuListed = DOMAIN AllServers
<1> DEFINE servers == AllServers
           up == IsActive
<1>1. servers \in Seq(ServerSet)
  BY AllServersAre DEF ServersTypeOK
<1>2. MenuRows = IF servers = <<>> THEN <<[name |-> gui.last, sub |-> NoServer, active |-> up]>>
                 ELSE IF up /\ MenuMatch = NoServer THEN <<Neutral>> \o MenuListed ELSE MenuListed
  BY DEF MenuRows, MenuMatch, MenuListed
<1>3. MenuListed \in Seq(RowSet) /\ DOMAIN MenuListed = DOMAIN servers
  <2> HIDE DEF servers
  <2>1. DOMAIN servers = 1..Len(servers) /\ Len(servers) \in Nat
    BY <1>1
  <2>2. \A i \in 1..Len(servers) : servers[i].name \in ServerNames /\ servers[i].sub \in Subs
    <3>1. \A s \in ServerSet : s.name \in ServerNames /\ s.sub \in Subs
      BY DEF ServerSet
    <3> QED BY <1>1, <3>1
  <2>3. MenuListed = [i \in 1..Len(servers) |-> [name |-> servers[i].name, sub |-> servers[i].sub,
                                                active |-> servers[i] = MenuMatch]]
    BY <2>1 DEF MenuListed, servers
  <2>4. \A i \in 1..Len(servers) : [name |-> servers[i].name, sub |-> servers[i].sub,
                                    active |-> servers[i] = MenuMatch] \in RowSet
    BY <2>2 DEF RowSet
  <2>5. MenuListed \in [1..Len(servers) -> RowSet]
    BY <2>3, <2>4
  <2> QED BY <2>1, <2>5
<1>4. Neutral \in RowSet
  BY DEF Neutral, RowSet, Subs
<1>5. [name |-> gui.last, sub |-> NoServer, active |-> up] \in RowSet
  BY DEF ServersTypeOK, RowSet, Subs, IsActive
<1> HIDE DEF servers, up
<1>6. MenuRows \in Seq(RowSet)
  BY <1>2, <1>3, <1>4, <1>5
<1> QED BY <1>2, <1>3, <1>6 DEF servers, up

-----------------------------------------------------------------------------
(* The steps.                                                              *)

\* A step that changes neither the lists nor what the menu waits for.
LEMMA OthersKeepInv ==
  ASSUME ServersInv, ServersTypeOK', GuiTold', ClickReachesItsRow',
         UNCHANGED <<lists, captured, rows, pending, clicked, left>>
  PROVE  ServersInv'
<1>1. Listed' = Listed
  BY SameLists
<1> QED BY <1>1 DEF ServersInv, RowsListed, ClickWaits, Identity

LEMMA RefreshListKeepsInv ==
  ASSUME NEW sub \in Range(SubIds), NEW l \in Lists, ServersInv, RefreshList(sub, l)
  PROVE  ServersInv'
<1>1. /\ lists' = [lists EXCEPT ![sub] = l]
      /\ left' = left \/ left' = left \cup (Listed \ Listed')
      /\ rows # <<>> \/ pending # NoServer => left' = left \cup (Listed \ Listed')
      /\ UNCHANGED <<captured, tunnel, procs, record, pending, gui, rows, clicked, clicks>>
  BY DEF RefreshList, Listed, ListedIn, ServersOf
<1>2. lists' \in [Range(SubIds) -> Lists]
  BY <1>1 DEF ServersInv, ServersTypeOK, ListsOK
<1>3. ServersTypeOK'
  BY <1>1, <1>2 DEF ServersInv, ServersTypeOK, ListsOK
<1>4. GuiTold'
  BY <1>1 DEF ServersInv, GuiTold, IsPart
<1>5. RowsListed'
  <2>1. RowsListed
    BY DEF ServersInv
  <2>2. CASE rows = <<>>
    BY <1>1, <2>2 DEF RowsListed, Range
  <2>3. CASE rows # <<>>
    BY <1>1, <2>1, <2>3 DEF RowsListed, Identity
  <2> QED BY <2>2, <2>3
<1>6. ClickWaits' /\ ClickReachesItsRow'
  BY <1>1 DEF ServersInv, ClickWaits, ClickReachesItsRow, Identity
<1> QED BY <1>3, <1>4, <1>5, <1>6 DEF ServersInv

LEMMA OpenMenuKeepsInv == ServersInv /\ OpenMenu => ServersInv'
<1> SUFFICES ASSUME ServersInv, OpenMenu PROVE ServersInv'
  OBVIOUS
<1>1. /\ rows' = MenuRows /\ clicked' = NoServer /\ pending = NoServer
      /\ left' = {Identity(r) : r \in Range(rows')} \ Listed
      /\ UNCHANGED <<lists, captured, tunnel, procs, record, pending, gui, refreshes, clicks>>
  BY DEF OpenMenu
<1>2. rows' \in Seq(RowSet)
  BY <1>1, MenuRowsAre DEF ServersInv
<1>3. Listed' = Listed
  BY <1>1, SameLists
<1>4. ServersTypeOK'
  BY <1>1, <1>2 DEF ServersInv, ServersTypeOK, ListsOK
<1>5. GuiTold'
  BY <1>1 DEF ServersInv, GuiTold, IsPart
<1>6. RowsListed'
  BY <1>1, <1>3 DEF RowsListed, Identity
<1>7. ClickWaits' /\ ClickReachesItsRow'
  BY <1>1 DEF ClickWaits, ClickReachesItsRow
<1> QED BY <1>4, <1>5, <1>6, <1>7 DEF ServersInv

LEMMA ReadersKeepInv == ServersInv /\ (ReaderLists \/ ReaderCaches \/ CacheGoes) => ServersInv'
<1> SUFFICES ASSUME ServersInv, ReaderLists \/ ReaderCaches \/ CacheGoes PROVE ServersInv'
  OBVIOUS
<1>1. /\ procs' \in {"none", "listed", "cached"}
      /\ UNCHANGED <<lists, captured, tunnel, record, pending, gui, rows, clicked, left>>
  BY DEF ReaderLists, ReaderCaches, CacheGoes, menuVars
<1>2. ServersTypeOK'
  BY <1>1 DEF ServersInv, ServersTypeOK, ListsOK
<1>3. GuiTold' /\ ClickReachesItsRow'
  BY <1>1 DEF ServersInv, GuiTold, IsPart, ClickReachesItsRow, Identity
<1> QED BY <1>1, <1>2, <1>3, OthersKeepInv

LEMMA StopTunnelIs ==
  ASSUME ServersTypeOK, StopTunnel
  PROVE  tunnel' = Nobody /\ procs' \in {"none", "listed", "cached"}
BY DEF StopTunnel, ServersTypeOK

\* The click looks the row up: if its server is on the list, it is found.
LEMMA LookupFinds ==
  ASSUME ServersTypeOK, NEW n, NEW sub, [name |-> n, sub |-> sub] \in Listed
  PROVE  /\ MatchServer(n, sub, AllServers) \in ServerSet
         /\ MatchServer(n, sub, AllServers).name = n
         /\ MatchServer(n, sub, AllServers).sub = sub
<1>1. AllServers \in Seq(ServerSet)
  BY AllServersAre DEF ServersTypeOK
<1>2. PICK t \in Range(AllServers) : Identity(t) = [name |-> n, sub |-> sub]
  BY DEF Listed, ListedIn, AllServers
<1>3. t.name = n /\ t.sub = sub
  BY <1>2 DEF Identity
<1> DEFINE found == MatchServer(n, sub, AllServers)
<1>4. found \in Range(AllServers) /\ Identity(found) = Identity(t)
  BY <1>1, <1>3, AllServersAre, ListedIsFound DEF ServersTypeOK
<1>5. found \in ServerSet
  BY <1>1, <1>4 DEF Range
<1> HIDE DEF found
<1>6. found.name = n /\ found.sub = sub
  BY <1>3, <1>4 DEF Identity
<1> QED BY <1>5, <1>6 DEF found

LEMMA LookupGives ==
  ASSUME ServersTypeOK, NEW n, NEW sub, MatchServer(n, sub, AllServers) # NoServer
  PROVE  /\ MatchServer(n, sub, AllServers) \in ServerSet
         /\ MatchServer(n, sub, AllServers).name \in ServerNames
<1>1. AllServers \in Seq(ServerSet)
  BY AllServersAre DEF ServersTypeOK
<1> DEFINE found == MatchServer(n, sub, AllServers)
<1>2. found \in Range(AllServers)
  BY <1>1, FoundIsListed
<1> HIDE DEF found
<1>3. found \in ServerSet
  BY <1>1, <1>2 DEF Range
<1>4. found.name \in ServerNames
  BY <1>3 DEF ServerSet
<1> QED BY <1>3, <1>4 DEF found

LEMMA ClickKeepsInv == ASSUME NEW i \in DOMAIN rows, ServersInv, Click(i) PROVE ServersInv'
<1> DEFINE r == rows[i]
           found == MatchServer(r.name, r.sub, AllServers)
<1>1. /\ rows' = <<>>
      /\ UNCHANGED <<lists, captured, gui, left, refreshes>>
      /\ IF found = NoServer THEN UNCHANGED <<tunnel, procs, record, pending, clicked>>
         ELSE /\ StopTunnel /\ record' = NoServer
              /\ pending' = [name |-> found.name, sub |-> r.sub]
              /\ clicked' = r
  BY DEF Click
<1>2. Listed' = Listed
  BY <1>1, SameLists
<1>3. r \in RowSet /\ r \in Range(rows) /\ rows # <<>>
  BY DEF ServersInv, ServersTypeOK, Range
<1>4. r.sub \in Subs
  BY <1>3 DEF RowSet
<1>5. clicked = NoServer /\ pending = NoServer
  BY <1>3 DEF ServersInv, RowsListed
<1>6. RowsListed'
  BY <1>1 DEF RowsListed, Range
<1>7. Identity(r) = [name |-> r.name, sub |-> r.sub] /\ Identity(r) \in Listed \cup left
  BY <1>3 DEF ServersInv, RowsListed, Identity
<1> HIDE DEF r
<1>8. found # NoServer => found.name \in ServerNames
  BY LookupGives DEF ServersInv
<1>9. Identity(r) \in Listed => found.name = r.name
  BY <1>7, LookupFinds DEF ServersInv
<1> HIDE DEF found
<1>10. rows' \in Seq(RowSet)
  BY <1>1
<1>11. CASE found = NoServer
  <2>1. UNCHANGED <<tunnel, procs, record, pending, clicked>>
    BY <1>1, <1>11
  <2>2. ServersTypeOK'
    BY <1>1, <1>10, <2>1 DEF ServersInv, ServersTypeOK, ListsOK
  <2>3. GuiTold'
    BY <1>1, <2>1 DEF ServersInv, GuiTold, IsPart
  <2>4. ClickWaits' /\ ClickReachesItsRow'
    BY <1>5, <2>1 DEF ClickWaits, ClickReachesItsRow
  <2> QED BY <1>6, <2>2, <2>3, <2>4 DEF ServersInv
<1>12. CASE found # NoServer
  <2>1. /\ tunnel' = Nobody /\ record' = NoServer
        /\ procs' \in {"none", "listed", "cached"}
        /\ pending' = [name |-> found.name, sub |-> r.sub] /\ clicked' = r
    BY <1>1, <1>12, StopTunnelIs DEF ServersInv
  <2>2. pending' \in Ids
    BY <1>4, <1>8, <1>12, <2>1 DEF Ids
  <2>3. ServersTypeOK'
    BY <1>1, <1>10, <2>1, <2>2 DEF ServersInv, ServersTypeOK, ListsOK
  <2>4. GuiTold' /\ ClickReachesItsRow'
    BY <2>1 DEF GuiTold, ClickReachesItsRow, Nobody
  <2>5. ClickWaits'
    <3>1. Identity(clicked)' = Identity(r)
      BY <2>1 DEF Identity
    <3>2. Identity(r) \in Listed => pending' = Identity(r)
      BY <1>7, <1>9, <2>1
    <3> QED BY <1>1, <1>2, <1>7, <3>1, <3>2 DEF ClickWaits
  <2> QED BY <1>6, <2>3, <2>4, <2>5 DEF ServersInv
<1> QED BY <1>11, <1>12

LEMMA ServersDisconnectKeepsInv == ServersInv /\ Disconnect => ServersInv'
<1> SUFFICES ASSUME ServersInv, Disconnect PROVE ServersInv'
  OBVIOUS
<1>1. /\ rows # <<>> /\ tunnel' = Nobody /\ record' = NoServer /\ rows' = <<>>
      /\ procs' \in {"none", "listed", "cached"}
      /\ UNCHANGED <<lists, captured, pending, gui, clicked, left, refreshes, clicks>>
  BY StopTunnelIs DEF Disconnect, ServersInv
<1>2. rows' \in Seq(RowSet)
  BY <1>1
<1>3. ServersTypeOK'
  BY <1>1, <1>2 DEF ServersInv, ServersTypeOK, ListsOK
<1>4. clicked = NoServer
  BY <1>1 DEF ServersInv, RowsListed
<1>5. GuiTold' /\ RowsListed' /\ ClickWaits' /\ ClickReachesItsRow'
  BY <1>1, <1>4 DEF GuiTold, RowsListed, ClickWaits, ClickReachesItsRow, Nobody, Range
<1> QED BY <1>3, <1>5 DEF ServersInv

LEMMA KeeperResolvesKeepsInv == ServersInv /\ KeeperResolves => ServersInv'
<1> SUFFICES ASSUME ServersInv, KeeperResolves PROVE ServersInv'
  OBVIOUS
<1> DEFINE found == MatchServer(pending.name, pending.sub, AllServers)
<1>1. /\ pending # NoServer
      /\ UNCHANGED <<lists, captured, procs, record, gui, refreshes, rows, clicked, left, clicks>>
      /\ IF found = NoServer THEN pending' = NoServer /\ UNCHANGED tunnel
         ELSE tunnel' = [by |-> "keeper", to |-> found] /\ UNCHANGED pending
  BY DEF KeeperResolves, menuVars
<1>2. Listed' = Listed
  BY <1>1, SameLists
<1>3. rows = <<>>
  BY <1>1 DEF ServersInv, RowsListed
<1>4. RowsListed'
  BY <1>1, <1>3 DEF RowsListed, Range
<1>5. found # NoServer => found \in ServerSet
  BY LookupGives DEF ServersInv
<1>6. pending = [name |-> pending.name, sub |-> pending.sub]
  BY <1>1 DEF ServersInv, ServersTypeOK, Ids
<1>7. pending \in Listed => found.name = pending.name /\ found.sub = pending.sub
  BY <1>6, LookupFinds DEF ServersInv
<1>8. ClickWaits
  BY DEF ServersInv
<1> HIDE DEF found
<1>9. CASE found = NoServer
  <2>1. pending' = NoServer /\ UNCHANGED tunnel
    BY <1>1, <1>9
  <2>2. ServersTypeOK' /\ GuiTold' /\ ClickReachesItsRow'
    BY <1>1, <2>1 DEF ServersInv, ServersTypeOK, ListsOK, GuiTold, IsPart, ClickReachesItsRow, Identity
  <2>3. ClickWaits'
    BY <2>1 DEF ClickWaits
  <2> QED BY <1>4, <2>2, <2>3 DEF ServersInv
<1>10. CASE found # NoServer
  <2>1. tunnel' = [by |-> "keeper", to |-> found] /\ UNCHANGED pending
    BY <1>1, <1>10
  <2>2. tunnel'.by = "keeper" /\ tunnel'.to = found /\ found \in ServerSet
    BY <1>5, <1>10, <2>1
  <2>3. ServersTypeOK'
    BY <1>1, <2>1, <2>2 DEF ServersInv, ServersTypeOK, ListsOK
  <2>4. GuiTold'
    BY <2>2 DEF GuiTold
  <2>5. ClickReachesItsRow'
    <3>1. clicked # NoServer => (\/ Identity(clicked) \in left
                                 \/ Identity(clicked) \in Listed /\ pending = Identity(clicked))
      BY <1>1, <1>8 DEF ClickWaits
    <3>2. pending \in Listed => Identity(found) = pending
      BY <1>6, <1>7 DEF Identity
    <3>3. Identity(tunnel.to)' = Identity(found) /\ Identity(clicked)' = Identity(clicked)
      BY <1>1, <2>2 DEF Identity
    <3> QED BY <1>1, <3>1, <3>2, <3>3 DEF ClickReachesItsRow
  <2>6. ClickWaits'
    BY <1>1, <1>2, <1>8, <2>1 DEF ClickWaits, Identity
  <2> QED BY <1>4, <2>3, <2>4, <2>5, <2>6 DEF ServersInv
<1> QED BY <1>9, <1>10

LEMMA KeeperRecordsKeepsInv == ServersInv /\ KeeperRecords => ServersInv'
<1> SUFFICES ASSUME ServersInv, KeeperRecords PROVE ServersInv'
  OBVIOUS
<1>1. /\ pending # NoServer /\ pending' = NoServer /\ record' = pending
      /\ UNCHANGED <<lists, captured, tunnel, procs, gui, refreshes, rows, clicked, left, clicks>>
  BY DEF KeeperRecords, menuVars
<1>2. ServersTypeOK' /\ GuiTold' /\ ClickReachesItsRow'
  BY <1>1 DEF ServersInv, ServersTypeOK, ListsOK, GuiTold, IsPart, ClickReachesItsRow, Identity
<1>3. rows = <<>>
  BY <1>1 DEF ServersInv, RowsListed
<1>4. RowsListed' /\ ClickWaits'
  BY <1>1, <1>3 DEF RowsListed, ClickWaits, Range
<1> QED BY <1>2, <1>4 DEF ServersInv

LEMMA KeeperCrashesKeepsInv == ServersInv /\ KeeperCrashes => ServersInv'
<1> SUFFICES ASSUME ServersInv, KeeperCrashes PROVE ServersInv'
  OBVIOUS
<1>1. /\ tunnel' = Nobody /\ pending' = NoServer
      /\ UNCHANGED <<lists, captured, procs, record, gui, refreshes, rows, clicked, left, clicks>>
  BY DEF KeeperCrashes, menuVars
<1>2. ServersTypeOK' /\ GuiTold' /\ ClickReachesItsRow'
  BY <1>1 DEF ServersInv, ServersTypeOK, ListsOK, GuiTold, ClickReachesItsRow, Nobody
<1>3. Listed' = Listed
  BY <1>1, SameLists
<1>4. RowsListed' /\ ClickWaits'
  BY <1>1, <1>3 DEF ServersInv, RowsListed, ClickWaits, Identity
<1> QED BY <1>2, <1>4 DEF ServersInv

LEMMA GuiConnectsKeepsInv == ServersInv /\ GuiConnects => ServersInv'
<1> SUFFICES ASSUME ServersInv, GuiConnects PROVE ServersInv'
  OBVIOUS
<1>1. PICK s \in Range(AllServers), last \in ServerNames :
        /\ IsPart(last, s.name)
        /\ tunnel' = [by |-> "gui", to |-> s] /\ gui' = [runs |-> TRUE, last |-> last]
  BY DEF GuiConnects
<1>2. UNCHANGED <<lists, captured, procs, record, pending, refreshes, rows, clicked, left, clicks>>
  BY DEF GuiConnects, menuVars
<1>3. s \in ServerSet
  <2>1. AllServers \in Seq(ServerSet)
    BY AllServersAre DEF ServersInv, ServersTypeOK
  <2> QED BY <2>1 DEF Range
<1>4. tunnel'.by = "gui" /\ tunnel'.to = s /\ gui'.runs /\ gui'.last = last
      /\ gui' \in [runs : BOOLEAN, last : ServerNames]
  BY <1>1
<1>5. ServersTypeOK'
  BY <1>2, <1>3, <1>4 DEF ServersInv, ServersTypeOK, ListsOK
<1>6. GuiTold' /\ ClickReachesItsRow'
  BY <1>1, <1>4 DEF GuiTold, IsPart, ClickReachesItsRow
<1> QED BY <1>2, <1>5, <1>6, OthersKeepInv

LEMMA GuiQuitsKeepsInv == ServersInv /\ GuiQuits => ServersInv'
<1> SUFFICES ASSUME ServersInv, GuiQuits PROVE ServersInv'
  OBVIOUS
<1>1. /\ gui' = [gui EXCEPT !.runs = FALSE]
      /\ tunnel' = IF tunnel.by = "gui" THEN Nobody ELSE tunnel
      /\ UNCHANGED <<lists, captured, procs, record, pending, refreshes, rows, clicked, left, clicks>>
  BY DEF GuiQuits, menuVars
<1>2. gui' \in [runs : BOOLEAN, last : ServerNames]
  BY <1>1 DEF ServersInv, ServersTypeOK
<1>3. tunnel' = Nobody \/ (tunnel' = tunnel /\ tunnel.by # "gui")
  BY <1>1
<1>4. ServersTypeOK'
  BY <1>1, <1>2, <1>3 DEF ServersInv, ServersTypeOK, ListsOK
<1>5. GuiTold' /\ ClickReachesItsRow'
  BY <1>1, <1>3 DEF ServersInv, GuiTold, ClickReachesItsRow, Nobody, Identity
<1> QED BY <1>1, <1>4, <1>5, OthersKeepInv

LEMMA ServersStepKeepsInv == ServersInv /\ [HappServersNext]_serverVars => ServersInv'
<1> SUFFICES ASSUME ServersInv, [HappServersNext]_serverVars PROVE ServersInv'
  OBVIOUS
<1>1. CASE HappServersNext
  BY <1>1, RefreshListKeepsInv, OpenMenuKeepsInv, ReadersKeepInv, ClickKeepsInv,
     ServersDisconnectKeepsInv, KeeperResolvesKeepsInv, KeeperRecordsKeepsInv,
     KeeperCrashesKeepsInv, GuiConnectsKeepsInv, GuiQuitsKeepsInv
     DEF HappServersNext
<1>2. CASE UNCHANGED serverVars
  <2>1. UNCHANGED <<lists, captured, tunnel, procs, record, pending, gui, rows, clicked, left>>
    BY <1>2 DEF serverVars, menuVars
  <2>2. ServersTypeOK' /\ GuiTold' /\ ClickReachesItsRow'
    BY <2>1 DEF ServersInv, ServersTypeOK, ListsOK, GuiTold, IsPart, ClickReachesItsRow, Identity
  <2> QED BY <2>1, <2>2, OthersKeepInv
<1> QED BY <1>1, <1>2

THEOREM HappServersInvariant == HappServersSpec => []ServersInv
BY ServersInitEstablishesInv, ServersStepKeepsInv, PTL DEF HappServersSpec

\* A click ends at the row's own server in its own subscription, for any names
\* and any lists that change between the two lookups, unless that server was off
\* the list meanwhile (happ.py HappProvider.connect, happmeta.match_server).
THEOREM ClicksReachTheirRows == HappServersSpec => []ClickReachesItsRow
<1>1. ServersInv => ClickReachesItsRow
  BY DEF ServersInv
<1> QED BY <1>1, HappServersInvariant, PTL

-----------------------------------------------------------------------------
(* The active row.                                                         *)

ActiveRows == {r \in Range(MenuRows) : r.active}

\* The rows of the servers that are active are those of the match.
LEMMA ActiveListed ==
  ASSUME ServersTypeOK
  PROVE  /\ \A r \in Range(MenuListed) : r.active =>
              MenuMatch \in Range(AllServers)
              /\ r = [name |-> MenuMatch.name, sub |-> MenuMatch.sub, active |-> TRUE]
         /\ MenuMatch \in Range(AllServers) =>
              \E r \in Range(MenuListed) :
                r = [name |-> MenuMatch.name, sub |-> MenuMatch.sub, active |-> TRUE]
<1>1. AllServers \in Seq(ServerSet)
  BY AllServersAre DEF ServersTypeOK
<1>2. \A i \in DOMAIN AllServers :
        MenuListed[i] = [name |-> AllServers[i].name, sub |-> AllServers[i].sub,
                         active |-> AllServers[i] = MenuMatch]
  BY DEF MenuListed
<1>3. DOMAIN MenuListed = DOMAIN AllServers
  BY DEF MenuListed
<1>4. ASSUME NEW r \in Range(MenuListed), r.active
      PROVE  /\ MenuMatch \in Range(AllServers)
             /\ r = [name |-> MenuMatch.name, sub |-> MenuMatch.sub, active |-> TRUE]
  <2>1. PICK i \in DOMAIN AllServers : r = MenuListed[i]
    BY <1>3 DEF Range
  <2>2. r = [name |-> AllServers[i].name, sub |-> AllServers[i].sub,
             active |-> AllServers[i] = MenuMatch]
    BY <1>2, <2>1
  <2>3. AllServers[i] = MenuMatch
    BY <1>4, <2>2
  <2> QED BY <2>2, <2>3 DEF Range
<1>5. ASSUME MenuMatch \in Range(AllServers)
      PROVE  [name |-> MenuMatch.name, sub |-> MenuMatch.sub, active |-> TRUE] \in Range(MenuListed)
  <2>1. PICK i \in DOMAIN AllServers : AllServers[i] = MenuMatch
    BY <1>5 DEF Range
  <2>2. MenuListed[i] = [name |-> MenuMatch.name, sub |-> MenuMatch.sub, active |-> TRUE]
    BY <1>2, <2>1
  <2> QED BY <1>3, <2>2 DEF Range
<1> QED BY <1>4, <1>5

\* With no match no row of a server is active.
LEMMA NoMatchNoRow ==
  ASSUME ServersTypeOK, MenuMatch = NoServer
  PROVE  \A r \in Range(MenuListed) : ~r.active
<1>1. NoServer \notin Range(AllServers)
  <2>1. AllServers \in Seq(ServerSet)
    BY AllServersAre DEF ServersTypeOK
  <2> QED BY <2>1, HappServersAssumption DEF Range
<1> QED BY <1>1, ActiveListed

LEMMA InactiveNoRow == ASSUME ServersTypeOK, ~IsActive PROVE ActiveRows = {}
<1>1. MenuMatch = NoServer
  BY DEF MenuMatch
<1>2. CASE AllServers = <<>>
  <2>1. MenuRows = <<[name |-> gui.last, sub |-> NoServer, active |-> IsActive]>>
    BY <1>2, MenuRowsAre
  <2> DEFINE row == [name |-> gui.last, sub |-> NoServer, active |-> IsActive]
  <2>2. MenuRows = <<row>> /\ ~row.active
    BY <2>1
  <2> HIDE DEF row
  <2>3. \A r \in Range(MenuRows) : r = row
    BY <2>2 DEF Range
  <2> QED BY <2>2, <2>3 DEF ActiveRows
<1>3. CASE AllServers # <<>>
  <2>1. MenuRows = MenuListed
    BY <1>3, MenuRowsAre
  <2> QED BY <1>1, <2>1, NoMatchNoRow DEF ActiveRows
<1> QED BY <1>2, <1>3

LEMMA MatchedRowOnly ==
  ASSUME ServersTypeOK, MenuMatch \in Range(AllServers)
  PROVE  ActiveRows = {[name |-> MenuMatch.name, sub |-> MenuMatch.sub, active |-> TRUE]}
<1>1. AllServers \in Seq(ServerSet)
  BY AllServersAre DEF ServersTypeOK
<1>2. MenuMatch # NoServer /\ AllServers # <<>>
  BY <1>1, HappServersAssumption DEF Range
<1>3. MenuRows = MenuListed
  BY <1>2, MenuRowsAre
<1> DEFINE row == [name |-> MenuMatch.name, sub |-> MenuMatch.sub, active |-> TRUE]
<1>4. row \in Range(MenuListed) /\ \A r \in Range(MenuListed) : r.active => r = row
  BY ActiveListed
<1>5. row.active
  OBVIOUS
<1> HIDE DEF row
<1>6. {r \in Range(MenuListed) : r.active} = {row}
  BY <1>4, <1>5
<1> QED BY <1>3, <1>6 DEF ActiveRows, row

LEMMA NeutralRowOnly ==
  ASSUME ServersTypeOK, MenuMatch = NoServer, IsActive, AllServers # <<>>
  PROVE  ActiveRows = {Neutral}
<1>1. MenuRows = <<Neutral>> \o MenuListed /\ MenuListed \in Seq(RowSet)
  BY MenuRowsAre
<1>2. Neutral \in RowSet /\ Neutral.active
  BY DEF Neutral, RowSet, Subs
<1>3. <<Neutral>> \in Seq(RowSet) /\ Range(<<Neutral>>) = {Neutral}
  BY <1>2 DEF Range
<1>4. Range(MenuRows) = {Neutral} \cup Range(MenuListed)
  <2> DEFINE first == <<Neutral>>
  <2>1. first \in Seq(RowSet) /\ Range(first) = {Neutral} /\ MenuRows = first \o MenuListed
    BY <1>1, <1>3
  <2> HIDE DEF first, RowSet, Neutral
  <2>2. Range(first \o MenuListed) = Range(first) \cup Range(MenuListed)
    BY <1>1, <2>1, RangeOfConcat
  <2> QED BY <2>1, <2>2
<1>5. \A r \in Range(MenuListed) : ~r.active
  BY NoMatchNoRow
<1> QED BY <1>2, <1>4, <1>5 DEF ActiveRows

LEMMA OneRow == ASSUME ServersTypeOK, IsActive PROVE Cardinality(ActiveRows) = 1
<1>1. AllServers \in Seq(ServerSet)
  BY AllServersAre DEF ServersTypeOK
<1>2. MenuMatch = NoServer \/ MenuMatch \in Range(AllServers)
  BY <1>1, FoundIsListed DEF MenuMatch
<1>3. CASE AllServers = <<>>
  <2> DEFINE row == [name |-> gui.last, sub |-> NoServer, active |-> IsActive]
  <2>1. MenuRows = <<row>> /\ row.active
    BY <1>3, MenuRowsAre
  <2> HIDE DEF row
  <2>2. Range(MenuRows) = {row}
    BY <2>1 DEF Range
  <2>3. ActiveRows = {row}
    BY <2>1, <2>2 DEF ActiveRows
  <2> QED BY <2>3, FS_Singleton
<1>4. CASE AllServers # <<>> /\ MenuMatch = NoServer
  <2>1. ActiveRows = {Neutral}
    BY <1>4, NeutralRowOnly
  <2> QED BY <2>1, FS_Singleton
<1>5. CASE MenuMatch \in Range(AllServers)
  <2>1. ActiveRows = {[name |-> MenuMatch.name, sub |-> MenuMatch.sub, active |-> TRUE]}
    BY <1>5, MatchedRowOnly
  <2> QED BY <2>1, FS_Singleton
<1> QED BY <1>2, <1>3, <1>4, <1>5

\* A record of a listed server decides.
LEMMA RecordsRow ==
  ASSUME ServersTypeOK, IsActive, record # NoServer, record \in Listed
  PROVE  {Identity(r) : r \in ActiveRows} = {record}
<1>1. record \in Ids
  BY DEF ServersTypeOK
<1>2. record = [name |-> record.name, sub |-> record.sub] /\ record.name \in ServerNames
  BY <1>1 DEF Ids
<1>3. record.name # NoServer
  BY <1>2, HappServersAssumption
<1>4. ActiveName = record
  BY DEF ActiveName
<1>5. MenuMatch = MatchServer(record.name, record.sub, AllServers)
  BY <1>3, <1>4 DEF MenuMatch
<1>6. MenuMatch \in ServerSet /\ MenuMatch.name = record.name /\ MenuMatch.sub = record.sub
  BY <1>2, <1>5, LookupFinds
<1>7. MenuMatch \in Range(AllServers)
  <2>1. AllServers \in Seq(ServerSet)
    BY AllServersAre DEF ServersTypeOK
  <2>2. MenuMatch # NoServer
    BY <1>6, HappServersAssumption
  <2> QED BY <1>5, <2>1, <2>2, FoundIsListed
<1>8. ActiveRows = {[name |-> record.name, sub |-> record.sub, active |-> TRUE]}
  BY <1>6, <1>7, MatchedRowOnly
<1>9. Identity([name |-> record.name, sub |-> record.sub, active |-> TRUE]) = record
  BY <1>2 DEF Identity
<1> QED BY <1>8, <1>9

\* Without a record and a GUI there is no name to look up.
LEMMA UnknownRow ==
  ASSUME ServersTypeOK, record = NoServer, ~gui.runs, Listed # {}
  PROVE  ActiveRows \subseteq {Neutral}
<1>1. ActiveName.name = NoServer
  BY DEF ActiveName
<1>2. MenuMatch = NoServer
  BY <1>1 DEF MenuMatch
<1>3. AllServers # <<>>
  BY DEF Listed, ListedIn, AllServers, Range
<1> QED BY <1>2, <1>3, InactiveNoRow, NeutralRowOnly

LEMMA GuisRow ==
  ASSUME ServersInv, tunnel.by = "gui", record = NoServer, Identity(tunnel.to) \in Listed
  PROVE  \A r \in ActiveRows : \/ r = Neutral
                              \/ IsPart(r.name, tunnel.to.name) \/ IsPart(tunnel.to.name, r.name)
<1>1. /\ ServersTypeOK /\ gui.runs /\ IsPart(gui.last, tunnel.to.name) /\ gui.last \in ServerNames
      /\ IsActive
  BY DEF ServersInv, GuiTold, ServersTypeOK, IsActive
<1>2. ActiveName.name = gui.last /\ ActiveName.sub = NoServer /\ gui.last # NoServer
  BY <1>1, HappServersAssumption DEF ActiveName
<1>3. MenuMatch = MatchServer(gui.last, NoServer, AllServers)
  BY <1>1, <1>2 DEF MenuMatch
<1>4. MenuMatch = ByName(gui.last, AllServers)
  BY <1>3 DEF MatchServer
<1>5. AllServers \in Seq(ServerSet)
  BY <1>1, AllServersAre DEF ServersTypeOK
<1>6. PICK t \in Range(AllServers) : t.name = tunnel.to.name
  <2>1. PICK t \in Range(AllServers) : Identity(tunnel.to) = Identity(t)
    BY DEF Listed, ListedIn, AllServers
  <2> QED BY <2>1 DEF Identity
<1>7. AllServers # <<>>
  BY <1>6 DEF Range
<1>8. CASE \E s \in Range(AllServers) : s.name = gui.last
  <2>1. MenuMatch \in Range(AllServers) /\ MenuMatch.name = gui.last
    BY <1>4, <1>5, <1>8, ByNameExact
  <2>2. ActiveRows = {[name |-> gui.last, sub |-> MenuMatch.sub, active |-> TRUE]}
    BY <1>1, <2>1, MatchedRowOnly
  <2>3. \A r \in ActiveRows : r.name = gui.last
    BY <2>2
  <2> QED BY <1>1, <2>3
<1>9. CASE \A s \in Range(AllServers) : s.name # gui.last
  <2>1. CASE MenuMatch = NoServer
    <3>1. ActiveRows = {Neutral}
      BY <1>1, <1>7, <2>1, NeutralRowOnly
    <3> QED BY <3>1
  <2>2. CASE MenuMatch # NoServer
    <3>1. MenuMatch \in Range(AllServers) /\ t = MenuMatch
      BY <1>1, <1>4, <1>5, <1>6, <1>9, <2>2, ByNameAlike
    <3>2. ActiveRows = {[name |-> tunnel.to.name, sub |-> MenuMatch.sub, active |-> TRUE]}
      BY <1>1, <1>6, <3>1, MatchedRowOnly
    <3>3. \A r \in ActiveRows : IsPart(r.name, tunnel.to.name)
      BY <3>2 DEF IsPart
    <3> QED BY <3>3
  <2> QED BY <2>1, <2>2
<1> QED BY <1>8, <1>9

\* For any names and lists, one row is active as long as there is a tunnel or a
\* cached list of processes says so, and none otherwise: that of the tunnel that a
\* keeper runs; for a tunnel of Happ's own window one of a name like its own or a
\* neutral one; for one that has ended the record's; and no server's row when
\* nobody knows whose it is (happ.py HappProvider.connections).
THEOREM TheActiveRowIsTheTunnel == HappServersSpec => []ActiveRowIsTheTunnel
<1>1. ServersInv => ActiveRowIsTheTunnel
  <2> SUFFICES ASSUME ServersInv PROVE ActiveRowIsTheTunnel
    OBVIOUS
  <2>1. ServersTypeOK
    BY DEF ServersInv
  <2>2. IsActive <=> ~(tunnel = Nobody /\ procs # "cached")
    BY <2>1 DEF IsActive, ServersTypeOK, Nobody
  <2>3. Cardinality(ActiveRows) = IF tunnel = Nobody /\ procs # "cached" THEN 0 ELSE 1
    <3>1. CASE IsActive
      BY <2>1, <2>2, <3>1, OneRow
    <3>2. CASE ~IsActive
      <4>1. ActiveRows = {}
        BY <2>1, <3>2, InactiveNoRow
      <4> QED BY <2>2, <3>2, <4>1, FS_EmptySet
    <3> QED BY <3>1, <3>2
  <2>4. ASSUME tunnel.by = "keeper", Identity(tunnel.to) = record, record \in Listed
        PROVE  {Identity(r) : r \in ActiveRows} = {record}
    <3>1. IsActive /\ record # NoServer
      <4>1. record.name \in ServerNames /\ record = [name |-> record.name, sub |-> record.sub]
                                          /\ record.sub \in Subs
        BY <2>1, <2>4 DEF ServersTypeOK, Nobody, ServerSet, Identity
      <4>2. record \in Ids
        BY <4>1 DEF Ids
      <4> QED BY <2>4, <4>2, HappServersAssumption DEF IsActive
    <3> QED BY <2>1, <2>4, <3>1, RecordsRow
  <2>5. ASSUME tunnel.by = "gui", record = NoServer, Identity(tunnel.to) \in Listed
        PROVE  \A r \in ActiveRows : \/ r = Neutral
                                    \/ IsPart(r.name, tunnel.to.name) \/ IsPart(tunnel.to.name, r.name)
    BY <2>5, GuisRow
  <2>6. ASSUME tunnel = Nobody, record \in Listed
        PROVE  {Identity(r) : r \in ActiveRows} \subseteq {record}
    <3>1. record # NoServer
      <4>1. AllServers \in Seq(ServerSet)
        BY <2>1, AllServersAre DEF ServersTypeOK
      <4>2. PICK t \in Range(AllServers) : record = Identity(t)
        BY <2>6 DEF Listed, ListedIn, AllServers
      <4>3. t \in ServerSet
        BY <4>1 DEF Range
      <4>4. record \in Ids
        BY <4>2, <4>3 DEF Identity, ServerSet, Ids
      <4> QED BY <4>4, HappServersAssumption
    <3>2. CASE IsActive
      BY <2>1, <2>6, <3>1, <3>2, RecordsRow
    <3>3. CASE ~IsActive
      BY <2>1, <3>3, InactiveNoRow
    <3> QED BY <3>2, <3>3
  <2>7. ASSUME record = NoServer, ~gui.runs, Listed # {} PROVE ActiveRows \subseteq {Neutral}
    BY <2>1, <2>7, UnknownRow
  <2> HIDE DEF ActiveRows
  <2> QED BY <2>3, <2>4, <2>5, <2>6, <2>7 DEF ActiveRowIsTheTunnel, ActiveRows
<1> QED BY <1>1, HappServersInvariant, PTL

-----------------------------------------------------------------------------
(* The configuration xray is run with.                                     *)

\* What is built is of the server the keeper was given.
ConfigInv ==
  /\ server \in Servers /\ tunnelDns \in BOOLEAN
  /\ built # NoBuild => built = [outbounds |-> Outbounds(server),
                                 rules |-> RoutingRules(server, tunnelDns),
                                 resolvers |-> Resolvers(server)]

THEOREM ConfigInvariant == ConfigSpec => []ConfigInv
<1>1. ConfigInit => ConfigInv
  BY DEF ConfigInit, ConfigInv
<1>2. ConfigInv /\ [ConfigNext]_configVars => ConfigInv'
  <2> SUFFICES ASSUME ConfigInv, [ConfigNext]_configVars PROVE ConfigInv'
    OBVIOUS
  <2>1. UNCHANGED <<server, tunnelDns>>
    BY DEF ConfigNext, Build, BuildAgain, configVars
  <2>2. built' = NoBuild \/ built' = built \/ Build
    BY DEF ConfigNext, BuildAgain, configVars
  <2>3. Build => built' = [outbounds |-> Outbounds(server),
                           rules |-> RoutingRules(server, tunnelDns),
                           resolvers |-> Resolvers(server)]
    BY DEF Build
  <2>4. /\ Outbounds(server)' = Outbounds(server) /\ Resolvers(server)' = Resolvers(server)
        /\ RoutingRules(server, tunnelDns)' = RoutingRules(server, tunnelDns)
    BY <2>1
  <2> HIDE DEF Outbounds, Resolvers, RoutingRules
  <2> QED BY <2>1, <2>2, <2>3, <2>4 DEF ConfigInv
<1> QED BY <1>1, <1>2, PTL DEF ConfigSpec

\* The first of the indices at which a list passes a test.
LEMMA FirstIndex ==
  ASSUME NEW S, NEW s \in Seq(S), NEW I \in SUBSET DOMAIN s, I # {}
  PROVE  Min(I) \in I /\ \A i \in I : Min(I) <= i
<1>1. I \in SUBSET Nat
  OBVIOUS
<1> QED BY <1>1, MinIsLeast

\* The tag of the first tagged proxy.
LEMMA FirstTagIs ==
  ASSUME NEW out \in Seq(OutboundSet), NEW else
  PROVE  \/ /\ \A i \in DOMAIN out : ~IsTaggedProxy(out[i])
            /\ FirstTag(out, else) = else
         \/ \E i \in DOMAIN out : IsTaggedProxy(out[i]) /\ FirstTag(out, else) = out[i].tag
<1> DEFINE I == Indices(out, IsTaggedProxy)
<1>1. I = {i \in DOMAIN out : IsTaggedProxy(out[i])}
  BY DEF Indices
<1>2. FirstTag(out, else) = IF I = {} THEN else ELSE out[Min(I)].tag
  BY DEF FirstTag
<1> HIDE DEF I
<1>3. I # {} => Min(I) \in I
  BY <1>1, FirstIndex
<1> QED BY <1>1, <1>2, <1>3

\* An outbound of the subscription in what xray is run with, and one of ours.
SameButMarked(o, p) == o.tag = p.tag /\ o.protocol = p.protocol
OneOfOurs(o) == \/ o.tag = "dns-direct" /\ o.protocol = "freedom"
                \/ o.tag = "dns-out" /\ o.protocol = "dns"
MarkedRightly(o) == o.marked <=> IsProxy(o) \/ o.tag = "dns-direct"

\* A place behind the first o of a list, and before the one at o + k.
LEMMA Between ==
  ASSUME NEW o \in Nat, NEW n \in Nat, NEW k \in Nat, NEW i \in Nat,
         i > o, i < o + k, k <= n
  PROVE  i - o \in 1..n /\ i - o < k /\ i = o + (i - o)
OBVIOUS

\* The same up to the end of a list of o, n and one elements.
LEMMA Behind ==
  ASSUME NEW o \in Nat, NEW n \in Nat, NEW i \in Nat, i > o, i < o + (n + 1)
  PROVE  i - o \in 1..n /\ i = o + (i - o)
OBVIOUS

\* A place in a list of n, one and m elements that is behind the first n + 1.
LEMMA Beyond ==
  ASSUME NEW n \in Nat, NEW m \in Nat, NEW l, l = n + 1, NEW i \in Nat, NEW all, all = l + m,
         i # n + 1, ~(1 <= i /\ i <= n), 1 <= i, i <= all
  PROVE  i - l \in 1..m /\ i = l + (i - l)
OBVIOUS

\* What is added to the outbounds of a subscription, and their marks.
LEMMA OutboundsAre ==
  ASSUME NEW s \in Servers
  PROVE  /\ Outbounds(s) \in Seq(OutboundSet) /\ Len(s.outbounds) <= Len(Outbounds(s))
         /\ \A i \in DOMAIN s.outbounds : SameButMarked(Outbounds(s)[i], s.outbounds[i])
         /\ \A i \in DOMAIN Outbounds(s) : i \in DOMAIN s.outbounds \/ OneOfOurs(Outbounds(s)[i])
         /\ \A i \in DOMAIN Outbounds(s) : MarkedRightly(Outbounds(s)[i])
<1> DEFINE tags == {s.outbounds[i].tag : i \in Indices(s.outbounds, IsTaggedProxy)}
           via == IF "proxy" \in tags THEN "proxy" ELSE FirstTag(s.outbounds, Unnamed)
           direct == [tag |-> "dns-direct", protocol |-> "freedom", host |-> Unnamed,
                      marked |-> TRUE, via |-> Unnamed]
           dns == [tag |-> "dns-out", protocol |-> "dns", host |-> Unnamed,
                   marked |-> FALSE, via |-> Unnamed]
           first == Indices(s.outbounds, LAMBDA o : o.protocol = "dns")
           more == IF first = {} THEN <<dns>> ELSE <<>>
           all == s.outbounds \o <<direct>> \o more
           dnsAt == Min(Indices(all, LAMBDA o : o.protocol = "dns"))
           final(i) == IF IsProxy(all[i]) THEN [all[i] EXCEPT !.marked = TRUE]
                       ELSE IF i = dnsAt /\ all[i].via = Unnamed THEN [all[i] EXCEPT !.via = via]
                       ELSE all[i]
<1>1. Outbounds(s) = [i \in DOMAIN all |-> final(i)]
  BY DEF Outbounds
<1>2. /\ s.outbounds \in Seq(OutboundSet)
      /\ \A i \in DOMAIN s.outbounds :
           /\ s.outbounds[i].tag # "dns-direct"
           /\ s.outbounds[i].protocol \in NonProxy => ~s.outbounds[i].marked
  BY ConfigAssumption
<1>3. via \in ConfigWords
  <2>1. FirstTag(s.outbounds, Unnamed) \in ConfigWords
    <3>1. \A i \in DOMAIN s.outbounds : s.outbounds[i] \in OutboundSet
      BY <1>2
    <3>2. \A i \in DOMAIN s.outbounds : s.outbounds[i].tag \in ConfigWords
      BY <3>1 DEF OutboundSet
    <3>3. \/ FirstTag(s.outbounds, Unnamed) = Unnamed
          \/ \E i \in DOMAIN s.outbounds : FirstTag(s.outbounds, Unnamed) = s.outbounds[i].tag
      BY <1>2, FirstTagIs
    <3> QED BY <3>2, <3>3, WordsAssumption
  <2> QED BY <2>1, WordsAssumption
<1>4. direct \in OutboundSet /\ dns \in OutboundSet /\ OneOfOurs(direct) /\ OneOfOurs(dns)
      /\ MarkedRightly(direct) /\ MarkedRightly(dns)
  <2>1. direct \in OutboundSet /\ dns \in OutboundSet
    BY WordsAssumption DEF OutboundSet
  <2>2. OneOfOurs(direct) /\ OneOfOurs(dns)
    BY DEF OneOfOurs
  <2>3. MarkedRightly(direct)
    BY DEF MarkedRightly
  <2>4. MarkedRightly(dns)
    BY DEF MarkedRightly, IsProxy, NonProxy
  <2> QED BY <2>1, <2>2, <2>3, <2>4
<1> HIDE DEF via, direct, dns, first
<1>5. more \in Seq(OutboundSet) /\ \A i \in DOMAIN more : more[i] = dns
  BY <1>4
<1> HIDE DEF more
<1>6. /\ all \in Seq(OutboundSet) /\ Len(s.outbounds) <= Len(all)
      /\ \A i \in DOMAIN s.outbounds : all[i] = s.outbounds[i]
      /\ \A i \in DOMAIN all : i \in DOMAIN s.outbounds \/ all[i] \in {direct, dns}
  <2> DEFINE a == s.outbounds \o <<direct>>
  <2>1. /\ a \in Seq(OutboundSet) /\ Len(a) = Len(s.outbounds) + 1
        /\ \A i \in 1..Len(s.outbounds) : a[i] = s.outbounds[i]
        /\ a[Len(s.outbounds) + 1] = direct
    BY <1>2, <1>4
  <2> HIDE DEF a
  <2>2. /\ a \o more \in Seq(OutboundSet) /\ Len(a \o more) = Len(a) + Len(more)
        /\ \A i \in 1..Len(a) : (a \o more)[i] = a[i]
        /\ \A i \in 1..Len(more) : (a \o more)[Len(a) + i] = more[i]
    <3>1. a \in Seq(OutboundSet) /\ more \in Seq(OutboundSet)
      BY <1>5, <2>1
    <3> QED BY <3>1
  <2>3. all = a \o more
    BY DEF a
  <2> HIDE DEF all
  <2>4. /\ DOMAIN all = 1..Len(all) /\ DOMAIN s.outbounds = 1..Len(s.outbounds)
        /\ DOMAIN more = 1..Len(more)
        /\ Len(s.outbounds) \in Nat /\ Len(more) \in Nat
    BY <1>2, <1>5, <2>2, <2>3
  <2>5. ASSUME NEW i \in 1..Len(all), i \notin 1..Len(s.outbounds) PROVE all[i] \in {direct, dns}
    <3>1. CASE i = Len(s.outbounds) + 1
      BY <2>1, <2>2, <2>3, <2>4, <3>1
    <3>2. CASE i # Len(s.outbounds) + 1
      <4>1. i - Len(a) \in 1..Len(more) /\ i = Len(a) + (i - Len(a))
        <5>1. /\ i \in Nat /\ i # Len(s.outbounds) + 1 /\ ~(1 <= i /\ i <= Len(s.outbounds))
              /\ 1 <= i /\ i <= Len(all)
          BY <2>2, <2>3, <2>4, <2>5, <3>2
        <5>2. /\ Len(all) = Len(a) + Len(more) /\ Len(a) = Len(s.outbounds) + 1
              /\ Len(s.outbounds) \in Nat /\ Len(more) \in Nat
          BY <2>1, <2>2, <2>3, <2>4
        <5> QED BY <5>1, <5>2, Beyond
      <4>2. all[i] = more[i - Len(a)]
        BY <2>2, <2>3, <4>1
      <4> QED BY <1>5, <2>4, <4>1, <4>2
    <3> QED BY <3>1, <3>2
  <2>6. \A i \in 1..Len(s.outbounds) : all[i] = s.outbounds[i]
    BY <2>1, <2>2, <2>3, <2>4
  <2>7. all \in Seq(OutboundSet) /\ Len(s.outbounds) <= Len(all)
    BY <2>1, <2>2, <2>3, <2>4
  <2> QED BY <2>4, <2>5, <2>6, <2>7
<1> HIDE DEF all, dnsAt
<1>7. ASSUME NEW i \in DOMAIN all
      PROVE  /\ final(i) \in OutboundSet /\ SameButMarked(final(i), all[i])
             /\ i \in DOMAIN s.outbounds \/ OneOfOurs(final(i))
             /\ MarkedRightly(final(i))
  <2> DEFINE o == all[i]
  <2>1. o \in OutboundSet
    BY <1>6
  <2>2. i \in DOMAIN s.outbounds => o = s.outbounds[i]
    BY <1>6
  <2>3. i \in DOMAIN s.outbounds \/ o \in {direct, dns}
    BY <1>6
  <2>4. IsProxy(o) \/ MarkedRightly(o)
    <3>1. CASE i \in DOMAIN s.outbounds
      BY <1>2, <2>2, <3>1 DEF MarkedRightly, IsProxy
    <3>2. CASE o \in {direct, dns}
      BY <1>4, <3>2
    <3> QED BY <2>3, <3>1, <3>2
  <2>5. OneOfOurs(o) => ~IsProxy(o)
    BY DEF OneOfOurs, IsProxy, NonProxy
  <2>6. i \in DOMAIN s.outbounds \/ OneOfOurs(o)
    BY <1>4, <2>3
  <2>7. final(i) = IF IsProxy(o) THEN [o EXCEPT !.marked = TRUE]
                   ELSE IF i = dnsAt /\ o.via = Unnamed THEN [o EXCEPT !.via = via] ELSE o
    OBVIOUS
  <2> HIDE DEF o, final
  <2>8. /\ final(i) \in OutboundSet /\ SameButMarked(final(i), o)
        /\ IsProxy(o) => final(i).marked = TRUE
        /\ ~IsProxy(o) => final(i).marked = o.marked
    BY <1>3, <2>1, <2>7 DEF OutboundSet, SameButMarked
  <2>9. OneOfOurs(o) => OneOfOurs(final(i))
    BY <2>8 DEF SameButMarked, OneOfOurs
  <2>10. MarkedRightly(final(i))
    BY <2>4, <2>8 DEF SameButMarked, MarkedRightly, IsProxy
  <2> QED BY <2>6, <2>8, <2>9, <2>10 DEF o
<1>8. /\ Outbounds(s) \in Seq(OutboundSet) /\ DOMAIN Outbounds(s) = DOMAIN all
      /\ Len(Outbounds(s)) = Len(all) /\ \A i \in DOMAIN all : Outbounds(s)[i] = final(i)
  <2> DEFINE r == Outbounds(s)
  <2>1. DOMAIN all = 1..Len(all) /\ Len(all) \in Nat
    BY <1>6
  <2>2. r \in [1..Len(all) -> OutboundSet] /\ \A i \in DOMAIN all : r[i] = final(i)
    <3>1. \A i \in DOMAIN all : final(i) \in OutboundSet
      BY <1>7
    <3> HIDE DEF final
    <3> QED BY <1>1, <2>1, <3>1
  <2> HIDE DEF r, final
  <2>3. r \in Seq(OutboundSet) /\ Len(r) = Len(all) /\ DOMAIN r = DOMAIN all
    BY <2>1, <2>2
  <2> QED BY <2>2, <2>3 DEF r
<1> HIDE DEF final
<1>9. \A i \in DOMAIN s.outbounds : i \in DOMAIN all /\ all[i] = s.outbounds[i]
  BY <1>2, <1>6
<1> QED BY <1>6, <1>7, <1>8, <1>9

\* A rule that matches a packet of an inbound.
Matches(r, from, hits) == (r.from = {} \/ from \in r.from) /\ (r.narrow => r.nr \in hits)

\* The first rule that matches is the way out.
LEMMA WayOutIs ==
  ASSUME NEW c, c.rules \in Seq(RuleSet), NEW from, NEW hits, NEW k \in DOMAIN c.rules,
         Matches(c.rules[k], from, hits),
         \A i \in DOMAIN c.rules : i < k => ~Matches(c.rules[i], from, hits)
  PROVE  WayOut(c, from, hits) = c.rules[k].to
<1> DEFINE I == {i \in DOMAIN c.rules : Matches(c.rules[i], from, hits)}
<1>1. WayOut(c, from, hits) = IF I = {} THEN c.outbounds[1].tag ELSE c.rules[Min(I)].to
  BY DEF WayOut, Indices, Matches
<1>2. I \in SUBSET DOMAIN c.rules /\ k \in I /\ \A i \in I : ~(i < k)
  OBVIOUS
<1> HIDE DEF I
<1>3. Min(I) \in I /\ Min(I) <= k
  BY <1>2, FirstIndex
<1>4. Min(I) \in Nat /\ k \in Nat
  BY <1>2, <1>3
<1>5. Min(I) = k
  BY <1>2, <1>3, <1>4
<1> QED BY <1>1, <1>2, <1>5

LEMMA WayOutOfNone ==
  ASSUME NEW c, NEW from, NEW hits, \A i \in DOMAIN c.rules : ~Matches(c.rules[i], from, hits)
  PROVE  WayOut(c, from, hits) = c.outbounds[1].tag
BY DEF WayOut, Indices, Matches

\* The rules of a subscription that are kept are rules of it.
LEMMA KeptAre == ASSUME NEW s \in Servers PROVE Kept(s) \in Seq(RuleSet)
<1>1. s.rules \in Seq(RuleSet)
  BY ConfigAssumption
<1> QED BY <1>1, OnlyProperties DEF Kept

\* Lookups go to a tag that no freedom outbound has, if a proxy has a tag.
LEMMA TunnelTargetIs ==
  ASSUME NEW s \in Servers
  PROVE  LET target == TunnelTarget(Kept(s), Outbounds(s))
         IN /\ target \in ConfigWords
            /\ (\E i \in DOMAIN s.outbounds : IsTaggedProxy(s.outbounds[i])) =>
                 target \notin TagsOf("freedom", Outbounds(s))
<1> DEFINE rules == Kept(s)
           out == Outbounds(s)
           I == {i \in DOMAIN rules : IsCatchAll(rules[i])}
           default == IF I = {} THEN CatchAll.to ELSE rules[Max(I)].to
           target == TunnelTarget(rules, out)
<1>1. target = IF default \in TagsOf("freedom", out) THEN FirstTag(out, default) ELSE default
  BY DEF TunnelTarget, Indices
<1>2. rules \in Seq(RuleSet) /\ out \in Seq(OutboundSet) /\ Len(s.outbounds) <= Len(out)
      /\ s.outbounds \in Seq(OutboundSet)
  BY KeptAre, OutboundsAre, ConfigAssumption
<1>3. \A i \in DOMAIN s.outbounds : i \in DOMAIN out /\ SameButMarked(out[i], s.outbounds[i])
  <2>1. DOMAIN s.outbounds \subseteq DOMAIN out
    BY <1>2
  <2> QED BY <2>1, OutboundsAre
<1>4. \A i \in DOMAIN out : i \in DOMAIN s.outbounds \/ OneOfOurs(out[i])
  BY OutboundsAre
<1> HIDE DEF rules, out
<1>5. default \in ConfigWords
  <2>1. CatchAll.to \in ConfigWords
    BY WordsAssumption DEF CatchAll, Rule
  <2>2. I # {} => Max(I) \in I
    <3>1. I \in SUBSET Nat /\ Len(rules) \in Nat /\ \A j \in I : j <= Len(rules)
      BY <1>2
    <3> HIDE DEF I
    <3> QED BY <3>1, MaxIsGreatest
  <2>3. \A i \in I : rules[i].to \in ConfigWords
    <3>1. \A i \in DOMAIN rules : rules[i] \in RuleSet
      BY <1>2
    <3> QED BY <3>1 DEF RuleSet
  <2> HIDE DEF I
  <2> QED BY <2>1, <2>2, <2>3
<1> HIDE DEF default, target
<1>6. \/ (\A i \in DOMAIN out : ~IsTaggedProxy(out[i])) /\ FirstTag(out, default) = default
      \/ \E i \in DOMAIN out : IsTaggedProxy(out[i]) /\ FirstTag(out, default) = out[i].tag
  BY <1>2, FirstTagIs
<1>7. \A i \in DOMAIN out : out[i].tag \in ConfigWords
  <2>1. \A i \in DOMAIN out : out[i] \in OutboundSet
    BY <1>2
  <2> QED BY <2>1 DEF OutboundSet
<1>8. target \in ConfigWords
  BY <1>1, <1>5, <1>6, <1>7
<1>9. ASSUME NEW i \in DOMAIN out, IsTaggedProxy(out[i]) PROVE out[i].tag \notin TagsOf("freedom", out)
  <2> SUFFICES ASSUME NEW j \in DOMAIN out, out[j].protocol = "freedom", out[j].tag = out[i].tag
               PROVE  FALSE
    BY DEF TagsOf, Range
  <2>1. out[i].protocol \notin NonProxy /\ out[i].tag # Unnamed
    BY <1>9 DEF IsTaggedProxy, IsProxy
  <2>2. i \in DOMAIN s.outbounds
    BY <1>4, <2>1 DEF OneOfOurs, NonProxy
  <2>3. s.outbounds[i].tag = out[i].tag /\ s.outbounds[i].tag # "dns-direct"
    BY <1>3, <2>2, ConfigAssumption DEF SameButMarked
  <2>4. j \in DOMAIN s.outbounds
    BY <1>4, <2>3 DEF OneOfOurs
  <2>5. s.outbounds[j].tag = s.outbounds[i].tag
    BY <1>3, <2>3, <2>4 DEF SameButMarked
  <2>6. i = j
    BY <2>1, <2>2, <2>3, <2>4, <2>5, ConfigAssumption
  <2> QED BY <2>1, <2>6 DEF NonProxy
<1>10. ASSUME NEW i \in DOMAIN s.outbounds, IsTaggedProxy(s.outbounds[i])
       PROVE  i \in DOMAIN out /\ IsTaggedProxy(out[i])
  BY <1>3, <1>10 DEF SameButMarked, IsTaggedProxy, IsProxy
<1>11. (\E i \in DOMAIN s.outbounds : IsTaggedProxy(s.outbounds[i])) => target \notin TagsOf("freedom", out)
  BY <1>1, <1>6, <1>9, <1>10
<1> QED BY <1>8, <1>11 DEF target, rules, out

\* The number of our rules before those of the subscription.
OursBefore(inTunnel) == IF inTunnel THEN 4 ELSE 3

\* The order of the rules: ours, what is kept of the subscription's, our catch-all.
LEMMA RulesAre ==
  ASSUME NEW s \in Servers, NEW inTunnel \in BOOLEAN
  PROVE  LET rules == RoutingRules(s, inTunnel)
             n == OursBefore(inTunnel)
         IN /\ rules \in Seq(RuleSet) /\ Len(rules) = n + Len(Kept(s)) + 1
            /\ rules[1] = SelfRule /\ rules[2] = BootRule /\ rules[3] = Port53
            /\ inTunnel => rules[4] = Rule({"dns-in"}, FALSE, TunnelTarget(Kept(s), Outbounds(s)))
            /\ \A i \in 1..Len(Kept(s)) : rules[n + i] = Kept(s)[i]
            /\ rules[n + Len(Kept(s)) + 1] = CatchAll
<1> DEFINE k == Kept(s)
           target == TunnelTarget(k, Outbounds(s))
           lookup == Rule({"dns-in"}, FALSE, target)
           n == OursBefore(inTunnel)
           a == <<SelfRule, BootRule, Port53>> \o LookupRules(s, inTunnel)
           rules == RoutingRules(s, inTunnel)
<1>1. k \in Seq(RuleSet) /\ target \in ConfigWords
  BY KeptAre, TunnelTargetIs
<1>2. rules = a \o k \o <<CatchAll>>
  BY DEF RoutingRules
<1>3. LookupRules(s, inTunnel) = IF inTunnel THEN <<lookup>> ELSE <<>>
  BY DEF LookupRules
<1> HIDE DEF k, target, rules
<1>4. /\ SelfRule \in RuleSet /\ BootRule \in RuleSet /\ Port53 \in RuleSet /\ CatchAll \in RuleSet
      /\ lookup \in RuleSet
  <2>1. \A from \in SUBSET ConfigWords, narrow \in BOOLEAN, to \in ConfigWords : Rule(from, narrow, to) \in RuleSet
    BY DEF Rule, RuleSet
  <2>2. lookup \in RuleSet
    BY <1>1, <2>1, WordsAssumption
  <2>3. SelfRule \in RuleSet /\ BootRule \in RuleSet
    BY <2>1, WordsAssumption DEF SelfRule, BootRule
  <2>4. Port53 \in RuleSet /\ CatchAll \in RuleSet
    BY <2>1, WordsAssumption DEF Port53, CatchAll
  <2> QED BY <2>2, <2>3, <2>4
<1> HIDE DEF lookup
<1>5. /\ a \in Seq(RuleSet) /\ Len(a) = n
      /\ a[1] = SelfRule /\ a[2] = BootRule /\ a[3] = Port53 /\ (inTunnel => a[4] = lookup)
  <2> DEFINE t == <<SelfRule, BootRule, Port53>>
  <2>1. t \in Seq(RuleSet) /\ Len(t) = 3 /\ t[1] = SelfRule /\ t[2] = BootRule /\ t[3] = Port53
    BY <1>4
  <2> HIDE DEF t
  <2>2. CASE inTunnel
    <3>1. a = t \o <<lookup>> /\ n = 4
      BY <1>3, <2>2 DEF t, OursBefore
    <3>2. <<lookup>> \in Seq(RuleSet) /\ Len(<<lookup>>) = 1 /\ <<lookup>>[1] = lookup
      BY <1>4
    <3> DEFINE u == <<lookup>>
    <3> HIDE DEF a, n, u
    <3>3. u \in Seq(RuleSet) /\ Len(u) = 1
      BY <3>2 DEF u
    <3>4. /\ t \o u \in Seq(RuleSet) /\ Len(t \o u) = 4 /\ (t \o u)[4] = u[1]
          /\ \A i \in 1..3 : (t \o u)[i] = t[i]
      <4>1. Len(t) = 3 /\ t \in Seq(RuleSet)
        BY <2>1
      <4>2. /\ t \o u \in Seq(RuleSet) /\ Len(t \o u) = Len(t) + Len(u)
            /\ \A i \in 1..(Len(t) + Len(u)) :
                 (t \o u)[i] = IF i <= Len(t) THEN t[i] ELSE u[i - Len(t)]
        BY <3>3, <4>1, ConcatProperties
      <4> QED BY <3>3, <4>1, <4>2
    <3>5. a = t \o u /\ u[1] = lookup
      BY <3>1, <3>2 DEF u
    <3> QED BY <2>1, <2>2, <3>1, <3>4, <3>5
  <2>3. CASE ~inTunnel
    <3>1. a = t /\ n = 3
      BY <1>3, <2>1, <2>3 DEF t, OursBefore
    <3> HIDE DEF a, n
    <3> QED BY <2>1, <2>3, <3>1
  <2> QED BY <2>2, <2>3
<1>6. n \in {3, 4} /\ (inTunnel => n = 4) /\ Len(k) \in Nat
  BY <1>1 DEF OursBefore
<1> HIDE DEF a, n
<1> DEFINE b == a \o k
<1>7. /\ b \in Seq(RuleSet) /\ Len(b) = n + Len(k)
      /\ \A i \in 1..n : b[i] = a[i]
      /\ \A i \in 1..Len(k) : b[n + i] = k[i]
  BY <1>1, <1>5, <1>6
<1>8. rules = b \o <<CatchAll>>
  BY <1>2
<1> HIDE DEF b
<1>9. /\ rules \in Seq(RuleSet) /\ Len(rules) = n + Len(k) + 1
      /\ \A i \in 1..(n + Len(k)) : rules[i] = b[i]
      /\ rules[n + Len(k) + 1] = CatchAll
  BY <1>4, <1>6, <1>7, <1>8
<1>10. \A i \in 1..n : rules[i] = a[i]
  BY <1>6, <1>7, <1>9
<1>11. rules[1] = SelfRule /\ rules[2] = BootRule /\ rules[3] = Port53 /\ (inTunnel => rules[4] = lookup)
  BY <1>5, <1>6, <1>10
<1>12. \A i \in 1..Len(k) : rules[n + i] = k[i]
  BY <1>6, <1>7, <1>9
<1> QED BY <1>9, <1>11, <1>12 DEF n, k, rules, lookup, target

\* A lookup of a server's name goes to the resolver that is added for it, by address.
LEMMA NamesAreAskedFromBoot ==
  ASSUME NEW s \in Servers, NEW c, c.resolvers = Resolvers(s)
  PROVE  LET names == HostNames(s.outbounds)
             boots == {r \in Range(c.resolvers) : r.tag = "dns-bootstrap"}
         IN /\ \A n \in names : AsksFor(c, n) = boots /\ \A r \in boots : r.addr = "ip"
            /\ \A r \in boots : r.only = names
<1> DEFINE names == HostNames(s.outbounds)
           boots == {r \in Range(c.resolvers) : r.tag = "dns-bootstrap"}
           theirs == s.resolvers
           boot == [addr |-> BootstrapResolver(theirs), only |-> names, tag |-> "dns-bootstrap"]
<1>1. theirs \in Seq(ResolverSet) /\ \A i \in DOMAIN theirs : theirs[i].tag # "dns-bootstrap"
  BY ConfigAssumption
<1>2. BootstrapResolver(theirs) = "ip"
  <2> DEFINE I == {i \in DOMAIN theirs : theirs[i].only = {} /\ theirs[i].addr = "ip"}
  <2>1. BootstrapResolver(theirs) = IF I = {} THEN "ip" ELSE theirs[Min(I)].addr
    BY DEF BootstrapResolver, Indices
  <2>2. I \in SUBSET DOMAIN theirs /\ \A i \in I : theirs[i].addr = "ip"
    OBVIOUS
  <2> HIDE DEF I
  <2> QED BY <1>1, <2>1, <2>2, FirstIndex
<1>3. c.resolvers = IF names = {} THEN theirs ELSE <<boot>> \o theirs
  BY DEF Resolvers
<1>4. CASE names = {}
  <2>1. boots = {}
    BY <1>1, <1>3, <1>4 DEF Range
  <2> QED BY <1>4, <2>1
<1>5. CASE names # {}
  <2> DEFINE all == <<boot>> \o theirs
  <2>1. boot.tag = "dns-bootstrap" /\ boot.only = names /\ boot.addr = "ip"
    BY <1>2
  <2> HIDE DEF boot, theirs
  <2>2. /\ all \in Seq(ResolverSet \cup {boot}) /\ Len(all) = Len(theirs) + 1 /\ all[1] = boot
        /\ \A i \in 1..Len(theirs) : all[i + 1] = theirs[i]
    <3>1. <<boot>> \in Seq(ResolverSet \cup {boot}) /\ theirs \in Seq(ResolverSet \cup {boot})
      BY <1>1
    <3> QED BY <3>1
  <2>3. c.resolvers = all
    BY <1>3, <1>5
  <2> HIDE DEF all
  <2>4. DOMAIN all = 1..(Len(theirs) + 1) /\ Len(theirs) \in Nat /\ DOMAIN theirs = 1..Len(theirs)
    BY <1>1, <2>2
  <2>5. \A i \in DOMAIN all : i # 1 => all[i].tag # "dns-bootstrap"
    <3> TAKE i \in DOMAIN all
    <3> HAVE i # 1
    <3>1. i - 1 \in DOMAIN theirs /\ i = (i - 1) + 1
      BY <2>4
    <3>2. all[i] = theirs[i - 1]
      BY <2>2, <2>4, <3>1
    <3> QED BY <1>1, <3>1, <3>2 DEF theirs
  <2>6. boots = {boot}
    BY <2>1, <2>2, <2>3, <2>4, <2>5 DEF Range
  <2>7. ASSUME NEW n \in names PROVE AsksFor(c, n) = {boot}
    <3> DEFINE I == {i \in DOMAIN all : n \in all[i].only}
               any == {all[i] : i \in {j \in DOMAIN all : all[j].only = {}}}
    <3>1. AsksFor(c, n) = IF I # {} THEN {all[Min(I)]} ELSE any
      BY <2>3 DEF AsksFor, Indices
    <3>2. 1 \in I /\ I \in SUBSET DOMAIN all
      BY <2>1, <2>2, <2>4
    <3> HIDE DEF I, any
    <3>3. Min(I) \in I /\ Min(I) <= 1
      BY <2>2, <3>2, FirstIndex
    <3>4. Min(I) = 1
      BY <2>4, <3>2, <3>3
    <3> QED BY <2>2, <3>1, <3>2, <3>4
  <2> HIDE DEF names, boots
  <2>8. \A n \in names : AsksFor(c, n) = boots /\ \A r \in boots : r.addr = "ip"
    BY <2>1, <2>6, <2>7
  <2>9. \A r \in boots : r.only = names
    BY <2>1, <2>6
  <2> QED BY <2>8, <2>9 DEF names, boots
<1> QED BY <1>4, <1>5

\* The way of a lookup for a server's name, and of any other with dns_mode "tunnel".
LEMMA LookupsWay ==
  ASSUME NEW s \in Servers, NEW inTunnel \in BOOLEAN, NEW c, NEW hits,
         c.rules = RoutingRules(s, inTunnel)
  PROVE  /\ WayOut(c, "dns-bootstrap", hits) = "dns-direct"
         /\ inTunnel => WayOut(c, "dns-in", hits) = TunnelTarget(Kept(s), Outbounds(s))
<1> DEFINE rules == c.rules
           target == TunnelTarget(Kept(s), Outbounds(s))
           n == OursBefore(inTunnel)
<1>1. /\ rules \in Seq(RuleSet) /\ Len(rules) = n + Len(Kept(s)) + 1
      /\ rules[1] = SelfRule /\ rules[2] = BootRule /\ rules[3] = Port53
      /\ inTunnel => rules[4] = Rule({"dns-in"}, FALSE, target)
  BY RulesAre
<1>2. Len(Kept(s)) \in Nat /\ n \in {3, 4} /\ (inTunnel => n = 4)
  BY KeptAre DEF OursBefore
<1> HIDE DEF target, n
<1>3. DOMAIN rules = 1..Len(rules)
  BY <1>1
<1>4. /\ SelfRule.from = {"tun-in"} /\ BootRule.from = {"dns-bootstrap"} /\ Port53.from = {"tun-in"}
      /\ ~BootRule.narrow /\ BootRule.to = "dns-direct"
  BY DEF SelfRule, BootRule, Port53, Rule
<1> HIDE DEF rules
<1>5. WayOut(c, "dns-bootstrap", hits) = "dns-direct"
  <2>1. 2 \in DOMAIN rules /\ Matches(rules[2], "dns-bootstrap", hits)
    BY <1>1, <1>2, <1>3, <1>4 DEF Matches
  <2>2. \A i \in DOMAIN rules : i < 2 => ~Matches(rules[i], "dns-bootstrap", hits)
    BY <1>1, <1>3, <1>4 DEF Matches
  <2>3. WayOut(c, "dns-bootstrap", hits) = rules[2].to
    BY <1>1, <2>1, <2>2, WayOutIs DEF rules
  <2> QED BY <1>1, <1>4, <2>3
<1>6. ASSUME inTunnel PROVE WayOut(c, "dns-in", hits) = target
  <2>1. rules[4].from = {"dns-in"} /\ ~rules[4].narrow /\ rules[4].to = target
    BY <1>1, <1>6 DEF Rule
  <2>2. 4 \in DOMAIN rules /\ Matches(rules[4], "dns-in", hits)
    BY <1>1, <1>2, <1>3, <1>6, <2>1 DEF Matches
  <2>3. ASSUME NEW i \in DOMAIN rules, i < 4 PROVE ~Matches(rules[i], "dns-in", hits)
    <3>1. i = 1 \/ i = 2 \/ i = 3
      BY <1>1, <1>3, <2>3
    <3>2. rules[i].from = {"tun-in"} \/ rules[i].from = {"dns-bootstrap"}
      BY <1>1, <1>4, <3>1
    <3> QED BY <3>2 DEF Matches
  <2>4. WayOut(c, "dns-in", hits) = rules[4].to
    BY <1>1, <2>2, <2>3, WayOutIs DEF rules
  <2> QED BY <2>1, <2>4
<1> QED BY <1>5, <1>6 DEF target

\* For the servers and rules of any subscription, the only lookup that leaves
\* outside the tunnel is that of a server's own name, and it needs no other
\* (happmeta.py build_runtime_config).
THEOREM LookupsNeverLeak == ConfigSpec => []LookupsStayInside
<1>1. ConfigInv => LookupsStayInside
  <2> SUFFICES ASSUME ConfigInv, built # NoBuild PROVE LookupsStayInside
    BY DEF LookupsStayInside
  <2> DEFINE names == HostNames(server.outbounds)
             free == TagsOf("freedom", built.outbounds)
             boots == {r \in Range(built.resolvers) : r.tag = "dns-bootstrap"}
  <2>1. /\ server \in Servers /\ tunnelDns \in BOOLEAN
        /\ built.outbounds = Outbounds(server)
        /\ built.rules = RoutingRules(server, tunnelDns)
        /\ built.resolvers = Resolvers(server)
    BY DEF ConfigInv
  <2>2. /\ \A n \in names : AsksFor(built, n) = boots /\ \A r \in boots : r.addr = "ip"
        /\ \A r \in boots : r.only = names
    BY <2>1, NamesAreAskedFromBoot
  <2>3. \A hits : WayOut(built, "dns-bootstrap", hits) = "dns-direct"
    BY <2>1, LookupsWay
  <2>4. ASSUME NEW hits, tunnelDns, Indices(server.outbounds, IsTaggedProxy) # {}
        PROVE  WayOut(built, "dns-in", hits) \notin free
    <3>1. WayOut(built, "dns-in", hits) = TunnelTarget(Kept(server), Outbounds(server))
      BY <2>1, <2>4, LookupsWay
    <3>2. \E i \in DOMAIN server.outbounds : IsTaggedProxy(server.outbounds[i])
      BY <2>4 DEF Indices
    <3>3. TunnelTarget(Kept(server), Outbounds(server)) \notin TagsOf("freedom", Outbounds(server))
      BY <2>1, <3>2, TunnelTargetIs
    <3> QED BY <2>1, <3>1, <3>3
  <2>5. \A o \in Range(built.outbounds) : o.marked <=> IsProxy(o) \/ o.tag = "dns-direct"
    <3>1. \A i \in DOMAIN built.outbounds : MarkedRightly(built.outbounds[i])
      BY <2>1, OutboundsAre
    <3> QED BY <3>1 DEF Range, MarkedRightly
  <2> HIDE DEF names, free, boots
  <2>6. \A hits \in SUBSET NarrowRules(server) :
          /\ WayOut(built, "dns-bootstrap", hits) = "dns-direct"
          /\ tunnelDns /\ Indices(server.outbounds, IsTaggedProxy) # {} =>
               WayOut(built, "dns-in", hits) \notin free
    BY <2>3, <2>4
  <2> QED BY <2>2, <2>5, <2>6 DEF LookupsStayInside, names, free, boots
<1> QED BY <1>1, ConfigInvariant, PTL

\* Where nothing but the subscription's own last catch-all is dropped, the rest of
\* its rules is kept as it is.
LEMMA KeptIsAPrefix ==
  ASSUME NEW s \in Servers, ~DropsMore(s)
  PROVE  \E n \in 0..Len(s.rules) :
           /\ Len(Kept(s)) = n /\ \A i \in 1..n : Kept(s)[i] = s.rules[i]
           /\ \/ n = Len(s.rules)
              \/ /\ n = Len(s.rules) - 1 /\ IsCatchAll(s.rules[Len(s.rules)])
                 /\ s.rules[Len(s.rules)].to = "proxy"
<1> DEFINE rules == s.rules
           T == {r \in Range(rules) : ~(r.to = "proxy" /\ r.tcpudp)}
           last == Len(rules)
<1>1. rules \in Seq(RuleSet)
  BY ConfigAssumption
<1>2. DOMAIN rules = 1..last /\ last \in Nat
  BY <1>1
<1>3. \A i \in 1..last : rules[i] \in T <=> ~(rules[i].to = "proxy" /\ rules[i].tcpudp)
  BY <1>2 DEF Range
<1>4. \A i \in 1..last : rules[i].to = "proxy" /\ rules[i].tcpudp =>
        i = last /\ ~rules[i].narrow /\ rules[i].from = {}
  BY <1>2 DEF DropsMore, Indices
<1>5. Kept(s) = Only(rules, T)
  BY DEF Kept
<1> HIDE DEF rules, T
<1> DEFINE Dropped(i) == rules[i].to = "proxy" /\ rules[i].tcpudp
<1>6. /\ \A i \in 1..last : rules[i] \in T <=> ~Dropped(i)
      /\ \A i \in 1..last : Dropped(i) => i = last /\ IsCatchAll(rules[i]) /\ rules[i].to = "proxy"
  BY <1>3, <1>4 DEF IsCatchAll
<1> HIDE DEF last, Dropped
<1>7. CASE last # 0 /\ Dropped(last)
  <2>1. last - 1 \in 0..last /\ \A i \in 1..last : rules[i] \in T <=> i <= last - 1
    BY <1>2, <1>6, <1>7
  <2>2. Len(Kept(s)) = last - 1 /\ \A i \in 1..(last - 1) : Kept(s)[i] = rules[i]
    <3> DEFINE m == last - 1
    <3> HIDE DEF m
    <3>1. m \in 0..Len(rules) /\ \A i \in 1..Len(rules) : rules[i] \in T <=> i <= m
      BY <2>1 DEF last, m
    <3>2. Len(Kept(s)) = m /\ \A i \in 1..m : Kept(s)[i] = rules[i]
      BY <1>1, <1>5, <3>1, OnlyKeepsAPrefix
    <3> QED BY <3>2 DEF m
  <2>3. IsCatchAll(rules[last]) /\ rules[last].to = "proxy"
    BY <1>2, <1>6, <1>7
  <2> QED BY <2>1, <2>2, <2>3 DEF rules, last
<1>8. CASE ~(last # 0 /\ Dropped(last))
  <2>1. last \in 0..last /\ \A i \in 1..last : rules[i] \in T <=> i <= last
    BY <1>2, <1>6, <1>8
  <2>2. Len(Kept(s)) = last /\ \A i \in 1..last : Kept(s)[i] = rules[i]
    BY <1>1, <1>5, <2>1, OnlyKeepsAPrefix DEF last
  <2> QED BY <2>1, <2>2 DEF rules, last
<1> QED BY <1>7, <1>8

\* None of ours before the subscription's matches an app's packet.
LEMMA OursLetAppsPass ==
  ASSUME NEW s \in Servers, NEW inTunnel \in BOOLEAN, NEW hits, 0 \notin hits,
         NEW i \in 1..OursBefore(inTunnel)
  PROVE  ~Matches(RoutingRules(s, inTunnel)[i], "tun-in", hits)
<1> DEFINE r == RoutingRules(s, inTunnel)[i]
<1>1. \/ r = SelfRule \/ r = BootRule \/ r = Port53
      \/ r = Rule({"dns-in"}, FALSE, TunnelTarget(Kept(s), Outbounds(s)))
  <2>1. i = 1 \/ i = 2 \/ i = 3 \/ (i = 4 /\ inTunnel)
    BY DEF OursBefore
  <2> QED BY <2>1, RulesAre
<1> HIDE DEF r
<1>2. (r.narrow /\ r.nr = 0) \/ r.from = {"dns-bootstrap"} \/ r.from = {"dns-in"}
  BY <1>1 DEF SelfRule, BootRule, Port53, Rule
<1>3. ~Matches(r, "tun-in", hits)
  BY <1>2 DEF Matches
<1> QED BY <1>3 DEF r

\* Whatever rules a subscription has, an app's packet leaves where it says, unless
\* the configuration is one of those DropsMore names (build_runtime_config).
THEOREM AppsGoAsSubscribed == ConfigSpec => []RoutesAsSubscribed
<1>1. ConfigInv => RoutesAsSubscribed
  <2> SUFFICES ASSUME ConfigInv, built # NoBuild, ~DropsMore(server),
                      NEW hits \in SUBSET NarrowRules(server)
               PROVE  WayOut(built, "tun-in", hits) = WayOut(server, "tun-in", hits)
    BY DEF RoutesAsSubscribed
  <2> DEFINE theirs == server.rules
             all == built.rules
             o == OursBefore(tunnelDns)
  <2>1. server \in Servers /\ tunnelDns \in BOOLEAN /\ all = RoutingRules(server, tunnelDns)
    BY DEF ConfigInv
  <2>2. theirs \in Seq(RuleSet) /\ DOMAIN theirs = 1..Len(theirs) /\ Len(theirs) \in Nat
    BY <2>1, ConfigAssumption
  <2>3. 0 \notin hits
    BY <2>1, ConfigAssumption DEF NarrowRules, Indices
  <2>4. PICK n \in 0..Len(theirs) :
           /\ Len(Kept(server)) = n /\ \A i \in 1..n : Kept(server)[i] = theirs[i]
           /\ \/ n = Len(theirs)
              \/ /\ n = Len(theirs) - 1 /\ IsCatchAll(theirs[Len(theirs)])
                 /\ theirs[Len(theirs)].to = "proxy"
    BY <2>1, KeptIsAPrefix
  <2>5. /\ all \in Seq(RuleSet) /\ Len(all) = o + n + 1 /\ DOMAIN all = 1..(o + n + 1)
        /\ \A i \in 1..n : all[o + i] = theirs[i]
        /\ all[o + n + 1] = CatchAll
    <3>1. /\ all \in Seq(RuleSet) /\ Len(all) = o + Len(Kept(server)) + 1
          /\ \A i \in 1..Len(Kept(server)) : all[o + i] = Kept(server)[i]
          /\ all[o + Len(Kept(server)) + 1] = CatchAll
      BY <2>1, RulesAre
    <3> HIDE DEF all, o, theirs
    <3> QED BY <2>4, <3>1
  <2>6. o \in Nat /\ n \in Nat /\ n <= Len(theirs)
    BY <2>2 DEF OursBefore
  <2>7. \A i \in 1..o : ~Matches(all[i], "tun-in", hits)
    BY <2>1, <2>3, OursLetAppsPass
  <2>8. /\ CatchAll.to = "proxy" /\ Matches(CatchAll, "tun-in", hits)
        /\ \A r : IsCatchAll(r) => Matches(r, "tun-in", hits)
    BY DEF CatchAll, Rule, Matches, IsCatchAll
  <2>9. ASSUME NEW j \in DOMAIN all, Matches(all[j], "tun-in", hits),
                \A i \in DOMAIN all : i < j => ~Matches(all[i], "tun-in", hits)
         PROVE  WayOut(built, "tun-in", hits) = all[j].to
    <3>1. all \in Seq(RuleSet)
      BY <2>5
    <3> QED BY <2>9, <3>1, WayOutIs
  <2> HIDE DEF all, o
  <2> DEFINE M == {i \in 1..n : Matches(theirs[i], "tun-in", hits)}
  <2>10. CASE M # {}
    <3> DEFINE k == Min(M)
    <3>1. M \in SUBSET DOMAIN theirs
      BY <2>2, <2>6
    <3>2. k \in M /\ \A i \in M : k <= i
      <4> HIDE DEF M
      <4> QED BY <2>2, <2>10, <3>1, FirstIndex
    <3> HIDE DEF k
    <3>3. /\ k \in 1..n /\ k \in DOMAIN theirs /\ Matches(theirs[k], "tun-in", hits)
          /\ \A i \in 1..n : i < k => ~Matches(theirs[i], "tun-in", hits)
      BY <3>1, <3>2
    <3>4. WayOut(server, "tun-in", hits) = theirs[k].to
      <4>1. \A i \in DOMAIN theirs : i < k => ~Matches(theirs[i], "tun-in", hits)
        BY <2>2, <2>6, <3>3
      <4> QED BY <2>2, <3>3, <4>1, WayOutIs
    <3>5. o + k \in DOMAIN all /\ all[o + k] = theirs[k]
      BY <2>5, <2>6, <3>3
    <3>6. \A i \in DOMAIN all : i < o + k => ~Matches(all[i], "tun-in", hits)
      <4> TAKE i \in DOMAIN all
      <4> HAVE i < o + k
      <4>1. CASE i <= o
        BY <2>5, <2>6, <2>7, <4>1
      <4>2. CASE i > o
        <5>1. i - o \in 1..n /\ i - o < k /\ i = o + (i - o)
          <6>1. i \in Nat /\ k \in Nat /\ i > o /\ i < o + k /\ k <= n
            BY <2>5, <2>6, <3>3, <4>2
          <6> QED BY <2>6, <6>1, Between
        <5>2. all[i] = theirs[i - o]
          BY <2>5, <5>1
        <5> QED BY <3>3, <5>1, <5>2
      <4> QED BY <2>5, <2>6, <4>1, <4>2
    <3>7. WayOut(built, "tun-in", hits) = all[o + k].to
      <4> DEFINE j == o + k
      <4>1. /\ j \in DOMAIN all /\ Matches(all[j], "tun-in", hits)
            /\ \A i \in DOMAIN all : i < j => ~Matches(all[i], "tun-in", hits)
        BY <3>3, <3>5, <3>6
      <4> HIDE DEF j
      <4>2. WayOut(built, "tun-in", hits) = all[j].to
        BY <2>9, <4>1
      <4> QED BY <4>2 DEF j
    <3> QED BY <3>4, <3>5, <3>7
  <2>11. CASE M = {}
    <3>1. \A i \in 1..n : ~Matches(theirs[i], "tun-in", hits)
      BY <2>11
    <3>2. WayOut(built, "tun-in", hits) = "proxy"
      <4>1. o + n + 1 \in DOMAIN all
        BY <2>5, <2>6
      <4>2. \A i \in DOMAIN all : i < o + n + 1 => ~Matches(all[i], "tun-in", hits)
        <5> TAKE i \in DOMAIN all
        <5> HAVE i < o + n + 1
        <5>1. CASE i <= o
          BY <2>5, <2>6, <2>7, <5>1
        <5>2. CASE i > o
          <6>1. i - o \in 1..n /\ i = o + (i - o)
            <7>1. i \in Nat /\ i > o /\ i < o + (n + 1)
              <8>1. i \in 1..(o + n + 1)
                BY <2>5
              <8> QED BY <2>6, <5>2, <8>1
            <7> QED BY <2>6, <7>1, Behind
          <6>2. all[i] = theirs[i - o]
            BY <2>5, <6>1
          <6> QED BY <3>1, <6>1, <6>2
        <5> QED BY <2>5, <2>6, <5>1, <5>2
      <4>3. WayOut(built, "tun-in", hits) = all[o + n + 1].to
        <5> DEFINE j == o + n + 1
        <5>1. /\ j \in DOMAIN all /\ Matches(all[j], "tun-in", hits)
              /\ \A i \in DOMAIN all : i < j => ~Matches(all[i], "tun-in", hits)
          BY <2>5, <2>8, <4>1, <4>2
        <5> HIDE DEF j
        <5>2. WayOut(built, "tun-in", hits) = all[j].to
          BY <2>9, <5>1
        <5> QED BY <5>2 DEF j
      <4> QED BY <2>5, <2>8, <4>3
    <3>3. CASE n # Len(theirs)
      <4> DEFINE last == Len(theirs)
      <4>1. n = last - 1 /\ Matches(theirs[last], "tun-in", hits) /\ theirs[last].to = "proxy"
        BY <2>4, <2>8, <3>3
      <4>2. last \in DOMAIN theirs /\ \A i \in DOMAIN theirs : i < last => ~Matches(theirs[i], "tun-in", hits)
        BY <2>2, <2>6, <3>1, <4>1
      <4>3. WayOut(server, "tun-in", hits) = theirs[last].to
        BY <2>2, <4>1, <4>2, WayOutIs
      <4> QED BY <3>2, <4>1, <4>3
    <3>4. CASE n = Len(theirs)
      <4>1. \A i \in DOMAIN theirs : ~Matches(theirs[i], "tun-in", hits)
        BY <2>2, <3>1, <3>4
      <4>2. WayOut(server, "tun-in", hits) = server.outbounds[1].tag
        BY <4>1, WayOutOfNone
      <4>3. Indices(theirs, IsCatchAll) = {}
        BY <2>8, <4>1 DEF Indices
      <4>4. server.outbounds[1].tag = "proxy"
        BY <4>3 DEF DropsMore
      <4> QED BY <3>2, <4>2, <4>4
    <3> QED BY <3>3, <3>4
  <2> QED BY <2>10, <2>11
<1> QED BY <1>1, ConfigInvariant, PTL

-----------------------------------------------------------------------------
(* The urls of the subscriptions.                                          *)

UrlSet  == [feed : Feeds, token : 1..MaxTokens]
LineSet == [says : {"added", "update"}, url : UrlSet]

\* Happ writes lines of two kinds.
LogTypeOK == lines \in Seq(LineSet) /\ token \in [Feeds -> 0..MaxTokens]

THEOREM LogTypes == HappLogSpec => []LogTypeOK
<1>1. HappLogInit => LogTypeOK
  BY HappLogAssumption DEF HappLogInit, LogTypeOK
<1>2. LogTypeOK /\ [HappLogNext]_logVars => LogTypeOK'
  <2> SUFFICES ASSUME LogTypeOK, [HappLogNext]_logVars PROVE LogTypeOK'
    OBVIOUS
  <2>1. ASSUME NEW line \in LineSet, Logs(line) PROVE lines' \in Seq(LineSet)
    BY <2>1 DEF LogTypeOK, Logs
  <2>2. ASSUME NEW f \in Feeds, NewToken(f)
        PROVE  token[f] + 1 \in 1..MaxTokens /\ token' \in [Feeds -> 0..MaxTokens]
    <3>1. token[f] \in 0..MaxTokens /\ token[f] < MaxTokens /\ token' = [token EXCEPT ![f] = @ + 1]
      BY <2>2 DEF LogTypeOK, NewToken
    <3>2. token[f] + 1 \in 1..MaxTokens /\ token[f] + 1 \in 0..MaxTokens
      BY <3>1, HappLogAssumption
    <3> QED BY <3>1, <3>2 DEF LogTypeOK
  <2>3. ASSUME NEW f \in Feeds, NEW says \in {"added", "update"}, NEW t \in 1..MaxTokens
        PROVE  [says |-> says, url |-> [feed |-> f, token |-> t]] \in LineSet
    BY DEF LineSet, UrlSet
  <2>4. ASSUME NEW f \in Feeds, HappAdds(f) PROVE LogTypeOK'
    BY <2>1, <2>2, <2>3, <2>4 DEF HappAdds, LogTypeOK
  <2>5. ASSUME NEW f \in Feeds, HappRotates(f) PROVE LogTypeOK'
    BY <2>2, <2>5 DEF HappRotates, LogTypeOK
  <2>6. ASSUME NEW f \in Feeds, HappUpdates(f) PROVE LogTypeOK'
    <3>1. token[f] \in 0..MaxTokens /\ token[f] > 0
      BY <2>6 DEF HappUpdates, LogTypeOK
    <3>2. token[f] \in 1..MaxTokens
      BY <3>1, HappLogAssumption
    <3>3. [says |-> "update", url |-> Url(f)] \in LineSet
      BY <2>3, <3>2 DEF Url
    <3> QED BY <2>1, <2>6, <3>3 DEF HappUpdates, LogTypeOK
  <2>7. CASE UNCHANGED logVars
    BY <2>7 DEF logVars, LogTypeOK
  <2> QED BY <2>4, <2>5, <2>6, <2>7 DEF HappLogNext
<1> QED BY <1>1, <1>2, PTL DEF HappLogSpec

\* Lines have a first and a last one.
LEMMA FirstAndLast ==
  ASSUME lines \in Seq(LineSet), NEW I \in SUBSET DOMAIN lines, I # {}
  PROVE  /\ Min(I) \in I /\ \A i \in I : Min(I) <= i
         /\ Max(I) \in I /\ \A i \in I : i <= Max(I)
<1>1. I \in SUBSET Nat /\ Len(lines) \in Nat /\ \A i \in I : i <= Len(lines)
  OBVIOUS
<1> QED BY <1>1, MinIsLeast, MaxIsGreatest

LEMMA LinesAre ==
  ASSUME lines \in Seq(LineSet)
  PROVE  /\ DOMAIN lines = 1..Len(lines) /\ Len(lines) \in Nat
         /\ \A i \in DOMAIN lines : /\ lines[i].says \in {"added", "update"} /\ lines[i].url \in UrlSet
                                    /\ lines[i].url.feed \in Feeds
         /\ \A f : Updates(f) \subseteq Lines(f) /\ Lines(f) \subseteq DOMAIN lines
         /\ \A f : Updates(f) = {i \in Lines(f) : lines[i].says = "update"}
<1>1. \A i \in DOMAIN lines : lines[i] \in LineSet
  OBVIOUS
<1>2. \A l \in LineSet : l.says \in {"added", "update"} /\ l.url \in UrlSet /\ l.url.feed \in Feeds
  BY DEF LineSet, UrlSet
<1>3. DOMAIN lines = 1..Len(lines) /\ Len(lines) \in Nat
  OBVIOUS
<1> QED BY <1>1, <1>2, <1>3 DEF Updates, Lines

\* What two urls share is a number of characters of the second one.
LEMMA SharedIs ==
  ASSUME NEW u, NEW v \in UrlSet
  PROVE  /\ Shared(u, v) \in Nat /\ Shared(u, v) <= Len(PathOf[v.feed][v.token])
         /\ Len(PathOf[v.feed][v.token]) \in Nat
<1> DEFINE p == PathOf[u.feed][u.token]
           q == PathOf[v.feed][v.token]
           S == {n \in 1..Len(q) : n <= Len(p) /\ SubSeq(p, 1, n) = SubSeq(q, 1, n)}
<1>1. v.feed \in Feeds /\ v.token \in 1..MaxTokens
  BY DEF UrlSet
<1>2. Len(q) \in Nat
  BY <1>1, HappLogAssumption
<1>3. Shared(u, v) = Cardinality(S) /\ S \subseteq 1..Len(q)
  BY DEF Shared
<1> HIDE DEF S, q
<1>4. PICK n \in Nat : n = Len(q)
  BY <1>2
<1>5. IsFiniteSet(S) /\ Cardinality(S) <= n
  <2>1. IsFiniteSet(1..n) /\ Cardinality(1..n) = IF 1 > n THEN 0 ELSE n - 1 + 1
    BY FS_Interval
  <2>2. IsFiniteSet(1..n) /\ Cardinality(1..n) = n
    BY <2>1
  <2>3. S \in SUBSET (1..n)
    BY <1>3, <1>4
  <2> QED BY <2>2, <2>3, FS_Subset
<1>6. Cardinality(S) \in Nat
  BY <1>5, FS_CardinalityType
<1> QED BY <1>3, <1>4, <1>5, <1>6 DEF q

\* The pick is a number of the host, and none shares more with the new url.
LEMMA ClosestIs ==
  ASSUME lines \in Seq(LineSet), NEW real, NEW u \in UrlSet, OnHostOf(u.feed) # {}
  PROVE  /\ Closest(real, u) \in OnHostOf(u.feed)
         /\ \A g \in OnHostOf(u.feed) : Shared(real[g], u) <= Shared(real[Closest(real, u)], u)
<1> DEFINE ids == OnHostOf(u.feed)
           share(f) == Shared(real[f], u)
           best == {f \in ids : \A g \in ids : share(g) <= share(f)}
<1>1. PICK most \in Nat : \A f : share(f) \in Nat /\ share(f) <= most
  BY SharedIs
<1> HIDE DEF share
<1>2. best # {}
  <2> DEFINE all == {share(f) : f \in ids}
  <2>1. all \in SUBSET Nat /\ all # {} /\ \A n \in all : n <= most
    BY <1>1
  <2>2. PICK n \in all : \A m \in all : m <= n
    <3> HIDE DEF all
    <3> QED BY <2>1, GreatestOne
  <2>3. PICK f \in ids : n = share(f)
    OBVIOUS
  <2> QED BY <2>2, <2>3
<1>3. best \subseteq ids /\ \A f \in ids : Updates(f) # {}
  BY DEF OnHostOf, Numbered
<1>4. \E f \in best : \A g \in best : Min(Updates(f)) <= Min(Updates(g))
  <2> DEFINE all == {Min(Updates(f)) : f \in best}
  <2>1. \A f \in best : Min(Updates(f)) \in Nat
    <3> TAKE f \in best
    <3>1. Updates(f) # {} /\ Updates(f) \in SUBSET DOMAIN lines /\ DOMAIN lines \subseteq Nat
      BY <1>3, LinesAre
    <3> QED BY <3>1, FirstAndLast
  <2> HIDE DEF best
  <2>2. all \in SUBSET Nat /\ all # {}
    BY <1>2, <2>1
  <2>3. PICK n \in all : \A m \in all : n <= m
    <3> HIDE DEF all
    <3> QED BY <2>2, LeastOne
  <2>4. PICK f \in best : n = Min(Updates(f))
    OBVIOUS
  <2>5. \A g \in best : Min(Updates(g)) \in all
    OBVIOUS
  <2> QED BY <2>3, <2>4, <2>5
<1>5. Closest(real, u) = CHOOSE f \in best : \A g \in best : Min(Updates(f)) <= Min(Updates(g))
  BY DEF Closest, share
<1> HIDE DEF best
<1>6. Closest(real, u) \in best
  BY <1>4, <1>5
<1> QED BY <1>6 DEF best, share

\* What is known of the urls while the log is read.
SeenSet == [real : [Numbered -> UrlSet], synth : [Range(HostOf) -> UrlSet \cup {{}}]]

\* The recursive function inside Providers.
ProvidersUpTo ==
  LET upTo[i \in 0..Len(lines)] ==
        IF i = 0 THEN OfUpdates
        ELSE IF lines[i].says = "added" THEN MergeAdded(upTo[i - 1], i) ELSE upTo[i - 1]
  IN upTo

\* What an "added" line may change.
LEMMA MergeAddedIs ==
  ASSUME lines \in Seq(LineSet), NEW seen \in SeenSet, NEW i \in DOMAIN lines
  PROVE  LET u == lines[i].url
             ids == OnHostOf(u.feed)
             new == MergeAdded(seen, i)
         IN /\ new \in SeenSet
            /\ \/ u \in Range(seen.real) /\ new = seen
               \/ u \notin Range(seen.real) /\ ids = {} /\ new.real = seen.real
                  /\ new.synth = [seen.synth EXCEPT ![HostOf[u.feed]] = u]
               \/ ids # {} /\ i < Max(UNION {Updates(f) : f \in ids}) /\ new = seen
               \/ u \notin Range(seen.real)
                  /\ ids # {} /\ ~(i < Max(UNION {Updates(f) : f \in ids}))
                  /\ new.real = [seen.real EXCEPT ![Closest(seen.real, u)] = u]
                  /\ new.synth = seen.synth
<1> DEFINE u == lines[i].url
           ids == OnHostOf(u.feed)
           new == MergeAdded(seen, i)
           old == i < Max(UNION {Updates(f) : f \in ids})
           x == Closest(seen.real, u)
<1>1. u \in UrlSet
  BY LinesAre
<1>2. new = IF u \in Range(seen.real) THEN seen
            ELSE IF ids = {} THEN [seen EXCEPT !.synth[HostOf[u.feed]] = u]
            ELSE IF old THEN seen
            ELSE [seen EXCEPT !.real[x] = u]
  BY DEF MergeAdded
<1> HIDE DEF u, ids, old, x, new
<1>3. seen.real \in [Numbered -> UrlSet] /\ seen.synth \in [Range(HostOf) -> UrlSet \cup {{}}]
  BY DEF SeenSet
<1>4. ASSUME NEW r \in [Numbered -> UrlSet] PROVE [seen EXCEPT !.real = r] \in SeenSet
  BY <1>4 DEF SeenSet
<1>5. ASSUME NEW r \in [Range(HostOf) -> UrlSet \cup {{}}] PROVE [seen EXCEPT !.synth = r] \in SeenSet
  BY <1>5 DEF SeenSet
<1>6. CASE u \in Range(seen.real)
  BY <1>2, <1>6 DEF u, ids, new
<1>7. CASE u \notin Range(seen.real) /\ ids = {}
  <2> DEFINE r == [seen.synth EXCEPT ![HostOf[u.feed]] = u]
  <2>1. r \in [Range(HostOf) -> UrlSet \cup {{}}]
    BY <1>1, <1>3
  <2>2. new = [seen EXCEPT !.synth = r]
    BY <1>2, <1>7
  <2> HIDE DEF r
  <2>3. new \in SeenSet /\ new.synth = r /\ new.real = seen.real
    BY <1>5, <2>1, <2>2 DEF SeenSet
  <2> QED BY <1>7, <2>3 DEF u, ids, new, r
<1>8. CASE u \notin Range(seen.real) /\ ids # {} /\ old
  <2>1. new = seen
    BY <1>2, <1>8
  <2> QED BY <1>8, <2>1 DEF u, ids, new, old
<1>9. CASE u \notin Range(seen.real) /\ ids # {} /\ ~old
  <2> DEFINE r == [seen.real EXCEPT ![x] = u]
  <2>1. r \in [Numbered -> UrlSet]
    BY <1>1, <1>3
  <2>2. new = [seen EXCEPT !.real = r]
    BY <1>2, <1>9
  <2> HIDE DEF r
  <2>3. new \in SeenSet /\ new.real = r /\ new.synth = seen.synth
    BY <1>4, <2>1, <2>2 DEF SeenSet
  <2> QED BY <1>9, <2>3 DEF u, ids, new, old, r, x
<1> QED BY <1>6, <1>7, <1>8, <1>9

LEMMA OfUpdatesIs ==
  ASSUME lines \in Seq(LineSet)
  PROVE  /\ OfUpdates \in SeenSet
         /\ \A f \in Numbered : OfUpdates.real[f] = lines[Max(Updates(f))].url
                                /\ OfUpdates.real[f].feed = f
<1>1. ASSUME NEW f \in Numbered
      PROVE  lines[Max(Updates(f))].url \in UrlSet /\ lines[Max(Updates(f))].url.feed = f
  <2>1. Max(Updates(f)) \in Updates(f)
    <3>1. Updates(f) \in SUBSET DOMAIN lines /\ Updates(f) # {}
      BY <1>1, LinesAre DEF Numbered
    <3> QED BY <3>1, FirstAndLast
  <2>2. Max(Updates(f)) \in DOMAIN lines /\ lines[Max(Updates(f))].url.feed = f
    BY <2>1 DEF Updates
  <2> QED BY <2>2, LinesAre
<1> DEFINE r == [f \in Numbered |-> lines[Max(Updates(f))].url]
           t == [h \in Range(HostOf) |-> {}]
<1>2. r \in [Numbered -> UrlSet] /\ t \in [Range(HostOf) -> UrlSet \cup {{}}]
  BY <1>1
<1>3. OfUpdates = [real |-> r, synth |-> t]
  BY DEF OfUpdates
<1>4. \A f \in Numbered : r[f] = lines[Max(Updates(f))].url
  OBVIOUS
<1> HIDE DEF r, t
<1>5. OfUpdates \in SeenSet /\ OfUpdates.real = r
  BY <1>2, <1>3 DEF SeenSet
<1> QED BY <1>1, <1>4, <1>5

LEMMA ProvidersUpToExists ==
  ASSUME lines \in Seq(LineSet)
  PROVE  LET h == ProvidersUpTo
         IN /\ \A i \in 0..Len(lines) : h[i] \in SeenSet
            /\ h[0] = OfUpdates
            /\ \A i \in 1..Len(lines) :
                 h[i] = IF lines[i].says = "added" THEN MergeAdded(h[i - 1], i) ELSE h[i - 1]
            /\ Providers = h[Len(lines)]
<1> DEFINE N == Len(lines)
           next(i, r) == IF lines[i].says = "added" THEN MergeAdded(r, i) ELSE r
           G == [i \in 1..N |-> [r \in SeenSet |-> next(i, r)]]
           unfold(f) == [i \in 0..N |-> IF i = 0 THEN OfUpdates ELSE next(i, f[i - 1])]
<1>1. N \in Nat /\ DOMAIN lines = 1..N /\ OfUpdates \in SeenSet
  BY OfUpdatesIs
<1>2. \A i \in 1..N, r \in SeenSet : next(i, r) \in SeenSet
  BY <1>1, MergeAddedIs
<1> HIDE DEF N, next
<1>3. G \in [1..N -> [SeenSet -> SeenSet]] /\ \A i \in 1..N, r \in SeenSet : G[i][r] = next(i, r)
  BY <1>2
<1> HIDE DEF G
<1>4. PICK f : Recursion(f, N, SeenSet, OfUpdates, G)
  BY <1>1, <1>3, RecursionExists
<1>5. f \in [0..N -> SeenSet] /\ f[0] = OfUpdates /\ \A i \in 1..N : f[i] = G[i][f[i - 1]]
  BY <1>4 DEF Recursion
<1>6. \A i \in 0..N : f[i] = IF i = 0 THEN OfUpdates ELSE next(i, f[i - 1])
  <2> TAKE i \in 0..N
  <2>1. i = 0 \/ (i # 0 /\ i \in 1..N /\ i - 1 \in 0..N)
    BY <1>1
  <2> QED BY <1>3, <1>5, <2>1
<1>7. f = unfold(f)
  BY <1>5, <1>6
<1> DEFINE h == ProvidersUpTo
<1>8. h = unfold(h)
  <2>1. h = CHOOSE g : g = unfold(g)
    BY DEF ProvidersUpTo, N, next
  <2> HIDE DEF unfold, h
  <2> QED BY <1>7, <2>1
<1>9. Providers = h[N]
  BY DEF Providers, ProvidersUpTo, N
<1> HIDE DEF h
<1>10. \A i \in 0..N : h[i] = IF i = 0 THEN OfUpdates ELSE next(i, h[i - 1])
  BY <1>8
<1>11. h[0] = OfUpdates
  BY <1>1, <1>10
<1>12. \A i \in 1..N : h[i] = next(i, h[i - 1])
  <2> TAKE i \in 1..N
  <2>1. i \in 0..N /\ i # 0
    BY <1>1
  <2> QED BY <1>10, <2>1
<1> DEFINE Bad == {i \in 0..N : h[i] \notin SeenSet}
<1>13. Bad = {}
  <2> SUFFICES ASSUME Bad # {} PROVE FALSE
    OBVIOUS
  <2>1. PICK i \in Bad : \A k \in Bad : i <= k
    <3>1. Bad \in SUBSET Nat
      OBVIOUS
    <3> HIDE DEF Bad
    <3> QED BY <3>1, LeastOne
  <2>2. i # 0
    BY <1>1, <1>11
  <2>3. i \in 1..N /\ i - 1 \in 0..N /\ i - 1 \notin Bad
    BY <1>1, <2>1, <2>2
  <2>4. h[i - 1] \in SeenSet
    BY <2>3
  <2> QED BY <1>2, <1>12, <2>3, <2>4
<1>14. \A i \in 0..N : h[i] \in SeenSet
  BY <1>13
<1> QED BY <1>9, <1>11, <1>12, <1>14 DEF h, N, next

\* A number has a url of its host.
HostKept(seen) == \A g \in Numbered : seen.real[g].feed \in Siblings(g)

LEMMA HostsAreKept ==
  ASSUME lines \in Seq(LineSet), NEW i \in 0..Len(lines)
  PROVE  HostKept(ProvidersUpTo[i])
<1> DEFINE h == ProvidersUpTo
           Bad == {k \in 0..Len(lines) : ~HostKept(h[k])}
<1>1. /\ \A k \in 0..Len(lines) : h[k] \in SeenSet
      /\ h[0] = OfUpdates
      /\ \A k \in 1..Len(lines) :
           h[k] = IF lines[k].says = "added" THEN MergeAdded(h[k - 1], k) ELSE h[k - 1]
  BY ProvidersUpToExists
<1> HIDE DEF h
<1>2. \A g \in Numbered : g \in Feeds /\ Lines(g) # {}
  BY LinesAre DEF Numbered
<1>3. HostKept(h[0])
  BY <1>1, <1>2, OfUpdatesIs DEF HostKept, Siblings
<1>4. ASSUME NEW k \in 1..Len(lines), HostKept(h[k - 1]) PROVE HostKept(h[k])
  <2> DEFINE old == h[k - 1]
             u == lines[k].url
             x == Closest(old.real, u)
  <2>1. old \in SeenSet /\ k \in DOMAIN lines
    <3>1. k - 1 \in 0..Len(lines) /\ k \in DOMAIN lines
      OBVIOUS
    <3> QED BY <1>1, <3>1
  <2>2. u.feed \in Feeds /\ k \in Lines(u.feed) /\ u \in UrlSet
    BY <2>1, LinesAre DEF Lines
  <2>3. h[k] = IF lines[k].says = "added" THEN MergeAdded(old, k) ELSE old
    BY <1>1
  <2> HIDE DEF old
  <2>4. HostKept(old)
    BY <1>4 DEF old
  <2>5. \/ h[k].real = old.real
        \/ OnHostOf(u.feed) # {} /\ h[k].real = [old.real EXCEPT ![x] = u]
    BY <2>1, <2>3, MergeAddedIs
  <2>6. CASE OnHostOf(u.feed) # {} /\ h[k].real = [old.real EXCEPT ![x] = u]
    <3> HIDE DEF u
    <3>1. x \in OnHostOf(u.feed)
      BY <2>2, <2>6, ClosestIs
    <3> HIDE DEF x
    <3>2. x \in Numbered /\ HostOf[x] = HostOf[u.feed]
      BY <3>1 DEF OnHostOf
    <3>3. u.feed \in Siblings(x)
      BY <2>2, <3>2 DEF Siblings
    <3>4. old.real \in [Numbered -> UrlSet]
      BY <2>1 DEF SeenSet
    <3>5. \A g \in Numbered : h[k].real[g] = IF g = x THEN u ELSE old.real[g]
      BY <2>6, <3>4
    <3> QED BY <2>4, <3>3, <3>5 DEF HostKept
  <2> QED BY <2>4, <2>5, <2>6 DEF HostKept
<1> HIDE DEF HostKept
<1>5. Bad = {}
  <2> SUFFICES ASSUME Bad # {} PROVE FALSE
    OBVIOUS
  <2>1. PICK k \in Bad : \A j \in Bad : k <= j
    <3>1. Bad \in SUBSET Nat
      OBVIOUS
    <3> HIDE DEF Bad
    <3> QED BY <3>1, LeastOne
  <2>2. k # 0
    BY <1>3
  <2>3. k \in 1..Len(lines) /\ k - 1 \in 0..Len(lines) /\ k - 1 \notin Bad
    BY <2>1, <2>2
  <2> QED BY <1>4, <2>1, <2>3
<1> QED BY <1>5 DEF h

\* What it may change for the subscriptions without a number.
LEMMA AddedSynth ==
  ASSUME lines \in Seq(LineSet), NEW seen \in SeenSet, NEW i \in DOMAIN lines,
         NEW u, u = lines[i].url
  PROVE  /\ \/ MergeAdded(seen, i).synth = seen.synth
            \/ MergeAdded(seen, i).synth = [seen.synth EXCEPT ![HostOf[u.feed]] = u]
         /\ u \notin Range(seen.real) /\ OnHostOf(u.feed) = {} =>
              MergeAdded(seen, i).synth = [seen.synth EXCEPT ![HostOf[u.feed]] = u]
<1> DEFINE ids == OnHostOf(u.feed)
           new == MergeAdded(seen, i)
           set == [seen.synth EXCEPT ![HostOf[u.feed]] = u]
           old == i < Max(UNION {Updates(f) : f \in ids})
           real == [seen.real EXCEPT ![Closest(seen.real, u)] = u]
<1>1. \/ u \in Range(seen.real) /\ new = seen
      \/ u \notin Range(seen.real) /\ ids = {} /\ new.real = seen.real /\ new.synth = set
      \/ ids # {} /\ old /\ new = seen
      \/ ids # {} /\ ~old /\ new.real = real /\ new.synth = seen.synth
  BY MergeAddedIs
<1> HIDE DEF ids, new, set, old, real
<1>2. /\ new.synth = seen.synth \/ new.synth = set
      /\ u \notin Range(seen.real) /\ ids = {} => new.synth = set
  BY <1>1
<1> QED BY <1>2 DEF ids, new, set

\* The url of a feed without a number, when its host has no other feed.
LEMMA UrlOfTheUnnumbered ==
  ASSUME lines \in Seq(LineSet), NEW f \in Feeds, f \notin Numbered, Lines(f) # {},
         Siblings(f) = {f}
  PROVE  Providers.synth[HostOf[f]] = lines[Max(Lines(f))].url
<1> DEFINE h == ProvidersUpTo
           host == HostOf[f]
           upTo(k) == {i \in Lines(f) : i <= k}
           good(k) == upTo(k) # {} => h[k].synth[host] = lines[Max(upTo(k))].url
           Bad == {k \in 0..Len(lines) : ~good(k)}
<1>1. /\ \A k \in 0..Len(lines) : h[k] \in SeenSet
      /\ \A k \in 1..Len(lines) :
           h[k] = IF lines[k].says = "added" THEN MergeAdded(h[k - 1], k) ELSE h[k - 1]
      /\ Providers = h[Len(lines)]
  BY ProvidersUpToExists
<1>2. \A k \in 0..Len(lines) : HostKept(h[k])
  BY HostsAreKept
<1> HIDE DEF h
<1>3. DOMAIN lines = 1..Len(lines) /\ Len(lines) \in Nat /\ Lines(f) \subseteq 1..Len(lines)
  BY LinesAre
<1>4. host \in Range(HostOf)
  BY HappLogAssumption DEF Range
<1>5. OnHostOf(f) = {}
  <2>1. \A g \in Numbered : g \in Feeds /\ Lines(g) # {}
    BY LinesAre DEF Numbered
  <2> QED BY <2>1 DEF OnHostOf, Siblings
<1>6. ASSUME NEW k \in 1..Len(lines), good(k - 1) PROVE good(k)
  <2> DEFINE old == h[k - 1]
             u == lines[k].url
  <2>1. old \in SeenSet /\ k \in DOMAIN lines /\ HostKept(old) /\ k - 1 \in 0..Len(lines)
    <3>1. k - 1 \in 0..Len(lines) /\ k \in DOMAIN lines
      OBVIOUS
    <3> QED BY <1>1, <1>2, <3>1
  <2>2. u.feed \in Feeds /\ k \in Lines(u.feed)
    BY <2>1, LinesAre DEF Lines
  <2>3. h[k] = IF lines[k].says = "added" THEN MergeAdded(old, k) ELSE old
    BY <1>1
  <2>4. upTo(k - 1) # {} => old.synth[host] = lines[Max(upTo(k - 1))].url
    BY <1>6
  <2>5. old.synth \in [Range(HostOf) -> UrlSet \cup {{}}]
    BY <2>1 DEF SeenSet
  <2> HIDE DEF old
  <2>6. CASE k \in Lines(f)
    <3>1. u.feed = f /\ lines[k].says = "added"
      <4>1. Updates(f) = {}
        BY DEF Numbered
      <4>2. lines[k].says \in {"added", "update"} /\ k \notin Updates(f)
        BY <2>1, <4>1, LinesAre
      <4>3. u.feed = f
        BY <2>6 DEF Lines
      <4> QED BY <2>1, <4>2, <4>3 DEF Updates
    <3>2. \A g \in Numbered : old.real[g] # u
      <4> SUFFICES ASSUME NEW g \in Numbered, old.real[g] = u PROVE FALSE
        OBVIOUS
      <4>1. f \in Siblings(g)
        BY <2>1, <3>1 DEF HostKept
      <4>2. g \in Feeds /\ HostOf[g] = HostOf[f] /\ Lines(g) # {}
        BY <4>1, LinesAre DEF Siblings, Numbered
      <4>3. g \in Siblings(f)
        BY <4>2 DEF Siblings
      <4> QED BY <4>3
    <3>3. u \notin Range(old.real)
      <4>1. DOMAIN old.real = Numbered
        BY <2>1 DEF SeenSet
      <4> QED BY <3>2, <4>1 DEF Range
    <3>4. h[k] = MergeAdded(old, k)
      BY <2>3, <3>1
    <3>5. h[k].synth = [old.synth EXCEPT ![host] = u]
      BY <1>5, <2>1, <3>1, <3>3, <3>4, AddedSynth
    <3>6. h[k].synth[host] = u
      BY <1>4, <2>5, <3>5
    <3>7. Max(upTo(k)) = k
      <4> DEFINE I == upTo(k)
      <4>1. I \in SUBSET DOMAIN lines /\ k \in I /\ \A i \in I : i <= k
        BY <1>3, <2>6
      <4> HIDE DEF I
      <4>2. Max(I) \in I /\ k <= Max(I)
        BY <4>1, FirstAndLast
      <4>3. Max(I) <= k /\ Max(I) \in Nat /\ k \in Nat
        BY <1>3, <4>1, <4>2
      <4> QED BY <4>2, <4>3 DEF I
    <3> QED BY <3>6, <3>7
  <2>7. CASE k \notin Lines(f)
    <3>1. upTo(k) = upTo(k - 1)
      BY <1>3, <2>7
    <3>2. u.feed # f /\ HostOf[u.feed] # host
      BY <2>2, <2>7 DEF Siblings
    <3>3. h[k].synth[host] = old.synth[host]
      <4>1. h[k].synth = old.synth \/ h[k].synth = [old.synth EXCEPT ![HostOf[u.feed]] = u]
        BY <2>1, <2>3, AddedSynth
      <4> QED BY <1>4, <2>5, <3>2, <4>1
    <3> QED BY <2>4, <3>1, <3>3
  <2> QED BY <2>6, <2>7
<1>7. upTo(0) = {}
  BY <1>3
<1>8. Bad = {}
  <2> SUFFICES ASSUME Bad # {} PROVE FALSE
    OBVIOUS
  <2>1. good(0)
    BY <1>7
  <2> HIDE DEF good
  <2>2. PICK k \in Bad : \A j \in Bad : k <= j
    <3>1. Bad \in SUBSET Nat
      OBVIOUS
    <3> HIDE DEF Bad
    <3> QED BY <3>1, LeastOne
  <2>3. k # 0
    BY <2>1
  <2>4. k \in 1..Len(lines) /\ k - 1 \in 0..Len(lines) /\ k - 1 \notin Bad
    BY <2>2, <2>3
  <2> QED BY <1>6, <2>2, <2>4
<1>9. upTo(Len(lines)) = Lines(f)
  BY <1>3
<1>10. good(Len(lines))
  BY <1>3, <1>8
<1> QED BY <1>1, <1>9, <1>10

\* The siblings of f are numbered and kept apart by their paths, and none of them
\* was updated since f's newest line, unless that is an update.
Clear(f) ==
  /\ f \in Feeds /\ Lines(f) # {} /\ Siblings(f) \subseteq Numbered /\ Separated(f)
  /\ \A g \in Siblings(f) \ {f} :
       Max(Updates(g)) <= Max(Lines(f)) \/ Max(Lines(f)) \in Updates(f)

\* Each of them has a url of its own; f has its newest, from that line on at least.
OwnKept(f, seen) == \A g \in Siblings(f) : seen.real[g] \in Logged(g)
NewestAt(f, seen, k) ==
  Max(Lines(f)) \in Updates(f) \/ Max(Lines(f)) <= k => seen.real[f] = lines[Max(Lines(f))].url

\* A line keeps that.
LEMMA LineKeepsUrls ==
  ASSUME lines \in Seq(LineSet), NEW f, Clear(f), NEW k \in 1..Len(lines), NEW old \in SeenSet,
         lines[k].says = "added",
         HostKept(old), OwnKept(f, old), NewestAt(f, old, k - 1)
  PROVE  OwnKept(f, MergeAdded(old, k)) /\ NewestAt(f, MergeAdded(old, k), k)
<1> DEFINE new == MergeAdded(old, k)
           u == lines[k].url
           e == u.feed
           ids == OnHostOf(e)
           x == Closest(old.real, u)
           last == Max(Lines(f))
           newest == Max(UNION {Updates(g) : g \in ids})
<1>1. /\ k \in DOMAIN lines /\ DOMAIN lines = 1..Len(lines) /\ e \in Feeds /\ k \in Lines(e)
      /\ u \in UrlSet
  BY LinesAre DEF Lines
<1>2. /\ old.real \in [Numbered -> UrlSet]
      /\ \/ u \in Range(old.real) /\ new = old
         \/ u \notin Range(old.real) /\ ids = {} /\ new.real = old.real
         \/ ids # {} /\ k < newest /\ new = old
         \/ u \notin Range(old.real) /\ ids # {} /\ ~(k < newest)
            /\ new.real = [old.real EXCEPT ![x] = u]
  <2>1. old.real \in [Numbered -> UrlSet]
    BY DEF SeenSet
  <2> QED BY <1>1, <2>1, MergeAddedIs
<1>3. /\ last \in Lines(f) /\ last \in Nat /\ k \in Nat /\ last \in DOMAIN lines
      /\ \A i \in Lines(f) : i <= last
  <2>1. Lines(f) \in SUBSET DOMAIN lines /\ Lines(f) # {} /\ DOMAIN lines \subseteq Nat
    BY LinesAre DEF Clear
  <2> QED BY <1>1, <2>1, FirstAndLast
<1>4. k = last => e = f
  BY <1>3 DEF Lines
<1>5. f \in Siblings(f) /\ Siblings(f) \subseteq Numbered /\ f \in Numbered
  BY DEF Clear, Siblings
<1>6. k = last => last \notin Updates(f)
  BY DEF Updates
<1> HIDE DEF new, u, last
<1>7. CASE HostOf[e] # HostOf[f]
  <2>1. k # last
    BY <1>4, <1>7
  <2>2. \A g \in Siblings(f) : new.real[g] = old.real[g]
    <3>1. ids # {} => x \in Numbered /\ HostOf[x] = HostOf[e]
      <4>1. ids # {} => x \in ids
        BY <1>1, ClosestIs
      <4> QED BY <4>1 DEF OnHostOf
    <3>2. ids # {} => x \notin Siblings(f)
      BY <1>7, <3>1 DEF Siblings
    <3> HIDE DEF x, ids, e, newest
    <3> QED BY <1>2, <1>5, <3>2
  <2> HIDE DEF e
  <2>3. OwnKept(f, new)
    BY <2>2 DEF OwnKept
  <2>4. NewestAt(f, new, k)
    <3>1. last <= k => last <= k - 1
      BY <1>3, <2>1
    <3>2. last \in Updates(f) \/ last <= k - 1 => old.real[f] = lines[last].url
      BY DEF NewestAt, last
    <3> QED BY <1>5, <2>2, <3>1, <3>2 DEF NewestAt, last
  <2> QED BY <2>3, <2>4 DEF new
<1>8. CASE HostOf[e] = HostOf[f]
  <2>1. e \in Siblings(f) /\ e \in Numbered
    BY <1>1, <1>5, <1>8 DEF Siblings
  <2>2. ids = Siblings(f)
    <3>1. \A g \in Numbered : g \in Feeds /\ Lines(g) # {}
      BY LinesAre DEF Numbered
    <3> QED BY <1>5, <1>8, <3>1 DEF OnHostOf, Siblings
  <2>3. \A g : \A w \in Logged(g) : w.feed = g
    BY DEF Logged, Lines
  <2>4. PICK all : all = UNION {Updates(g) : g \in ids} /\ newest = Max(all)
    OBVIOUS
  <2> HIDE DEF newest
  <2>5. newest \in all /\ newest \in Nat /\ \A i \in all : i <= newest
    <3>1. all \in SUBSET DOMAIN lines
      BY <2>4, LinesAre
    <3>2. all # {}
      <4>1. Updates(e) # {} /\ e \in ids
        BY <2>1, <2>2 DEF Numbered
      <4> HIDE DEF ids, e
      <4> QED BY <2>4, <4>1
    <3>3. newest \in all /\ \A i \in all : i <= newest
      BY <2>4, <3>1, <3>2, FirstAndLast
    <3>4. newest \in 1..Len(lines)
      BY <1>1, <3>1, <3>3
    <3> QED BY <3>3, <3>4
  <2>6. last \in Updates(f) => last <= newest
    BY <1>5, <2>2, <2>4, <2>5
  <2>7. last \notin Updates(f) => newest <= last
    <3> SUFFICES ASSUME last \notin Updates(f) PROVE newest <= last
      OBVIOUS
    <3>1. PICK g \in Siblings(f) : newest \in Updates(g)
      BY <2>2, <2>4, <2>5
    <3>2. CASE g = f
      <4>1. newest \in Lines(f)
        BY <3>1, <3>2, LinesAre
      <4> QED BY <1>3, <4>1
    <3>3. CASE g # f
      <4>1. Max(Updates(g)) <= last
        BY <3>3 DEF Clear, last
      <4>2. Updates(g) \in SUBSET DOMAIN lines
        BY LinesAre
      <4>3. newest <= Max(Updates(g)) /\ Max(Updates(g)) \in DOMAIN lines
        BY <3>1, <4>2, FirstAndLast
      <4> QED BY <1>1, <1>3, <2>5, <4>1, <4>3
    <3> QED BY <3>2, <3>3
  <2>8. k \in Lines(f) <=> e = f
    BY <1>1 DEF Lines, u
  <2>9. last \in Updates(f) \/ last <= k - 1 => old.real[f] = lines[last].url
    BY DEF NewestAt, last
  <2>10. last <= k => last <= k - 1 \/ k = last
    BY <1>3
  <2>11. \A g \in Siblings(f) : old.real[g] \in Logged(g) /\ old.real[g].feed = g
    BY <2>3 DEF OwnKept
  <2>12. u.feed = e /\ u \in Logged(e) /\ (k = last => u = lines[last].url)
    BY <1>1 DEF u, Logged
  <2>13. CASE u \in Range(old.real) /\ new = old
    <3>1. ASSUME k = last PROVE old.real[f] = u
      <4>1. PICK j \in Numbered : old.real[j] = u
        BY <1>2, <2>13 DEF Range
      <4>2. e = f /\ f \in Siblings(j)
        BY <1>4, <2>12, <3>1, <4>1 DEF HostKept
      <4>3. j \in Siblings(f)
        BY <4>2, LinesAre DEF Siblings, Numbered
      <4> QED BY <2>11, <2>12, <4>1, <4>2, <4>3
    <3>2. OwnKept(f, new)
      BY <2>13
    <3>3. NewestAt(f, new, k)
      BY <2>9, <2>10, <2>12, <2>13, <3>1 DEF NewestAt, last
    <3> QED BY <3>2, <3>3 DEF new
  <2>14. CASE k < newest /\ new = old
    <3>1. k # last
      BY <1>3, <1>6, <2>5, <2>7, <2>14
    <3>2. NewestAt(f, new, k)
      BY <2>9, <2>10, <2>14, <3>1 DEF NewestAt, last
    <3> QED BY <2>14, <3>2 DEF new
  <2>15. CASE /\ u \notin Range(old.real) /\ ids # {} /\ ~(k < newest)
              /\ new.real = [old.real EXCEPT ![x] = u]
    <3>1. x \in ids /\ Shared(old.real[e], u) <= Shared(old.real[x], u)
      BY <1>1, <2>1, <2>2, <2>12, <2>15, ClosestIs
    <3>2. Shared(old.real[e], u) \in Nat /\ Shared(old.real[x], u) \in Nat
      BY <1>1, SharedIs
    <3> HIDE DEF x, ids, e
    <3>3. x \in Siblings(f) /\ old.real[x] \in Logged(x)
      BY <2>2, <2>11, <3>1
    <3>4. old.real[e] \in Logged(e) /\ old.real[e] # u
      BY <1>2, <2>1, <2>11, <2>15 DEF Range
    <3>5. x = e
      <4> SUFFICES ASSUME x # e PROVE FALSE
        OBVIOUS
      <4>1. Separated(f)
        BY DEF Clear
      <4>2. Shared(old.real[x], u) < Shared(old.real[e], u)
        BY <2>1, <2>12, <3>3, <3>4, <4>1 DEF Separated
      <4> QED BY <3>1, <3>2, <4>2
    <3>6. \A g \in Numbered : new.real[g] = IF g = e THEN u ELSE old.real[g]
      BY <1>2, <2>15, <3>5
    <3>7. OwnKept(f, new)
      BY <1>5, <2>11, <2>12, <3>6 DEF OwnKept
    <3>8. CASE e = f
      <4>1. new.real[f] = u
        BY <1>5, <3>6, <3>8
      <4>2. k <= last
        BY <1>3, <2>8, <3>8
      <4>3. last \notin Updates(f)
        BY <1>3, <1>6, <2>5, <2>6, <2>15, <4>2
      <4>4. last <= k => k = last
        BY <1>3, <4>2
      <4>5. NewestAt(f, new, k)
        BY <2>12, <4>1, <4>3, <4>4 DEF NewestAt, last
      <4> QED BY <3>7, <4>5 DEF new
    <3>9. CASE e # f
      <4>1. k # last
        BY <1>4, <3>9
      <4>2. new.real[f] = old.real[f]
        BY <1>5, <3>6, <3>9
      <4>3. NewestAt(f, new, k)
        BY <2>9, <2>10, <4>1, <4>2 DEF NewestAt, last
      <4> QED BY <3>7, <4>3 DEF new
    <3> QED BY <3>8, <3>9
  <2> QED BY <1>2, <2>1, <2>2, <2>13, <2>14, <2>15
<1> QED BY <1>7, <1>8

LEMMA UrlOfTheNumbered ==
  ASSUME lines \in Seq(LineSet), NEW f, Clear(f)
  PROVE  Providers.real[f] = lines[Max(Lines(f))].url
<1> DEFINE h == ProvidersUpTo
           last == Max(Lines(f))
           good(k) == OwnKept(f, h[k]) /\ NewestAt(f, h[k], k)
           Bad == {k \in 0..Len(lines) : ~good(k)}
<1>1. /\ \A k \in 0..Len(lines) : h[k] \in SeenSet
      /\ h[0] = OfUpdates
      /\ \A k \in 1..Len(lines) :
           h[k] = IF lines[k].says = "added" THEN MergeAdded(h[k - 1], k) ELSE h[k - 1]
      /\ Providers = h[Len(lines)]
  BY ProvidersUpToExists
<1>2. \A k \in 0..Len(lines) : HostKept(h[k])
  BY HostsAreKept
<1> HIDE DEF h
<1>3. DOMAIN lines = 1..Len(lines) /\ Len(lines) \in Nat
  BY LinesAre
<1>4. last \in Lines(f) /\ last \in 1..Len(lines) /\ \A i \in Lines(f) : i <= last
  <2>1. Lines(f) \in SUBSET DOMAIN lines /\ Lines(f) # {}
    BY LinesAre DEF Clear
  <2> QED BY <1>3, <2>1, FirstAndLast
<1> HIDE DEF last
<1>5. f \in Siblings(f) /\ Siblings(f) \subseteq Numbered
  BY DEF Clear, Siblings
<1>6. good(0)
  <2>1. \A g \in Numbered : h[0].real[g] = lines[Max(Updates(g))].url
    BY <1>1, OfUpdatesIs
  <2>2. OwnKept(f, h[0])
    <3>1. ASSUME NEW g \in Numbered PROVE Max(Updates(g)) \in Lines(g)
      <4>1. Updates(g) \in SUBSET DOMAIN lines /\ Updates(g) # {} /\ Updates(g) \subseteq Lines(g)
        BY <3>1, LinesAre DEF Numbered
      <4> QED BY <4>1, FirstAndLast
    <3>2. \A g \in Numbered : h[0].real[g] \in Logged(g)
      BY <2>1, <3>1 DEF Logged
    <3> QED BY <1>5, <3>2 DEF OwnKept
  <2>3. ASSUME last \in Updates(f) PROVE h[0].real[f] = lines[last].url
    <3>1. Updates(f) \in SUBSET DOMAIN lines /\ Updates(f) \subseteq Lines(f)
      BY LinesAre
    <3>2. Max(Updates(f)) \in Updates(f) /\ last <= Max(Updates(f))
      BY <2>3, <3>1, FirstAndLast
    <3>3. Max(Updates(f)) <= last /\ Max(Updates(f)) \in Nat /\ last \in Nat
      BY <1>3, <1>4, <3>1, <3>2
    <3>4. Max(Updates(f)) = last
      BY <3>2, <3>3
    <3> QED BY <1>5, <2>1, <3>4
  <2>4. ~(last <= 0)
    BY <1>4
  <2>5. NewestAt(f, h[0], 0)
    BY <2>3, <2>4 DEF NewestAt, last
  <2> QED BY <2>2, <2>5
<1>7. ASSUME NEW k \in 1..Len(lines), good(k - 1) PROVE good(k)
  <2>1. k - 1 \in 0..Len(lines)
    OBVIOUS
  <2> DEFINE old == h[k - 1]
  <2>2. old \in SeenSet /\ HostKept(old) /\ OwnKept(f, old) /\ NewestAt(f, old, k - 1)
    BY <1>1, <1>2, <1>7, <2>1
  <2>3. h[k] = IF lines[k].says = "added" THEN MergeAdded(old, k) ELSE old
    BY <1>1
  <2> HIDE DEF old
  <2>4. CASE lines[k].says = "added"
    BY <2>2, <2>3, <2>4, LineKeepsUrls
  <2>5. CASE lines[k].says # "added"
    <3>1. k = last => last \in Updates(f)
      <4>1. \A i \in DOMAIN lines : lines[i].says \in {"added", "update"}
        BY LinesAre
      <4> QED BY <1>3, <1>4, <2>5, <4>1 DEF Updates, Lines
    <3>2. last <= k => k = last \/ last <= k - 1
      BY <1>4
    <3>3. NewestAt(f, old, k)
      BY <2>2, <3>1, <3>2 DEF NewestAt, last
    <3> QED BY <2>2, <2>3, <2>5, <3>3
  <2> QED BY <2>4, <2>5
<1> HIDE DEF good
<1>8. Bad = {}
  <2> SUFFICES ASSUME Bad # {} PROVE FALSE
    OBVIOUS
  <2>1. PICK k \in Bad : \A j \in Bad : k <= j
    <3>1. Bad \in SUBSET Nat
      OBVIOUS
    <3> HIDE DEF Bad
    <3> QED BY <3>1, LeastOne
  <2>2. k # 0
    BY <1>6
  <2>3. k \in 1..Len(lines) /\ k - 1 \in 0..Len(lines) /\ k - 1 \notin Bad
    BY <2>1, <2>2
  <2> QED BY <1>7, <2>1, <2>3
<1>9. good(Len(lines))
  BY <1>3, <1>8
<1> QED BY <1>1, <1>4, <1>9 DEF good, NewestAt, last

\* For any number of subscriptions on any hosts and a log of any length, Happ's
\* newest line about a subscription decides its url, unless the log cannot tell
\* it from a sibling's (happmeta.py _parse_providers).
THEOREM UrlsAreCurrent == HappLogSpec => []UrlIsCurrent
<1>1. LogTypeOK => UrlIsCurrent
  <2> SUFFICES ASSUME lines \in Seq(LineSet), NEW f \in Feeds, Lines(f) # {}, ~Confused(f)
               PROVE  lines[Max(Lines(f))].url =
                        IF f \in Numbered THEN Providers.real[f] ELSE Providers.synth[HostOf[f]]
    BY DEF UrlIsCurrent, LogTypeOK
  <2>1. \A g \in Siblings(f) \ {f} :
          /\ f \in Numbered /\ g \in Numbered
          /\ ~(Max(Updates(g)) > Max(Lines(f)) /\ Max(Lines(f)) \notin Updates(f))
    BY DEF Confused
  <2>2. f \in Siblings(f) /\ Separated(f)
    BY DEF Siblings, Confused
  <2>3. CASE f \in Numbered
    <3>1. \A g \in Siblings(f) : g \in Numbered
      BY <2>1, <2>3
    <3>2. ASSUME NEW g \in Siblings(f) \ {f}
          PROVE  Max(Updates(g)) <= Max(Lines(f)) \/ Max(Lines(f)) \in Updates(f)
      <4>1. /\ Updates(g) \in SUBSET DOMAIN lines /\ Updates(g) # {}
            /\ Lines(f) \in SUBSET DOMAIN lines /\ DOMAIN lines \subseteq Nat
        BY <2>1, LinesAre DEF Numbered
      <4>2. Max(Updates(g)) \in Nat /\ Max(Lines(f)) \in Nat
        BY <4>1, FirstAndLast
      <4> QED BY <2>1, <4>2
    <3>3. Clear(f)
      BY <2>2, <3>1, <3>2 DEF Clear
    <3> QED BY <2>3, <3>3, UrlOfTheNumbered
  <2>4. CASE f \notin Numbered
    <3>1. Siblings(f) = {f}
      BY <2>1, <2>2, <2>4
    <3> QED BY <2>4, <3>1, UrlOfTheUnnumbered
  <2> QED BY <2>3, <2>4
<1> QED BY <1>1, LogTypes, PTL
=============================================================================
