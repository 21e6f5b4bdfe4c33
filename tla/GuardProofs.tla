---------------------------- MODULE GuardProofs -----------------------------
(***************************************************************************)
(* Theorems about Guard, for any providers of any kinds and any faults.    *)
(*                                                                         *)
(* The menu does its work in order, so each property needs to know what    *)
(* the steps so far have established: TornDown while disconnect_all works, *)
(* Cleared when the provider connects, RulesServe since the rules, and     *)
(* DirectPlain because nothing but a command moves a direct tunnel.        *)
(***************************************************************************)
EXTENDS Guard, TLAPS

\* A direct provider has no keeper and no state in between.
DirectPlain == \A p \in Direct : run[p] \in {"down", "up"} /\ keeper[p] = "none"

\* Which actions get where.
OpAt ==
  /\ mpc \in {"guard", "load"} => op \in {"connect", "toggle"}
  /\ mpc \in {"others", "connect", "spawn", "poll"} => op = "connect"
  /\ mpc = "down" => op \in {"disconnect", "reconnect"}
  /\ mpc \in {"sync", "apply"} => op \in {"connect", "disconnect", "reconnect"}
  /\ mpc \in {"teardown", "recheck", "cover"} => op # "toggle"
  /\ mpc = "recheck" => todo # <<>>
  /\ mpc = "cover" => todo = <<>>

\* While disconnect_all works for a switch and has not failed, what still runs
\* is among the providers it has not looked at.
TornDown ==
  op = "connect" /\ mpc \in {"teardown", "recheck", "cover"} /\ ~failed =>
    \A q \in Direct : run[q] = "up" => \E i \in 1..Len(todo) : todo[i] = q

\* provider.connect is called when nothing else of this sort runs.
Cleared == mpc = "connect" => \A q \in Direct \ {goal} : run[q] = "down"

\* A keeper is spawned for a happd-backed provider.
KeeperIsBacked == mpc \in {"spawn", "poll"} => goal \in Backed

\* Rules are loaded for providers they can cover.
LoadCovers == mpc = "load" /\ op = "connect" => Kind[goal] # "unparsed"

\* From the rules on, they let the goal through.
RulesServe ==
  op = "connect" /\ ksok /\ mpc \notin {"guard", "load"} => table = NoTable \/ goal \in table

\* The inductive invariant: what the theorems need at every program counter of the
\* menu, from the rules it loads first to the sysctl it sets last.
GInv ==
  /\ TypeOK
  /\ DirectPlain
  /\ OpAt
  /\ TornDown
  /\ Cleared
  /\ KeeperIsBacked
  /\ LoadCovers
  /\ RulesServe
  /\ DirectAlone

LEMMA InitGInv == Init => GInv
<1> SUFFICES ASSUME Init PROVE GInv
  OBVIOUS
<1>1. Order[1] \in Providers
  BY GuardAssumption DEF Providers
<1>2. TypeOK
  <2>1. todo \in Seq(Providers) /\ goal \in Providers
    BY <1>1 DEF Init
  <2>2. /\ ipv6off \in BOOLEAN /\ want \in BOOLEAN /\ warned \in BOOLEAN
        /\ failed \in BOOLEAN /\ ok \in BOOLEAN /\ ksok \in BOOLEAN /\ muddled \in BOOLEAN
    BY DEF Init
  <2>3. ending \in [Providers -> 0..MaxEnding]
    BY GuardAssumption DEF Init
  <2> QED  BY <2>1, <2>2, <2>3 DEF Init, TypeOK
<1>3. DirectPlain /\ DirectAlone
  BY DEF Init, DirectPlain, DirectAlone, Runs, Direct
<1> QED
  BY <1>2, <1>3 DEF Init, GInv, OpAt, TornDown, Cleared, KeeperIsBacked, LoadCovers, RulesServe

-----------------------------------------------------------------------------
(* Steps that are not the menu's.                                          *)

\* The menu, the rules and IPv6 stay as they are; direct tunnels can only go.
Quiet ==
  /\ UNCHANGED <<menuVars, table>>
  /\ \A q \in Direct : run'[q] = run[q] \/ run'[q] = "down"

LEMMA QuietGInv == ASSUME GInv, Quiet, TypeOK', DirectPlain' PROVE GInv'
<1>1. \A q \in Direct : run'[q] = "up" => run[q] = "up"
  BY DEF Quiet
<1>2. TornDown'
  BY <1>1 DEF GInv, Quiet, menuVars, TornDown
<1>3. Cleared'
  BY <1>1 DEF GInv, Quiet, menuVars, Cleared, DirectPlain
<1>4. DirectAlone'
  BY <1>1 DEF GInv, Quiet, DirectAlone, DirectPlain, Runs
<1> QED
  BY <1>2, <1>3, <1>4
  DEF GInv, Quiet, menuVars, OpAt, KeeperIsBacked, LoadCovers, RulesServe

\* Steps of the menu before provider.connect and after it keep the types.
LEMMA MenuTyped ==
  ASSUME TypeOK, UNCHANGED <<tunnelVars, listVars, goal, todo, failed, muddled>>,
         table' \in {NoTable, HappOnly, AllTargets}, mode' = mode,
         ipv6off' \in BOOLEAN, want' \in BOOLEAN, warned' \in BOOLEAN,
         mpc' \in {"idle", "guard", "load", "others", "connect"},
         op' \in {op, "connect"}, ok' \in {ok, FALSE}, ksok' \in {ksok, FALSE}
  PROVE  TypeOK'
<1>1. /\ mpc' \in {"idle", "guard", "load", "others", "teardown", "recheck", "cover",
                   "connect", "spawn", "poll", "sync", "apply", "down"}
      /\ op' \in {"none", "connect", "disconnect", "reconnect", "all", "toggle"}
      /\ ok' \in BOOLEAN /\ ksok' \in BOOLEAN
  BY DEF TypeOK
<1> QED  BY <1>1 DEF TypeOK, tunnelVars, listVars

\* So do steps of keepers, happd and xray.
LEMMA TunnelsTyped ==
  ASSUME TypeOK, UNCHANGED <<listVars, guardVars, menuVars, muddled>>,
         run' \in [Providers -> {"down", "rising", "up", "falling"}],
         keeper' \in [Providers -> {"none", "spawned", "starting", "started", "holding", "sleeping"}],
         ending' \in [Providers -> 0..MaxEnding],
         record' \in [Providers -> {"none", "connecting", "connected", "over"}]
  PROVE  TypeOK'
  BY DEF TypeOK, listVars, guardVars, ipv6Vars, menuVars

\* A keeper that leaves, and an older one's last write.
LEMMA EndsType ==
  ASSUME TypeOK, NEW p \in Providers, Ends(p)
  PROVE  /\ keeper' = Put(keeper, p, "none")
         /\ keeper' \in [Providers -> {"none", "spawned", "starting", "started", "holding", "sleeping"}]
         /\ ending' \in [Providers -> 0..MaxEnding]
<1>1. ending[p] + 1 \in 0..MaxEnding
  BY GuardAssumption DEF TypeOK, Ends
<1> QED  BY <1>1 DEF TypeOK, Ends, Put

LEMMA OldWritesType ==
  ASSUME TypeOK, NEW p \in Providers, ending[p] > 0
  PROVE  Put(ending, p, ending[p] - 1) \in [Providers -> 0..MaxEnding]
<1>1. ending[p] - 1 \in 0..MaxEnding
  BY GuardAssumption DEF TypeOK
<1> QED  BY <1>1 DEF TypeOK, Put

LEMMA TunnelStepGInv == ASSUME GInv, NEW p \in Providers, TunnelStep(p) PROVE GInv'
<1>0. /\ Quiet => GInv' \/ ~TypeOK' \/ ~DirectPlain'
      /\ run \in [Providers -> {"down", "rising", "up", "falling"}]
      /\ \A q \in Direct : q \in Providers /\ keeper[q] = "none" /\ run[q] \in {"down", "up"}
      /\ TypeOK
  BY QuietGInv DEF GInv, TypeOK, DirectPlain, Direct
<1>1. CASE KeeperClaims(p)
  <2>1. TypeOK'
    BY <1>0, <1>1 DEF TypeOK, KeeperClaims, Put, listVars, guardVars, ipv6Vars, menuVars
  <2>2. Quiet /\ DirectPlain'
    BY <1>0, <1>1 DEF Quiet, DirectPlain, TypeOK, KeeperClaims, Put, guardVars, menuVars
  <2> QED  BY <1>0, <2>1, <2>2
<1>2. CASE XrayStarts(p)
  <2>1. TypeOK'
    BY <1>0, <1>2 DEF TypeOK, XrayStarts, Put, listVars, guardVars, ipv6Vars, menuVars
  <2>2. Quiet /\ DirectPlain'
    BY <1>0, <1>2 DEF Quiet, DirectPlain, TypeOK, XrayStarts, Put, guardVars, menuVars
  <2> QED  BY <1>0, <2>1, <2>2
<1>3. CASE KeeperFails(p)
  <2>0. Ends(p) => /\ keeper' = Put(keeper, p, "none")
                   /\ keeper' \in [Providers -> {"none", "spawned", "starting", "started", "holding",
                                                "sleeping"}]
                   /\ ending' \in [Providers -> 0..MaxEnding]
    BY <1>0, EndsType
  <2>1. TypeOK'
    <3>1. UNCHANGED <<listVars, guardVars, menuVars, muddled>>
      BY <1>3 DEF KeeperFails
    <3>2. /\ run' \in [Providers -> {"down", "rising", "up", "falling"}]
          /\ record' \in [Providers -> {"none", "connecting", "connected", "over"}]
      BY <1>0, <1>3 DEF TypeOK, KeeperFails, Put
    <3>3. /\ keeper' \in [Providers -> {"none", "spawned", "starting", "started", "holding", "sleeping"}]
          /\ ending' \in [Providers -> 0..MaxEnding]
      BY <1>0, <1>3, <2>0 DEF TypeOK, KeeperFails, Put
    <3> QED  BY <1>0, <3>1, <3>2, <3>3, TunnelsTyped
  <2>2. Quiet /\ DirectPlain'
    BY <1>0, <1>3, <2>0 DEF Quiet, DirectPlain, TypeOK, KeeperFails, Put, guardVars, menuVars
  <2> QED  BY <1>0, <2>1, <2>2
<1>4. CASE KeeperRecords(p)
  <2>0. Ends(p) => /\ keeper' = Put(keeper, p, "none")
                   /\ keeper' \in [Providers -> {"none", "spawned", "starting", "started", "holding",
                                                "sleeping"}]
                   /\ ending' \in [Providers -> 0..MaxEnding]
    BY <1>0, EndsType
  <2>1. TypeOK'
    <3>1. UNCHANGED <<listVars, guardVars, menuVars, muddled>>
      BY <1>4 DEF KeeperRecords
    <3>2. /\ run' \in [Providers -> {"down", "rising", "up", "falling"}]
          /\ record' \in [Providers -> {"none", "connecting", "connected", "over"}]
      BY <1>0, <1>4 DEF TypeOK, KeeperRecords, Put
    <3>3. /\ keeper' \in [Providers -> {"none", "spawned", "starting", "started", "holding", "sleeping"}]
          /\ ending' \in [Providers -> 0..MaxEnding]
      BY <1>0, <1>4, <2>0 DEF TypeOK, KeeperRecords, Put
    <3> QED  BY <1>0, <3>1, <3>2, <3>3, TunnelsTyped
  <2>2. Quiet /\ DirectPlain'
    BY <1>0, <1>4, <2>0 DEF Quiet, DirectPlain, TypeOK, KeeperRecords, Put, guardVars, menuVars
  <2> QED  BY <1>0, <2>1, <2>2
<1>5. CASE KeeperSuperseded(p)
  <2>0. Ends(p) => /\ keeper' = Put(keeper, p, "none")
                   /\ keeper' \in [Providers -> {"none", "spawned", "starting", "started", "holding",
                                                "sleeping"}]
                   /\ ending' \in [Providers -> 0..MaxEnding]
    BY <1>0, EndsType
  <2>1. TypeOK'
    <3>1. UNCHANGED <<listVars, guardVars, menuVars, muddled>>
      BY <1>5 DEF KeeperSuperseded
    <3>2. /\ run' \in [Providers -> {"down", "rising", "up", "falling"}]
          /\ record' \in [Providers -> {"none", "connecting", "connected", "over"}]
      BY <1>0, <1>5 DEF TypeOK, KeeperSuperseded, Put
    <3>3. /\ keeper' \in [Providers -> {"none", "spawned", "starting", "started", "holding", "sleeping"}]
          /\ ending' \in [Providers -> 0..MaxEnding]
      BY <1>0, <1>5, <2>0 DEF TypeOK, KeeperSuperseded, Put
    <3> QED  BY <1>0, <3>1, <3>2, <3>3, TunnelsTyped
  <2>2. Quiet /\ DirectPlain'
    BY <1>0, <1>5, <2>0 DEF Quiet, DirectPlain, TypeOK, KeeperSuperseded, Put, guardVars, menuVars
  <2> QED  BY <1>0, <2>1, <2>2
<1>6. CASE OldKeeperLeaves(p)
  <2>1. TypeOK'
    BY <1>0, <1>6 DEF TypeOK, OldKeeperLeaves, Put, listVars, guardVars, ipv6Vars, menuVars
  <2>2. Quiet /\ DirectPlain'
    BY <1>0, <1>6 DEF Quiet, DirectPlain, TypeOK, OldKeeperLeaves, Put, guardVars, menuVars
  <2> QED  BY <1>0, <2>1, <2>2
<1>7. CASE Wake(p)
  <2>0. Ends(p) => /\ keeper' = Put(keeper, p, "none")
                   /\ keeper' \in [Providers -> {"none", "spawned", "starting", "started", "holding",
                                                "sleeping"}]
                   /\ ending' \in [Providers -> 0..MaxEnding]
    BY <1>0, EndsType
  <2>1. TypeOK'
    <3>1. UNCHANGED <<listVars, guardVars, menuVars, muddled>>
      BY <1>7 DEF Wake
    <3>2. /\ run' \in [Providers -> {"down", "rising", "up", "falling"}]
          /\ record' \in [Providers -> {"none", "connecting", "connected", "over"}]
      BY <1>0, <1>7 DEF TypeOK, Wake, Put
    <3>3. /\ keeper' \in [Providers -> {"none", "spawned", "starting", "started", "holding", "sleeping"}]
          /\ ending' \in [Providers -> 0..MaxEnding]
      BY <1>0, <1>7, <2>0 DEF TypeOK, Wake, Put
    <3> QED  BY <1>0, <3>1, <3>2, <3>3, TunnelsTyped
  <2>2. Quiet /\ DirectPlain'
    BY <1>0, <1>7, <2>0 DEF Quiet, DirectPlain, TypeOK, Wake, Put, guardVars, menuVars
  <2> QED  BY <1>0, <2>1, <2>2
<1>8. CASE OldWrites(p)
  <2>0. ending' \in [Providers -> 0..MaxEnding]
    BY <1>0, <1>8, OldWritesType DEF OldWrites
  <2>1. TypeOK'
    BY <1>0, <1>8, <2>0 DEF TypeOK, OldWrites, Put, listVars, guardVars, ipv6Vars, menuVars
  <2>2. Quiet /\ DirectPlain'
    BY <1>0, <1>8, <2>0 DEF Quiet, DirectPlain, TypeOK, OldWrites, Put, guardVars, menuVars
  <2> QED  BY <1>0, <2>1, <2>2
<1>9. CASE OldDrops(p)
  <2>0. ending' \in [Providers -> 0..MaxEnding]
    BY <1>0, <1>9, OldWritesType DEF OldDrops
  <2>1. TypeOK'
    BY <1>0, <1>9, <2>0 DEF TypeOK, OldDrops, Put, listVars, guardVars, ipv6Vars, menuVars
  <2>2. Quiet /\ DirectPlain'
    BY <1>0, <1>9, <2>0 DEF Quiet, DirectPlain, TypeOK, OldDrops, Put, guardVars, menuVars
  <2> QED  BY <1>0, <2>1, <2>2
<1>10. CASE XrayUp(p)
  <2>1. TypeOK'
    BY <1>0, <1>10 DEF TypeOK, XrayUp, Put, listVars, guardVars, ipv6Vars, menuVars
  <2>2. Quiet /\ DirectPlain'
    BY <1>0, <1>10 DEF Quiet, DirectPlain, TypeOK, XrayUp, Put, guardVars, menuVars
  <2> QED  BY <1>0, <2>1, <2>2
<1>11. CASE XrayExits(p)
  <2>0. Ends(p) => /\ keeper' = Put(keeper, p, "none")
                   /\ keeper' \in [Providers -> {"none", "spawned", "starting", "started", "holding",
                                                "sleeping"}]
                   /\ ending' \in [Providers -> 0..MaxEnding]
    BY <1>0, EndsType
  <2>1. TypeOK'
    <3>1. UNCHANGED <<listVars, guardVars, menuVars, muddled>>
      BY <1>11 DEF XrayExits
    <3>2. /\ run' \in [Providers -> {"down", "rising", "up", "falling"}]
          /\ record' \in [Providers -> {"none", "connecting", "connected", "over"}]
      BY <1>0, <1>11 DEF TypeOK, XrayExits, Put
    <3>3. /\ keeper' \in [Providers -> {"none", "spawned", "starting", "started", "holding", "sleeping"}]
          /\ ending' \in [Providers -> 0..MaxEnding]
      BY <1>0, <1>11, <2>0 DEF TypeOK, XrayExits, Put
    <3> QED  BY <1>0, <3>1, <3>2, <3>3, TunnelsTyped
  <2>2. Quiet /\ DirectPlain'
    BY <1>0, <1>11, <2>0 DEF Quiet, DirectPlain, TypeOK, XrayExits, Put, guardVars, menuVars
  <2> QED  BY <1>0, <2>1, <2>2
<1>12. CASE Dies(p)
  <2>0. Ends(p) => /\ keeper' = Put(keeper, p, "none")
                   /\ keeper' \in [Providers -> {"none", "spawned", "starting", "started", "holding",
                                                "sleeping"}]
                   /\ ending' \in [Providers -> 0..MaxEnding]
    BY <1>0, EndsType
  <2>1. TypeOK'
    <3>1. UNCHANGED <<listVars, guardVars, menuVars, muddled>>
      BY <1>12 DEF Dies
    <3>2. /\ run' \in [Providers -> {"down", "rising", "up", "falling"}]
          /\ record' \in [Providers -> {"none", "connecting", "connected", "over"}]
      BY <1>0, <1>12 DEF TypeOK, Dies, Put
    <3>3. /\ keeper' \in [Providers -> {"none", "spawned", "starting", "started", "holding", "sleeping"}]
          /\ ending' \in [Providers -> 0..MaxEnding]
      BY <1>0, <1>12, <2>0 DEF TypeOK, Dies, Put
    <3> QED  BY <1>0, <3>1, <3>2, <3>3, TunnelsTyped
  <2>2. Quiet /\ DirectPlain'
    BY <1>0, <1>12, <2>0 DEF Quiet, DirectPlain, TypeOK, Dies, Put, guardVars, menuVars
  <2> QED  BY <1>0, <2>1, <2>2
<1> QED
  BY <1>1, <1>2, <1>3, <1>4, <1>5, <1>6, <1>7, <1>8, <1>9, <1>10, <1>11, <1>12 DEF TunnelStep

LEMMA AroundGInv ==
  ASSUME GInv, TickLists \/ TickCaches \/ Expire \/ SettingsMode \/ UNCHANGED vars PROVE GInv'
<1>1. TypeOK'
  <2>1. CASE TickLists
    BY <2>1 DEF GInv, TypeOK, TickLists, Listed, tunnelVars, guardVars, ipv6Vars, menuVars
  <2>2. CASE TickCaches
    <3>1. muddled' \in BOOLEAN
      BY <2>2 DEF GInv, TypeOK, TickCaches
    <3> QED  BY <2>2, <3>1 DEF GInv, TypeOK, TickCaches, tunnelVars, guardVars, ipv6Vars, menuVars
  <2>3. CASE Expire
    BY <2>3 DEF GInv, TypeOK, Expire, tunnelVars, guardVars, ipv6Vars, menuVars
  <2>4. CASE SettingsMode
    BY <2>4 DEF GInv, TypeOK, SettingsMode, tunnelVars, listVars, ipv6Vars, menuVars
  <2>5. CASE UNCHANGED vars
    BY <2>5 DEF GInv, TypeOK, vars, tunnelVars, listVars, guardVars, ipv6Vars, menuVars
  <2> QED  BY <2>1, <2>2, <2>3, <2>4, <2>5
<1>2. UNCHANGED <<menuVars, tunnelVars, table>>
  BY DEF TickLists, TickCaches, Expire, SettingsMode, vars, guardVars
<1>3. Quiet /\ DirectPlain'
  BY <1>2 DEF GInv, DirectPlain, Quiet, tunnelVars
<1> QED  BY <1>1, <1>3, QuietGInv

-----------------------------------------------------------------------------
(* Clicks.                                                                 *)

LEMMA ClickGInv == ASSUME GInv, Click PROVE GInv'
<1>1. ASSUME NEW o \in {"connect", "disconnect", "reconnect", "all", "toggle"},
             NEW p \in Providers, NEW pc \in {"guard", "down", "teardown"}, Begin(o, p, pc),
             todo' \in Seq(Providers), mode' \in {"off", "happ", "all"},
             UNCHANGED <<tunnelVars, listVars, table, ipv6Vars, muddled>>,
             pc = "guard" => o \in {"connect", "toggle"},
             pc = "down" => o \in {"disconnect", "reconnect"},
             pc = "teardown" => o = "all"
      PROVE  GInv'
  <2>1. TypeOK'
    BY <1>1 DEF GInv, TypeOK, Begin, Go, tunnelVars, listVars, ipv6Vars
  <2>2. DirectPlain' /\ DirectAlone'
    BY <1>1 DEF GInv, DirectPlain, DirectAlone, Runs, tunnelVars
  <2> QED
    BY <1>1, <2>1, <2>2
    DEF Begin, Go, GInv, OpAt, TornDown, Cleared, KeeperIsBacked, LoadCovers, RulesServe
<1>2. Order[1] \in Providers /\ todo \in Seq(Providers) /\ Order \in Seq(Providers)
      /\ mode \in {"off", "happ", "all"}
  BY GuardAssumption DEF GInv, TypeOK, Providers
<1>3. CASE \E p \in Providers : Connect(p)
  BY <1>1, <1>2, <1>3 DEF Connect, guardVars
<1>4. CASE \E p \in Providers : Disconnect(p)
  BY <1>1, <1>2, <1>4 DEF Disconnect, guardVars
<1>5. CASE \E p \in Providers : Reconnect(p)
  BY <1>1, <1>2, <1>5 DEF Reconnect, guardVars
<1>6. CASE DisconnectAll
  BY <1>1, <1>2, <1>6 DEF DisconnectAll, guardVars
<1>7. CASE KillswitchOn
  BY <1>1, <1>2, <1>7 DEF KillswitchOn
<1>8. CASE KillswitchOff
  <2>1. TypeOK'
    BY <1>8 DEF GInv, TypeOK, KillswitchOff, tunnelVars, listVars, ipv6Vars, menuVars
  <2>2. DirectPlain' /\ DirectAlone'
    BY <1>8 DEF GInv, DirectPlain, DirectAlone, Runs, tunnelVars, KillswitchOff
  <2> QED
    BY <1>8, <2>1, <2>2
    DEF KillswitchOff, tunnelVars, menuVars, GInv, OpAt, TornDown, Cleared, KeeperIsBacked, LoadCovers, RulesServe
<1> QED  BY <1>3, <1>4, <1>5, <1>6, <1>7, <1>8 DEF Click

-----------------------------------------------------------------------------
(* The menu's steps before provider.connect.                               *)

\* Steps that leave every tunnel alone.
LEMMA TunnelsKept ==
  ASSUME GInv, UNCHANGED tunnelVars PROVE DirectPlain' /\ DirectAlone'
  BY DEF GInv, tunnelVars, DirectPlain, DirectAlone, Runs

LEMMA KillswitchStepGInv ==
  ASSUME GInv, WhitelistEmpty \/ DeleteTable \/ LoadRules \/ Suspend PROVE GInv'
<1>1. UNCHANGED <<tunnelVars, listVars, mode, ipv6Vars, op, goal, todo, failed, ok, muddled>>
  BY DEF WhitelistEmpty, DeleteTable, LoadRules, Suspend, guardVars
<1>2. DirectPlain' /\ DirectAlone'
  BY <1>1, TunnelsKept
<1>3. goal \in Providers /\ OpAt
  BY DEF GInv, TypeOK
<1>4. CASE WhitelistEmpty
  <2>1. TypeOK'
    <3>1. /\ UNCHANGED <<tunnelVars, listVars, guardVars, op, goal, todo, failed, ok, muddled>>
          /\ ksok' = FALSE /\ mpc' \in {"idle", "others"}
      BY <1>4 DEF WhitelistEmpty, Go, AfterRules
    <3>2. TypeOK /\ UNCHANGED <<table, mode, ipv6off, want, warned>>
      BY <3>1 DEF GInv, guardVars, ipv6Vars
    <3>3. /\ table \in {NoTable, HappOnly, AllTargets}
          /\ ipv6off \in BOOLEAN /\ want \in BOOLEAN /\ warned \in BOOLEAN
      BY <3>2 DEF TypeOK
    <3> QED  BY <3>1, <3>2, <3>3, MenuTyped
  <2> QED
    BY <1>1, <1>2, <1>4, <2>1
    DEF WhitelistEmpty, Go, AfterRules, GInv, OpAt, TornDown, Cleared, KeeperIsBacked, LoadCovers,
        RulesServe
<1>5. CASE DeleteTable
  <2>1. TypeOK'
    BY <1>5 DEF GInv, TypeOK, DeleteTable, Go, tunnelVars, listVars, ipv6Vars
  <2>2. LoadCovers'
    BY <1>1, <1>5 DEF DeleteTable, Go, LoadCovers, NeedsRules, Resumes, Rebuilds
  <2> QED
    BY <1>1, <1>2, <1>5, <2>1, <2>2
    DEF DeleteTable, Go, GInv, OpAt, TornDown, Cleared, KeeperIsBacked, RulesServe
<1>6. CASE LoadRules
  <2>1. TypeOK'
    <3>1. /\ mpc' \in {"idle", "others"}
          /\ table' \in {table, HappOnly, AllTargets}
          /\ ksok' \in {ksok, FALSE}
      BY <1>6 DEF LoadRules, Go, AfterRules, Whitelist
    <3>2. TypeOK /\ UNCHANGED <<ipv6off, want, warned>>
      BY <1>1 DEF GInv, ipv6Vars
    <3>3. /\ table' \in {NoTable, HappOnly, AllTargets}
          /\ ipv6off \in BOOLEAN /\ want \in BOOLEAN /\ warned \in BOOLEAN
      BY <3>1, <3>2 DEF TypeOK
    <3> QED  BY <1>1, <3>1, <3>2, <3>3, MenuTyped
  <2>2. ~ksok' \/ op = "toggle" \/ goal \in table'
    BY <1>3, <1>6 DEF GInv, LoadCovers, OpAt, LoadRules, Whitelist, HappOnly, AllTargets
  <2> QED
    BY <1>1, <1>2, <1>6, <2>1, <2>2
    DEF LoadRules, Go, AfterRules, GInv, OpAt, TornDown, Cleared, KeeperIsBacked, LoadCovers,
        RulesServe
<1>7. CASE Suspend
  <2>1. TypeOK'
    BY <1>7 DEF GInv, TypeOK, Suspend, Go, tunnelVars, listVars, ipv6Vars
  <2>2. op = "connect"
    BY <1>7 DEF Suspend, NeedsRules, GInv, OpAt
  <2> QED
    BY <1>1, <1>2, <1>7, <2>1, <2>2
    DEF Suspend, Go, GInv, OpAt, TornDown, Cleared, KeeperIsBacked, LoadCovers, RulesServe
<1> QED  BY <1>4, <1>5, <1>6, <1>7

\* The cached list, whatever its age, is a set of happd-backed providers.
LEMMA ProbeType ==
  ASSUME TypeOK, Probe
  PROVE  /\ (cache = NoCache \/ cache \subseteq Backed)'
         /\ (listing = NoCache \/ listing \subseteq Backed)'
  BY DEF TypeOK, Probe, Seen, Listed

LEMMA OthersGInv == ASSUME GInv, Others PROVE GInv'
<1>1. /\ UNCHANGED <<tunnelVars, guardVars, op, goal, failed, ok, ksok, muddled>>
      /\ mpc = "others" /\ op = "connect"
      /\ (mpc' = "connect" /\ UNCHANGED todo) \/ (mpc' = "teardown" /\ todo' = Order)
  BY DEF Others, Go, GInv, OpAt
<1>2. DirectPlain' /\ DirectAlone'
  BY <1>1, TunnelsKept
<1>3. TypeOK'
  BY <1>1, ProbeType, GuardAssumption DEF GInv, TypeOK, Others, tunnelVars, guardVars, ipv6Vars
<1>4. TornDown'
  <2>1. \A q \in Providers : \E i \in 1..Len(Order) : Order[i] = q
    BY GuardAssumption DEF Providers
  <2> QED  BY <1>1, <2>1 DEF TornDown, Direct
<1>5. Cleared'
  <2> SUFFICES ASSUME mpc' = "connect", NEW q \in Direct, q # goal PROVE run[q] = "down"
    BY <1>1 DEF Cleared, tunnelVars
  <2>1. PICK mine \in {{}, {p \in Providers : MayBeGoal(p)}} : ActiveSet \ mine = {}
    BY <1>1 DEF Others, Go
  <2>2. q \notin mine
    BY <2>1 DEF MayBeGoal
  <2>3. ~Active(q)
    BY <2>1, <2>2 DEF ActiveSet, Direct
  <2>4. run[q] # "up"
    BY <2>3 DEF Active, Direct, Backed
  <2> QED  BY <2>4 DEF GInv, DirectPlain
<1> QED
  BY <1>1, <1>2, <1>3, <1>4, <1>5
  DEF guardVars, GInv, OpAt, KeeperIsBacked, LoadCovers, RulesServe

\* What provider.disconnect can do: the tunnel it is about comes down at most.
LEMMA StopEffect ==
  ASSUME GInv, NEW p \in Providers, NEW success \in BOOLEAN, Stop(p, success)
  PROVE  /\ run' \in [Providers -> {"down", "rising", "up", "falling"}]
         /\ UNCHANGED <<keeper, ending, listing>>
         /\ record' \in [Providers -> {"none", "connecting", "connected", "over"}]
         /\ cache' = NoCache \/ cache' \subseteq Backed
         /\ \A q \in Direct : run'[q] = run[q] \/ run'[q] = "down"
         /\ success /\ p \in Direct => run'[p] = "down"
         /\ \A q \in Direct : q # p => run'[q] = run[q]
<1>1. TypeOK
  BY DEF GInv
<1>2. CASE p \in Backed
  BY <1>1, <1>2 DEF TypeOK, Stop, StopBacked, Put, Direct
<1>3. CASE p \notin Backed
  BY <1>1, <1>3 DEF TypeOK, Stop, StopDirect, Put, Direct, listVars
<1> QED  BY <1>2, <1>3

\* A step of disconnect_all: tunnels only come down, and a provider that leaves
\* the list is down, or has made the switch fail.
LEMMA TeardownStepGInv ==
  ASSUME GInv, TypeOK', mpc \in {"teardown", "recheck"}, mpc' \in {"teardown", "recheck"},
         UNCHANGED <<guardVars, op, goal, ok, ksok, keeper>>,
         mpc' = "recheck" => todo' = todo /\ todo # <<>>,
         todo' = todo \/ (todo # <<>> /\ todo' = Tail(todo)),
         \A q \in Direct : run'[q] = run[q] \/ run'[q] = "down",
         todo' # todo /\ ~failed' => \A q \in Direct : q = Head(todo) => run'[q] = "down",
         failed => failed'
  PROVE  GInv'
<1>1. DirectPlain' /\ DirectAlone'
  BY DEF GInv, DirectPlain, DirectAlone, Runs
<1>2. TornDown'
  <2> SUFFICES ASSUME op = "connect", ~failed', NEW q \in Direct, run'[q] = "up"
               PROVE  \E i \in 1..Len(todo') : todo'[i] = q
    BY DEF TornDown
  <2>1. PICK i \in 1..Len(todo) : todo[i] = q
    BY DEF GInv, TornDown
  <2>2. CASE todo' = todo
    BY <2>1, <2>2
  <2>3. CASE todo' # todo
    <3>1. todo \in Seq(Providers) /\ todo # <<>> /\ todo' = Tail(todo)
      BY <2>3 DEF GInv, TypeOK
    <3>2. q # Head(todo)
      BY <2>3
    <3>3. i # 1
      BY <2>1, <3>1, <3>2
    <3>4. i - 1 \in 1..Len(todo') /\ todo'[i - 1] = q
      BY <2>1, <3>1, <3>3
    <3> QED  BY <3>4
  <2> QED  BY <2>2, <2>3
<1> QED
  BY <1>1, <1>2
  DEF guardVars, GInv, OpAt, Cleared, KeeperIsBacked, LoadCovers, RulesServe

LEMMA TeardownGInv == ASSUME GInv, SkipInactive \/ TeardownOne \/ Recheck PROVE GInv'
<1>1. TypeOK /\ todo \in Seq(Providers) /\ todo # <<>>
  BY DEF GInv, TypeOK, OpAt, SkipInactive, TeardownOne, Recheck
<1>2. Head(todo) \in Providers /\ Tail(todo) \in Seq(Providers) /\ Tail(todo) # todo
  BY <1>1
<1>3. \A q \in Direct : q = Head(todo) /\ ~Active(Head(todo)) => run[q] = "down"
  BY DEF GInv, DirectPlain, Active, Direct, Backed
<1>4. CASE SkipInactive
  <2>1. TypeOK'
    BY <1>1, <1>2, <1>4, ProbeType DEF TypeOK, SkipInactive, tunnelVars, guardVars, ipv6Vars
  <2> QED
    BY <1>2, <1>3, <1>4, <2>1, TeardownStepGInv DEF SkipInactive, tunnelVars
<1>5. CASE TeardownOne
  <2>1. PICK success \in BOOLEAN :
          /\ Stop(Head(todo), success)
          /\ IF success THEN todo' = Tail(todo) /\ UNCHANGED mpc
             ELSE Go("recheck") /\ UNCHANGED todo
    BY <1>5 DEF TeardownOne
  <2>2. /\ run' \in [Providers -> {"down", "rising", "up", "falling"}]
        /\ UNCHANGED <<keeper, ending, listing>>
        /\ record' \in [Providers -> {"none", "connecting", "connected", "over"}]
        /\ cache' = NoCache \/ cache' \subseteq Backed
        /\ \A q \in Direct : run'[q] = run[q] \/ run'[q] = "down"
        /\ success /\ Head(todo) \in Direct => run'[Head(todo)] = "down"
    BY <1>2, <2>1, StopEffect
  <2>3. TypeOK'
    <3>1. /\ UNCHANGED <<guardVars, op, goal, failed, ok, ksok, muddled>>
          /\ mpc' \in {"teardown", "recheck"} /\ todo' \in Seq(Providers)
      BY <1>1, <1>2, <1>5, <2>1 DEF TeardownOne, Go
    <3> QED  BY <1>1, <2>2, <3>1 DEF TypeOK, guardVars, ipv6Vars
  <2> QED
    BY <1>1, <1>2, <1>5, <2>1, <2>2, <2>3, TeardownStepGInv DEF TeardownOne, Go
<1>6. CASE Recheck
  <2>1. failed \in BOOLEAN /\ failed' \in BOOLEAN
    BY <1>1, <1>6 DEF TypeOK, Recheck
  <2>2. TypeOK'
    BY <1>1, <1>2, <1>6, <2>1, ProbeType DEF TypeOK, Recheck, Go, tunnelVars, guardVars, ipv6Vars
  <2>3. /\ mpc = "recheck" /\ mpc' = "teardown" /\ todo' = Tail(todo)
        /\ UNCHANGED <<guardVars, op, goal, ok, ksok, keeper, run>>
        /\ failed' = (failed \/ Active(Head(todo)))
    BY <1>6 DEF Recheck, Go, tunnelVars
  <2>4. (todo' # todo /\ ~failed') => \A q \in Direct : q = Head(todo) => run'[q] = "down"
    BY <1>3, <2>3
  <2>5. failed => failed'
    BY <2>3
  <2> QED
    BY <1>1, <2>2, <2>3, <2>4, <2>5, TeardownStepGInv
<1> QED  BY <1>4, <1>5, <1>6

LEMMA TeardownEndsGInv == ASSUME GInv, TeardownEnds PROVE GInv'
<1>1. /\ UNCHANGED <<tunnelVars, table, mode, ipv6off, warned, op, goal, todo, failed, ksok, muddled>>
      /\ mpc = "teardown" /\ todo = <<>> /\ ok' = (op = "all" /\ ~failed)
      /\ mpc' = "cover" /\ Probe /\ want' = (ActiveSet # {})
  BY DEF TeardownEnds, ProbeIPv6, Go
<1>2. DirectPlain' /\ DirectAlone'
  BY <1>1, TunnelsKept
<1>3. TypeOK'
  <2>1. ok' \in BOOLEAN /\ want' \in BOOLEAN
    BY <1>1
  <2> QED  BY <1>1, <2>1, ProbeType DEF GInv, TypeOK, tunnelVars
<1>4. TornDown'
  BY <1>1 DEF GInv, TornDown, tunnelVars
<1> QED
  BY <1>1, <1>2, <1>3, <1>4
  DEF GInv, OpAt, Cleared, KeeperIsBacked, LoadCovers, RulesServe

\* Setting IPv6, whether it works or not.
LEMMA SetType ==
  ASSUME TypeOK, SetIPv6
  PROVE  ipv6off' \in BOOLEAN /\ want' \in BOOLEAN /\ warned' \in BOOLEAN
  BY DEF TypeOK, SetIPv6

LEMMA CoverGInv == ASSUME GInv, Cover PROVE GInv'
<1>1. /\ UNCHANGED <<tunnelVars, listVars, table, mode, op, goal, todo, ok, ksok, muddled>>
      /\ mpc = "cover" /\ failed' = FALSE
      /\ mpc' = IF op = "connect" /\ ~failed THEN "connect" ELSE "idle"
  BY DEF Cover, Go
<1>2. DirectPlain' /\ DirectAlone'
  BY <1>1, TunnelsKept
<1>3. TypeOK'
  <2>1. ipv6off' \in BOOLEAN /\ want' \in BOOLEAN /\ warned' \in BOOLEAN
    BY SetType DEF GInv, Cover
  <2> QED  BY <1>1, <2>1 DEF GInv, TypeOK, tunnelVars, listVars
<1>4. Cleared'
  <2> SUFFICES ASSUME mpc' = "connect", NEW q \in Direct, q # goal PROVE run[q] = "down"
    BY <1>1 DEF Cleared, tunnelVars
  <2>1. todo = <<>> /\ op = "connect" /\ ~failed
    BY <1>1 DEF GInv, OpAt
  <2> QED  BY <1>1, <2>1 DEF GInv, TornDown, DirectPlain
<1> QED
  BY <1>1, <1>2, <1>3, <1>4
  DEF GInv, OpAt, TornDown, KeeperIsBacked, LoadCovers, RulesServe

-----------------------------------------------------------------------------
(* provider.connect and what follows.                                      *)

LEMMA ConnectStepGInv ==
  ASSUME GInv, ConnectFails \/ ConnectDirect \/ StopRunning \/ SpawnKeeper PROVE GInv'
<1>1. TypeOK /\ goal \in Providers /\ op = "connect"
  BY DEF GInv, TypeOK, OpAt, ConnectFails, ConnectDirect, StopRunning, SpawnKeeper
<1>2. UNCHANGED <<table, mode, op, goal, todo, failed, ksok, muddled>>
  BY DEF ConnectFails, ConnectDirect, StopRunning, SpawnKeeper, Succeeds, guardVars
<1>3. ASSUME TypeOK', DirectPlain', DirectAlone', mpc \in {"connect", "spawn"},
             mpc' \in {"sync", "apply", "spawn", "poll"},
             mpc' \in {"spawn", "poll"} => goal \in Backed
      PROVE  GInv'
  BY <1>1, <1>2, <1>3
  DEF GInv, OpAt, TornDown, Cleared, KeeperIsBacked, LoadCovers, RulesServe
<1>4. CASE ConnectFails
  <2>1. TypeOK'
    BY <1>4 DEF GInv, TypeOK, ConnectFails, Go, tunnelVars, listVars, guardVars, ipv6Vars
  <2> QED  BY <1>3, <1>4, <2>1, TunnelsKept DEF ConnectFails, Go
<1>5. CASE ConnectDirect
  <2>1. TypeOK'
    BY <1>1, <1>5 DEF TypeOK, ConnectDirect, Succeeds, Go, Put, listVars
  <2>2. \A q \in Direct : run'[q] = IF q = goal THEN "up" ELSE "down"
    BY <1>1, <1>5 DEF TypeOK, ConnectDirect, Put, GInv, Cleared, Direct
  <2>3. DirectPlain' /\ DirectAlone'
    BY <1>5, <2>2 DEF ConnectDirect, GInv, DirectPlain, DirectAlone, Runs
  <2> QED  BY <1>3, <1>5, <2>1, <2>3 DEF ConnectDirect, Succeeds, Go
<1>6. CASE StopRunning
  <2>1. TypeOK'
    BY <1>1, <1>6 DEF TypeOK, StopRunning, Go, Put, guardVars, ipv6Vars
  <2>2. \A q \in Direct : run'[q] = run[q]
    BY <1>1, <1>6 DEF TypeOK, StopRunning, Put, Direct
  <2>3. DirectPlain' /\ DirectAlone'
    BY <1>6, <2>2 DEF StopRunning, GInv, DirectPlain, DirectAlone, Runs
  <2> QED  BY <1>3, <1>6, <2>1, <2>3 DEF StopRunning, Go
<1>7. CASE SpawnKeeper
  <2>1. ending' \in [Providers -> 0..MaxEnding]
    <3>1. ending[goal] < MaxEnding => ending[goal] + 1 \in 0..MaxEnding
      BY <1>1, GuardAssumption DEF TypeOK
    <3> QED  BY <1>1, <1>7, <3>1 DEF TypeOK, SpawnKeeper, Put
  <2>2. TypeOK'
    <3>1. /\ UNCHANGED <<run, listVars, guardVars, op, goal, todo, failed, ok, ksok, muddled>>
          /\ mpc' = "poll"
          /\ keeper' = Put(keeper, goal, "spawned") /\ record' = Put(record, goal, "none")
      BY <1>7 DEF SpawnKeeper, Go
    <3>2. /\ keeper' \in [Providers -> {"none", "spawned", "starting", "started", "holding", "sleeping"}]
          /\ record' \in [Providers -> {"none", "connecting", "connected", "over"}]
      BY <1>1, <3>1 DEF TypeOK, Put
    <3> QED  BY <1>1, <2>1, <3>1, <3>2 DEF TypeOK, listVars, guardVars, ipv6Vars
  <2>3. goal \in Backed /\ goal \notin Direct
    BY <1>7 DEF SpawnKeeper, GInv, KeeperIsBacked, Direct
  <2>4. DirectPlain' /\ DirectAlone'
    BY <1>1, <1>7, <2>3 DEF SpawnKeeper, TypeOK, Put, GInv, DirectPlain, DirectAlone, Runs, Direct
  <2> QED  BY <1>3, <1>7, <2>2, <2>3, <2>4 DEF SpawnKeeper, Go
<1> QED  BY <1>4, <1>5, <1>6, <1>7

LEMMA VerdictGInv ==
  ASSUME GInv, PollConnected \/ PollFailed \/ PollGivesUp PROVE GInv'
<1>1. /\ UNCHANGED <<tunnelVars, listing, table, mode, ipv6off, warned, op, goal, todo, failed, ksok>>
      /\ mpc = "poll" /\ op = "connect" /\ mpc' \in {"apply", "sync"} /\ cache' = NoCache
  BY DEF PollConnected, PollFailed, PollGivesUp, PollEnds, Succeeds, Go, GInv, OpAt, guardVars, ipv6Vars
<1>2. TypeOK'
  <2>1. ok' \in BOOLEAN /\ want' \in BOOLEAN /\ muddled' \in BOOLEAN
    BY DEF PollConnected, PollFailed, PollGivesUp, Succeeds, GInv, TypeOK, guardVars, ipv6Vars
  <2> QED  BY <1>1, <2>1 DEF GInv, TypeOK, tunnelVars
<1> QED
  BY <1>1, <1>2, TunnelsKept
  DEF GInv, OpAt, TornDown, Cleared, KeeperIsBacked, LoadCovers, RulesServe

LEMMA ApplyGInv == ASSUME GInv, Apply PROVE GInv'
<1>1. /\ UNCHANGED <<tunnelVars, listVars, table, mode, goal, todo, failed, ksok, muddled>>
      /\ mpc = "apply"
      /\ \/ mpc' = "guard" /\ op' = "connect" /\ ok' = FALSE
         \/ mpc' = "idle" /\ UNCHANGED <<op, ok>>
  BY DEF Apply, Go
<1>2. TypeOK'
  <2>1. ipv6off' \in BOOLEAN /\ want' \in BOOLEAN /\ warned' \in BOOLEAN
    BY SetType DEF GInv, Apply
  <2>2. TypeOK /\ table \in {NoTable, HappOnly, AllTargets}
    BY DEF GInv, TypeOK
  <2> QED  BY <1>1, <2>1, <2>2, MenuTyped
<1>3. DirectPlain' /\ DirectAlone'
  BY <1>1, TunnelsKept
<1> QED
  BY <1>1, <1>2, <1>3
  DEF GInv, OpAt, TornDown, Cleared, KeeperIsBacked, LoadCovers, RulesServe

LEMMA SyncGInv == ASSUME GInv, Sync PROVE GInv'
<1>1. /\ UNCHANGED <<tunnelVars, table, mode, ipv6off, warned, op, goal, todo, failed, ok, ksok, muddled>>
      /\ mpc = "sync" /\ mpc' = "apply" /\ Probe /\ want' = (ActiveSet # {})
  BY DEF Sync, ProbeIPv6, Go
<1>2. DirectPlain' /\ DirectAlone'
  BY <1>1, TunnelsKept
<1>3. TypeOK'
  <2>1. want' \in BOOLEAN
    BY <1>1
  <2> QED  BY <1>1, <2>1, ProbeType DEF GInv, TypeOK, tunnelVars
<1> QED
  BY <1>1, <1>2, <1>3
  DEF GInv, OpAt, TornDown, Cleared, KeeperIsBacked, LoadCovers, RulesServe

LEMMA DownGInv == ASSUME GInv, Down PROVE GInv'
<1>1. PICK success \in BOOLEAN : Stop(goal, success) /\ ok' = success
  BY DEF Down
<1>2. /\ UNCHANGED <<guardVars, op, goal, todo, failed, ksok, muddled>>
      /\ mpc = "down" /\ mpc' = "sync" /\ op \in {"disconnect", "reconnect"}
  BY DEF Down, Go, GInv, OpAt
<1>3. /\ run' \in [Providers -> {"down", "rising", "up", "falling"}]
      /\ UNCHANGED <<keeper, ending, listing>>
      /\ record' \in [Providers -> {"none", "connecting", "connected", "over"}]
      /\ cache' = NoCache \/ cache' \subseteq Backed
      /\ \A q \in Direct : run'[q] = run[q] \/ run'[q] = "down"
  BY <1>1, StopEffect DEF GInv, TypeOK
<1>4. TypeOK'
  BY <1>1, <1>2, <1>3 DEF GInv, TypeOK, guardVars, ipv6Vars
<1>5. DirectPlain' /\ DirectAlone'
  BY <1>3 DEF GInv, DirectPlain, DirectAlone, Runs
<1> QED
  BY <1>2, <1>4, <1>5
  DEF guardVars, GInv, OpAt, TornDown, Cleared, KeeperIsBacked, LoadCovers, RulesServe

-----------------------------------------------------------------------------
(* The theorems.                                                           *)

LEMMA NextGInv == ASSUME GInv, [Next]_vars PROVE GInv'
<1>1. CASE MenuStep
  BY <1>1, KillswitchStepGInv, OthersGInv, TeardownGInv, TeardownEndsGInv, CoverGInv,
     ConnectStepGInv, VerdictGInv, ApplyGInv, SyncGInv, DownGInv DEF MenuStep
<1>2. CASE \E p \in Providers : TunnelStep(p)
  BY <1>2, TunnelStepGInv
<1>3. CASE Click
  BY <1>3, ClickGInv
<1>4. CASE TickLists \/ TickCaches \/ Expire \/ SettingsMode \/ UNCHANGED vars
  BY <1>4, AroundGInv
<1> QED  BY <1>1, <1>2, <1>3, <1>4 DEF Next

\* The inductive invariant of the connect guard.
THEOREM GuardInvariant == Spec => []GInv
<1>1. Init => GInv
  BY InitGInv
<1>2. GInv /\ [Next]_vars => GInv'
  BY NextGInv
<1> QED  BY <1>1, <1>2, PTL DEF Spec

\* Every variable of the guard keeps its type.
THEOREM GuardTypeCorrect == Spec => []TypeOK
<1>1. GInv => TypeOK
  BY DEF GInv
<1> QED  BY <1>1, GuardInvariant, PTL

\* Whatever fails, dies or comes late, guarded_connect never brings a direct
\* tunnel up beside another direct one.
THEOREM DirectsNeverTogether == Spec => []DirectAlone
<1>1. GInv => DirectAlone
  BY DEF GInv
<1> QED  BY <1>1, GuardInvariant, PTL

\* After a successful connect with its rules loaded, the killswitch is off or
\* lets the tunnel through, whatever the mode was or has become.
THEOREM RulesServeTheTunnel == Spec => []KillswitchServes
<1>1. GInv => KillswitchServes
  BY DEF GInv, RulesServe, KillswitchServes, Connected
<1> QED  BY <1>1, GuardInvariant, PTL

-----------------------------------------------------------------------------
(* What the guard promises while nothing fails around it: no tunnel dies,  *)
(* no stop is lost, no answer is late, and for as long as no older         *)
(* keeper's record and no older list gets in the way (muddled).            *)
(* Everything stands on two facts: a keeper that is on its way has the     *)
(* menu waiting for it, and what runs is seen.                             *)

\* Only rules and sysctls may fail.
Calm == Faults \subseteq {"rules", "sysctl"}

\* A keeper starts while the menu polls for its record and has nothing running;
\* a happd-backed tunnel runs with its keeper, which holds it once recorded.
CalmKeepers ==
  \A p \in Backed :
    /\ keeper[p] \in {"spawned", "starting", "started"} => mpc = "poll" /\ p = goal
    /\ keeper[p] \in {"starting", "started"} => record[p] = "connecting"
    /\ keeper[p] = "spawned" => record[p] \in {"none", "over"}
    /\ keeper[p] \in {"spawned", "starting"} => ~Runs(p)
    /\ keeper[p] # "sleeping"
    /\ Runs(p) => keeper[p] = "started" \/ (keeper[p] = "holding" /\ record[p] = "connected")

\* A cached list may be too long, never too short.
SeenWell == mpc # "poll" /\ cache # NoCache => Listed \subseteq cache

\* While disconnect_all works for a switch, what runs is still on its list.
AllTornDown ==
  op = "connect" /\ mpc \in {"teardown", "recheck", "cover"} =>
    \A q \in Providers : Runs(q) => \E i \in 1..Len(todo) : todo[i] = q

\* disconnect_all looks again only at what does not run.
GoneAtRecheck == mpc = "recheck" => ~Runs(Head(todo))

\* From provider.connect on, nothing but the goal runs; its keeper finds it stopped.
Alone ==
  /\ mpc \in {"connect", "spawn", "poll"} => \A q \in Providers \ {goal} : ~Runs(q)
  /\ mpc = "spawn" => ~Runs(goal)

\* When a probe has found the system idle, it still is when sysctl runs.
StillIdle == mpc \in {"cover", "apply"} /\ ~want => \A p \in Providers : ~Runs(p)

\* IPv6 is off over what runs, or the user knows, but for the time of an action.
IPv6Covered ==
  mpc = "idle" \/ op = "toggle" => ((\E p \in Providers : Runs(p)) => ipv6off \/ warned)

CalmInv ==
  /\ CalmKeepers
  /\ SeenWell
  /\ AllTornDown
  /\ GoneAtRecheck
  /\ Alone
  /\ StillIdle
  /\ IPv6Covered
  /\ \A p, q \in Providers : Runs(p) /\ Runs(q) => p = q

LEMMA InitCalm == ASSUME Init PROVE CalmInv
<1>1. \A p \in Providers : ~Runs(p)
  BY DEF Init, Runs
<1>2. CalmKeepers
  BY <1>1 DEF Init, CalmKeepers, Backed
<1> QED
  BY <1>1, <1>2 DEF Init, CalmInv, SeenWell, AllTornDown, GoneAtRecheck, Alone, StillIdle, IPv6Covered

\* A race that has happened is not forgotten.
LEMMA MuddledStays == ASSUME [Next]_vars, ~muddled' PROVE ~muddled
<1>1. CASE MenuStep
  BY <1>1
  DEF MenuStep, WhitelistEmpty, DeleteTable, LoadRules, Suspend, Others, SkipInactive, TeardownOne,
      Recheck, TeardownEnds, Cover, ConnectFails, ConnectDirect, StopRunning, SpawnKeeper,
      PollConnected, PollFailed, PollGivesUp, Succeeds, Sync, Apply, Down
<1>2. CASE Click
  BY <1>2 DEF Click, Connect, Disconnect, Reconnect, DisconnectAll, KillswitchOn, KillswitchOff
<1>3. CASE \E q \in Providers : TunnelStep(q)
  BY <1>3 DEF TunnelStep, KeeperClaims, XrayStarts, KeeperFails, KeeperRecords, KeeperSuperseded,
     OldKeeperLeaves, Wake, OldWrites, OldDrops, XrayUp, XrayExits, Dies
<1>4. CASE TickLists \/ TickCaches \/ Expire \/ SettingsMode \/ UNCHANGED vars
  BY <1>4 DEF TickLists, TickCaches, Expire, SettingsMode, vars
<1> QED  BY <1>1, <1>2, <1>3, <1>4 DEF Next

\* Unless the menu is polling for a new one, every tunnel that runs is seen.
LEMMA RunsIsActive ==
  ASSUME GInv, CalmInv, mpc # "poll", NEW p \in Providers, Runs(p) PROVE Active(p)
<1>1. CASE p \in Backed
  <2>1. record[p] = "connected"
    BY <1>1 DEF CalmInv, CalmKeepers
  <2>2. p \in Listed
    BY <1>1 DEF Listed, Runs
  <2>3. p \in Seen
    BY <2>2 DEF Seen, CalmInv, SeenWell
  <2> QED  BY <1>1, <2>1, <2>3 DEF Active, Backed
<1>2. CASE p \notin Backed
  <2>1. run[p] = "up"
    BY <1>2 DEF GInv, DirectPlain, Direct, Runs
  <2> QED  BY <1>2, <2>1 DEF Active, Backed
<1> QED  BY <1>1, <1>2

\* Probing keeps the cache long enough.
LEMMA ProbeSeesWell ==
  ASSUME CalmInv, mpc # "poll", Probe, UNCHANGED tunnelVars PROVE SeenWell'
  BY DEF CalmInv, SeenWell, Probe, Seen, Listed, tunnelVars

\* Nothing new runs.
Fewer == \A q \in Providers : Runs(q)' => Runs(q)

\* The menu's part of the invariant: what runs follows from the keepers' part.
LEMMA FewerCalm ==
  ASSUME CalmInv, Fewer, CalmKeepers',
         SeenWell', AllTornDown', GoneAtRecheck', Alone', StillIdle', IPv6Covered'
  PROVE  CalmInv'
<1>1. (\A p, q \in Providers : Runs(p) /\ Runs(q) => p = q)'
  BY DEF CalmInv, Fewer
<1> QED  BY <1>1 DEF CalmInv

-----------------------------------------------------------------------------
(* Keepers, happd, xray, the tick.                                         *)

\* Steps of the tunnels leave the menu and the guards alone.
LEMMA TunnelStepFrame ==
  ASSUME NEW p \in Providers, TunnelStep(p)
  PROVE  UNCHANGED <<menuVars, guardVars, listVars>>
  BY DEF TunnelStep, KeeperClaims, XrayStarts, KeeperFails, KeeperRecords, KeeperSuperseded,
     OldKeeperLeaves, Wake, OldWrites, OldDrops, XrayUp, XrayExits, Dies

\* In a calm system some steps of a keeper have no occasion: the keeper that starts
\* is the one the menu polls for, and the rest is about tunnels that do not run.
LEMMA CalmKeeperSteps ==
  ASSUME Calm, GInv, CalmInv, NEW p \in Providers, TunnelStep(p)
  PROVE  \/ /\ KeeperClaims(p) \/ XrayStarts(p) \/ KeeperFails(p) \/ KeeperRecords(p)
            /\ p \in Backed /\ mpc = "poll" /\ op = "connect" /\ p = goal
         \/ KeeperSuperseded(p) /\ p \in Backed /\ ~Runs(p)
         \/ OldWrites(p) \/ OldDrops(p) \/ XrayUp(p) \/ XrayExits(p)
<1>1. p \notin Backed => keeper[p] = "none"
  BY DEF GInv, DirectPlain, Direct
<1>2. ~Wake(p)
  BY <1>1 DEF Wake, CalmInv, CalmKeepers
<1>3. ~Dies(p)
  BY DEF Dies, Calm
<1>4. ~OldKeeperLeaves(p)
  BY <1>1 DEF OldKeeperLeaves, CalmInv, CalmKeepers, Runs
<1>5. KeeperSuperseded(p) => p \in Backed /\ ~Runs(p)
  BY <1>1 DEF KeeperSuperseded, CalmInv, CalmKeepers
<1>6. KeeperClaims(p) \/ XrayStarts(p) \/ KeeperFails(p) \/ KeeperRecords(p) =>
        p \in Backed /\ mpc = "poll" /\ p = goal
  BY <1>1 DEF KeeperClaims, XrayStarts, KeeperFails, KeeperRecords, CalmInv, CalmKeepers
<1>7. mpc = "poll" => op = "connect"
  BY DEF GInv, OpAt
<1> QED  BY <1>2, <1>3, <1>4, <1>5, <1>6, <1>7 DEF TunnelStep

\* What CalmKeepers says of one provider.
KeeperCalm(p) ==
  /\ keeper[p] \in {"spawned", "starting", "started"} => mpc = "poll" /\ p = goal
  /\ keeper[p] \in {"starting", "started"} => record[p] = "connecting"
  /\ keeper[p] = "spawned" => record[p] \in {"none", "over"}
  /\ keeper[p] \in {"spawned", "starting"} => ~Runs(p)
  /\ keeper[p] # "sleeping"
  /\ Runs(p) => keeper[p] = "started" \/ (keeper[p] = "holding" /\ record[p] = "connected")

\* A step of one provider's tunnel that the keepers' part survives.
LEMMA OneKeeper ==
  ASSUME CalmInv, NEW p \in Providers, UNCHANGED <<mpc, goal>>,
         p \in Backed => KeeperCalm(p)',
         \A q \in Providers \ {p} :
           run'[q] = run[q] /\ keeper'[q] = keeper[q] /\ record'[q] = record[q]
  PROVE  CalmKeepers'
<1> SUFFICES ASSUME NEW q \in Backed PROVE KeeperCalm(q)'
  BY DEF CalmKeepers, KeeperCalm
<1>1. CASE q = p
  BY <1>1
<1>2. CASE q # p
  <2>1. q \in Providers \ {p} /\ KeeperCalm(q)
    BY <1>2 DEF Backed, CalmInv, CalmKeepers, KeeperCalm
  <2> QED  BY <2>1 DEF KeeperCalm, Runs
<1> QED  BY <1>1, <1>2

\* Tunnel steps after which the same tunnels run.
LEMMA SameRunsCalm ==
  ASSUME GInv, CalmInv, CalmKeepers', UNCHANGED <<menuVars, guardVars, listVars>>,
         \A q \in Providers : Runs(q)' = Runs(q)
  PROVE  CalmInv'
<1>1. Listed' = Listed
  BY DEF Listed, Runs, Backed
<1>2. UNCHANGED <<mpc, op, goal, todo, want, ipv6off, warned, cache>>
  BY DEF menuVars, guardVars, ipv6Vars, listVars
<1>3. mpc = "recheck" => Head(todo) \in Providers
  BY DEF GInv, TypeOK, OpAt
<1>4. goal \in Providers
  BY DEF GInv, TypeOK
<1>5. SeenWell' /\ AllTornDown' /\ GoneAtRecheck' /\ Alone' /\ StillIdle' /\ IPv6Covered'
  BY <1>1, <1>2, <1>3, <1>4
  DEF CalmInv, SeenWell, AllTornDown, GoneAtRecheck, Alone, StillIdle, IPv6Covered
<1> QED  BY <1>5, FewerCalm DEF Fewer

LEMMA TunnelStepCalm ==
  ASSUME Calm, GInv, CalmInv, NEW p \in Providers, TunnelStep(p), ~muddled' PROVE CalmInv'
<1>1. TypeOK
  BY DEF GInv
<1>2. UNCHANGED <<menuVars, guardVars, listVars>>
  BY TunnelStepFrame
<1>3. UNCHANGED <<mpc, op, goal, todo, want, ipv6off, warned, cache>>
  BY <1>2 DEF menuVars, guardVars, ipv6Vars, listVars
<1>4. p \in Backed => KeeperCalm(p)
  BY DEF CalmInv, CalmKeepers, KeeperCalm
<1>5. CASE /\ KeeperClaims(p) \/ XrayStarts(p) \/ KeeperFails(p) \/ KeeperRecords(p)
           /\ p \in Backed /\ mpc = "poll" /\ op = "connect" /\ p = goal
  <2>1. \A q \in Providers \ {p} : run'[q] = run[q] /\ keeper'[q] = keeper[q]
                                   /\ record'[q] = record[q]
    BY <1>1, <1>5 DEF KeeperClaims, XrayStarts, KeeperFails, KeeperRecords, Ends, TypeOK, Put
  <2>2. KeeperCalm(p)'
    <3>1. CASE KeeperClaims(p)
      BY <1>1, <1>3, <1>4, <1>5, <3>1 DEF KeeperCalm, KeeperClaims, TypeOK, Put, Runs
    <3>2. CASE XrayStarts(p)
      BY <1>1, <1>3, <1>4, <1>5, <3>2 DEF KeeperCalm, XrayStarts, TypeOK, Put, Runs
    <3>3. CASE KeeperFails(p)
      BY <1>1, <1>3, <1>4, <1>5, <3>3 DEF KeeperCalm, KeeperFails, Ends, TypeOK, Put, Runs
    <3>4. CASE KeeperRecords(p)
      <4>1. record'[p] = "connected" /\ keeper'[p] \in {"holding", "none"}
            /\ (keeper'[p] = "none" => ~Runs(p)')
        BY <1>1, <1>4, <1>5, <3>4 DEF KeeperCalm, KeeperRecords, Ends, TypeOK, Put, Runs, Calm
      <4> QED  BY <4>1 DEF KeeperCalm
    <3> QED  BY <1>5, <3>1, <3>2, <3>3, <3>4
  <2>3. CalmKeepers'
    BY <1>3, <2>1, <2>2, OneKeeper
  <2>4. \A q \in Providers \ {p} : ~Runs(q)'
    BY <1>5, <2>1 DEF CalmInv, Alone, Runs
  <2> QED
    BY <1>3, <1>5, <2>3, <2>4
    DEF CalmInv, SeenWell, AllTornDown, GoneAtRecheck, Alone, StillIdle, IPv6Covered
<1>6. CASE KeeperSuperseded(p) /\ p \in Backed /\ ~Runs(p)
  <2>1. \A q \in Providers \ {p} : run'[q] = run[q] /\ keeper'[q] = keeper[q]
                                   /\ record'[q] = record[q]
    BY <1>1, <1>6 DEF KeeperSuperseded, Ends, TypeOK, Put
  <2>2. keeper'[p] = "none" /\ run'[p] = "falling"
    BY <1>1, <1>6 DEF KeeperSuperseded, Ends, TypeOK, Put
  <2>3. CalmKeepers'
    BY <1>3, <2>1, <2>2, OneKeeper DEF KeeperCalm, Runs
  <2>4. \A q \in Providers : Runs(q)' = Runs(q)
    BY <1>6, <2>1, <2>2 DEF Runs
  <2> QED  BY <1>2, <2>3, <2>4, SameRunsCalm
<1>7. CASE OldWrites(p) \/ OldDrops(p)
  <2>1. UNCHANGED <<run, keeper>>
    BY <1>7 DEF OldWrites, OldDrops
  <2>2. \A q \in Providers \ {p} : record'[q] = record[q]
    BY <1>1, <1>7 DEF OldWrites, OldDrops, TypeOK, Put
  <2>3. p \in Backed => KeeperCalm(p)'
    <3>1. CASE OldDrops(p)
      BY <1>3, <1>4, <2>1, <3>1 DEF OldDrops, KeeperCalm, Runs
    <3>2. CASE OldWrites(p)
      <4>1. record'[p] = "over" /\ ~Newer(p)
        BY <1>1, <3>2 DEF OldWrites, TypeOK, Put
      <4> QED  BY <1>3, <1>4, <2>1, <4>1 DEF Newer, KeeperCalm, Runs
    <3> QED  BY <1>7, <3>1, <3>2
  <2>4. CalmKeepers'
    BY <1>3, <2>1, <2>2, <2>3, OneKeeper
  <2> QED  BY <1>2, <2>1, <2>4, SameRunsCalm DEF Runs
<1>8. CASE XrayUp(p) \/ XrayExits(p)
  <2>1. /\ \A q \in Providers \ {p} : run'[q] = run[q] /\ keeper'[q] = keeper[q]
        /\ record' = record
    BY <1>1, <1>8 DEF XrayUp, XrayExits, Ends, TypeOK, Put
  <2>2. Runs(p)' = Runs(p)
    BY <1>1, <1>8 DEF XrayUp, XrayExits, TypeOK, Put, Runs
  <2>3. \/ keeper'[p] = keeper[p]
        \/ keeper'[p] = "none" /\ ~Runs(p)
    BY <1>1, <1>8 DEF XrayUp, XrayExits, Ends, TypeOK, Put, Runs
  <2>4. p \in Backed => KeeperCalm(p)'
    BY <1>3, <1>4, <2>1, <2>2, <2>3 DEF KeeperCalm
  <2>5. CalmKeepers'
    BY <1>3, <2>1, <2>4, OneKeeper
  <2>6. \A q \in Providers : Runs(q)' = Runs(q)
    BY <2>1, <2>2 DEF Runs
  <2> QED  BY <1>2, <2>5, <2>6, SameRunsCalm
<1> QED  BY <1>5, <1>6, <1>7, <1>8, CalmKeeperSteps

LEMMA AroundCalm ==
  ASSUME GInv, CalmInv, TickLists \/ TickCaches \/ Expire \/ SettingsMode \/ UNCHANGED vars, ~muddled'
  PROVE  CalmInv'
<1>1. UNCHANGED <<tunnelVars, menuVars, ipv6Vars>>
  BY DEF TickLists, TickCaches, Expire, SettingsMode, vars, guardVars
<1>2. SeenWell'
  <2>1. CASE TickCaches
    BY <1>1, <2>1 DEF SeenWell, TickCaches, Listed, tunnelVars, menuVars
  <2>2. CASE TickLists \/ Expire \/ SettingsMode \/ UNCHANGED vars
    <3>1. cache' = cache \/ cache' = NoCache
      BY <2>2 DEF TickLists, Expire, SettingsMode, vars, listVars
    <3> QED  BY <1>1, <3>1 DEF CalmInv, SeenWell, Listed, tunnelVars, menuVars
  <2> QED  BY <2>1, <2>2
<1> QED
  BY <1>1, <1>2 DEF tunnelVars, menuVars, ipv6Vars, CalmInv, CalmKeepers, AllTornDown,
     GoneAtRecheck, Alone, StillIdle, IPv6Covered, Runs

-----------------------------------------------------------------------------
(* The menu's steps.                                                       *)

\* While the menu is not polling no keeper is on its way, so that nothing comes
\* up; the rest of the invariant is then about the menu and the cache.
LEMMA MenuStepCalm ==
  ASSUME GInv, CalmInv, mpc # "poll", Fewer, UNCHANGED <<keeper>>,
         \A p \in Backed : Runs(p)' => record'[p] = record[p],
         SeenWell', AllTornDown', GoneAtRecheck', Alone', StillIdle', IPv6Covered'
  PROVE  CalmInv'
<1>1. CalmKeepers'
  BY DEF CalmInv, CalmKeepers, Fewer, Backed
<1> QED  BY <1>1, FewerCalm

LEMMA ClickCalm == ASSUME GInv, CalmInv, Click PROVE CalmInv'
<1>1. /\ UNCHANGED <<tunnelVars, listVars, ipv6Vars>>
      /\ mpc = "idle" /\ mpc' \in {"idle", "guard", "down", "teardown"}
      /\ mpc' = "teardown" => op' = "all"
  <2>1. CASE KillswitchOff
    BY <2>1 DEF KillswitchOff, menuVars
  <2>2. CASE ~KillswitchOff
    BY <2>2 DEF Click, Connect, Disconnect, Reconnect, DisconnectAll, KillswitchOn, Begin, Go, guardVars
  <2> QED  BY <2>1, <2>2
<1>2. Fewer
  BY <1>1 DEF Fewer, Runs, tunnelVars
<1>3. SeenWell'
  BY <1>1 DEF CalmInv, SeenWell, Listed, tunnelVars, listVars
<1>4. IPv6Covered'
  BY <1>1 DEF CalmInv, IPv6Covered, Runs, tunnelVars, ipv6Vars
<1> QED
  BY <1>1, <1>2, <1>3, <1>4, MenuStepCalm DEF AllTornDown, GoneAtRecheck, Alone, StillIdle, tunnelVars

LEMMA KillswitchStepCalm ==
  ASSUME GInv, CalmInv, WhitelistEmpty \/ DeleteTable \/ LoadRules \/ Suspend PROVE CalmInv'
<1>1. /\ UNCHANGED <<tunnelVars, listVars, ipv6Vars, op>>
      /\ mpc \in {"guard", "load"} /\ mpc' \in {"load", "others", "idle"}
      /\ mpc' = "idle" => op = "toggle"
  BY DEF WhitelistEmpty, DeleteTable, LoadRules, Suspend, AfterRules, Go, guardVars
<1>2. Fewer
  BY <1>1 DEF Fewer, Runs, tunnelVars
<1>3. SeenWell'
  BY <1>1 DEF CalmInv, SeenWell, Listed, tunnelVars, listVars
<1>4. IPv6Covered'
  BY <1>1 DEF CalmInv, IPv6Covered, Runs, tunnelVars, ipv6Vars
<1> QED
  BY <1>1, <1>2, <1>3, <1>4, MenuStepCalm DEF AllTornDown, GoneAtRecheck, Alone, StillIdle, tunnelVars

LEMMA OthersCalm == ASSUME GInv, CalmInv, Others PROVE CalmInv'
<1>1. /\ UNCHANGED <<tunnelVars, op, goal>>
      /\ mpc = "others" /\ op = "connect" /\ Probe
      /\ mpc' = "connect" \/ (mpc' = "teardown" /\ todo' = Order)
  BY DEF Others, Go, GInv, OpAt
<1>2. SeenWell'
  BY <1>1, ProbeSeesWell
<1>3. Fewer
  BY <1>1 DEF Fewer, Runs, tunnelVars
<1>4. AllTornDown'
  <2>1. \A q \in Providers : \E i \in 1..Len(Order) : Order[i] = q
    BY GuardAssumption DEF Providers
  <2> QED  BY <1>1, <2>1 DEF AllTornDown
<1>5. Alone'
  <2> SUFFICES ASSUME mpc' = "connect", NEW q \in Providers \ {goal} PROVE ~Runs(q)
    BY <1>1 DEF Alone, Runs, tunnelVars
  <2>1. PICK mine \in {{}, {p \in Providers : MayBeGoal(p)}} : ActiveSet \ mine = {}
    BY DEF Others, Go
  <2>2. q \notin mine
    BY <2>1 DEF MayBeGoal
  <2>3. ~Active(q)
    BY <2>1, <2>2 DEF ActiveSet
  <2> QED  BY <1>1, <2>3, RunsIsActive
<1> QED
  BY <1>1, <1>2, <1>3, <1>4, <1>5, MenuStepCalm DEF GoneAtRecheck, StillIdle, IPv6Covered, tunnelVars

\* provider.disconnect stops what runs, or says that there is nothing to stop.
LEMMA StopCalm ==
  ASSUME Calm, GInv, CalmInv, mpc # "poll", NEW p \in Providers, NEW success \in BOOLEAN,
         Stop(p, success)
  PROVE  /\ Fewer
         /\ ~Runs(p)'
         /\ ~success => ~Runs(p)
         /\ keeper' = keeper
         /\ \A q \in Backed : Runs(q)' => record'[q] = record[q]
         /\ cache' = NoCache \/ (cache' = cache /\ Listed' \subseteq Listed)
<1>1. /\ run \in [Providers -> {"down", "rising", "up", "falling"}]
      /\ record \in [Providers -> {"none", "connecting", "connected", "over"}]
      /\ "stop" \notin Faults
  BY DEF GInv, TypeOK, Calm
<1>2. CASE p \in Backed
  <2>1. \/ p \notin Listed /\ ~success /\ UNCHANGED <<run, cache>>
        \/ p \in Listed /\ cache' = NoCache /\ success /\ run' = Put(run, p, "falling")
    BY <1>1, <1>2 DEF Stop, StopBacked
  <2>2. keeper' = keeper /\ record' = Put(record, p, "none")
    BY <1>2 DEF Stop, StopBacked
  <2>3. ~Runs(p)' /\ Fewer /\ (~success => ~Runs(p))
    BY <1>1, <1>2, <2>1 DEF Fewer, Runs, Put, Listed
  <2>4. \A q \in Backed : Runs(q)' => record'[q] = record[q]
    BY <1>1, <2>2, <2>3 DEF Put, Backed
  <2> QED  BY <2>1, <2>2, <2>3, <2>4 DEF Listed
<1>3. CASE p \notin Backed
  <2>1. /\ UNCHANGED <<keeper, record, cache>>
        /\ \/ success /\ run' = Put(run, p, "down")
           \/ run[p] = "down" /\ ~success /\ UNCHANGED run
    BY <1>1, <1>3 DEF Stop, StopDirect, listVars
  <2>2. ~Runs(p)' /\ Fewer /\ (~success => ~Runs(p))
    BY <1>1, <2>1 DEF Fewer, Runs, Put
  <2>3. Listed' \subseteq Listed
    BY <2>2 DEF Fewer, Runs, Listed, Backed
  <2> QED  BY <2>1, <2>2, <2>3
<1> QED  BY <1>2, <1>3

\* A step of disconnect_all that takes a provider off the list.
LEMMA ListShrinks ==
  ASSUME GInv, CalmInv, Fewer, op' = op, mpc \in {"teardown", "recheck"},
         todo # <<>>, todo' = Tail(todo),
         \A q \in Providers : q = Head(todo) => ~Runs(q)'
  PROVE  AllTornDown'
<1> SUFFICES ASSUME op = "connect", NEW q \in Providers, Runs(q)'
             PROVE  \E i \in 1..Len(todo') : todo'[i] = q
  BY DEF AllTornDown
<1>1. PICK i \in 1..Len(todo) : todo[i] = q
  BY DEF CalmInv, AllTornDown, Fewer
<1>2. todo \in Seq(Providers)
  BY DEF GInv, TypeOK
<1>3. q # Head(todo)
  OBVIOUS
<1>4. i - 1 \in 1..Len(todo') /\ todo'[i - 1] = q
  BY <1>1, <1>2, <1>3
<1> QED  BY <1>4

LEMMA TeardownCalm ==
  ASSUME Calm, GInv, CalmInv, SkipInactive \/ TeardownOne \/ Recheck PROVE CalmInv'
<1>1. /\ todo \in Seq(Providers) /\ todo # <<>> /\ mpc \in {"teardown", "recheck"}
      /\ UNCHANGED <<op, goal, ipv6Vars>>
  BY DEF GInv, TypeOK, OpAt, SkipInactive, TeardownOne, Recheck, guardVars
<1>2. PICK h \in Providers : h = Head(todo)
  BY <1>1
<1>3. mpc' \in {"teardown", "recheck"}
  BY DEF SkipInactive, TeardownOne, Recheck, Go
<1>4. Alone' /\ StillIdle'
  BY <1>3 DEF Alone, StillIdle
<1>5. ASSUME Fewer PROVE IPv6Covered'
  BY <1>1, <1>3, <1>5 DEF CalmInv, IPv6Covered, Fewer, ipv6Vars
<1>6. CASE SkipInactive \/ Recheck
  <2>1. UNCHANGED tunnelVars /\ Probe /\ todo' = Tail(todo) /\ mpc' = "teardown"
    BY <1>6 DEF SkipInactive, Recheck, Go
  <2>2. ~Runs(h)
    BY <1>2, <1>6, RunsIsActive DEF SkipInactive, Recheck, CalmInv, GoneAtRecheck
  <2>3. Fewer /\ ~Runs(h)'
    BY <2>1, <2>2 DEF Fewer, Runs, tunnelVars
  <2>4. AllTornDown'
    BY <1>1, <1>2, <2>1, <2>3, ListShrinks
  <2>5. SeenWell'
    BY <1>1, <2>1, ProbeSeesWell
  <2> QED
    BY <1>1, <1>4, <1>5, <2>1, <2>3, <2>4, <2>5, MenuStepCalm DEF GoneAtRecheck, tunnelVars
<1>7. CASE TeardownOne
  <2>1. PICK success \in BOOLEAN :
          /\ Stop(h, success)
          /\ IF success THEN todo' = Tail(todo) /\ UNCHANGED mpc
             ELSE Go("recheck") /\ UNCHANGED todo
    BY <1>2, <1>7 DEF TeardownOne
  <2>2. mpc = "teardown"
    BY <1>7 DEF TeardownOne
  <2>3. /\ Fewer
        /\ ~Runs(h)'
        /\ keeper' = keeper
        /\ \A q \in Backed : Runs(q)' => record'[q] = record[q]
        /\ cache' = NoCache \/ (cache' = cache /\ Listed' \subseteq Listed)
    BY <2>1, <2>2, StopCalm
  <2>4. SeenWell'
    BY <2>2, <2>3 DEF CalmInv, SeenWell
  <2>5. AllTornDown'
    <3>1. CASE success
      BY <1>1, <1>2, <2>1, <2>3, <3>1, ListShrinks
    <3>2. CASE ~success
      BY <1>1, <2>1, <2>3, <3>2 DEF CalmInv, AllTornDown, Fewer
    <3> QED  BY <3>1, <3>2
  <2>6. GoneAtRecheck'
    BY <1>2, <2>1, <2>2, <2>3 DEF GoneAtRecheck, Go, Runs
  <2> QED
    BY <1>4, <1>5, <2>2, <2>3, <2>4, <2>5, <2>6, MenuStepCalm
<1> QED  BY <1>6, <1>7

\* What the probe of IPv6 sees is all that runs.
LEMMA ProbeFindsAll ==
  ASSUME GInv, CalmInv, mpc # "poll", ProbeIPv6, UNCHANGED tunnelVars
  PROVE  StillIdle' /\ SeenWell'
<1>1. want' = (ActiveSet # {}) /\ Probe
  BY DEF ProbeIPv6
<1>2. \A p \in Providers : Runs(p) => want'
  BY <1>1, RunsIsActive DEF ActiveSet
<1>3. StillIdle'
  BY <1>2 DEF StillIdle, Runs, tunnelVars
<1> QED  BY <1>1, <1>3, ProbeSeesWell

LEMMA TeardownEndsCalm == ASSUME GInv, CalmInv, TeardownEnds PROVE CalmInv'
<1>1. /\ UNCHANGED <<tunnelVars, op, goal, todo>> /\ ProbeIPv6
      /\ mpc = "teardown" /\ mpc' = "cover" /\ op # "toggle"
  BY DEF TeardownEnds, Go, GInv, OpAt
<1>2. Fewer
  BY <1>1 DEF Fewer, Runs, tunnelVars
<1>3. StillIdle' /\ SeenWell'
  BY <1>1, ProbeFindsAll
<1>4. AllTornDown'
  BY <1>1 DEF CalmInv, AllTornDown, Runs, tunnelVars
<1> QED
  BY <1>1, <1>2, <1>3, <1>4, MenuStepCalm DEF GoneAtRecheck, Alone, IPv6Covered, tunnelVars

LEMMA SyncCalm == ASSUME GInv, CalmInv, Sync PROVE CalmInv'
<1>1. /\ UNCHANGED <<tunnelVars, op>> /\ ProbeIPv6
      /\ mpc = "sync" /\ mpc' = "apply" /\ op # "toggle"
  BY DEF Sync, Go, GInv, OpAt
<1>2. Fewer
  BY <1>1 DEF Fewer, Runs, tunnelVars
<1>3. StillIdle' /\ SeenWell'
  BY <1>1, ProbeFindsAll
<1> QED
  BY <1>1, <1>2, <1>3, MenuStepCalm DEF AllTornDown, GoneAtRecheck, Alone, IPv6Covered, tunnelVars

\* sysctl does what the probe asked for, over which nothing has come up since, or the
\* user is warned.
LEMMA SetCovers ==
  ASSUME CalmInv, mpc \in {"cover", "apply"}, SetIPv6, UNCHANGED tunnelVars
  PROVE  (\E p \in Providers : Runs(p))' => ipv6off' \/ warned'
  BY DEF CalmInv, StillIdle, SetIPv6, Runs, tunnelVars

LEMMA CoverCalm == ASSUME GInv, CalmInv, Cover PROVE CalmInv'
<1>1. /\ UNCHANGED <<tunnelVars, listVars, op, goal, todo>> /\ SetIPv6
      /\ mpc = "cover" /\ (mpc' = "idle" \/ (mpc' = "connect" /\ op = "connect"))
  BY DEF Cover, Go
<1>2. Fewer
  BY <1>1 DEF Fewer, Runs, tunnelVars
<1>3. SeenWell'
  BY <1>1 DEF CalmInv, SeenWell, Listed, tunnelVars, listVars
<1>4. IPv6Covered'
  BY <1>1, SetCovers DEF IPv6Covered
<1>5. Alone'
  <2>1. op = "connect" => \A q \in Providers : ~Runs(q)
    BY <1>1 DEF CalmInv, AllTornDown, GInv, OpAt
  <2> QED  BY <1>1, <2>1 DEF Alone, Runs, tunnelVars
<1> QED
  BY <1>1, <1>2, <1>3, <1>4, <1>5, MenuStepCalm DEF AllTornDown, GoneAtRecheck, StillIdle, tunnelVars

LEMMA ApplyCalm == ASSUME GInv, CalmInv, Apply PROVE CalmInv'
<1>1. /\ UNCHANGED <<tunnelVars, listVars>> /\ SetIPv6
      /\ mpc = "apply" /\ mpc' \in {"idle", "guard"}
  BY DEF Apply, Go
<1>2. Fewer
  BY <1>1 DEF Fewer, Runs, tunnelVars
<1>3. SeenWell'
  BY <1>1 DEF CalmInv, SeenWell, Listed, tunnelVars, listVars
<1>4. IPv6Covered'
  BY <1>1, SetCovers DEF IPv6Covered
<1> QED
  BY <1>1, <1>2, <1>3, <1>4, MenuStepCalm
  DEF AllTornDown, GoneAtRecheck, Alone, StillIdle, tunnelVars

LEMMA DownCalm == ASSUME Calm, GInv, CalmInv, Down PROVE CalmInv'
<1>1. PICK success \in BOOLEAN : Stop(goal, success)
  BY DEF Down
<1>2. /\ mpc = "down" /\ mpc' = "sync" /\ op' = op /\ op # "toggle" /\ goal \in Providers
  BY DEF Down, Go, GInv, TypeOK, OpAt
<1>3. /\ Fewer
      /\ keeper' = keeper
      /\ \A q \in Backed : Runs(q)' => record'[q] = record[q]
      /\ cache' = NoCache \/ (cache' = cache /\ Listed' \subseteq Listed)
  BY <1>1, <1>2, StopCalm
<1>4. SeenWell'
  BY <1>2, <1>3 DEF CalmInv, SeenWell
<1> QED
  BY <1>2, <1>3, <1>4, MenuStepCalm DEF AllTornDown, GoneAtRecheck, Alone, StillIdle, IPv6Covered

\* A verdict that is neither the deadline's nor an older keeper's is the keeper's
\* own, which then is not on its way any more.
LEMMA VerdictCalm ==
  ASSUME Calm, GInv, CalmInv, PollConnected \/ PollFailed \/ PollGivesUp, ~muddled' PROVE CalmInv'
<1>1. /\ UNCHANGED <<tunnelVars, op>> /\ cache' = NoCache /\ op = "connect"
      /\ mpc = "poll" /\ mpc' \in {"apply", "sync"} /\ (mpc' = "apply" => want')
  BY DEF PollConnected, PollFailed, PollGivesUp, PollEnds, Succeeds, Go, GInv, OpAt
<1>2. goal \in Backed /\ goal \in Providers
  BY <1>1 DEF GInv, KeeperIsBacked, TypeOK
<1>3. keeper[goal] \notin {"spawned", "starting", "started"}
  <2>1. ~PollGivesUp
    BY DEF Calm, PollGivesUp
  <2>2. CASE PollConnected
    BY <1>2, <2>2 DEF PollConnected, CalmInv, CalmKeepers
  <2>3. CASE PollFailed
    BY <2>3 DEF PollFailed
  <2> QED  BY <2>1, <2>2, <2>3
<1>4. CalmKeepers'
  BY <1>1, <1>3 DEF CalmInv, CalmKeepers, Runs, tunnelVars
<1>5. (\A p, q \in Providers : Runs(p) /\ Runs(q) => p = q)'
  BY <1>1 DEF CalmInv, Runs, tunnelVars
<1> QED
  BY <1>1, <1>4, <1>5
  DEF CalmInv, SeenWell, AllTornDown, GoneAtRecheck, Alone, StillIdle, IPv6Covered

LEMMA ConnectStepCalm ==
  ASSUME Calm, GInv, CalmInv, ConnectFails \/ ConnectDirect \/ StopRunning \/ SpawnKeeper
  PROVE  CalmInv'
<1>1. /\ TypeOK /\ goal \in Providers /\ op = "connect" /\ mpc \in {"connect", "spawn"}
      /\ \A q \in Providers \ {goal} : ~Runs(q)
  BY DEF GInv, TypeOK, OpAt, CalmInv, Alone, ConnectFails, ConnectDirect, StopRunning, SpawnKeeper
<1>2. UNCHANGED <<op, goal>>
  BY DEF ConnectFails, ConnectDirect, StopRunning, SpawnKeeper, Succeeds
<1>3. mpc' \in {"sync", "apply", "spawn", "poll"}
  BY DEF ConnectFails, ConnectDirect, StopRunning, SpawnKeeper, Succeeds, Go
<1>4. AllTornDown' /\ GoneAtRecheck' /\ IPv6Covered'
  BY <1>1, <1>2, <1>3 DEF AllTornDown, GoneAtRecheck, IPv6Covered
<1>5. CASE ConnectFails
  <2>1. UNCHANGED <<tunnelVars, listVars>> /\ mpc' = "sync"
    BY <1>5 DEF ConnectFails, Go
  <2>2. Fewer /\ SeenWell' /\ Alone' /\ StillIdle'
    BY <1>1, <2>1 DEF CalmInv, SeenWell, Listed, Fewer, Runs, Alone, StillIdle, tunnelVars, listVars
  <2> QED  BY <1>1, <1>4, <2>1, <2>2, MenuStepCalm DEF tunnelVars
<1>6. CASE ConnectDirect
  <2>1. /\ UNCHANGED <<keeper, record, listVars>> /\ mpc' = "apply" /\ want' /\ goal \notin Backed
        /\ \A q \in Providers \ {goal} : run'[q] = run[q]
    BY <1>1, <1>6 DEF ConnectDirect, Succeeds, Go, Put, TypeOK, Direct
  <2>2. \A q \in Providers \ {goal} : Runs(q)' = Runs(q)
    BY <2>1 DEF Runs
  <2>3. CalmKeepers'
    BY <1>1, <2>1, <2>2 DEF CalmInv, CalmKeepers, Backed
  <2>4. SeenWell'
    BY <1>1, <2>1 DEF CalmInv, SeenWell, Listed, Backed, listVars
  <2>5. (\A p, q \in Providers : Runs(p) /\ Runs(q) => p = q)'
    BY <1>1, <2>2
  <2> QED  BY <1>4, <2>1, <2>3, <2>4, <2>5 DEF CalmInv, Alone, StillIdle
<1>7. CASE StopRunning
  <2>1. /\ UNCHANGED <<keeper, record>> /\ mpc' = "spawn"
        /\ \/ ~Runs(goal) /\ UNCHANGED <<run, cache>>
           \/ cache' = NoCache /\ run' = Put(run, goal, "falling")
    BY <1>7 DEF StopRunning, Go, Calm, Listed, Runs
  <2>2. Fewer /\ ~Runs(goal)'
    BY <1>1, <1>2, <2>1 DEF Fewer, Runs, Put, TypeOK
  <2>3. SeenWell'
    BY <1>1, <2>1 DEF CalmInv, SeenWell, Listed
  <2>4. Alone' /\ StillIdle'
    BY <1>1, <1>2, <2>1, <2>2 DEF Fewer, Alone, StillIdle
  <2> QED  BY <1>1, <1>4, <2>1, <2>2, <2>3, <2>4, MenuStepCalm
<1>8. CASE SpawnKeeper
  <2>1. /\ UNCHANGED <<run, listVars>> /\ mpc = "spawn" /\ mpc' = "poll"
        /\ keeper'[goal] = "spawned" /\ record'[goal] = "none"
        /\ \A q \in Providers \ {goal} : keeper'[q] = keeper[q] /\ record'[q] = record[q]
    BY <1>1, <1>8 DEF SpawnKeeper, Go, Put, TypeOK
  <2>2. \A q \in Providers : ~Runs(q) /\ ~Runs(q)'
    BY <1>1, <2>1 DEF CalmInv, Alone, Runs
  <2>3. CalmKeepers'
    BY <1>2, <2>1, <2>2 DEF CalmInv, CalmKeepers, Backed
  <2> QED  BY <1>4, <2>1, <2>2, <2>3 DEF CalmInv, SeenWell, Alone, StillIdle
<1> QED  BY <1>5, <1>6, <1>7, <1>8

LEMMA NextCalm == ASSUME Calm, GInv, CalmInv, [Next]_vars, ~muddled' PROVE CalmInv'
<1>1. CASE MenuStep
  BY <1>1, KillswitchStepCalm, OthersCalm, TeardownCalm, TeardownEndsCalm, CoverCalm,
     ConnectStepCalm, VerdictCalm, ApplyCalm, SyncCalm, DownCalm DEF MenuStep
<1>2. CASE \E p \in Providers : TunnelStep(p)
  BY <1>2, TunnelStepCalm
<1>3. CASE Click
  BY <1>3, ClickCalm
<1>4. CASE TickLists \/ TickCaches \/ Expire \/ SettingsMode \/ UNCHANGED vars
  BY <1>4, AroundCalm
<1> QED  BY <1>1, <1>2, <1>3, <1>4 DEF Next

\* The inductive invariant of the guard while nothing but rules and sysctls fails: it
\* holds until one of the two races happens.
THEOREM CalmInvariant == ASSUME Calm PROVE Spec => [](muddled \/ CalmInv)
<1>1. Init => muddled \/ CalmInv
  BY InitCalm
<1>2. GInv /\ (muddled \/ CalmInv) /\ [Next]_vars => (muddled \/ CalmInv)'
  BY NextCalm, MuddledStays
<1> QED  BY <1>1, <1>2, GuardInvariant, PTL DEF Spec

\* "One tunnel at a time": while no tunnel dies, no stop is lost and no answer
\* comes late, two tunnels never run together, whichever providers there are, unless
\* one of the two races has happened.
THEOREM NeverTwoTunnels == ASSUME Calm PROVE Spec => []OneTunnel
<1>1. muddled \/ CalmInv => OneTunnel
  BY DEF CalmInv, OneTunnel
<1> QED  BY <1>1, CalmInvariant, PTL

\* "IPv6 must be off while anything is tunneled": under the same conditions it is,
\* between any two actions of the menu, or sysctl has failed and the user was told.
THEOREM TunnelsHaveIPv6Off == ASSUME Calm PROVE Spec => []TunneledIPv6Off
<1>1. muddled \/ CalmInv => TunneledIPv6Off
  BY DEF CalmInv, IPv6Covered, TunneledIPv6Off
<1> QED  BY <1>1, CalmInvariant, PTL

\* IPv6 goes on in no step but that of the sysctl.
LEMMA OnlySetIPv6 ==
  ASSUME [Next]_vars, ipv6off, ~ipv6off'
  PROVE  (Cover \/ Apply) /\ mpc \in {"cover", "apply"} /\ SetIPv6 /\ UNCHANGED muddled
<1>1. Cover \/ Apply
  <2>1. CASE MenuStep
    BY <2>1
    DEF MenuStep, WhitelistEmpty, DeleteTable, LoadRules, Suspend, Others, SkipInactive,
        TeardownOne, Recheck, TeardownEnds, ConnectFails, ConnectDirect, StopRunning, SpawnKeeper,
        PollConnected, PollFailed, PollGivesUp, Succeeds, Sync, Down, guardVars, ipv6Vars
  <2>2. CASE Click
    BY <2>2 DEF Click, Connect, Disconnect, Reconnect, DisconnectAll, KillswitchOn, KillswitchOff,
       guardVars, ipv6Vars
  <2>3. CASE \E q \in Providers : TunnelStep(q)
    BY <2>3, TunnelStepFrame DEF guardVars, ipv6Vars
  <2>4. CASE TickLists \/ TickCaches \/ Expire \/ SettingsMode \/ UNCHANGED vars
    BY <2>4 DEF TickLists, TickCaches, Expire, SettingsMode, vars, guardVars, ipv6Vars
  <2> QED  BY <2>1, <2>2, <2>3, <2>4 DEF Next
<1> QED  BY <1>1 DEF Cover, Apply

\* The window between the probe that finds the system idle and the sysctl that
\* switches IPv6 back on: under the same conditions no tunnel comes up in it.
THEOREM NeverUncovered == ASSUME Calm PROVE Spec => NeverUncovers
<1>1. ASSUME GInv, muddled \/ CalmInv, [Next]_vars, ipv6off, ~ipv6off', ~muddled,
             NEW p \in Providers
      PROVE  ~Runs(p)
  <2>1. mpc \in {"cover", "apply"} /\ SetIPv6
    BY <1>1, OnlySetIPv6
  <2>2. ~want
    BY <1>1, <2>1 DEF SetIPv6, GInv, TypeOK
  <2> QED  BY <1>1, <2>1, <2>2 DEF CalmInv, StillIdle
<1>2. GInv /\ (muddled \/ CalmInv) /\ [Next]_vars =>
        [ipv6off /\ ~ipv6off' /\ ~muddled => \A p \in Providers : ~Runs(p)]_vars
  BY <1>1
<1> QED  BY <1>2, GuardInvariant, CalmInvariant, PTL DEF Spec, NeverUncovers

-----------------------------------------------------------------------------
(* The killswitch over what runs.                                          *)

\* No rules fail to load, and the endpoints of every provider can be parsed.
Parsed == Faults \subseteq {"sysctl"} /\ \A p \in Providers : Kind[p] # "unparsed"

\* The rules let through what runs, but while a switch, whose rules are for the
\* new tunnel, takes the old ones down.
Covered ==
  table # NoTable /\ ~(op = "connect" /\ mpc \in {"others", "teardown", "recheck", "cover"}) =>
    \A p \in Providers : Runs(p) => p \in table

RulesInv == ksok /\ Covered

\* Whoever comes up new is let through; the rest has been.
LEMMA StillCovered ==
  ASSUME RulesInv, table' = table,
         mpc \in {"others", "teardown", "recheck", "cover"} /\ op = "connect" =>
           op' = "connect" /\ mpc' \in {"others", "teardown", "recheck", "cover"},
         \A p \in Providers : Runs(p)' => Runs(p) \/ table = NoTable \/ p \in table
  PROVE  Covered'
  BY DEF RulesInv, Covered

LEMMA NextRules ==
  ASSUME Parsed, GInv, CalmInv, RulesInv, [Next]_vars, ~muddled' PROVE RulesInv'
<1>1. Calm /\ CalmInv'
  BY NextCalm DEF Parsed, Calm
<1>2. ksok'
  <2>1. CASE MenuStep
    BY <2>1
    DEF Parsed, RulesInv, MenuStep, WhitelistEmpty, DeleteTable, LoadRules, Suspend, Others,
        SkipInactive, TeardownOne, Recheck, TeardownEnds, Cover, ConnectFails, ConnectDirect, StopRunning,
        SpawnKeeper, PollConnected, PollFailed, PollGivesUp, Succeeds, Sync, Apply, Down
  <2>2. CASE Click
    BY <2>2 DEF RulesInv, Click, Connect, Disconnect, Reconnect, DisconnectAll, KillswitchOn,
       KillswitchOff, Begin, menuVars
  <2>3. CASE \E q \in Providers : TunnelStep(q)
    BY <2>3, TunnelStepFrame DEF RulesInv, menuVars
  <2>4. CASE TickLists \/ TickCaches \/ Expire \/ SettingsMode \/ UNCHANGED vars
    BY <2>4 DEF RulesInv, TickLists, TickCaches, Expire, SettingsMode, vars, menuVars
  <2> QED  BY <2>1, <2>2, <2>3, <2>4 DEF Next
<1>3. mpc \in {"others", "connect", "spawn", "poll"} => table = NoTable \/ goal \in table
  BY DEF RulesInv, GInv, RulesServe, OpAt
<1>4. Covered'
  <2>1. CASE WhitelistEmpty \/ DeleteTable \/ LoadRules \/ Suspend
    <3>1. UNCHANGED run /\ AllTargets = Providers
      BY <2>1 DEF WhitelistEmpty, DeleteTable, LoadRules, Suspend, tunnelVars, AllTargets, Parsed
    <3>2. CASE table' = NoTable
      BY <3>2 DEF Covered
    <3>3. CASE table' # NoTable
      <4>1. LoadRules /\ table' = Whitelist
        BY <2>1, <3>3 DEF WhitelistEmpty, DeleteTable, LoadRules, Suspend, Parsed
      <4>2. CASE op = "toggle"
        BY <3>1, <4>1, <4>2 DEF Whitelist, Covered, LoadRules
      <4>3. CASE op # "toggle"
        BY <4>1, <4>3 DEF LoadRules, AfterRules, Go, GInv, OpAt, Covered
      <4> QED  BY <4>2, <4>3
    <3> QED  BY <3>2, <3>3
  <2>2. CASE Others
    <3>1. UNCHANGED <<run, table, op, goal>> /\ mpc = "others" /\ op = "connect"
          /\ mpc' \in {"connect", "teardown"}
      BY <2>2 DEF Others, Go, tunnelVars, guardVars, GInv, OpAt
    <3>2. mpc' = "connect" => \A q \in Providers \ {goal} : ~Runs(q)'
      BY <1>1, <3>1 DEF CalmInv, Alone
    <3> QED  BY <1>3, <3>1, <3>2 DEF Covered
  <2>3. CASE TeardownEnds
    <3>1. UNCHANGED <<run, table, op>> /\ mpc = "teardown" /\ mpc' = "cover"
      BY <2>3 DEF TeardownEnds, Go, tunnelVars
    <3> QED  BY <3>1, StillCovered DEF Runs
  <2>11. CASE Cover
    <3>1. UNCHANGED <<run, table, op>> /\ mpc = "cover" /\ todo = <<>>
      BY <2>11 DEF Cover, tunnelVars, GInv, OpAt
    <3>2. op = "connect" => \A q \in Providers : ~Runs(q)
      BY <3>1 DEF CalmInv, AllTornDown
    <3> QED  BY <3>1, <3>2 DEF RulesInv, Covered, Runs
  <2>4. CASE SkipInactive \/ TeardownOne \/ Recheck
    <3>1. /\ UNCHANGED <<table, op>>
          /\ mpc \in {"teardown", "recheck"} /\ mpc' \in {"teardown", "recheck"}
      BY <2>4 DEF SkipInactive, TeardownOne, Recheck, Go, guardVars
    <3>2. Fewer
      <4>1. CASE TeardownOne
        BY <1>1, <4>1, StopCalm DEF TeardownOne, GInv, TypeOK
      <4>2. CASE ~TeardownOne
        BY <2>4, <4>2 DEF SkipInactive, Recheck, tunnelVars, Fewer, Runs
      <4> QED  BY <4>1, <4>2
    <3> QED  BY <3>1, <3>2, StillCovered DEF Fewer
  <2>5. CASE ConnectFails \/ ConnectDirect \/ StopRunning \/ SpawnKeeper
    <3>1. table' = table /\ mpc \in {"connect", "spawn"}
      BY <2>5 DEF ConnectFails, ConnectDirect, StopRunning, SpawnKeeper, Succeeds, guardVars
    <3>2. \A q \in Providers \ {goal} : run'[q] = run[q]
      BY <2>5 DEF ConnectFails, ConnectDirect, StopRunning, SpawnKeeper, tunnelVars, Put, GInv, TypeOK
    <3>3. \A q \in Providers : Runs(q)' => Runs(q) \/ table = NoTable \/ q \in table
      BY <1>3, <3>1, <3>2 DEF Runs
    <3> QED  BY <3>1, <3>3, StillCovered
  <2>6. CASE PollConnected \/ PollFailed \/ PollGivesUp \/ Apply \/ Sync
    <3>1. UNCHANGED <<run, table>> /\ mpc \in {"poll", "apply", "sync"}
      BY <2>6 DEF PollConnected, PollFailed, PollGivesUp, PollEnds, Succeeds, Apply, Sync,
         tunnelVars, guardVars
    <3> QED  BY <3>1, StillCovered DEF Runs
  <2>7. CASE Down
    <3>1. table' = table /\ mpc = "down"
      BY <2>7 DEF Down, guardVars
    <3>2. Fewer
      BY <1>1, <2>7, <3>1, StopCalm DEF Down, GInv, TypeOK
    <3> QED  BY <3>1, <3>2, StillCovered DEF Fewer
  <2>8. CASE Click
    <3>1. UNCHANGED run /\ (table' = table \/ table' = NoTable) /\ mpc = "idle"
      BY <2>8 DEF Click, Connect, Disconnect, Reconnect, DisconnectAll, KillswitchOn, KillswitchOff,
         Begin, tunnelVars, guardVars
    <3>2. CASE table' = NoTable
      BY <3>2 DEF Covered
    <3>3. CASE table' = table
      BY <3>1, <3>3, StillCovered DEF Runs
    <3> QED  BY <3>1, <3>2, <3>3
  <2>9. CASE \E p \in Providers : TunnelStep(p)
    <3>1. PICK p \in Providers : TunnelStep(p)
      BY <2>9
    <3>2. UNCHANGED <<table, menuVars>>
      BY <3>1, TunnelStepFrame DEF guardVars
    <3>3. CASE \/ KeeperSuperseded(p) /\ p \in Backed /\ ~Runs(p)
               \/ OldWrites(p) \/ OldDrops(p) \/ XrayUp(p) \/ XrayExits(p)
      <4>1. \A q \in Providers : Runs(q)' => Runs(q)
        BY <3>3 DEF KeeperSuperseded, OldWrites, OldDrops, XrayUp, XrayExits, Runs, Put, GInv, TypeOK
      <4> QED  BY <3>2, <4>1, StillCovered DEF menuVars
    <3>4. CASE /\ KeeperClaims(p) \/ XrayStarts(p) \/ KeeperFails(p) \/ KeeperRecords(p)
               /\ p \in Backed /\ mpc = "poll" /\ op = "connect" /\ p = goal
      <4>1. mpc = "poll" /\ p = goal
        BY <3>4
      <4>2. \A q \in Providers \ {p} : run'[q] = run[q]
        BY <3>4 DEF KeeperClaims, XrayStarts, KeeperFails, KeeperRecords, Put, GInv, TypeOK
      <4>3. \A q \in Providers : Runs(q)' => Runs(q) \/ table = NoTable \/ q \in table
        BY <1>3, <4>1, <4>2 DEF Runs
      <4> QED  BY <3>2, <4>1, <4>3, StillCovered DEF menuVars
    <3> QED  BY <1>1, <3>1, <3>3, <3>4, CalmKeeperSteps
  <2>10. CASE TickLists \/ TickCaches \/ Expire \/ SettingsMode \/ UNCHANGED vars
    <3>1. UNCHANGED <<run, table, mpc, op>>
      BY <2>10 DEF TickLists, TickCaches, Expire, SettingsMode, vars, guardVars, tunnelVars, menuVars
    <3> QED  BY <3>1, StillCovered DEF Runs
  <2> QED
    BY <2>1, <2>2, <2>3, <2>4, <2>5, <2>6, <2>7, <2>8, <2>9, <2>10, <2>11 DEF Next, MenuStep
<1> QED  BY <1>2, <1>4 DEF RulesInv

\* "tunnel up = internet works": while nothing but sysctl fails, no race has happened
\* and every provider's endpoints can be parsed, the killswitch blocks no tunnel that
\* is up.
THEOREM TunnelsUpWork == ASSUME Parsed PROVE Spec => []TunnelUpWorks
<1>1. Init => muddled \/ RulesInv
  BY DEF Init, RulesInv, Covered
<1>2. GInv /\ (muddled \/ CalmInv) /\ (muddled \/ RulesInv) /\ [Next]_vars => (muddled \/ RulesInv)'
  BY NextRules, MuddledStays
<1>3. Spec => [](muddled \/ CalmInv)
  BY CalmInvariant DEF Parsed, Calm
<1>4. muddled \/ RulesInv => TunnelUpWorks
  BY DEF RulesInv, Covered, TunnelUpWorks, Runs
<1> QED  BY <1>1, <1>2, <1>3, <1>4, GuardInvariant, PTL DEF Spec
=============================================================================
