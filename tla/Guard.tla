------------------------------- MODULE Guard --------------------------------
(***************************************************************************)
(* The connect guard of vpn_manager.py: one menu process that connects and *)
(* disconnects providers, with the killswitch (nft table inet happ-ks), the *)
(* IPv6 sysctl and happd's cached process list around it.  Keepers, xray   *)
(* and happd act by themselves between any two steps of the menu, and so   *)
(* does Waybar's status tick.  Module Keeper has the keepers in detail;    *)
(* here a provider has one that may start xray, and older ones that have   *)
(* nothing left to do but their last guarded write.                        *)
(***************************************************************************)
EXTENDS Naturals, Sequences, FiniteSets

CONSTANTS
  Order,     \* ALL_PROVIDERS, in the order disconnect_all goes through them
  Kind,      \* what each is: "happ", "keys", "parsed" or "unparsed"
  Faults,    \* what may go wrong: a subset of FaultKinds
  NoTable,   \* the nft table does not exist
  NoCache,   \* no process list is cached, or it is older than its TTL
  MaxEnding  \* bound: keepers of one provider with a last write still to come

Providers == {Order[i] : i \in DOMAIN Order}
FaultKinds == {"death", "late", "stop", "rules", "sysctl"}

ASSUME GuardAssumption ==
  /\ Order \in Seq(Providers) /\ Order # <<>>
  /\ Kind \in [Providers -> {"happ", "keys", "parsed", "unparsed"}]
  /\ Faults \subseteq FaultKinds
  /\ MaxEnding \in Nat
  /\ \A S \in SUBSET Providers : NoTable # S /\ NoCache # S

\* happd runs these; the others (wg-quick, openvpn, nmcli) act when they return.
Backed == {p \in Providers : Kind[p] \in {"happ", "keys"}}
Direct == Providers \ Backed
\* Always let through: "happ-*" interfaces and packets with xray's mark.
HappOnly == {p \in Providers : Kind[p] = "happ"}
\* _killswitch_all_targets: all whose endpoints the program can parse.
AllTargets == {p \in Providers : Kind[p] # "unparsed"}

VARIABLES
  run,      \* each provider's tunnel: no process, process but no interface, both, stopping
  keeper,   \* the keeper of a happd-backed one
  ending,   \* how many older keepers of it have their last record still to write
  record,   \* its state file: absent, or the status in it
  cache,    \* happd-procs.json
  listing,  \* what a status tick has listed and not yet cached
  table,    \* what the killswitch lets through
  mode,     \* killswitch_mode of the config
  ipv6off,  \* net.ipv6.conf.all.disable_ipv6
  want,     \* what the menu's probe, or its success, has found ipv6off should be
  warned,   \* the last attempt to set it failed: "IPv6 guard - warning"
  mpc,      \* where the menu process is
  op, goal, \* the action it performs (or performed last) and the provider clicked (else the first)
  todo,     \* providers disconnect_all has still to look at
  failed,   \* disconnect_all has something on its `failed` list
  ok, ksok, \* the result's success; the killswitch result's
  muddled   \* history: one of the two races below has happened

(* Nothing guards the state file or the process-list cache, so even where  *)
(* no part fails,                                                          *)
(*   - an older keeper's last record can be there when the menu polls for  *)
(*     the new one's, or replace the new one's (happ.py:311 accepts this), *)
(*   - a tick that listed before a tunnel came up can cache that list      *)
(*     after the connect has dropped the cache.                            *)
(* No step reads muddled; what the guard promises while nothing else fails *)
(* is promised for as long as neither has happened.                        *)

tunnelVars == <<run, keeper, ending, record>>
listVars   == <<cache, listing>>
menuVars   == <<mpc, op, goal, todo, failed, ok, ksok>>
ipv6Vars   == <<ipv6off, want, warned>>
guardVars  == <<table, mode, ipv6Vars>>
vars == <<tunnelVars, listVars, guardVars, menuVars, muddled>>

Init ==
  /\ run = [p \in Providers |-> "down"]
  /\ keeper = [p \in Providers |-> "none"]
  /\ ending = [p \in Providers |-> 0]
  /\ record = [p \in Providers |-> "none"]
  /\ cache = NoCache /\ listing = NoCache
  /\ table = NoTable
  /\ mode \in {"off", "happ", "all"}
  /\ ipv6off = FALSE /\ warned = FALSE /\ want = FALSE
  /\ muddled = FALSE
  /\ mpc = "idle" /\ op = "none" /\ goal = Order[1] /\ todo = <<>>
  /\ failed = FALSE /\ ok = FALSE /\ ksok = TRUE

-----------------------------------------------------------------------------
(* What the program can see.                                               *)

Listed == {p \in Backed : run[p] \in {"rising", "up"}}

\* _daemon_running_processes without fresh=True: the list as it is now, or as
\* it was when some process cached it.
Seen == IF cache = NoCache THEN Listed ELSE cache

Iface(p) == run[p] \in {"up", "falling"}

\* connections(): a Happ tunnel is there when its process or its interface is;
\* a keys tunnel also needs a record that names the server ("connecting" holds
\* the server's id, which is nobody's name).
Active(p) ==
  CASE Kind[p] = "happ" -> p \in Seen \/ Iface(p)
    [] Kind[p] = "keys" -> record[p] = "connected" /\ (p \in Seen \/ Iface(p))
    [] OTHER -> run[p] = "up"

ActiveSet == {p \in Providers : Active(p)}

\* Probing leaves the list it has used in the cache.
Probe == cache' = Seen /\ UNCHANGED listing

Put(f, p, v) == [f EXCEPT ![p] = v]

-----------------------------------------------------------------------------
(* Keepers, happd and xray; links that die.                                *)

\* run_keeper's first write, without a look at who owns the file.
KeeperClaims(p) ==
  /\ keeper[p] = "spawned"
  /\ keeper' = Put(keeper, p, "starting")
  /\ record' = Put(record, p, "connecting")
  /\ UNCHANGED <<run, ending, listVars, guardVars, menuVars, muddled>>

\* happd handles the start frame.
XrayStarts(p) ==
  /\ keeper[p] = "starting"
  /\ keeper' = Put(keeper, p, "started")
  /\ run' = Put(run, p, "rising")
  /\ UNCHANGED <<ending, record, listVars, guardVars, menuVars, muddled>>

\* The keeper is on its way out: "exited" is still to be written.
Ends(p) ==
  /\ ending[p] < MaxEnding
  /\ keeper' = Put(keeper, p, "none")
  /\ ending' = Put(ending, p, ending[p] + 1)

\* An error is recorded: over its own record, over none, or it was over already.
KeeperFails(p) ==
  /\ keeper[p] = "starting"
  /\ Ends(p)
  /\ record' = Put(record, p, "over")
  /\ UNCHANGED <<run, listVars, guardVars, menuVars, muddled>>

\* The guarded write finds its own record, or none, or an older keeper's: and may
\* then have looked before that one was written.  If xray has exited meanwhile
\* the keeper ends at once; if it has died, it may sleep and start it again.
KeeperRecords(p) ==
  /\ keeper[p] = "started"
  /\ \/ record' = Put(record, p, "connected")
     \/ record[p] = "over" /\ UNCHANGED record
  /\ \/ run[p] # "down" /\ keeper' = Put(keeper, p, "holding") /\ UNCHANGED ending
     \/ run[p] = "down" /\ Ends(p)
     \/ /\ run[p] = "down" /\ "death" \in Faults
        /\ keeper' = Put(keeper, p, "sleeping") /\ UNCHANGED ending
  /\ UNCHANGED <<run, listVars, guardVars, menuVars, muddled>>

\* The idle tick: the record is gone or another's, the keeper closes its session.
KeeperSuperseded(p) ==
  /\ keeper[p] = "holding" /\ record[p] \in {"none", "over"}
  /\ run[p] # "down"
  /\ Ends(p)
  /\ run' = Put(run, p, "falling")
  /\ UNCHANGED <<record, listVars, guardVars, menuVars, muddled>>

\* The keeper before the one that was spawned leaves its xray to be reaped.
OldKeeperLeaves(p) ==
  /\ keeper[p] \in {"spawned", "starting"}
  /\ run[p] \in {"rising", "up"}
  /\ run' = Put(run, p, "falling")
  /\ UNCHANGED <<keeper, ending, record, listVars, guardVars, menuVars, muddled>>

Wake(p) ==
  /\ keeper[p] = "sleeping"
  /\ IF record[p] \in {"none", "over"} THEN Ends(p)
     ELSE keeper' = Put(keeper, p, "starting") /\ UNCHANGED ending
  /\ UNCHANGED <<run, record, listVars, guardVars, menuVars, muddled>>

\* A newer keeper has written its record.
Newer(p) == keeper[p] \notin {"none", "spawned"} /\ record[p] \in {"connecting", "connected"}

\* An older keeper's "exited".  It looked who owns the file some time ago, so
\* that the write may come at any time ...
OldWrites(p) ==
  /\ ending[p] > 0
  /\ ending' = Put(ending, p, ending[p] - 1)
  /\ record' = Put(record, p, "over")
  /\ muddled' = (muddled \/ Newer(p))
  /\ UNCHANGED <<run, keeper, listVars, guardVars, menuVars>>

\* ... unless the look finds the record of another one.
OldDrops(p) ==
  /\ ending[p] > 0
  /\ Newer(p) \/ ending[p] > 1
  /\ ending' = Put(ending, p, ending[p] - 1)
  /\ UNCHANGED <<run, keeper, record, listVars, guardVars, menuVars, muddled>>

XrayUp(p) ==
  /\ run[p] = "rising"
  /\ run' = Put(run, p, "up")
  /\ UNCHANGED <<keeper, ending, record, listVars, guardVars, menuVars, muddled>>

\* A stopped xray exits, and a keeper that holds it hears so and ends.
XrayExits(p) ==
  /\ run[p] = "falling"
  /\ run' = Put(run, p, "down")
  /\ IF keeper[p] = "holding" THEN Ends(p) ELSE UNCHANGED <<keeper, ending>>
  /\ UNCHANGED <<record, listVars, guardVars, menuVars, muddled>>

\* A tunnel ends by itself; a keeper that holds it gives up, or sleeps and then
\* starts it again.
Dies(p) ==
  /\ "death" \in Faults
  /\ run[p] \in {"rising", "up"}
  /\ run' = Put(run, p, "down")
  /\ \/ keeper[p] = "holding" /\ Ends(p)
     \/ keeper[p] = "holding" /\ keeper' = Put(keeper, p, "sleeping") /\ UNCHANGED ending
     \/ keeper[p] # "holding" /\ UNCHANGED <<keeper, ending>>
  /\ UNCHANGED <<record, listVars, guardVars, menuVars, muddled>>

TunnelStep(p) ==
  \/ KeeperClaims(p) \/ XrayStarts(p) \/ KeeperFails(p) \/ KeeperRecords(p)
  \/ KeeperSuperseded(p) \/ OldKeeperLeaves(p) \/ Wake(p) \/ OldWrites(p) \/ OldDrops(p)
  \/ XrayUp(p) \/ XrayExits(p) \/ Dies(p)

-----------------------------------------------------------------------------
(* The 3 s status tick.                                                    *)

\* It finds no list that is fresh and asks happd.  Bound: one tick at a time, as
\* Waybar runs them.
TickLists ==
  /\ cache = NoCache /\ listing = NoCache
  /\ listing' = Listed
  /\ UNCHANGED <<tunnelVars, cache, guardVars, menuVars, muddled>>

\* It writes what it was told, whoever has written or dropped the cache since.
TickCaches ==
  /\ listing # NoCache
  /\ cache' = listing /\ listing' = NoCache
  /\ muddled' = (muddled \/ (mpc # "poll" /\ ~(Listed \subseteq listing)))
  /\ UNCHANGED <<tunnelVars, guardVars, menuVars>>

Expire ==
  /\ cache # NoCache /\ cache' = NoCache
  /\ UNCHANGED <<tunnelVars, listing, guardVars, menuVars, muddled>>

\* The Settings TUI saves the mode and touches no rule.
SettingsMode ==
  /\ mode' \in {"off", "happ", "all"} \ {mode}
  /\ UNCHANGED <<tunnelVars, listVars, table, ipv6Vars, menuVars, muddled>>

-----------------------------------------------------------------------------
(* The menu process: clicks.                                               *)

Go(pc) == mpc' = pc

Begin(o, p, pc) ==
  /\ mpc = "idle"
  /\ op' = o /\ goal' = p
  /\ ok' = FALSE /\ ksok' = TRUE /\ failed' = FALSE
  /\ Go(pc)

Connect(p) == Begin("connect", p, "guard") /\ UNCHANGED <<tunnelVars, listVars, guardVars, todo, muddled>>
Disconnect(p) == Begin("disconnect", p, "down") /\ UNCHANGED <<tunnelVars, listVars, guardVars, todo, muddled>>
Reconnect(p) == Begin("reconnect", p, "down") /\ UNCHANGED <<tunnelVars, listVars, guardVars, todo, muddled>>

DisconnectAll ==
  /\ Begin("all", Order[1], "teardown")
  /\ todo' = Order
  /\ UNCHANGED <<tunnelVars, listVars, guardVars, muddled>>

\* The killswitch row: set_mode(True) enables for all targets, set_mode(False)
\* removes the table.
KillswitchOn ==
  /\ table = NoTable /\ mode = "off"
  /\ Begin("toggle", Order[1], "guard")
  /\ mode' = "all"
  /\ UNCHANGED <<tunnelVars, listVars, table, ipv6Vars, todo, muddled>>

KillswitchOff ==
  /\ mpc = "idle"
  /\ table # NoTable \/ mode # "off"
  /\ mode' = "off" /\ table' = NoTable
  /\ UNCHANGED <<tunnelVars, listVars, ipv6Vars, menuVars, muddled>>

Click ==
  \/ \E p \in Providers : Connect(p) \/ Disconnect(p) \/ Reconnect(p)
  \/ DisconnectAll \/ KillswitchOn \/ KillswitchOff

-----------------------------------------------------------------------------
(* guarded_connect: the killswitch.                                        *)

Resumes == Kind[goal] = "happ" /\ (table # NoTable \/ mode \in {"happ", "all"})
Rebuilds == Kind[goal] \in {"keys", "parsed"} /\ mode = "all"
NeedsRules == op = "toggle" \/ Resumes \/ Rebuilds

\* Mutant: the provider whose endpoints are not parsed is not left out.
WhitelistUnparsed == IF op # "toggle" /\ Kind[goal] = "happ" THEN HappOnly ELSE Providers

Whitelist == IF op # "toggle" /\ Kind[goal] = "happ" THEN HappOnly ELSE AllTargets

AfterRules == IF op = "toggle" THEN "idle" ELSE "others"

\* The script's on(): an empty whitelist dies before it touches the table ...
WhitelistEmpty ==
  /\ "rules" \in Faults
  /\ mpc = "guard" /\ NeedsRules
  /\ ksok' = FALSE
  /\ Go(AfterRules)
  /\ UNCHANGED <<tunnelVars, listVars, guardVars, op, goal, todo, failed, ok, muddled>>

\* ... otherwise the table is deleted and loaded again.
DeleteTable ==
  /\ mpc = "guard" /\ NeedsRules
  /\ table' = NoTable
  /\ Go("load")
  /\ UNCHANGED <<tunnelVars, listVars, mode, ipv6Vars, op, goal, todo, failed, ok, ksok, muddled>>

LoadRules ==
  /\ mpc = "load"
  /\ \/ table' = Whitelist /\ UNCHANGED ksok
     \/ "rules" \in Faults /\ ksok' = FALSE /\ UNCHANGED table
  /\ Go(AfterRules)
  /\ UNCHANGED <<tunnelVars, listVars, mode, ipv6Vars, op, goal, todo, failed, ok, muddled>>

\* Mutant: the killswitch is suspended only for providers it cannot parse.
SuspendUnparsed ==
  /\ mpc = "guard" /\ ~NeedsRules
  /\ table' = IF Kind[goal] = "unparsed" THEN NoTable ELSE table
  /\ Go("others")
  /\ UNCHANGED <<tunnelVars, listVars, mode, ipv6Vars, op, goal, todo, failed, ok, ksok, muddled>>

\* suspend_for: off for the time of a provider it knows no rules for; nothing
\* to do when it is not on.
Suspend ==
  /\ mpc = "guard" /\ ~NeedsRules
  /\ table' = NoTable
  /\ Go("others")
  /\ UNCHANGED <<tunnelVars, listVars, mode, ipv6Vars, op, goal, todo, failed, ok, ksok, muddled>>

-----------------------------------------------------------------------------
(* guarded_connect: one tunnel at a time.                                  *)

\* The clicked row is not among the others when it is the active one itself; a
\* Happ tunnel without a record has no name, so its row is another one.
MayBeGoal(p) == p = goal /\ (Kind[p] = "happ" => record[p] = "connected")

\* Mutant: the happd-backed providers are left to stop what runs themselves.
OthersOfDirect ==
  /\ mpc = "others"
  /\ Probe
  /\ \E mine \in {{}, {p \in Providers : MayBeGoal(p)}} :
       IF ActiveSet \ mine = {} \/ goal \in Backed THEN Go("connect") /\ UNCHANGED todo
       ELSE Go("teardown") /\ todo' = Order
  /\ UNCHANGED <<tunnelVars, guardVars, op, goal, failed, ok, ksok, muddled>>

Others ==
  /\ mpc = "others"
  /\ Probe
  /\ \E mine \in {{}, {p \in Providers : MayBeGoal(p)}} :
       IF ActiveSet \ mine = {} THEN Go("connect") /\ UNCHANGED todo
       ELSE Go("teardown") /\ todo' = Order
  /\ UNCHANGED <<tunnelVars, guardVars, op, goal, failed, ok, ksok, muddled>>

\* provider.disconnect: the record goes first, then happd is asked to stop what
\* it lists.  A process that is not listed, and one whose stop was lost, is a
\* failure; so is a direct provider's command that fails.
StopBacked(p, success) ==
  /\ record' = Put(record, p, "none")
  /\ UNCHANGED <<keeper, ending, listing>>
  /\ \/ /\ p \notin Listed \/ "stop" \in Faults  \* or happd could not be asked
        /\ ~success
        /\ UNCHANGED <<run, cache>>
     \/ /\ p \in Listed
        /\ cache' = NoCache
        /\ \/ success /\ run' = Put(run, p, "falling")
           \/ "stop" \in Faults /\ ~success /\ UNCHANGED run

StopDirect(p, success) ==
  /\ UNCHANGED <<keeper, ending, record, listVars>>
  /\ \/ run[p] = "up" /\ success /\ run' = Put(run, p, "down")
     \/ (run[p] = "down" \/ "stop" \in Faults) /\ ~success /\ UNCHANGED run

Stop(p, success) ==
  IF p \in Backed THEN StopBacked(p, success) ELSE StopDirect(p, success)

\* disconnect_all, one provider.
SkipInactive ==
  /\ mpc = "teardown" /\ todo # <<>>
  /\ ~Active(Head(todo))
  /\ Probe
  /\ todo' = Tail(todo)
  /\ UNCHANGED <<tunnelVars, guardVars, mpc, op, goal, failed, ok, ksok, muddled>>

TeardownOne ==
  /\ mpc = "teardown" /\ todo # <<>>
  /\ Active(Head(todo))
  /\ \E success \in BOOLEAN :
       /\ Stop(Head(todo), success)
       /\ IF success THEN todo' = Tail(todo) /\ UNCHANGED mpc
          ELSE Go("recheck") /\ UNCHANGED todo
  /\ UNCHANGED <<guardVars, op, goal, failed, ok, ksok, muddled>>

\* Mutant: whatever a failed disconnect says, it is taken for "nothing is up".
RecheckForgiving ==
  /\ mpc = "recheck"
  /\ Probe
  /\ UNCHANGED failed
  /\ todo' = Tail(todo)
  /\ Go("teardown")
  /\ UNCHANGED <<tunnelVars, guardVars, op, goal, ok, ksok, muddled>>

\* "reported failure, but nothing is up anymore" counts as stopped.
Recheck ==
  /\ mpc = "recheck"
  /\ Probe
  /\ failed' = (failed \/ Active(Head(todo)))
  /\ todo' = Tail(todo)
  /\ Go("teardown")
  /\ UNCHANGED <<tunnelVars, guardVars, op, goal, ok, ksok, muddled>>

\* Mutant: only the provider of the action counts.
ProbeIPv6OfGoal == Probe /\ want' = Active(goal)

\* _sync_ipv6_guard looks ...
ProbeIPv6 == Probe /\ want' = (ActiveSet # {})

\* ... and then runs sysctl, if the flag is not as it should be.  A failure is only
\* shown as a warning; it may be the second of the two keys that failed.
SetIPv6 ==
  /\ want' = FALSE  \* a local that is gone, here and in Cover
  /\ \/ ipv6off' = want /\ warned' = FALSE
     \/ "sysctl" \in Faults /\ ipv6off # want /\ ipv6off' \in BOOLEAN /\ warned' = TRUE

TeardownEnds ==
  /\ mpc = "teardown" /\ todo = <<>>
  /\ ProbeIPv6
  /\ ok' = (op = "all" /\ ~failed)
  /\ Go("cover")
  /\ UNCHANGED <<tunnelVars, table, mode, ipv6off, warned, op, goal, todo, failed, ksok, muddled>>

\* disconnect_all returns; a switch goes on if it could stop everything.
Cover ==
  /\ mpc = "cover"
  /\ SetIPv6
  /\ Go(IF op = "connect" /\ ~failed THEN "connect" ELSE "idle")
  /\ failed' = FALSE
  /\ UNCHANGED <<tunnelVars, listVars, table, mode, op, goal, todo, ok, ksok, muddled>>

-----------------------------------------------------------------------------
(* provider.connect and what follows.                                      *)

\* No config, an unknown server, a command that fails.
ConnectFails ==
  /\ mpc = "connect"
  /\ Go("sync")
  /\ UNCHANGED <<tunnelVars, listVars, guardVars, op, goal, todo, failed, ok, ksok, muddled>>

\* "don't re-probe": success alone turns IPv6 off.
Succeeds ==
  /\ ok' = TRUE /\ want' = TRUE
  /\ Go("apply")
  /\ UNCHANGED <<table, mode, ipv6off, warned, op, goal, todo, failed, ksok, muddled>>

ConnectDirect ==
  /\ mpc = "connect" /\ goal \in Direct
  /\ run' = Put(run, goal, "up")
  /\ Succeeds
  /\ UNCHANGED <<keeper, ending, record, listVars>>

\* _stop_running; its bounded wait for the interface may end either way.
StopRunning ==
  /\ mpc = "connect" /\ goal \in Backed
  /\ \/ goal \notin Listed /\ UNCHANGED <<run, cache>>
     \/ goal \in Listed /\ cache' = NoCache /\ run' = Put(run, goal, "falling")
     \/ "stop" \in Faults /\ cache' \in {cache, NoCache} /\ UNCHANGED run
  /\ Go("spawn")
  /\ UNCHANGED <<keeper, ending, record, listing, guardVars, op, goal, todo, failed, ok, ksok, muddled>>

\* _headless_connect removes the old record and starts a process: the keeper that
\* held it until now is an older one.  Bound: not before the last one spawned has
\* its verdict.
SpawnKeeper ==
  /\ mpc = "spawn"
  /\ keeper[goal] \in {"none", "holding", "sleeping"}
  /\ keeper' = Put(keeper, goal, "spawned")
  /\ \/ keeper[goal] = "none" /\ UNCHANGED ending
     \/ /\ keeper[goal] # "none" /\ ending[goal] < MaxEnding
        /\ ending' = Put(ending, goal, ending[goal] + 1)
  /\ record' = Put(record, goal, "none")
  /\ Go("poll")
  /\ UNCHANGED <<run, listVars, guardVars, op, goal, todo, failed, ok, ksok, muddled>>

\* However the poll ends, the process list is to be asked for again.
PollEnds == mpc = "poll" /\ cache' = NoCache /\ UNCHANGED <<tunnelVars, listing>>

\* Mutant: probe after a successful connect as after any other.
PollConnectedProbes ==
  /\ record[goal] = "connected"
  /\ PollEnds
  /\ ok' = TRUE /\ want' = (ActiveSet # {})
  /\ Go("apply")
  /\ UNCHANGED <<table, mode, ipv6off, warned, op, goal, todo, failed, ksok, muddled>>

PollConnected == record[goal] = "connected" /\ PollEnds /\ Succeeds

\* It may be the record of an older keeper, while its own is on its way.
PollFailed ==
  /\ record[goal] = "over"
  /\ PollEnds
  /\ muddled' = (muddled \/ keeper[goal] \in {"spawned", "starting", "started"})
  /\ Go("sync")
  /\ UNCHANGED <<guardVars, op, goal, todo, failed, ok, ksok>>

\* The deadline passes.
PollGivesUp ==
  /\ "late" \in Faults
  /\ PollEnds
  /\ Go("sync")
  /\ UNCHANGED <<guardVars, op, goal, todo, failed, ok, ksok, muddled>>

\* After a failed connect, and after guarded_disconnect.
Sync ==
  /\ mpc = "sync"
  /\ ProbeIPv6
  /\ Go("apply")
  /\ UNCHANGED <<tunnelVars, table, mode, ipv6off, warned, op, goal, todo, failed, ok, ksok, muddled>>

\* The action is done; a reconnect goes on.
Apply ==
  /\ mpc = "apply"
  /\ SetIPv6
  /\ IF op = "reconnect" /\ ok
     THEN Go("guard") /\ op' = "connect" /\ ok' = FALSE
     ELSE Go("idle") /\ UNCHANGED <<op, ok>>
  /\ UNCHANGED <<tunnelVars, listVars, table, mode, goal, todo, failed, ksok, muddled>>

\* guarded_disconnect: the provider's own, then Sync.
Down ==
  /\ mpc = "down"
  /\ \E success \in BOOLEAN : Stop(goal, success) /\ ok' = success
  /\ Go("sync")
  /\ UNCHANGED <<guardVars, op, goal, todo, failed, ksok, muddled>>

MenuStep ==
  \/ WhitelistEmpty \/ DeleteTable \/ LoadRules \/ Suspend
  \/ Others \/ SkipInactive \/ TeardownOne \/ Recheck \/ TeardownEnds \/ Cover
  \/ ConnectFails \/ ConnectDirect \/ StopRunning \/ SpawnKeeper
  \/ PollConnected \/ PollFailed \/ PollGivesUp \/ Sync \/ Apply \/ Down

Next ==
  \/ Click
  \/ MenuStep
  \/ \E p \in Providers : TunnelStep(p)
  \/ TickLists \/ TickCaches \/ Expire \/ SettingsMode

Spec == Init /\ [][Next]_vars

-----------------------------------------------------------------------------
(* Properties.                                                             *)

\* Every variable keeps its type.
TypeOK ==
  /\ run \in [Providers -> {"down", "rising", "up", "falling"}]
  /\ keeper \in [Providers -> {"none", "spawned", "starting", "started", "holding", "sleeping"}]
  /\ ending \in [Providers -> 0..MaxEnding]
  /\ record \in [Providers -> {"none", "connecting", "connected", "over"}]
  /\ cache = NoCache \/ cache \subseteq Backed
  /\ listing = NoCache \/ listing \subseteq Backed
  /\ table \in {NoTable, HappOnly, AllTargets}
  /\ mode \in {"off", "happ", "all"}
  /\ ipv6off \in BOOLEAN /\ want \in BOOLEAN /\ warned \in BOOLEAN
  /\ mpc \in {"idle", "guard", "load", "others", "teardown", "recheck", "cover",
              "connect", "spawn", "poll", "sync", "apply", "down"}
  /\ op \in {"none", "connect", "disconnect", "reconnect", "all", "toggle"}
  /\ goal \in Providers
  /\ todo \in Seq(Providers)
  /\ failed \in BOOLEAN /\ ok \in BOOLEAN /\ ksok \in BOOLEAN /\ muddled \in BOOLEAN

Runs(p) == run[p] \in {"rising", "up"}

Connected == mpc = "idle" /\ op = "connect" /\ ok

\* "one tunnel at a time": no two tunnels run together, unless one of the races has
\* happened.  With "death" the sleeping keeper of the one left behind brings it back.
OneTunnel == ~muddled => \A p, q \in Providers : Runs(p) /\ Runs(q) => p = q

\* Tunnels that come up only when the menu says so never run together, whatever
\* fails and races: a switch is refused rather than made on top of the old one.
DirectAlone == \A p, q \in Direct : Runs(p) /\ Runs(q) => p = q

\* "IPv6 must be off while anything is tunneled": between two menu actions, or the
\* user has been warned that it is not; unless one of the races has happened.
TunneledIPv6Off ==
  mpc = "idle" /\ ~muddled /\ (\E p \in Providers : Runs(p)) => ipv6off \/ warned

\* Nothing comes up between the probe that finds the system idle and the sysctl that
\* switches IPv6 back on; unless one of the races has happened.
NeverUncovers ==
  [][ipv6off /\ ~ipv6off' /\ ~muddled => \A p \in Providers : ~Runs(p)]_vars

\* After a connect whose rules could be loaded, the killswitch is off or lets
\* this tunnel through.
KillswitchServes == Connected /\ ksok /\ table # NoTable => goal \in table

\* "tunnel up = internet works": no tunnel is up behind rules that block it, unless
\* one of the races has happened.
TunnelUpWorks ==
  mpc = "idle" /\ table # NoTable /\ ~muddled =>
    \A p \in Providers : run[p] = "up" => p \in table

\* What docs and comments promise and the runs refute (with OneTunnel,
\* TunneledIPv6Off and TunnelUpWorks above, once something fails).

\* "restored once idle": after a disconnect that succeeded, with every tunnel
\* and every keeper gone, IPv6 is on.
RestoredOnceIdle ==
  mpc = "idle" /\ op \in {"disconnect", "all"} /\ ok
    /\ (\A p \in Providers : run[p] = "down" /\ keeper[p] = "none" /\ ending[p] = 0)
  => ~ipv6off

\* "no tunnel -> no internet at all": only the user's toggle and a provider that
\* the rules do not cover take the table away.
FailClosed ==
  [][table # NoTable /\ table' = NoTable
       => mpc = "idle" \/ ~NeedsRules]_vars
=============================================================================
