# Verification of waybar-vpn-manager

TLA+ modules, TLC configurations and TLAPS proofs about `src/`, the Waybar VPN
manager. Paths below are relative to the directory that holds `src/`; the Python
package is `src/src/`, its shell scripts are `src/scripts/`.

## 1. Inventory

The program is a set of short-lived processes: `vpn_manager.py --status` runs every
3 s, a `--menu` process runs per click, and background workers (`--update-*`,
`--ping-*`, the two `--*-keeper`s) are spawned detached. They share nothing but files, the
`happd` daemon, network interfaces, the nft table and two sysctls. Nothing is locked
except by a few stamp files. That is where its bugs can hide.

| component | state | operations | interacts with |
|---|---|---|---|
| **Happ keeper** `providers/happ.py` `run_keeper`, `_hold_session`, guarded state writes | `happ-keeper.json`; its own `state`, attempts, socket | claim, prepare, start, await ack, hold, re-arm, give up, exit | happd (socket), menu (state file), other keepers (state file) |
| **Keys keeper** `providers/keys.py` `run_keeper` | one state file and process id per kind (`ss`, `vless`) | the same, "mirrors" the above | the same |
| **Happ / Keys providers** | none of their own | `connect`, `disconnect`, `_stop_running`, `_await_keeper`, `connections` | keepers, happd, process-list cache |
| **happd client and process-list cache** `happ.py` 83-182 | `happd-procs.json`, 3 s TTL | list (cached or fresh), stop, invalidate | status tick, menus |
| **Connect guard** `vpn_manager.py` `guarded_connect`, `guarded_disconnect`, `disconnect_all`, `_sync_ipv6_guard` | none; drives all providers | one tunnel at a time, killswitch first, IPv6 last | providers, killswitch, IPv6 guard |
| **Killswitch** `killswitch.py`, `scripts/happ-killswitch` | nft table `inet happ-ks`, saved server IPs, `killswitch_mode` | on, off, detect, is-on, suspend, resume | connect guard, config |
| **IPv6 guard** `ipv6guard.py` | sysctls `all` and `default` `disable_ipv6` | disable, enable | connect guard |
| **WireGuard / AmneziaWG / OpenVPN / NetworkManager providers** | kernel interfaces, pid files, NM | connect, disconnect, import, delete, autostart, endpoint parsing | connect guard, killswitch whitelist |
| **Key store** `keys.py` | `keys.json` | add, `_ensure_uids`, look up by name, look up by uid (nothing removes or renames an entry) | keys keeper (by uid), menus |
| **Config** `config.py` | `config.json` | load (with defaults), save whole | every process; Settings TUI, wizard, killswitch toggle |
| **Subscriptions** `happmeta.py` | `happ-providers.json` (the parsed log), `subscription-<id>.json`, `subs-refresh.json` | parse the log, URL rotation, fetch, server list and its lookups, runtime config | status tick, workers, keepers |
| **Exit IP** `ipinfo.py` | `exit_ip.json`: one connection's address or error | status line, update, 60 s gate | status tick, menu |
| **Reputation** `reputation.py`, `ipsources/` | caches | lookup, merge | Tools menu |
| **Ping sweep** `vpn_manager.py`, `happmeta.py` | `happ-ping.json` | request, sweep, marks | menus |
| **Menus** `vpn_manager.py` | the lines walker was given | build rows, make labels unique, find the chosen row, Profiles menu | every provider |
| **Traffic rate** `providers/base.py` | one sample per interface | sample, rate | status tick |
| **Settings TUI** `settings_tui.py` | draft and saved config, cursor | move, toggle, save, quit | config |
| **Tools** `speedtest.py`, `dnsleak.py`, `notifyutil.py`, `logutil.py`, `lazyimports.py` | log file | measurements and output | network |
| **Install and capture scripts** `install.sh`, `scripts/happd-*`, `sub-intercept-*` | none at run time | set-up, protocol capture | none |

What makes each one correct, and hard to test:

- **Keepers.** At most one xray per process id, and never one that nobody will close; a
  stale keeper must neither resurrect a tunnel nor clobber its successor's record; the
  record a keeper leaves behind must be true; a menu's verdict must be about its own
  keeper. Hard: three kinds of process interleave through one file whose guarded write is
  not atomic, happd drops and replaces processes with and without telling, keepers crash.
- **Process-list cache.** A tick that began before a change must not make the state from
  before that change visible after it.
- **Connect guard.** No two tunnels, killswitch never left open by a failed step, IPv6 off
  exactly while something is tunnelled. Hard: every step can fail, providers report success
  before or after the interface changes, keepers act on their own later.
- **Stores (config, keys).** Read-modify-write by several processes without a lock. A lost
  update is possible and accepted; what must not happen is anything worse: an ambiguous
  store, a click that reaches another server, a setting that nobody changed.
- **Caches (processes, exit IP, subscriptions, pings).** Overlapping background workers that
  may be late, fail or be killed: how long may a cache be wrong, what may no worker take away,
  does it become right again.
- **Meaning of names.** Names repeat across subscriptions, are parts of one another, change
  between a menu and the click: the row that was chosen is the one that is acted on.
- **Runtime configuration.** No lookup outside the tunnel, none that waits for itself, and
  apart from that the provider's own routing.

## 2. Modules

| module | what it is | code |
|---|---|---|
| `Keeper` | keepers, their state file, menus that connect and disconnect, happd, for one process id | `run_keeper`, `_hold_session`, `_headless_connect`, `_await_keeper`, `disconnect` of `providers/happ.py` and `providers/keys.py` |
| `TunnelSlot` | the abstract specification: one slot, bounded tries, an ended keeper has nothing in the slot or on its way there | - |
| `Guard` | one menu process driving several providers: killswitch, teardown, connect, IPv6; keepers and xray acting in between | `vpn_manager.py` 57-320, `killswitch.py`, `scripts/happ-killswitch`, `ipv6guard.py`, `connections`/`connect`/`disconnect` of the providers |
| `Settings` | `config.json` and its writers: Settings window, killswitch toggle, speed test, wizard | `config.py`, `settings_tui.py`, `killswitch.set_mode`, `vpn_manager.py` (own URLs, wizard) |
| `KeyStore` | `keys.json`: imports and connects of several menus, the keepers they spawn | `providers/keys.py` |
| `HappLog` | which url each subscription has, by Happ's log | `happmeta._parse_providers` |
| `HappServers` | which server a name means: menu, click, keeper | `happmeta.all_servers`, `match_server`, `HappProvider.connections`, `connect` |
| `HappConfig` | the configuration xray gets, and how xray routes by it | `happmeta.build_runtime_config` and its helpers |
| `Labels` | from a menu's rows to the action that runs | `vpn_manager._unique_labels`, `run_items` |
| `Profiles` | WireGuard's and AmneziaWG's profiles and interfaces, the Profiles menu | `providers/wireguard.py`, `vpn_manager.manage_profiles` |
| `ProcsCache` | `happd-procs.json` | `happ.py` 83-182 and its callers |
| `ExitIp` | `exit_ip.json` | `ipinfo.py` |
| `Subscriptions` | the caches of a subscription and the workers that refresh them | `happmeta.py` 205-480 |
| `Sweeps` | `happ-ping.json` and overlapping ping sweeps | `happmeta.py` 838-950, `vpn_manager.py` |
| `MCKeeper`, `MCGuard` | instances of `Keeper` and `Guard` | - |
| `MCStores` | `Settings`, `KeyStore`, `HappLog`, `HappServers`, `HappConfig`, `Labels`, `Profiles` on small instances | - |
| `MCCaches` | `ProcsCache`, `ExitIp`, `Subscriptions`, `Sweeps` on small instances | - |
| `MCProfiles` | `Profiles` with two names, one the beginning of the other | - |
| `ListOps` | what a comprehension does to a list; used by `Settings`, `HappServers`, `HappConfig`, `Profiles` | `[u for u in urls if u != url]` and the like |
| `KeeperProofs`, `GuardProofs`, `KeyStoreProofs`, `CacheProofs`, `SettingsProofs` | theorems about `Keeper` (and `TunnelSlot`), `Guard`, `KeyStore`, the four caches, `Settings` | - |
| `HappProofs`, `MenuProofs` | theorems about `HappServers`, `HappConfig`, `HappLog`; about `Labels`, `Profiles` | - |
| `ListProofs` | the facts about lists, numbers and recursive functions they share | - |

`Keeper` and `Guard` look at the same thing from two distances. In `Keeper` a connect is
everything; the rest of the program is two menus that connect and disconnect. In `Guard` a
provider has one keeper that may start xray (`none`, `spawned`, `starting`, `started`, `holding`,
`sleeping`) and older ones that have nothing left to do but their last guarded write. The second view
rests on what is proved about the first: a keeper that lost its record only leaves
(`NoResurrection`), and a provider has one tunnel at most (`ImplementsSlot`).

### 2.1 Keeper

| variable | code |
|---|---|
| `file` | `happ-keeper.json` (or the one of the keys kind): status, pid, whether it has a `message` |
| `pc[k]` | where keeper `k` is in `run_keeper` |
| `attempts[k]`, `state[k]` | the locals `attempts` and `state` |
| `sessions`, `requests`, `inbox` | keepers' sockets at happd: open ones, `start` frames happd has not handled, frames the keeper has not read |
| `proc` | the xray happd runs under the process id, and how far it is: `starting`, `up` (TUN exists), `term` (told to stop), `reap` (its session closed) |
| `mpc[m]`, `mk[m]` | where a menu process is; the keeper it has spawned and polls for |

One action per step between two accesses to something shared:

| actions | code |
|---|---|
| `Claim`, `PrepareRejected`, `ServerMissing` | the first record; a config that cannot be built; the keys keeper's *unguarded* write when its server is not in the store |
| `OpenAndStart`, `OpenFails` | connect to happd and send `start` |
| `AckStarted`, `AckFailed`, `AckTimeout`, `AwaitLost` | `_await_started` |
| `CheckOwner`, `WriteOwn` | the guarded write: look at the owner, then write: two steps, since nothing holds the file in between |
| `HoldSuperseded`, `HoldIfaceGone`, `HoldStopped`, `HoldDied` | `_hold_session`: idle tick, TUN gone, `term`, crash or end of file |
| `Wake` | after the sleep: look at the owner, start again or leave |
| `Unexpected`, `Crash` | any other exception (the `finally` runs); the process is killed (it does not) |
| happd's and the menus' actions | handling a start, xray creating its TUN, exiting, dying; connect, disconnect, the poll of `_await_keeper` |

The two kinds differ in one action: with `Kind = "keys"` `ServerMissing` exists as well. So a
run with `"keys"` has all behaviours of Happ's keeper.

How the code is abstracted:

- *Time* is left out: a sleep may end at any moment, a timeout may expire whenever it is
  waited for. What can only happen slowly (a TUN that takes too long) is a death.
- xray's exit and the "finished 15" event happd sends for it are one step; events go to
  the session that started the process and only while it is open.
- The idle tick is taken only when there is no frame to read. A flood of events that keeps
  the socket busy and starves the tick is left out.
- Closing a session cancels its request and has happd reap its xray (`proc.phase = "reap"`)
  in one step; xray exits later.
- In-memory steps are merged with the shared access that follows; the variables of an ended
  process are erased (`Gone`), which keeps the state space small and changes nothing.
- The guarded write's race that the docstring at `happ.py:311` tolerates *is* in the model.
- Left out: a process the Happ GUI owns and the GUI fallback, an `OSError` on the state
  file, a menu process that crashes while it waits, a pid used again.

### 2.2 TunnelSlot, and how Keeper implements it

`holder` is the owner of an xray that lives, `armed` the keepers whose `start` may still be
answered with one, `tries` the attempts, `over` the ended keepers. The mapping stands at
the end of `Keeper.tla` (`ImplementsSlot`). What it says of the code: no
keeper starts more than `max_attempts` times, and *no way out of `run_keeper`* leaves a
start request, a socket or an xray behind it.

### 2.3 Guard

| variable | code |
|---|---|
| `run[p]` | the tunnel of `p`: `down`, `rising` (process, no interface yet), `up`, `falling` (told to stop, interface still there) |
| `keeper[p]`, `record[p]` | the keeper and its state file, from a distance |
| `ending[p]` | how many older keepers of `p` have their last guarded write still to come |
| `cache` | `happd-procs.json`, or none / expired |
| `listing` | what a status tick was told by happd and has not yet written to that file |
| `table` | the providers the loaded nft table lets through, or no table |
| `mode` | `killswitch_mode` in the config |
| `ipv6off`, `warned` | the sysctl; the last attempt to set it failed and was reported |
| `want` | what the menu's probe (or its success) has found `ipv6off` should be: a local between the probe and the sysctl |
| `mpc`, `op`, `goal` | where the menu process is, in which action, on which provider |
| `todo`, `failed`, `ok`, `ksok` | locals of `disconnect_all` and the two results |
| `muddled` | history, read by no step: one of the two races below has happened |

A provider has one of four kinds: `happ` (interfaces `happ-*`, always let through), `keys`
(xray run by happd, seen only through its record), `parsed` (WireGuard, AmneziaWG, OpenVPN:
direct, endpoint known), `unparsed` (NetworkManager: no endpoint, so the killswitch steps
aside). `guarded_connect` is the chain

    guard -> load -> others -> teardown/recheck -> cover -> connect -> spawn -> poll -> apply -> idle

with its early returns to `sync` or `idle`; `guarded_disconnect` is `down -> sync -> apply`;
`disconnect_all` is `teardown/recheck -> cover` by itself; `_reconnect` is a disconnect and the
chain. Places at which something may come in between:

- `spawn` unlinks the record and starts the process; the new keeper's claim (`KeeperClaims`) is a
  step of its own, and an older keeper's `exited` (`OldWrites`) may come before, between or after;
- a tick's listing (`TickLists`) and its write of the cache (`TickCaches`) are two steps, with starts,
  stops and invalidations in between. The menu's own probe lists and caches in one step: it is
  the same process that then acts on what it has seen, and what another list in the file does to a
  later probe is what `TickCaches` does;
- the probe for IPv6 (`sync`, the end of `teardown`) and the sysctl (`apply`, `cover`) are two steps.

What fails is chosen by `Faults`:

| fault | meaning |
|---|---|
| `death` | a tunnel that is up dies (its keeper sleeps and starts again) |
| `late` | the verdict comes too late: the menu gives up on a keeper that goes on |
| `stop` | a stop command is lost or fails |
| `rules` | the killswitch script fails: it has no server to let through and dies before the delete, or the load after the delete fails |
| `sysctl` | sysctl fails, at the first or the second key; the menu shows a warning and goes on |

That a `connect` command fails, or a keeper reports an error, is always possible, and so is a
change of the mode and a status tick between any two steps.

**The two races.** Without any of these faults two things can happen, since nothing guards the
state file or the cache: an older keeper's last record is there when the menu polls for the new one's
(the connect is reported as failed, IPv6 is synchronised, and the new keeper goes on; or the new
record is replaced and its keeper leaves), and a list from before a tunnel came up is cached
after the connect has dropped the cache (for three seconds nothing sees the tunnel). Both are in
the model and neither is excluded from `guard_faults`; `muddled` remembers that one has happened.
`OneTunnel`, `TunneledIPv6Off`, `TunnelUpWorks` and `NeverUncovers` promise nothing from then on:
without that condition either race by itself has TLC refute all four, on the instance of
`guard_calm` with no fault at all, in 16 to 30 steps: a late list and a second click, or a switch
from one server to another of the same provider and a verdict that is the old keeper's.

Abstracted: one menu process at a time; one tunnel per provider; the whitelist is a set
of providers (every endpoint is assumed to resolve; `detect` and the saved IPs are left out); happd
answers when it is asked for its list; direct tunnels change together with their command (OpenVPN's
delayed TUN is left out); the two sysctl keys are one flag; a read of that flag that fails and a
command that hangs for its whole timeout are left out; `killswitch off` succeeds; an xray that is
stopped while it rises passes through `falling` as well. Bounds: `MaxEnding`, one tick at a time,
and no second keeper of a provider is spawned before the last one has its verdict.

### 2.4 Settings

`file` is what `config.json` holds, a function on the keys that are there; `Load` is
`load_config` with its defaults and its check of the mode. `saved`, `draft`, `cursor`, `top`,
`height` are the variables of `edit_config`, `wpc` its place in the loop; `op[m]` and `copy[m]`
are another writer and the `Config` it has loaded. `Redraw` is the top of the loop with its
scrolling, `Move` the arrow, page, home and end keys, `Activate`, `SetApiKey`, `SaveAndClose`,
`Quit`, `QuitAsks`, `Discard`, `StayOpen` the other keys and the question. `SetMode`,
`CustomUrl` and `Wizard` are the other writers, each from its `MenuLoads`. `intent` is history:
what users have set, less what an overlapping save took back. Left out: drawing, the
text editor of an API key, values of settings nobody's control depends on.

### 2.5 KeyStore

`store` is the list in `keys.json`, `list[p]` the copy a menu process has loaded, `aimed[p]`
the uid in the argv of its keeper. `Loads`, then `AlreadyImported` or `AddServer` are
`add_server`; `Loads`, `EnsureUids`, `Find`, `KeeperLooksUp` are a connect: three processes'
worth of readings of the file with others' saves in between. A key is what `_key_fields`
compares; a name is a title and the numbers appended to it. `_new_uid` draws 32 random bits:
that two draws are equal is left out.

### 2.6 HappLog, HappServers, HappConfig

`HappLog` lets Happ add, rotate and update subscriptions and write its log; `Providers` is
the parser. A url is a host and a path, a path a sequence of characters, and `Shared` counts the
first characters two paths have in common, as `_path_prefix_len` does. `HappServers` has the
caches (`lists`, `captured`), the tunnel and the keeper's record, the process list (`procs`: none,
listed and not yet cached, cached), the GUI's last server, and a menu: `MenuRows` is
`connections()`, which takes a tunnel for active by its interface or by a cached list that may be
three seconds old (`IsActive`); `Click` is `connect` up to the spawn, `KeeperResolves` the keeper's
own lookup and its start, `KeeperRecords` its `connected`. Names are taken to be unique within a
subscription, as `base.py:47` says; the code does not enforce it (`remarks` are the panel's, and
all nameless servers are called "?"), and of two of one name a click could reach either.
`HappConfig` builds: a server is
a record of outbounds, rules and resolvers, with the distinctions the code makes (protocol,
tag, target, network, other matchers) and no more. `WayOut` and `AsksFor` are xray's documented
way with such a configuration; they say what the result means. `ConfigAssumption` says what such
a server is: xray refuses two outbounds of one tag, so no subscription's outbound has that of ours,
which is in each configuration that is checked before it runs; no resolver has our tag; and an
outbound that dials no server carries no mark before `build_runtime_config` sets one.

### 2.7 Labels and Profiles

A label is a text with numbers at its end and perhaps white space around it (walker
returns it trimmed). `Profiles` has the two directories, the kernel's interfaces with the link
type they are reported under, the enabled units and Profiles menus that act on rows they
listed earlier.

### 2.8 The caches

| module | variables | a worker's steps |
|---|---|---|
| `ProcsCache` | `running`, `since`: happd; `cached`: the file; `reader`: who has listed and not yet cached; `stopper`, `todo`: a disconnect | `Lists`, then `Caches` or `ListFails` |
| `ExitIp` | `conn`, `route`: the connection the program sees and the one packets take; `exitCache`; `worker` | `TickRequests` or `MenuRequests`, `Skips` or `Begins`, `LooksUp` or `LookupFails`, `Writes` |
| `Subscriptions` | `log`, `provs`, `subCache`, `stamp`: the files; `refresher` | `RequestUpdate` or `Refresh`, `Stamps`, `Stat`, `Parse`, `Note`, `StillFresh` or `Asks`, `Answered` or `FetchFails`, anywhere `Killed` |
| `Sweeps` | `known`, `answers`, `steady`: connections and their servers; `pings`; `sweeper` | `RequestPing` or `RefreshPings`, `CollectPingTargets`, `Measure` each, `WritePings`, anywhere `SweepKilled` |

Time is a step that makes ages older, and only ages are kept. Two timing facts of the code
are assumptions: a request ends by its timeout (`Answer`, `Limit`), and a sweep takes a few
seconds for each target (`SweepLimit`). In `Subscriptions` time is only whether a record or
a stamp is too old; either may become so at any moment. What a fetch brings is told apart by
the url it came from, since a rotated token may be another account's.

## 3. Runs

All runs finish within minutes; the deadlock check is on everywhere (a system whose users
may always click again has no final state).

| run | instance | shows |
|---|---|---|
| `keeper_safe` | 2 keepers, 2 menus, 2 attempts, `keys`; 630,000 states up to symmetry | `XrayAttended`: no xray without a keeper that will close it. `FinishedLeavesExited`: a keeper that ran to its end and owns the file has left `exited` in it. `ImplementsSlot`. |
| `keeper_converges` | 2 keepers, 1 menu, 2 attempts, `keys`, fairness; 264,000 states | `NoResurrection`: a keeper that lost the file while it waited never starts xray or records a connection again. `Converges`: once users and faults stop, file and xray agree. |
| `guard_calm` | WireGuard, Shadowsocks, Happ, only sysctl fails; 4,330,000 states | `OneTunnel`, `TunneledIPv6Off`, `TunnelUpWorks`, `NeverUncovers`: the promises of the README while only connects and sysctls fail, until one of the two races of section 2.3. (All but `TunnelUpWorks` hold while rules fail to load as well: section 4.) |
| `guard_faults` | WireGuard, NetworkManager, Happ, every other fault; 4,750,000 states | what survives them, and the races: `DirectAlone`, `KillswitchServes`. |
| `stores_and_menus` | `MCStores`; 1,174,000 states | Config: `LostOnlyByStaleSave` (a setting is lost only by an older copy saved over it), `CursorInView`, `UrlsDistinct`. Keys: `StoreUnambiguous`, `ConnectsToTheClicked`, `EntriesKept`. Happ: `UrlIsCurrent`, `ClickReachesItsRow`, `ActiveRowIsTheTunnel`, `LookupsStayInside`, `RoutesAsSubscribed`. Menus: `EveryRowReachable`, `ActiveListedOnce`. |
| `caches` | `MCCaches`; 416,000 states | How long a cache is wrong: `PhantomIsShort`, `WrongLineIsShort`, `MarksAreRecent`, `ProvidersCurrent`, `FreshIsForUrl`. What no worker takes away: `LastGoodKept`. That it becomes right again: `ExitOwnLineReturns`, `SubsServersComeFresh`, `SweepMarksReturn`. |
| `profiles_pick` | `nl` and `nl2` | *refuted*: the Profiles menu is about the profile that was picked. It takes the first name the chosen line starts with, so picking `nl2` deletes `nl`. |
| `keeper_reason` | as above, Happ | *refuted*: a rejected config's reason reaches the user. `run_keeper` writes the record with the message and then `exited`; the menu polls every 0.2 s and finds the second. |
| `keeper_disconnect` | as above, Happ | *refuted*: a disconnect ends the keeper whatever happd says. Between its start frame and its `connected` write the guarded write takes the missing file for permission. |
| `guard_rearm` | three providers, `death` | *refuted*: one tunnel at a time. A keeper asleep between two starts is not active, is not torn down, and comes back. |
| `guard_restore` | Happ alone, no fault | *refuted*: IPv6 is restored once idle. The probe comes while the interface is still going; nothing probes again. |
| `guard_window` | WireGuard alone, no fault | *refuted*: no tunnel, no internet. Rules are deleted and loaded by two runs of nft. |

The refuted properties quote docs and comments of the code; `PROJECT.json` has the quotes
under `findings`. Three more disagreements of the same family show up when properties of
`guard_calm` are checked with a fault, and have no run of their own: after a give-up the
tunnel may rise with IPv6 on (`vpn_manager.py:202`); a refused switch leaves the old tunnel
behind rules rebuilt for the new one (`vpn_manager.py:190`); and without a fault the toggle
itself, used over a running NetworkManager tunnel, blocks that tunnel.

`MCStores` and `MCCaches` put components together that share no file; a behaviour looks at one of
them (`looksAt`) and leaves the others at rest, so the states add up and are not multiplied.

**Bounds.** Two keepers are enough for one to replace the other, and each pair of steps of
an old and a new keeper interleaves; a third would only repeat the pair. Two menus race a connect
with a connect or a disconnect. `MaxAttempts = 2` (3 in the code) gives one re-arm and then the
end of the budget; the theorems hold for any number. No keeper process is used twice, so with
`Keepers` used up a connect finds none left: `NoneLeft` is that bound, and not a behaviour
of the program. In `Guard` only `ending` could grow: with
`MaxEnding = 1` each provider has one older keeper beside its newest, which is what the races need; the
constraint `StillClear` cuts off what follows a race where no property promises anything about it.
Three providers give each kind a pair with each other kind over the two passing runs. Symmetry is
used in `keeper_safe` and `stores_and_menus` only,
which check no liveness.

In `MCStores` two writers of `config.json` overlap with the window (a third would lose what a
second loses); each kind of row is there once, with its header, on terminals of one and of
three rows: less than, and enough for, the header above the cursor. Two menus import or connect
among three keys, two of one kind, from a store written before uids existed, with names
that collide; three feeds, two on one host, with three urls of theirs whose paths share
no, one or several first characters (nested ones among them); three names, one of which is part of another, in both
subscriptions and among captured servers, with one refresh between each two lookups; five
outbound lists (named and unnamed, proxied, free, none), every list of up to two rules and three
resolver lists; every menu of up to four rows of two texts, numbered and padded ones among
them; two profiles in two directories. In `MCCaches` two workers of each kind
overlap: one is late, the other fresh. Ages go up to the first one that is too old; the
lifetime of the process list is longer than an answer, the gate shorter than the maximum age,
a sweep shorter than the age of its marks, as in the code.

**Fairness.** `FairSpec` assumes weak fairness of each keeper's, happd's and each menu's steps:
they are processes the kernel schedules, and their waits end by a timeout (ack, poll, idle
tick, sleep). Users, crashes and deaths of xray owe nothing and may stop. `Guard` and `MCStores` are
checked for safety only. In `MCCaches` the clock, workers that have begun and Waybar's tick
(every 3 s) are weakly fair. The tick asks for the exit address only while something is connected
(`get_status` returns before that otherwise): `ExitOwnLineReturns` says nothing of the line without
a VPN, which only an opened menu renews, and users owe no menu. An outside service that is asked
again and again answers some
day: strong fairness of `LooksUp` and of `Answered`. Nothing keeps it from failing any number of
times in between. That marks return also needs menus that go on being opened, and sweeps
faster than their marks age.

Each property has a mutant under `mutants` in `PROJECT.json`: a plausible bug, written
next to the action it changes, under which the property fails.

## 4. Proofs

The theorems hold for every set of keepers, menus, providers, keys, workers and
servers, any lifetimes and any bounds, under the named assumption of each module (and in `Guard`, where a
theorem says so, of `Calm` or `Parsed`): the
model values differ from the values they stand beside; at least one attempt, at least one
provider; the first key store is one the program has written; an exit-IP fetch is shorter than
its gate, and the gate no longer than the cache's maximum age (in the code 60 s and a minute at
least); a setting has one row, and some row can be chosen; a name is listed once by each
subscription (`base.py:47`); a profile's name is one file in its directory; a server's
configuration is as section 2.6 says. Each assumption is evaluated on the instances above.
Every safety property of every passing run is a theorem.

**Keeper.** `TypeOK`, `XrayAttended` and `FinishedLeavesExited` are not inductive together; `IInv`
adds

- `Budget`: who may still start xray has an attempt left, so the counter cannot pass its bound;
- `SessionsAttended`: an open socket belongs to a keeper at a place from which every path closes it;
- `XrayHasSession`: a living xray has an open session: this and the previous give `XrayAttended`;
- `NotOver`, `WritesAnOutcome`: what a keeper's `state` may be at each place, so that its last
  write says `exited`.

Each step of a keeper disturbs only that keeper (`KeeperStepKeepsIInv`), so the
proof goes keeper by keeper. `NoResurrection` is proved by showing that being `Out` (file lost
while waiting, or ending with nothing but an ending to write) is kept by its own steps and by
all others. `SlotImplemented` maps the initial state and, action by action, every step to a step of
`TunnelSlot` or a stutter.

**Guard.** Each promise depends on what the chain has done so far, so `GInv` says that, place by
place: `TornDown` (while `disconnect_all` works for a switch and has not failed, a direct tunnel that
is up is still on its list), hence `Cleared` (nothing of the sort is up beside the goal when
`provider.connect` is called), hence `DirectAlone`; `LoadCovers` and `RulesServe` (since the
rules were loaded they let the goal through), hence `KillswitchServes`. `DirectPlain` says that
nothing but a command brings a direct tunnel up, which is false of happd's and is why `OneTunnel`
itself fails under faults.

`NeverTwoTunnels`, `TunnelsHaveIPv6Off` and `NeverUncovered` assume `Calm`: nothing fails but the
loading of rules and sysctl. With any one of the other faults TLC finds the first two violated.
Their invariant `CalmInv` holds until `muddled`, which is never reset (`MuddledStays`). It says that a
keeper on its way has the menu waiting for it, so it is the goal's (`CalmKeepers`); that what runs is
seen, since a cached list may be too long but not too short, but while the
menu polls (`SeenWell`, hence `RunsIsActive`); and, place by place as before, that what runs is still
to be torn down (`AllTornDown`, `GoneAtRecheck`) until nothing but the goal runs (`Alone`). For the
window between probe and sysctl it has `StillIdle`: a probe that has found the system idle is right
until the sysctl that acts on it has run. That is where the order in the code matters: a probe
after a *successful* connect would find a cached or early list, and is the mutant of
`NeverUncovers`. `IPv6Covered` ties the flag, the warning and what runs. The two races are the steps
that these parts do not survive: an old record makes the menu stop waiting while its keeper goes on,
an old list hides what runs.
`TunnelsUpWork` assumes no fault but sysctl and no provider whose endpoint cannot be parsed
(`Parsed`): `Covered` says that the rules let through what runs, but for the part of a switch in which
the old tunnels are taken down behind the new one's rules. A switch that is refused half-way
needs a stop that fails, and is outside of it.

**Settings.** Everything rests on one fact: what `save_config` writes `load_config` reads back as it
was (`LoadsWhatIsSaved`), for a configuration with valid modes and distinct urls; `SettingsInv` says
that each copy a window or a menu holds is one. `NothingElseIsLost` is then an equation per
action. `CursorStaysInView` goes through the three loops of the code: `MoveBy` ends on a row that can
be chosen (`MoveByIsASetting`); the clamp puts the cursor inside the height; `Lifted` goes up to a
header and no further than the height allows (`LiftedKeepsInView`).

**Servers.** `ServersInv`: a row's server is on the list or was taken off it since the menu was
built, and a click that has not been answered waits for its own row's server (`ClickWaits`). The
lemmas on `MatchServer` say what it returns: a server with the given name and subscription if one is
listed (`ListedIsFound`: of the captured ones, none is listed whose name a subscription has), and
otherwise one that is listed, or none. For the active row a name has to be listed once per
subscription, and for the GUI's name that is no server's own, the only server like it is found.
`TheActiveRowIsTheTunnel` counts a cached list as a tunnel, as `connections()` does.

**Configuration.** `ConfigInv` says that what is built is built of the keeper's server; the theorems are
about the functions that build it. `Outbounds`, `RoutingRules` and `Resolvers` are described entry by
entry, by position: ours first, then the subscription's, then the catch-all. `WayOut` takes
the least rule that matches, so that `LookupsNeverLeak` looks at our own rules only, and
`AppsGoAsSubscribed` shows that these do not match an app's packet and that the rules behind them
are the subscription's up to a dropped last one (`OnlyKeepsAPrefix`), for which ours stands in.

**Log.** The parser's result after each line: every number has a url of its own host
(`HostKept`); if the subscription is not one of those that `Confused` names, every sibling keeps its
url (`OwnKept`) and the subscription has its newest url from its newest line on (`NewestAt`).
The prefix comparison enters by `SharedIs` alone: two paths share the characters up to the first
that differs. `Separated` is the condition under which the longest prefix decides rightly: no url of
one sibling starts as much like another sibling's new url as that one's own urls do.
A subscription without a number is told from the others by being alone on its host.

**Labels and profiles.** `UniqueLabels` keeps the lines built so far distinct: a number that is free
exists, by the pigeonhole principle (`OneIsFree`), and the first is taken. `RowsOfAProvider`: an active
profile or orphan has one active row in its provider's list and nothing else has one. What is left
is that an interface is of a type its own tool makes (`ProfilesInv`), and who reports it then.

**Recursion.** The loops of the last paragraphs are recursive functions on `0..n`. Before such a
definition may be unfolded one has to know that some function satisfies it: the lemma
`RecursionExists`, proved once. What holds of each of its values is proved by the least index at which it
does not (`LeastOne`).

**Key store.** `KInv` says of the file, and of every copy a process holds, that it is `Good`:
no key, name or uid twice and no uid that was not drawn (`StoreAlwaysUnambiguous`). The heart is
that an old list saved over a newer one is itself good, and that what is appended is new in the list
it is appended to: `FreeName` finds a free number because among `Len + 1` candidates one
is free (`SomeNameIsFree`, by the pigeonhole principle). `Follows` ties a clicked row to the
entry with its name, key and, once it is known, uid for as long as no older list was saved over that
entry; since the store is unambiguous each lookup returns just this entry
(`ConnectsAlwaysToTheClicked`).

**Process list.** `ReaderWasRight`: a reader's list agrees with each process that has not
changed since before the reader asked; `CacheWasRight` says the same of the file. With `Answer` and
`TTL` as bounds of the two ages this gives `PhantomIsAlwaysShort`.

**Exit IP.** `RightSince`: an entry whose fetch began after connection and route had become what
they are holds the right address; `WorksWell` says so of workers under way. The bound is the
maximum age of an entry (10 minutes by default): nothing looks at a line that passes for fresh. An
entry's age counts
from before its fetch, and this is why it works: with the time of the write instead, a
late worker makes a wrong line last (the mutant of `WrongLineIsShort`).

**Subscriptions.** `KnowsWell`: what a worker has parsed is at least as new as the mtime it took
before; `OwnRecord`, `ProvsFiledWell`: each record holds what its own url gave. Hence
`ProvidersAlwaysCurrent` and `FreshIsAlwaysForUrl`, for any number of workers that overlap, fail or
are killed. `LastGoodAlwaysKept` is about those that fail: an answer that is recorded may be an older
worker's, and then replaces newer servers by an old url's, or by none.

**Sweeps.** `MarksWereRight`: a mark, in the file or on its way there, agrees with its server
unless that turned later than the mark's age.

**Model-checked only.** Liveness is beyond the prover: `Converges`, `ExitOwnLineReturns`,
`SubsServersComeFresh` and `SweepMarksReturn` are checked by TLC on the instances above. So are the six
refuted properties, whose counterexamples are the result. What is proved of
`Settings`, `KeyStore` and so on is proved of their own specifications; that `MCStores` and `MCCaches`
put them side by side adds no step to any of them, but for one that stutters at a bound.

## 5. Not modelled

| part | why |
|---|---|
| Reputation | a background sweep like that of `Sweeps`, whose cache only a row of the DNS leak test reads; the rest is HTTP and formatting |
| Traffic rate | one sample per interface and a division; nothing acts on it |
| speed test, DNS leak test, notifications, log, lazy imports | measurements and output; no shared state but a log file |
| parsing of links, endpoints, WireGuard and OpenVPN files | character-level conversions; the models take the fields they yield |
| OpenVPN's pid files | the hazard needs process ids that are used again, which no module models |
| the connect that falls back to the Happ GUI, `detect` and the saved server IPs of the killswitch | actions of another program; `HappServers` has the GUI's tunnel, not how it is asked for it |
| names from `routing.json`, captured providers, balancers, number formats of a panel | alternatives of the same lookups that no property tells apart |
| install and capture scripts | not part of the running system |

**Seen while modelling.** These follow from the code and are excluded, or allowed, by the
properties that name them; none contradicts a line of the docs:

- `HappLog.Confused`: a new url of one subscription is dropped once a sibling on its
  host is updated (`happmeta.py:181`); the url of a sibling that has no number yet is taken for a
  numbered one's; and a new token that starts more like a sibling's url than like its own
  subscription's goes to the sibling, whose path may be as unlike as `/cart/` and `/` (the comment at
  `happmeta.py:185` says "a sibling subscription on the same host must not swallow another's
  rotated token").
- `Guard`: on a switch within one provider the menu may read the old keeper's `exited` as the
  verdict of its own (`happ.py:690`), with nothing failing. The comment at `happ.py:415` has the
  claim written unconditionally so that a stale keeper's write does not win; before the claim it does.
- `HappConfig.DropsMore`: any rule to "proxy" whose network is "tcp,udp" is dropped as the
  catch-all, also a narrow one (`happmeta.py:538`).
- A subscription's own dns outbound with another tag than `dns-out` leaves the target of our rule
  for port 53 missing.
- `HappServers`: for up to three seconds after the last tunnel has ended a cached list shows one row as
  active; the record of a keeper that was killed still names the active row when the
  Happ GUI connects (`happ.py:560`); without servers the single row has the GUI's last name.
- `Profiles`: one name in both directories is taken for one another; an interface whose
  profile was deleted cannot be taken down, since `wg-quick` needs the file; a failed `chmod`
  reports a failed import and leaves the copy.
- `ExitIp`: an answer that breaks off ends the thread, and the entry has neither an address
  nor an error; `--status` then ends with a `KeyError` until the entry is too old (`ipinfo.py:83`).
- `Subscriptions`: a panel that answers with servers without outbounds replaces the last
  good list by an empty one (`Answered`, the one exception in `LastGoodKept`). With several
  subscriptions, an answer that breaks off (`http.client` raises what is no `OSError`) escapes
  `update_subscriptions` (`happmeta.py:479`) and the later ones wait for the next refresh;
  the module has one subscription.
- `ProcsCache.Answer` bounds a whole answer of happd; the code's timeout is one of each `recv`, and a
  daemon that keeps sending events could hold a reader longer (`happ.py:120`).
- `Sweeps`: connections of one name share one mark; sweeps longer than `PING_MAX_AGE` would
  write marks that are stale already (`SweepLimit` excludes it).

## 6. Plan

1. That `Guard`'s view of a keeper is implied by `Keeper`'s: a refinement with the keeper's five
   places as a mapping.
2. OpenVPN: its daemon, pid file and the process ids that are used again, next to `Profiles`.
3. Reputation as a second instance of the sweep, with its pace limit and the failed sweep that
   empties a day's answers.
