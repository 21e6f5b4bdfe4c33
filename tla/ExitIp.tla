------------------------------- MODULE ExitIp -------------------------------
(***************************************************************************)
(* exit_ip.json (ipinfo.py): the public address behind a connection.  The  *)
(* status tick and the menu show it and, when it is stale, spawn a worker  *)
(* that asks an outside service which address it comes from.               *)
(***************************************************************************)
EXTENDS Naturals, FiniteSets

CONSTANTS
  Conns,       \* names of connections
  NoVpn,       \* the one without a tunnel (NO_VPN)
  Workers,     \* --update-ip processes
  Limit,       \* the longest fetch
  Recheck,     \* RECHECK_AFTER_ERROR
  MaxAge,      \* exit_ip_max_age, at least a minute
  MaxSwitches, \* bound: how often the connection changes
  Nothing      \* no cache, no line, no argument

ASSUME ExitIpAssumption ==
  /\ {Limit, Recheck, MaxAge, MaxSwitches} \subseteq Nat
  /\ 0 < Limit /\ Limit < Recheck /\ Recheck <= MaxAge
  /\ NoVpn \in Conns
  /\ Conns \cap {Nothing, "error", "neither"} = {} /\ Nothing \notin {"error", "neither"}

VARIABLES
  conn,      \* the connection the program sees
  route,     \* the one packets really take: the address a fetch reports
  settled,   \* how long the two have been this one
  exitCache, \* the file: whose address, which address or an error, its age
  worker,    \* where each worker is, its argument, what it fetched, its age
  switches

exitVars == <<conn, route, settled, exitCache, worker, switches>>

SetWorker(w, r) == worker' = [worker EXCEPT ![w] = r]
Older(n, top) == IF n < top THEN n + 1 ELSE top

Idle == [at |-> "idle", for |-> Nothing, got |-> Nothing, age |-> 0]

IsFresh ==
  /\ exitCache # Nothing
  /\ exitCache.ip # "error"
  /\ exitCache.for = conn
  /\ exitCache.age < MaxAge

\* status_line; an entry with "neither" passes for fresh and ends --status.
Shown == IF IsFresh THEN exitCache.ip ELSE Nothing

\* request_ip_update, when there is no line to show.
RequestIpUpdate(w) ==
  /\ Shown = Nothing /\ worker[w] = Idle
  /\ SetWorker(w, [Idle EXCEPT !.at = "spawned", !.for = conn])
  /\ UNCHANGED <<conn, route, settled, exitCache, switches>>

\* get_status; without a tunnel it returns before it looks for a line.
TickRequests(w) == conn # NoVpn /\ RequestIpUpdate(w)

\* _current_connection_items, _no_vpn_ip_item: a menu that the user opens.
MenuRequests(w) == RequestIpUpdate(w)

\* Mutant: an entry counts for as long as it is there.
HandledEver(w) == exitCache # Nothing /\ exitCache.for = worker[w].for

\* update(): somebody has handled this connection just now, well or badly.
Handled(w) ==
  /\ exitCache # Nothing
  /\ exitCache.for = worker[w].for /\ exitCache.age < Recheck

Skips(w) ==
  /\ worker[w].at = "spawned" /\ Handled(w)
  /\ SetWorker(w, Idle)
  /\ UNCHANGED <<conn, route, settled, exitCache, switches>>

\* fetched_at is the time of this step.
Begins(w) ==
  /\ worker[w].at = "spawned" /\ ~Handled(w)
  /\ SetWorker(w, [worker[w] EXCEPT !.at = "asks"])
  /\ UNCHANGED <<conn, route, settled, exitCache, switches>>

LooksUp(w) ==
  /\ worker[w].at = "asks"
  /\ SetWorker(w, [worker[w] EXCEPT !.at = "answered", !.got = route])
  /\ UNCHANGED <<conn, route, settled, exitCache, switches>>

\* An error is noted in the entry.  But an answer that breaks off (no OSError)
\* ends the fetching thread, and the entry has neither an address nor an error.
LookupFails(w) ==
  /\ worker[w].at = "asks"
  /\ \E outcome \in {"error", "neither"} :
       SetWorker(w, [worker[w] EXCEPT !.at = "answered", !.got = outcome])
  /\ UNCHANGED <<conn, route, settled, exitCache, switches>>

\* Mutant: fetched_at is the time of the write.
WritesStamped(w) ==
  /\ worker[w].at = "answered"
  /\ exitCache' = [for |-> worker[w].for, ip |-> worker[w].got, age |-> 0]
  /\ SetWorker(w, Idle)
  /\ UNCHANGED <<conn, route, settled, switches>>

Writes(w) ==
  /\ worker[w].at = "answered"
  /\ exitCache' = [for |-> worker[w].for, ip |-> worker[w].got, age |-> worker[w].age]
  /\ SetWorker(w, Idle)
  /\ UNCHANGED <<conn, route, settled, switches>>

\* The program sees a connection before its tunnel carries packets, or after.
Switch(c) ==
  /\ switches < MaxSwitches /\ c # conn
  /\ conn' = c /\ switches' = switches + 1 /\ settled' = 0
  /\ UNCHANGED <<route, exitCache, worker>>

RouteFollows ==
  /\ route # conn
  /\ route' = conn /\ settled' = 0
  /\ UNCHANGED <<conn, exitCache, worker, switches>>

\* clear_caches_menu
ClearCache ==
  /\ exitCache # Nothing /\ switches < MaxSwitches
  /\ exitCache' = Nothing /\ switches' = switches + 1
  /\ UNCHANGED <<conn, route, settled, worker>>

Busy(w) == worker[w].at \in {"asks", "answered"}

TimeGoesOn ==
  /\ \A w \in Workers : Busy(w) => worker[w].age < Limit
  /\ settled' = IF route = conn THEN Older(settled, MaxAge) ELSE 0
  /\ exitCache' = IF exitCache = Nothing THEN Nothing
                  ELSE [exitCache EXCEPT !.age = Older(@, MaxAge)]
  /\ worker' = [w \in Workers |->
       IF Busy(w) THEN [worker[w] EXCEPT !.age = @ + 1] ELSE worker[w]]
  /\ UNCHANGED <<conn, route, switches>>

ExitInit ==
  /\ conn \in Conns /\ route = conn /\ settled = 0
  /\ exitCache = Nothing /\ worker = [w \in Workers |-> Idle] /\ switches = 0

WorkerStep(w) == Skips(w) \/ Begins(w) \/ LooksUp(w) \/ LookupFails(w) \/ Writes(w)

ExitNext ==
  \/ \E w \in Workers : TickRequests(w) \/ MenuRequests(w) \/ WorkerStep(w)
  \/ \E c \in Conns : Switch(c)
  \/ RouteFollows \/ ClearCache \/ TimeGoesOn

\* The tick comes every 3 seconds, workers and the clock go on, a route comes
\* up; a fetch that is tried again and again is answered some day.  Nobody has to
\* open a menu.
ExitFairness ==
  /\ WF_exitVars(RouteFollows) /\ WF_exitVars(TimeGoesOn)
  /\ WF_exitVars(\E w \in Workers : TickRequests(w))
  /\ \A w \in Workers : WF_exitVars(WorkerStep(w)) /\ SF_exitVars(LooksUp(w))

ExitSpec == ExitInit /\ [][ExitNext]_exitVars
ExitFairSpec == ExitSpec /\ ExitFairness

-----------------------------------------------------------------------------

Addresses == Conns \cup {"error", "neither", Nothing}

ExitTypeOK ==
  /\ conn \in Conns /\ route \in Conns /\ settled \in 0..MaxAge
  /\ exitCache \in {Nothing} \cup [for : Conns, ip : Addresses \ {Nothing}, age : 0..MaxAge]
  /\ worker \in [Workers -> [at : {"idle", "spawned", "asks", "answered"},
                             for : Conns \cup {Nothing}, got : Addresses, age : 0..Limit]]
  /\ switches \in 0..MaxSwitches

\* A worker that starts late, or before the tunnel carries packets, reports the
\* address of another route.  Once the connection has been up for the cache's
\* maximum age no such line is left, however many workers of whatever
\* connection are still under way.
WrongLineIsShort == settled >= MaxAge => Shown \in {conn, "neither", Nothing}

\* The 60 s gate, errors in the cache and late workers of other connections
\* delay the line but do not prevent it: a lasting tunnel shows its own address
\* again and again.  Without a tunnel the line is only asked for by menus.
OwnLineReturns == []<>(conn = NoVpn \/ Shown = conn)
=============================================================================
