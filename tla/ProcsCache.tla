----------------------------- MODULE ProcsCache -----------------------------
(***************************************************************************)
(* happd-procs.json, the short cache of happd's process list (happ.py).    *)
(* Status ticks and menus read it and fill it; connects and disconnects    *)
(* drop it around what they do to the processes.  Time passes in steps of  *)
(* one unit and is only kept as ages.                                      *)
(***************************************************************************)
EXTENDS Naturals, FiniteSets

CONSTANTS
  Procs,    \* process ids
  HappProcs,  \* those of Happ; the others belong to the keys providers
  Readers,  \* processes that ask for the list
  TTL,      \* PROCS_CACHE_TTL
  Answer,   \* from happd's look at its processes to the write of the cache
  Empty     \* no cache file

ASSUME ProcsAssumption == TTL \in Nat \ {0} /\ Answer \in Nat \ {0} /\ HappProcs \subseteq Procs

Horizon == TTL + Answer

VARIABLES
  running,  \* what happd runs
  since,    \* for each, how long it has been running or not running
  cached,   \* the file: the list and its age
  reader,   \* what each reader has got from happd, and how long ago
  stopper,  \* the disconnect that is going on: where it is, what it has still to stop
  todo

procsVars == <<running, since, cached, reader, stopper, todo>>

Put(f, p, v) == [f EXCEPT ![p] = v]
Capped(n, top) == IF n < top THEN n + 1 ELSE top

NotAsking == [got |-> {}, age |-> 0, asking |-> FALSE]
Fresh == cached # Empty /\ cached.age < TTL

Runs(q) == running' = running \cup {q} /\ since' = Put(since, q, 0)
Stops(q) == running' = running \ {q} /\ since' = Put(since, q, 0)

-----------------------------------------------------------------------------
(* _daemon_running_processes(fresh=False).                                 *)

\* The cache does not answer; happd does.
Lists(r) ==
  /\ ~reader[r].asking /\ ~Fresh
  /\ reader' = Put(reader, r, [got |-> running, age |-> 0, asking |-> TRUE])
  /\ UNCHANGED <<running, since, cached, stopper, todo>>

\* Mutant: the empty list of a daemon that does not answer is cached.
ListFailsCached(r) ==
  /\ reader[r].asking
  /\ cached' = [procs |-> {}, age |-> 0]
  /\ reader' = Put(reader, r, NotAsking)
  /\ UNCHANGED <<running, since, stopper, todo>>

\* A daemon that does not answer: an empty list, and nothing is cached.
ListFails(r) ==
  /\ reader[r].asking
  /\ reader' = Put(reader, r, NotAsking)
  /\ UNCHANGED <<running, since, cached, stopper, todo>>

Caches(r) ==
  /\ reader[r].asking
  /\ cached' = [procs |-> reader[r].got, age |-> 0]
  /\ reader' = Put(reader, r, NotAsking)
  /\ UNCHANGED <<running, since, stopper, todo>>

\* _invalidate_procs_cache
Drop == cached' = Empty

-----------------------------------------------------------------------------
(* Connects and disconnects; they list with fresh=True.                    *)

\* A keeper's start is handled; the menu drops the cache when its wait ends.
Starts(q) ==
  /\ q \notin running
  /\ Runs(q)
  /\ UNCHANGED <<cached, reader, stopper, todo>>

AwaitEnds ==
  /\ Drop
  /\ UNCHANGED <<running, since, reader, stopper, todo>>

Dies(q) ==
  /\ q \in running
  /\ Stops(q)
  /\ UNCHANGED <<cached, reader, stopper, todo>>

\* Happ's disconnect: the cache is dropped before the processes are stopped.
HappDisconnect ==
  /\ stopper = "idle" /\ running \cap HappProcs # {}
  /\ stopper' = "stop" /\ todo' = running \cap HappProcs
  /\ Drop
  /\ UNCHANGED <<running, since, reader>>

\* One that cannot be stopped ends the loop.
HappStops ==
  /\ stopper = "stop"
  /\ \E q \in todo :
       \/ /\ IF q \in running THEN Stops(q) ELSE UNCHANGED <<running, since>>
          /\ todo' = todo \ {q}
          /\ stopper' = IF todo' = {} THEN "idle" ELSE "stop"
       \/ /\ todo' = {} /\ stopper' = "idle"
          /\ UNCHANGED <<running, since>>
  /\ UNCHANGED <<cached, reader>>

\* The keys providers', and both kinds' switch (_stop_running): first the stop.
StopFirst(q) ==
  /\ stopper = "idle" /\ q \in running
  /\ stopper' = "drop"
  /\ Stops(q) \/ UNCHANGED <<running, since>>
  /\ UNCHANGED <<cached, reader, todo>>

ThenDrop ==
  /\ stopper = "drop"
  /\ stopper' = "idle"
  /\ Drop
  /\ UNCHANGED <<running, since, reader, todo>>

\* Mutant: the socket has no timeout.
TimePassesUntimed ==
  /\ since' = [q \in Procs |-> Capped(since[q], Horizon)]
  /\ cached' = IF cached = Empty THEN Empty
             ELSE [procs |-> cached.procs, age |-> Capped(cached.age, TTL)]
  /\ reader' = [r \in Readers |->
       IF reader[r].asking THEN [reader[r] EXCEPT !.age = Capped(@, Horizon)] ELSE reader[r]]
  /\ UNCHANGED <<running, stopper, todo>>

\* Nobody waits longer for happd than Answer, and a cache older than TTL is as
\* good as none.
TimePasses ==
  /\ \A r \in Readers : reader[r].asking => reader[r].age < Answer
  /\ since' = [q \in Procs |-> Capped(since[q], Horizon)]
  /\ cached' = IF cached = Empty THEN Empty
             ELSE [procs |-> cached.procs, age |-> Capped(cached.age, TTL)]
  /\ reader' = [r \in Readers |->
       IF reader[r].asking THEN [reader[r] EXCEPT !.age = @ + 1] ELSE reader[r]]
  /\ UNCHANGED <<running, stopper, todo>>

ProcsInit ==
  /\ running \in SUBSET Procs
  /\ since = [q \in Procs |-> Horizon]
  /\ cached = Empty
  /\ reader = [r \in Readers |-> NotAsking]
  /\ stopper = "idle" /\ todo = {}

ProcsNext ==
  \/ \E r \in Readers : Lists(r) \/ ListFails(r) \/ Caches(r)
  \/ \E q \in Procs : Starts(q) \/ Dies(q) \/ StopFirst(q)
  \/ AwaitEnds \/ HappDisconnect \/ HappStops \/ ThenDrop \/ TimePasses

ProcsSpec == ProcsInit /\ [][ProcsNext]_procsVars

-----------------------------------------------------------------------------

ProcsTypeOK ==
  /\ running \subseteq Procs /\ since \in [Procs -> 0..Horizon]
  /\ cached \in {Empty} \cup [procs : SUBSET Procs, age : 0..TTL]
  /\ reader \in [Readers -> [got : SUBSET Procs, age : 0..Answer, asking : BOOLEAN]]
  /\ stopper \in {"idle", "stop", "drop"} /\ todo \subseteq Procs

\* A tick may cache a list from before a stop after the cache was dropped (and
\* Happ's disconnect drops it before the stop): a phantom connection.  But not
\* for longer than the TTL and one answer of happd: a process that has been up
\* (or down) for that long is listed (or not), whatever else goes on.
PhantomIsShort ==
  Fresh => \A q \in Procs : since[q] >= Horizon => (q \in cached.procs <=> q \in running)
=============================================================================
