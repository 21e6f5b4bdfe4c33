--------------------------- MODULE Subscriptions ----------------------------
(***************************************************************************)
(* The server list of a Happ subscription (happmeta.py): the url in Happ's *)
(* log, the cache of the parsed log, the cache of the servers, the stamp   *)
(* of the last refresh and the background workers.  Servers and panel info *)
(* are told apart by the url they came from: a token rotation makes a new  *)
(* url, and another account's servers.                                     *)
(***************************************************************************)
EXTENDS Naturals, FiniteSets

CONSTANTS
  SubUrls,    \* urls of the subscription
  Refreshers, \* --update-subs processes
  MaxLog,     \* bound: how often the log changes
  MaxUsers,   \* bound: how often a user refreshes, clears caches or kills a worker
  Legacy,     \* the url of a record written before records had one
  Nil

\* What subscription-<id>.json can hold.
SubRecords == [url : SubUrls \cup {Legacy}, servers : SubUrls \cup {Nil},
               info : SubUrls \cup {Nil}, fresh : BOOLEAN]

ASSUME SubsAssumption ==
  /\ {Legacy, Nil} \cap SubUrls = {} /\ Legacy # Nil /\ Nil \notin SubRecords
  /\ MaxLog \in Nat /\ MaxUsers \in Nat

VARIABLES
  log,       \* Happ's log: mtime and the url it gives
  provs,     \* happ-providers.json: the same, parsed at some time
  subCache,  \* subscription-<id>.json: url, servers, info, younger than SUB_MAX_AGE
  stamp,     \* subs-refresh.json is younger than SUBS_REFRESH_RETRY
  refresher, \* the workers
  byHand

subsVars == <<log, provs, subCache, stamp, refresher, byHand>>

Resting == [at |-> "rests", force |-> FALSE, mtime |-> 0, url |-> Nil, cached |-> Nil]
SetRefresher(w, r) == refresher' = [refresher EXCEPT ![w] = r]
To(w, place) == SetRefresher(w, [refresher[w] EXCEPT !.at = place])

\* _sub_cache_fresh, and the same test in fetch_subscription
FreshFor(cached, url) ==
  cached # Nil /\ cached.url \in {url, Legacy} /\ cached.fresh

\* providers(), by a process that does it in one go.
ProvsHit == provs # Nil /\ provs.mtime = log.mtime
ProvsNow == IF ProvsHit THEN provs ELSE log

\* Mutant: servers that are there are never refreshed.
RequestUpdateOnce(w) ==
  /\ ~stamp
  /\ provs' = ProvsNow
  /\ IF subCache # Nil THEN UNCHANGED refresher
     ELSE refresher[w] = Resting /\ To(w, "spawned")
  /\ UNCHANGED <<log, subCache, stamp, byHand>>

\* request_subscription_update, by the tick and the menus
RequestUpdate(w) ==
  /\ ~stamp
  /\ provs' = ProvsNow
  /\ IF FreshFor(subCache, ProvsNow.url) THEN UNCHANGED refresher
     ELSE refresher[w] = Resting /\ To(w, "spawned")
  /\ UNCHANGED <<log, subCache, stamp, byHand>>

\* The Happ menu's refresh, and Refresh All.
Refresh(w, force) ==
  /\ byHand < MaxUsers /\ refresher[w] = Resting
  /\ byHand' = byHand + 1
  /\ SetRefresher(w, [Resting EXCEPT !.at = "spawned", !.force = force])
  /\ UNCHANGED <<log, provs, subCache, stamp>>

-----------------------------------------------------------------------------
(* update_subscriptions.                                                   *)

Stamps(w) ==
  /\ refresher[w].at = "spawned"
  /\ stamp' = TRUE
  /\ To(w, "stat")
  /\ UNCHANGED <<log, provs, subCache, byHand>>

\* providers(): the log's mtime first ...
Stat(w) ==
  /\ refresher[w].at = "stat"
  /\ SetRefresher(w, IF ProvsHit
       THEN [refresher[w] EXCEPT !.at = "reads", !.url = provs.url]
       ELSE [refresher[w] EXCEPT !.at = "parse", !.mtime = log.mtime])
  /\ UNCHANGED <<log, provs, subCache, stamp, byHand>>

\* Mutant: a log that cannot be read is a log without urls.
ParseNothing(w) ==
  /\ refresher[w].at = "parse"
  /\ To(w, "note")
  /\ UNCHANGED <<log, provs, subCache, stamp, byHand>>

\* ... then its text, which may be newer ...
Parse(w) ==
  /\ refresher[w].at = "parse"
  /\ SetRefresher(w, [refresher[w] EXCEPT !.at = "note", !.url = log.url])
  /\ UNCHANGED <<log, provs, subCache, stamp, byHand>>

\* Mutant: filed under the mtime of now.
NoteLate(w) ==
  /\ refresher[w].at = "note"
  /\ provs' = [mtime |-> log.mtime, url |-> refresher[w].url]
  /\ To(w, "reads")
  /\ UNCHANGED <<log, subCache, stamp, byHand>>

\* ... then the cache.
Note(w) ==
  /\ refresher[w].at = "note"
  /\ provs' = [mtime |-> refresher[w].mtime, url |-> refresher[w].url]
  /\ To(w, "reads")
  /\ UNCHANGED <<log, subCache, stamp, byHand>>

\* fetch_subscription
StillFresh(w) ==
  /\ refresher[w].at = "reads"
  /\ ~refresher[w].force /\ FreshFor(subCache, refresher[w].url)
  /\ SetRefresher(w, Resting)
  /\ UNCHANGED <<log, provs, subCache, stamp, byHand>>

Asks(w) ==
  /\ refresher[w].at = "reads"
  /\ refresher[w].force \/ ~FreshFor(subCache, refresher[w].url)
  /\ SetRefresher(w, [refresher[w] EXCEPT !.at = "asks", !.cached = subCache])
  /\ UNCHANGED <<log, provs, subCache, stamp, byHand>>

\* Mutant: the info stays whatever url it is of.
KeptInfoOfAny(cached, url) == IF cached # Nil THEN cached.info ELSE Nil

\* The panel's headers are there or not; without them the info stays that was
\* cached for this very url.
KeptInfo(cached, url) == IF cached # Nil /\ cached.url = url THEN cached.info ELSE Nil

Record(w, servers, headers) ==
  LET url == refresher[w].url
  IN [url |-> url, servers |-> servers, fresh |-> TRUE,
      info |-> IF headers THEN url ELSE KeptInfo(refresher[w].cached, url)]

\* A list of objects; those without outbounds are left out, all of them perhaps.
Answered(w) ==
  /\ refresher[w].at = "asks"
  /\ \E servers \in {refresher[w].url, Nil}, headers \in BOOLEAN :
       subCache' = Record(w, servers, headers)
  /\ SetRefresher(w, Resting)
  /\ UNCHANGED <<log, provs, stamp, byHand>>

\* No network, a stub, no captured headers.
FetchFails(w) ==
  /\ refresher[w].at = "asks"
  /\ SetRefresher(w, Resting)
  /\ UNCHANGED <<log, provs, subCache, stamp, byHand>>

Killed(w) ==
  /\ byHand < MaxUsers /\ refresher[w].at # "rests"
  /\ byHand' = byHand + 1
  /\ SetRefresher(w, Resting)
  /\ UNCHANGED <<log, provs, subCache, stamp>>

-----------------------------------------------------------------------------

LogGrows(url) ==
  /\ log.mtime < MaxLog
  /\ log' = [mtime |-> log.mtime + 1, url |-> url]
  /\ UNCHANGED <<provs, subCache, stamp, refresher, byHand>>

CacheAges ==
  /\ subCache # Nil /\ subCache.fresh
  /\ subCache' = [subCache EXCEPT !.fresh = FALSE]
  /\ UNCHANGED <<log, provs, stamp, refresher, byHand>>

StampAges ==
  /\ stamp
  /\ stamp' = FALSE
  /\ UNCHANGED <<log, provs, subCache, refresher, byHand>>

\* Mutant: the servers are cleared, too.
ClearAllCaches ==
  /\ byHand < MaxUsers
  /\ byHand' = byHand + 1
  /\ provs' = Nil /\ stamp' = FALSE /\ subCache' = Nil
  /\ UNCHANGED <<log, refresher>>

\* clear_caches_menu: every *.json there but subscription-*.json
ClearCaches ==
  /\ byHand < MaxUsers
  /\ byHand' = byHand + 1
  /\ provs' = Nil /\ stamp' = FALSE
  /\ UNCHANGED <<log, subCache, refresher>>

SubsInit ==
  /\ log \in [mtime : {0}, url : SubUrls]
  /\ provs = Nil
  /\ subCache \in {Nil} \cup [url : {Legacy}, servers : SubUrls, info : {Nil}, fresh : BOOLEAN]
  /\ stamp = FALSE
  /\ refresher = [w \in Refreshers |-> Resting]
  /\ byHand = 0

RefresherStep(w) ==
  Stamps(w) \/ Stat(w) \/ Parse(w) \/ Note(w) \/ StillFresh(w) \/ Asks(w)

SubsNext ==
  \/ \E w \in Refreshers :
       \/ RequestUpdate(w) \/ RefresherStep(w) \/ Answered(w) \/ FetchFails(w) \/ Killed(w)
       \/ \E force \in BOOLEAN : Refresh(w, force)
  \/ \E url \in SubUrls : LogGrows(url)
  \/ CacheAges \/ StampAges \/ ClearCaches

\* The tick, the clock and the workers go on; a panel that is asked again and
\* again answers some day.
SubsFairness ==
  /\ WF_subsVars(\E w \in Refreshers : RequestUpdate(w))
  /\ WF_subsVars(StampAges)
  /\ WF_subsVars(\E w \in Refreshers : RefresherStep(w))
  /\ SF_subsVars(\E w \in Refreshers : Answered(w))

SubsSpec == SubsInit /\ [][SubsNext]_subsVars
SubsFairSpec == SubsSpec /\ SubsFairness

-----------------------------------------------------------------------------

SubsTypeOK ==
  /\ log \in [mtime : 0..MaxLog, url : SubUrls]
  /\ provs \in {Nil} \cup [mtime : 0..MaxLog, url : SubUrls]
  /\ subCache \in {Nil} \cup SubRecords
  /\ stamp \in BOOLEAN /\ byHand \in 0..MaxUsers
  /\ refresher \in [Refreshers ->
       [at : {"rests", "spawned", "stat", "parse", "note", "reads", "asks"}, force : BOOLEAN,
        mtime : 0..MaxLog, url : SubUrls \cup {Nil}, cached : {Nil} \cup SubRecords]]

\* The parsed log is never older than the mtime it is filed under: whoever finds
\* the cache valid has the url the log gives now, whatever the processes that
\* read and parsed it did in between.
ProvidersCurrent == ProvsHit => provs.url = log.url

\* What passes for fresh under the url of the log came from that url (or has
\* been there since before urls were recorded), although slow workers may write
\* the servers and the info of an old url over newer ones.
FreshIsForUrl ==
  FreshFor(subCache, log.url) /\ subCache.url # Legacy =>
    subCache.servers \in {log.url, Nil} /\ subCache.info \in {log.url, Nil}

\* The only offline copy of the servers: no failed fetch, no cleared cache, no
\* expiry takes it away; only an answer of the panel replaces it.
LastGoodKept ==
  [][subCache # Nil =>
       /\ subCache' # Nil
       /\ subCache'.servers = subCache.servers \/ \E w \in Refreshers : Answered(w)]_subsVars

\* The stamp is written before the fetches and no fetch is tried while it is
\* young; still the servers of the log's url are fetched in the end, after
\* failures, rotations and cleared caches.
ServersComeFresh == []<>FreshFor(subCache, log.url)
=============================================================================
