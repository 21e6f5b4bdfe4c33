----------------------------- MODULE CacheProofs -----------------------------
(***************************************************************************)
(* Theorems about the four caches that background processes fill: happd's  *)
(* process list, the exit address, a subscription's servers, the marks of  *)
(* servers.  The argument is the same in each part: what a process carries *)
(* was right when it asked, so what is wrong with it has changed since.    *)
(***************************************************************************)
EXTENDS ProcsCache, ExitIp, Subscriptions, Sweeps, TLAPS

-----------------------------------------------------------------------------
(* ProcsCache: for any processes and readers, any TTL and any answer time  *)
(* of happd.                                                               *)

USE ProcsAssumption

Disagrees(list, q) == (q \in list) # (q \in running)

\* What a reader carries was right when it asked, so whatever it has wrong
\* changed since then.
ReaderWasRight ==
  \A r \in Readers, q \in Procs :
    reader[r].asking /\ Disagrees(reader[r].got, q) => since[q] <= reader[r].age

\* The same of the file, which may have been Answer old when it was written.
CacheWasRight ==
  cached # Empty => \A q \in Procs :
    Disagrees(cached.procs, q) => cached.age >= TTL \/ since[q] <= cached.age + Answer

ProcsInv == ProcsTypeOK /\ ReaderWasRight /\ CacheWasRight

\* The invariant at the start: nobody asks and there is no file.
LEMMA InitProcsInv == ProcsInit => ProcsInv
BY DEF ProcsInit, ProcsInv, ProcsTypeOK, ReaderWasRight, CacheWasRight, NotAsking, Horizon

\* Steps that touch neither the clock nor the processes.
LEMMA ReaderStepKeepsInv ==
  ASSUME ProcsInv, NEW r \in Readers, Lists(r) \/ ListFails(r) \/ Caches(r)
  PROVE  ProcsInv'
<1>1. CASE Lists(r)
  BY <1>1 DEF Lists, ProcsInv, ProcsTypeOK, ReaderWasRight, CacheWasRight, Disagrees, Put, Horizon
<1>2. CASE ListFails(r)
  BY <1>2 DEF ListFails, ProcsInv, ProcsTypeOK, ReaderWasRight, CacheWasRight, Disagrees, Put,
              Horizon, NotAsking
<1>3. CASE Caches(r)
  <2>1. \A q \in Procs : Disagrees(reader[r].got, q) => since[q] <= Answer
    BY <1>3 DEF Caches, ProcsInv, ProcsTypeOK, ReaderWasRight, Horizon
  <2>2. ProcsTypeOK'
    BY <1>3 DEF Caches, ProcsInv, ProcsTypeOK, Put, NotAsking, Horizon
  <2>3. ReaderWasRight'
    BY <1>3 DEF Caches, ProcsInv, ProcsTypeOK, ReaderWasRight, Disagrees, Put, NotAsking
  <2>4. CacheWasRight'
    BY <1>3, <2>1 DEF Caches, ProcsInv, ProcsTypeOK, CacheWasRight, Disagrees, Horizon
  <2> QED BY <2>2, <2>3, <2>4 DEF ProcsInv
<1> QED BY <1>1, <1>2, <1>3

\* Whatever starts or stops has just done so.
LEMMA ChangeKeepsInv ==
  ASSUME ProcsInv, NEW q \in Procs, Runs(q) \/ Stops(q), UNCHANGED reader,
         cached' \in {cached, Empty}
  PROVE  /\ running' \subseteq Procs /\ since' \in [Procs -> 0..Horizon]
         /\ cached' \in {Empty} \cup [procs : SUBSET Procs, age : 0..TTL]
         /\ ReaderWasRight' /\ CacheWasRight'
<1>1. /\ running' \subseteq Procs /\ since' \in [Procs -> 0..Horizon]
      /\ since'[q] = 0
      /\ \A p \in Procs \ {q} : since'[p] = since[p] /\ (p \in running' <=> p \in running)
  BY DEF Runs, Stops, Put, ProcsInv, ProcsTypeOK, Horizon
<1>2. cached' \in {Empty} \cup [procs : SUBSET Procs, age : 0..TTL]
  BY DEF ProcsInv, ProcsTypeOK
<1>3. ReaderWasRight'
  <2> SUFFICES ASSUME NEW r \in Readers, NEW p \in Procs,
                      reader[r].asking, Disagrees(reader[r].got, p)'
               PROVE  since'[p] <= reader[r].age
    BY DEF ReaderWasRight
  <2>1. reader[r].age \in Nat
    BY DEF ProcsInv, ProcsTypeOK
  <2>2. CASE p = q
    BY <1>1, <2>1, <2>2
  <2>3. CASE p # q
    BY <1>1, <2>3 DEF ProcsInv, ReaderWasRight, Disagrees
  <2> QED BY <2>2, <2>3
<1>4. CacheWasRight'
  <2> SUFFICES ASSUME cached' # Empty, NEW p \in Procs, Disagrees(cached.procs, p)'
               PROVE  cached.age >= TTL \/ since'[p] <= cached.age + Answer
    BY DEF CacheWasRight, Disagrees
  <2>1. cached' = cached /\ cached.age \in Nat
    BY DEF ProcsInv, ProcsTypeOK
  <2>2. CASE p = q
    BY <1>1, <2>1, <2>2
  <2>3. CASE p # q
    BY <1>1, <2>1, <2>3 DEF ProcsInv, CacheWasRight, Disagrees
  <2> QED BY <2>2, <2>3
<1> QED BY <1>1, <1>2, <1>3, <1>4

\* Dropping the file, with the processes as they are.
LEMMA DropKeepsInv ==
  ASSUME ProcsInv, Drop \/ UNCHANGED cached, UNCHANGED <<running, since, reader>>
  PROVE  /\ running' \subseteq Procs /\ since' \in [Procs -> 0..Horizon]
         /\ cached' \in {Empty} \cup [procs : SUBSET Procs, age : 0..TTL]
         /\ ReaderWasRight' /\ CacheWasRight'
BY DEF Drop, ProcsInv, ProcsTypeOK, ReaderWasRight, CacheWasRight, Disagrees

\* The clock ages what is asked, what is cached and what runs alike; a reader
\* never carries its list longer than Answer.
LEMMA ClockKeepsInv == ASSUME ProcsInv, TimePasses PROVE ProcsInv'
<1> DEFINE NextSince(q) == Capped(since[q], Horizon)
<1>1. \A q \in Procs : /\ since[q] \in 0..Horizon /\ since'[q] \in 0..Horizon
                       /\ since'[q] <= since[q] + 1
  BY DEF TimePasses, Capped, ProcsInv, ProcsTypeOK, Horizon
<1>2. since' \in [Procs -> 0..Horizon]
  BY <1>1 DEF TimePasses
<1>3. \A r \in Readers :
        /\ reader[r].age \in 0..Answer
        /\ reader'[r] \in [got : SUBSET Procs, age : 0..Answer, asking : BOOLEAN]
        /\ reader'[r].asking =>
             reader[r].asking /\ reader'[r].got = reader[r].got /\ reader'[r].age = reader[r].age + 1
  <2> SUFFICES ASSUME NEW r \in Readers
               PROVE  /\ reader[r].age \in 0..Answer
                      /\ reader'[r] \in [got : SUBSET Procs, age : 0..Answer, asking : BOOLEAN]
                      /\ reader'[r].asking =>
                           /\ reader[r].asking /\ reader'[r].got = reader[r].got
                           /\ reader'[r].age = reader[r].age + 1
    OBVIOUS
  <2>1. reader[r] \in [got : SUBSET Procs, age : 0..Answer, asking : BOOLEAN]
    BY DEF ProcsInv, ProcsTypeOK
  <2>2. reader'[r] = IF reader[r].asking THEN [reader[r] EXCEPT !.age = @ + 1] ELSE reader[r]
    BY DEF TimePasses
  <2>3. reader[r].asking => reader[r].age < Answer
    BY DEF TimePasses
  <2> QED BY <2>1, <2>2, <2>3
<1>4. reader' \in [Readers -> [got : SUBSET Procs, age : 0..Answer, asking : BOOLEAN]]
  BY <1>3 DEF TimePasses
<1>5. ReaderWasRight'
  <2> SUFFICES ASSUME NEW r \in Readers, NEW q \in Procs,
                      reader'[r].asking, Disagrees(reader[r].got, q)'
               PROVE  since'[q] <= reader'[r].age
    BY DEF ReaderWasRight, Disagrees
  <2>1. since[q] <= reader[r].age
    BY <1>3 DEF ProcsInv, ReaderWasRight, Disagrees, TimePasses
  <2> QED BY <2>1, <1>1, <1>3
<1>6. cached # Empty =>
        /\ cached.age \in 0..TTL /\ cached'.procs = cached.procs
        /\ cached'.age = Capped(cached.age, TTL)
        /\ cached' \in [procs : SUBSET Procs, age : 0..TTL]
  BY DEF TimePasses, Capped, ProcsInv, ProcsTypeOK
<1>7. cached = Empty => cached' = Empty
  BY DEF TimePasses
<1>8. CacheWasRight'
  <2> SUFFICES ASSUME cached' # Empty, NEW q \in Procs, Disagrees(cached.procs, q)'
               PROVE  cached'.age >= TTL \/ since'[q] <= cached'.age + Answer
    BY DEF CacheWasRight, Disagrees
  <2>1. cached # Empty /\ cached.age \in 0..TTL /\ cached'.age = Capped(cached.age, TTL)
    BY <1>6, <1>7
  <2>2. cached.age >= TTL \/ since[q] <= cached.age + Answer
    BY <2>1, <1>6 DEF ProcsInv, CacheWasRight, Disagrees, TimePasses
  <2> QED BY <2>1, <2>2, <1>1 DEF Capped
<1>9. ProcsTypeOK'
  BY <1>2, <1>4, <1>6, <1>7 DEF TimePasses, ProcsInv, ProcsTypeOK
<1> QED BY <1>5, <1>8, <1>9 DEF ProcsInv

\* Every step keeps the invariant.
LEMMA ProcsStepKeepsInv == ProcsInv /\ [ProcsNext]_procsVars => ProcsInv'
<1> SUFFICES ASSUME ProcsInv, [ProcsNext]_procsVars PROVE ProcsInv'
  OBVIOUS
<1> USE DEF ProcsInv
<1>1. ASSUME NEW r \in Readers, Lists(r) \/ ListFails(r) \/ Caches(r) PROVE ProcsInv'
  BY <1>1, ReaderStepKeepsInv
<1>2. ASSUME NEW q \in Procs, Starts(q) \/ Dies(q) PROVE ProcsInv'
  BY <1>2, ChangeKeepsInv DEF Starts, Dies, ProcsTypeOK
<1>3. ASSUME NEW q \in Procs, StopFirst(q) PROVE ProcsInv'
  <2>1. CASE Stops(q)
    BY <1>3, <2>1, ChangeKeepsInv DEF StopFirst, ProcsTypeOK
  <2>2. CASE UNCHANGED <<running, since>>
    BY <1>3, <2>2, DropKeepsInv DEF StopFirst, ProcsTypeOK
  <2> QED BY <1>3, <2>1, <2>2 DEF StopFirst
<1>4. ASSUME AwaitEnds \/ ThenDrop PROVE ProcsInv'
  BY <1>4, DropKeepsInv DEF AwaitEnds, ThenDrop, ProcsTypeOK
<1>5. ASSUME HappDisconnect PROVE ProcsInv'
  BY <1>5, DropKeepsInv DEF HappDisconnect, ProcsTypeOK
<1>6. ASSUME HappStops PROVE ProcsInv'
  <2>1. PICK q \in todo :
          \/ /\ IF q \in running THEN Stops(q) ELSE UNCHANGED <<running, since>>
             /\ todo' = todo \ {q}
             /\ stopper' = IF todo' = {} THEN "idle" ELSE "stop"
          \/ todo' = {} /\ stopper' = "idle" /\ UNCHANGED <<running, since>>
    BY <1>6 DEF HappStops
  <2>2. q \in Procs /\ todo' \subseteq Procs /\ stopper' \in {"idle", "stop", "drop"}
        /\ UNCHANGED <<cached, reader>>
    BY <1>6, <2>1 DEF HappStops, ProcsTypeOK
  <2>3. CASE Stops(q)
    BY <2>2, <2>3, ChangeKeepsInv DEF ProcsTypeOK
  <2>4. CASE UNCHANGED <<running, since>>
    BY <2>2, <2>4, DropKeepsInv DEF ProcsTypeOK
  <2> QED BY <2>1, <2>3, <2>4
<1>7. CASE TimePasses
  BY <1>7, ClockKeepsInv
<1>8. CASE UNCHANGED procsVars
  BY <1>8, DropKeepsInv DEF procsVars, ProcsTypeOK
<1> QED BY <1>1, <1>2, <1>3, <1>4, <1>5, <1>6, <1>7, <1>8 DEF ProcsNext

LEMMA ProcsInvariant == ProcsSpec => []ProcsInv
BY InitProcsInv, ProcsStepKeepsInv, PTL DEF ProcsSpec

\* Type correctness, for any processes and readers; with it, that no reader
\* holds a list for longer than one answer of happd takes.
THEOREM ProcsTypeCorrect == ProcsSpec => []ProcsTypeOK
BY ProcsInvariant, PTL DEF ProcsInv

\* A phantom connection in the cache (a list from before a stop, written after
\* the cache was dropped) is gone TTL + Answer later, however many ticks and
\* menus read and write the file and whatever is started and stopped meanwhile.
THEOREM PhantomIsAlwaysShort == ProcsSpec => []PhantomIsShort
<1>1. ProcsInv => PhantomIsShort
  BY DEF ProcsInv, ProcsTypeOK, CacheWasRight, PhantomIsShort, Fresh, Disagrees, Horizon
<1> QED BY <1>1, ProcsInvariant, PTL

-----------------------------------------------------------------------------
(* ExitIp: for any connections and workers and any times that keep the     *)
(* order ExitIpAssumption states.                                          *)

HIDE ProcsAssumption

USE ExitIpAssumption

Entries == [for : Conns, ip : Addresses \ {Nothing}, age : 0..MaxAge]
WorkerType == [at : {"idle", "spawned", "asks", "answered"},
               for : Conns \cup {Nothing}, got : Addresses, age : 0..Limit]

\* An address fetched that long ago is of this connection, unless something has
\* changed since.
RightSince(ip, age) == ip \in {conn, "error", "neither"} \/ settled <= age

\* A worker knows for whom it asks, and has an answer when it is answered.
WorksWell(r) ==
  /\ r.at # "idle" => r.for \in Conns
  /\ r.at = "answered" => r.got # Nothing /\ RightSince(r.got, r.age)

ExitInv ==
  /\ ExitTypeOK
  /\ route # conn => settled = 0
  /\ exitCache # Nothing => RightSince(exitCache.ip, exitCache.age)
  /\ \A w \in Workers : WorksWell(worker[w])

LEMMA IdleWorksWell ==
  /\ Idle \in WorkerType /\ Idle.at = "idle" /\ Idle.age = 0 /\ Idle.got = Nothing
  /\ WorksWell(Idle) /\ WorksWell(Idle)'
BY DEF Idle, WorkerType, Addresses, WorksWell

LEMMA InitExitInv == ExitInit => ExitInv
BY IdleWorksWell DEF ExitInit, ExitInv, ExitTypeOK, WorkerType

LEMMA ExitFacts ==
  ASSUME ExitInv
  PROVE  /\ conn \in Conns /\ route \in Conns /\ settled \in 0..MaxAge
         /\ exitCache \in {Nothing} \cup Entries /\ switches \in 0..MaxSwitches
         /\ worker \in [Workers -> WorkerType]
         /\ \A w \in Workers : worker[w] \in WorkerType /\ WorksWell(worker[w])
BY DEF ExitInv, ExitTypeOK, Entries, WorkerType

\* One worker moves on; connection and route are as they were, and so is the
\* file, or it gets an entry that is right since it was fetched.
LEMMA OneWorkerKeepsInv ==
  ASSUME ExitInv, NEW w \in Workers, NEW r \in WorkerType, WorksWell(r),
         SetWorker(w, r), UNCHANGED <<conn, route, settled, switches>>,
         \/ UNCHANGED exitCache
         \/ exitCache' \in Entries /\ RightSince(exitCache'.ip, exitCache'.age)
  PROVE  ExitInv'
<1>1. worker' \in [Workers -> WorkerType]
  BY ExitFacts DEF SetWorker
<1>2. exitCache' \in {Nothing} \cup Entries
  BY ExitFacts
<1>3. ExitTypeOK'
  BY <1>1, <1>2, ExitFacts DEF ExitTypeOK, Entries, WorkerType, Addresses
<1>4. \A v \in Workers : WorksWell(worker[v])'
  <2>1. \A v \in Workers : WorksWell(worker'[v])
    BY ExitFacts DEF SetWorker
  <2> QED BY <2>1 DEF WorksWell, RightSince
<1>5. (exitCache # Nothing => RightSince(exitCache.ip, exitCache.age))'
  BY DEF ExitInv, RightSince
<1> QED BY <1>3, <1>4, <1>5 DEF ExitInv

\* A worker is spawned for the connection that is seen now.
LEMMA RequestKeepsInv ==
  ASSUME ExitInv, NEW w \in Workers, RequestIpUpdate(w)
  PROVE  ExitInv'
<1> DEFINE r == [Idle EXCEPT !.at = "spawned", !.for = conn]
<1>1. r \in WorkerType /\ r.at = "spawned" /\ r.for = conn
  BY IdleWorksWell, ExitFacts DEF WorkerType
<1>2. SetWorker(w, r) /\ UNCHANGED <<conn, route, settled, exitCache, switches>>
  BY DEF RequestIpUpdate
<1> HIDE DEF r
<1>3. WorksWell(r)
  BY <1>1, ExitFacts DEF WorksWell
<1> QED BY <1>1, <1>2, <1>3, OneWorkerKeepsInv

\* The steps of a worker.
LEMMA WorkerStepKeepsInv ==
  ASSUME ExitInv, NEW w \in Workers, WorkerStep(w)
  PROVE  ExitInv'
<1> USE ExitFacts
<1>1. CASE Skips(w)
  BY <1>1, IdleWorksWell, OneWorkerKeepsInv DEF Skips
<1>2. CASE Begins(w)
  <2> DEFINE r == [worker[w] EXCEPT !.at = "asks"]
  <2>1. r \in WorkerType /\ r.at = "asks" /\ r.for = worker[w].for
    BY DEF WorkerType
  <2>2. /\ SetWorker(w, r) /\ worker[w].at = "spawned"
        /\ UNCHANGED <<conn, route, settled, exitCache, switches>>
    BY <1>2 DEF Begins
  <2> HIDE DEF r
  <2>3. WorksWell(r)
    BY <2>1, <2>2 DEF WorksWell
  <2> QED BY <2>1, <2>2, <2>3, OneWorkerKeepsInv
<1>3. ASSUME NEW got \in Addresses \ {Nothing}, RightSince(got, worker[w].age),
             worker[w].at = "asks",
             SetWorker(w, [worker[w] EXCEPT !.at = "answered", !.got = got]),
             UNCHANGED <<conn, route, settled, exitCache, switches>>
      PROVE  ExitInv'
  <2> DEFINE r == [worker[w] EXCEPT !.at = "answered", !.got = got]
  <2>1. /\ r \in WorkerType /\ r.at = "answered" /\ r.for = worker[w].for
        /\ r.got = got /\ r.age = worker[w].age
    BY DEF WorkerType
  <2>2. SetWorker(w, r)
    BY <1>3
  <2> HIDE DEF r
  <2>3. WorksWell(r)
    BY <2>1, <1>3 DEF WorksWell
  <2> QED BY <1>3, <2>1, <2>2, <2>3, OneWorkerKeepsInv
<1>4. CASE LooksUp(w)
  <2>1. route \in Addresses \ {Nothing}
    BY DEF Addresses
  <2>2. RightSince(route, worker[w].age)
    <3>1. worker[w].age \in Nat
      BY DEF WorkerType
    <3> QED BY <3>1 DEF ExitInv, RightSince
  <2> QED BY <1>3, <1>4, <2>1, <2>2 DEF LooksUp
<1>5. CASE LookupFails(w)
  <2>1. PICK outcome \in {"error", "neither"} :
          SetWorker(w, [worker[w] EXCEPT !.at = "answered", !.got = outcome])
    BY <1>5 DEF LookupFails
  <2>2. outcome \in Addresses \ {Nothing} /\ RightSince(outcome, worker[w].age)
    BY DEF Addresses, RightSince
  <2> QED BY <1>3, <1>5, <2>1, <2>2 DEF LookupFails
<1>6. CASE Writes(w)
  <2>1. /\ exitCache' = [for |-> worker[w].for, ip |-> worker[w].got, age |-> worker[w].age]
        /\ SetWorker(w, Idle) /\ UNCHANGED <<conn, route, settled, switches>>
        /\ worker[w].at = "answered"
    BY <1>6 DEF Writes
  <2>2. /\ worker[w].for \in Conns /\ worker[w].got \in Addresses \ {Nothing}
        /\ worker[w].age \in 0..MaxAge /\ RightSince(worker[w].got, worker[w].age)
    BY <2>1 DEF WorksWell, WorkerType
  <2>3. exitCache' \in Entries /\ RightSince(exitCache'.ip, exitCache'.age)
    BY <2>1, <2>2 DEF Entries
  <2> QED BY <2>1, <2>3, IdleWorksWell, OneWorkerKeepsInv
<1> QED BY <1>1, <1>2, <1>4, <1>5, <1>6 DEF WorkerStep

\* Whatever changes the connection or the route starts settled anew: every
\* answer there is may be wrong, and says so.
LEMMA UnsettledKeepsInv ==
  ASSUME ExitInv, settled' = 0, conn' \in Conns, route' \in Conns, switches' \in 0..MaxSwitches,
         UNCHANGED <<exitCache, worker>>
  PROVE  ExitInv'
<1>1. ExitTypeOK'
  BY ExitFacts DEF ExitTypeOK, Entries, WorkerType, Addresses
<1>2. \A w \in Workers : WorksWell(worker[w])'
  BY ExitFacts DEF WorksWell, RightSince, WorkerType
<1>3. (exitCache # Nothing => RightSince(exitCache.ip, exitCache.age))'
  BY ExitFacts DEF RightSince, Entries
<1> QED BY <1>1, <1>2, <1>3 DEF ExitInv

\* An answer, in a worker or in the file, ages at least as fast as settled.
LEMMA TimeKeepsInv == ASSUME ExitInv, TimeGoesOn PROVE ExitInv'
<1> USE ExitFacts
<1>1. /\ settled' = IF route = conn THEN Older(settled, MaxAge) ELSE 0
      /\ UNCHANGED <<conn, route, switches>>
  BY DEF TimeGoesOn
<1>2. settled' \in 0..MaxAge /\ settled' <= settled + 1 /\ (route # conn => settled' = 0)
  BY <1>1 DEF Older
<1>3. /\ exitCache' \in {Nothing} \cup Entries
      /\ exitCache' # Nothing => RightSince(exitCache.ip, exitCache.age)'
  <2>1. CASE exitCache = Nothing
    BY <2>1 DEF TimeGoesOn
  <2>2. CASE exitCache # Nothing
    <3>1. PICK c \in Entries : c = exitCache
      BY <2>2
    <3>2. exitCache' = [c EXCEPT !.age = Older(c.age, MaxAge)]
      BY <2>2, <3>1, Zenon DEF TimeGoesOn
    <3>3. c.age \in 0..MaxAge /\ Older(c.age, MaxAge) \in 0..MaxAge
      BY DEF Older, Entries
    <3>4. exitCache' \in Entries /\ exitCache'.ip = c.ip /\ exitCache'.age = Older(c.age, MaxAge)
      BY <3>2, <3>3 DEF Entries
    <3>5. RightSince(c.ip, c.age)
      BY <2>2, <3>1 DEF ExitInv
    <3>6. c.ip \in {conn', "error", "neither"} \/ settled' <= Older(c.age, MaxAge)
      BY <1>1, <1>2, <3>3, <3>5 DEF RightSince, Older
    <3> QED BY <3>4, <3>6 DEF RightSince
  <2> QED BY <2>1, <2>2
<1>4. ASSUME NEW w \in Workers PROVE worker'[w] \in WorkerType /\ WorksWell(worker[w])'
  <2>1. worker'[w] = IF Busy(w) THEN [worker[w] EXCEPT !.age = @ + 1] ELSE worker[w]
    BY DEF TimeGoesOn
  <2>2. CASE ~Busy(w)
    BY <2>1, <2>2 DEF Busy, WorksWell
  <2>3. CASE Busy(w)
    <3>1. worker[w].age + 1 \in 0..Limit
      BY <2>3 DEF TimeGoesOn, WorkerType
    <3>2. /\ worker'[w] \in WorkerType /\ worker'[w].at = worker[w].at
          /\ worker'[w].for = worker[w].for /\ worker'[w].got = worker[w].got
          /\ worker'[w].age = worker[w].age + 1
      BY <2>1, <2>3, <3>1 DEF WorkerType
    <3>3. RightSince(worker[w].got, worker[w].age) =>
            worker[w].got \in {conn', "error", "neither"} \/ settled' <= worker[w].age + 1
      BY <1>1, <1>2 DEF RightSince, WorkerType
    <3> QED BY <3>2, <3>3 DEF WorksWell, RightSince
  <2> QED BY <2>2, <2>3
<1>5. worker' \in [Workers -> WorkerType]
  BY <1>4 DEF TimeGoesOn
<1>6. ExitTypeOK'
  BY <1>1, <1>2, <1>3, <1>5 DEF ExitTypeOK, Entries, WorkerType, Addresses
<1> QED BY <1>1, <1>2, <1>3, <1>4, <1>6 DEF ExitInv

\* Every step keeps the invariant.
LEMMA ExitStepKeepsInv == ExitInv /\ [ExitNext]_exitVars => ExitInv'
<1> SUFFICES ASSUME ExitInv, [ExitNext]_exitVars PROVE ExitInv'
  OBVIOUS
<1>1. ASSUME NEW w \in Workers, TickRequests(w) \/ MenuRequests(w) \/ WorkerStep(w) PROVE ExitInv'
  BY <1>1, RequestKeepsInv, WorkerStepKeepsInv DEF TickRequests, MenuRequests
<1>2. ASSUME NEW c \in Conns, Switch(c) PROVE ExitInv'
  BY <1>2, ExitFacts, UnsettledKeepsInv DEF Switch
<1>3. CASE RouteFollows
  BY <1>3, ExitFacts, UnsettledKeepsInv DEF RouteFollows
<1>4. CASE ClearCache
  <2>1. /\ exitCache' = Nothing /\ switches' \in 0..MaxSwitches
        /\ UNCHANGED <<conn, route, settled, worker>>
    BY <1>4, ExitFacts DEF ClearCache
  <2> QED BY <2>1 DEF ExitInv, ExitTypeOK, WorksWell, RightSince
<1>5. CASE TimeGoesOn
  BY <1>5, TimeKeepsInv
<1>6. CASE UNCHANGED exitVars
  BY <1>6 DEF exitVars, ExitInv, ExitTypeOK, WorksWell, RightSince
<1> QED BY <1>1, <1>2, <1>3, <1>4, <1>5, <1>6 DEF ExitNext

LEMMA ExitInvariant == ExitSpec => []ExitInv
BY InitExitInv, ExitStepKeepsInv, PTL DEF ExitSpec

\* Type correctness, for any connections and workers; with it, that no fetch is
\* older than the longest one.
THEOREM ExitTypeCorrect == ExitSpec => []ExitTypeOK
BY ExitInvariant, PTL DEF ExitInv

\* Once connection and route have been the same for the cache's maximum age, the
\* line shows no other connection's address, however many workers, of whatever
\* connections, are still to write.
THEOREM WrongLineIsAlwaysShort == ExitSpec => []WrongLineIsShort
<1>1. ExitInv => WrongLineIsShort
  <2> SUFFICES ASSUME ExitInv, settled >= MaxAge, IsFresh
               PROVE  exitCache.ip \in {conn, "neither"}
    BY DEF WrongLineIsShort, Shown
  <2>1. exitCache \in Entries /\ exitCache.age < MaxAge /\ exitCache.ip # "error"
    BY ExitFacts DEF IsFresh
  <2>2. RightSince(exitCache.ip, exitCache.age)
    BY DEF IsFresh, ExitInv
  <2> QED BY <2>1, <2>2, ExitFacts DEF RightSince, Entries
<1> QED BY <1>1, ExitInvariant, PTL

-----------------------------------------------------------------------------
(* Subscriptions: for any urls, any number of workers and any length of    *)
(* the log.                                                                *)

HIDE ExitIpAssumption

USE SubsAssumption

Places == {"rests", "spawned", "stat", "parse", "note", "reads", "asks"}
RefresherType == [at : Places, force : BOOLEAN, mtime : 0..MaxLog, url : SubUrls \cup {Nil},
                  cached : {Nil} \cup SubRecords]

\* A record has servers and info of its own url only.
OwnRecord(c) ==
  c # Nil /\ c.url # Legacy => c.servers \in {c.url, Nil} /\ c.info \in {c.url, Nil}

\* What a worker knows: a url once the log is parsed; if the log is still what
\* it was when its mtime was taken, the url it gives; a record of its own url.
KnowsWell(r) ==
  /\ r.at \in {"note", "reads", "asks"} => r.url \in SubUrls
  /\ r.at \in {"parse", "note"} => r.mtime <= log.mtime
  /\ r.at = "note" /\ r.mtime = log.mtime => r.url = log.url
  /\ OwnRecord(r.cached)

ProvsFiledWell ==
  provs # Nil => provs.mtime <= log.mtime /\ (provs.mtime = log.mtime => provs.url = log.url)

SubsInv ==
  /\ SubsTypeOK
  /\ ProvsFiledWell
  /\ OwnRecord(subCache)
  /\ \A w \in Refreshers : KnowsWell(refresher[w])

LEMMA RestingKnowsWell ==
  /\ Resting \in RefresherType /\ Resting.cached = Nil
  /\ KnowsWell(Resting) /\ KnowsWell(Resting)'
BY DEF Resting, RefresherType, Places, KnowsWell, OwnRecord

LEMMA InitSubsInv == SubsInit => SubsInv
<1> SUFFICES ASSUME SubsInit PROVE SubsInv
  OBVIOUS
<1>1. \A w \in Refreshers : refresher[w] = Resting
  BY DEF SubsInit
<1>2. log \in [mtime : 0..MaxLog, url : SubUrls] /\ 0 \in 0..MaxUsers
  BY DEF SubsInit
<1>3. subCache \in {Nil} \cup SubRecords /\ OwnRecord(subCache)
  BY DEF SubsInit, SubRecords, OwnRecord
<1>4. SubsTypeOK
  BY <1>2, <1>3, RestingKnowsWell DEF SubsInit, SubsTypeOK, RefresherType, Places
<1> QED BY <1>1, <1>3, <1>4, RestingKnowsWell DEF SubsInv, SubsInit, ProvsFiledWell

\* One worker moves on; the log is as it was.
LEMMA WorkerKeepsInv ==
  ASSUME SubsInv, NEW w \in Refreshers, NEW r \in RefresherType, KnowsWell(r),
         SetRefresher(w, r), UNCHANGED log,
         provs' \in {Nil} \cup [mtime : 0..MaxLog, url : SubUrls], ProvsFiledWell',
         subCache' \in {Nil} \cup SubRecords, OwnRecord(subCache)',
         stamp' \in BOOLEAN, byHand' \in 0..MaxUsers
  PROVE  SubsInv'
<1>1. refresher' \in [Refreshers -> RefresherType]
  BY DEF SetRefresher, SubsInv, SubsTypeOK, RefresherType, Places
<1>2. SubsTypeOK'
  BY <1>1 DEF SubsInv, SubsTypeOK, RefresherType, Places
<1>3. \A v \in Refreshers : KnowsWell(refresher'[v])
  BY DEF SetRefresher, SubsInv, SubsTypeOK
<1>4. \A v \in Refreshers : KnowsWell(refresher[v])'
  BY <1>3 DEF KnowsWell, OwnRecord
<1> QED BY <1>2, <1>4 DEF SubsInv

\* The same when it leaves the files alone.
LEMMA WorkerOnlyKeepsInv ==
  ASSUME SubsInv, NEW w \in Refreshers, NEW r \in RefresherType, KnowsWell(r),
         SetRefresher(w, r), UNCHANGED <<log, provs, subCache>>,
         stamp' \in BOOLEAN, byHand' \in 0..MaxUsers
  PROVE  SubsInv'
<1>1. /\ provs' \in {Nil} \cup [mtime : 0..MaxLog, url : SubUrls] /\ ProvsFiledWell'
      /\ subCache' \in {Nil} \cup SubRecords /\ OwnRecord(subCache)'
  BY DEF SubsInv, SubsTypeOK, ProvsFiledWell, OwnRecord
<1> QED BY <1>1, WorkerKeepsInv

LEMMA WorkerFacts ==
  ASSUME SubsInv, NEW w \in Refreshers
  PROVE  /\ refresher[w] \in RefresherType /\ KnowsWell(refresher[w])
         /\ subCache \in {Nil} \cup SubRecords /\ OwnRecord(subCache)
         /\ provs \in {Nil} \cup [mtime : 0..MaxLog, url : SubUrls] /\ ProvsFiledWell
         /\ log \in [mtime : 0..MaxLog, url : SubUrls]
         /\ stamp \in BOOLEAN /\ byHand \in 0..MaxUsers
BY DEF SubsInv, SubsTypeOK, RefresherType, Places

\* The readers in one go: provs gets what the log says now.
LEMMA RequestUpdateKeepsInv ==
  ASSUME SubsInv, NEW w \in Refreshers, RequestUpdate(w)
  PROVE  SubsInv'
<1>1. provs' \in {Nil} \cup [mtime : 0..MaxLog, url : SubUrls] /\ ProvsFiledWell'
  BY WorkerFacts DEF RequestUpdate, ProvsNow, ProvsHit, ProvsFiledWell
<1>2. UNCHANGED <<log, subCache, stamp, byHand>> /\ OwnRecord(subCache)'
  BY WorkerFacts DEF RequestUpdate, OwnRecord
<1>3. CASE UNCHANGED refresher
  BY <1>1, <1>2, <1>3 DEF SubsInv, SubsTypeOK, KnowsWell, OwnRecord
<1>4. CASE refresher[w] = Resting /\ To(w, "spawned")
  <2> DEFINE r == [Resting EXCEPT !.at = "spawned"]
  <2>1. r \in RefresherType /\ r.at = "spawned" /\ r.cached = Nil
    BY RestingKnowsWell DEF RefresherType, Places
  <2>2. SetRefresher(w, r)
    BY <1>4 DEF To
  <2> HIDE DEF r
  <2>3. KnowsWell(r)
    BY <2>1 DEF KnowsWell, OwnRecord
  <2> QED BY <1>1, <1>2, <2>1, <2>2, <2>3, WorkerFacts, WorkerKeepsInv
<1> QED BY <1>3, <1>4 DEF RequestUpdate

\* A refresh by hand, and the end of a worker.
LEMMA ByHandKeepsInv ==
  ASSUME SubsInv, NEW w \in Refreshers,
         (\E force \in BOOLEAN : Refresh(w, force)) \/ Killed(w) \/ FetchFails(w) \/ StillFresh(w)
  PROVE  SubsInv'
<1>1. ASSUME NEW force \in BOOLEAN, Refresh(w, force) PROVE SubsInv'
  <2> DEFINE r == [Resting EXCEPT !.at = "spawned", !.force = force]
  <2>1. r \in RefresherType /\ r.at = "spawned" /\ r.cached = Nil
    BY RestingKnowsWell DEF RefresherType, Places
  <2>2. /\ SetRefresher(w, r) /\ UNCHANGED <<log, provs, subCache, stamp>>
        /\ byHand < MaxUsers /\ byHand' = byHand + 1
    BY <1>1 DEF Refresh
  <2> HIDE DEF r
  <2>3. byHand' \in 0..MaxUsers
    BY <2>2, WorkerFacts
  <2>4. KnowsWell(r)
    BY <2>1 DEF KnowsWell, OwnRecord
  <2> QED BY <2>1, <2>2, <2>3, <2>4, WorkerFacts, WorkerOnlyKeepsInv
<1>2. ASSUME Killed(w) \/ FetchFails(w) \/ StillFresh(w) PROVE SubsInv'
  <2>1. /\ SetRefresher(w, Resting) /\ UNCHANGED <<log, provs, subCache, stamp>>
        /\ byHand' \in 0..MaxUsers
    BY <1>2, WorkerFacts DEF Killed, FetchFails, StillFresh
  <2> QED BY <2>1, WorkerFacts, RestingKnowsWell, WorkerOnlyKeepsInv
<1> QED BY <1>1, <1>2

\* A worker that only moves to another place.
LEMMA MovedKnowsWell ==
  ASSUME SubsInv, NEW w \in Refreshers, NEW place \in Places, place # "note", place # "parse",
         place = "reads" => refresher[w].url \in SubUrls, place # "asks"
  PROVE  /\ [refresher[w] EXCEPT !.at = place] \in RefresherType
         /\ KnowsWell([refresher[w] EXCEPT !.at = place])
<1> DEFINE r == [refresher[w] EXCEPT !.at = place]
<1>1. r \in RefresherType /\ r.at = place /\ r.url = refresher[w].url /\ r.cached = refresher[w].cached
  BY WorkerFacts DEF RefresherType
<1>2. OwnRecord(refresher[w].cached)
  BY WorkerFacts DEF KnowsWell
<1> HIDE DEF r
<1>3. KnowsWell(r)
  BY <1>1, <1>2 DEF KnowsWell
<1> QED BY <1>1, <1>3 DEF r

\* The steps of providers(): whatever the log does between them, the url noted
\* under an mtime is not older than that mtime.
LEMMA ReadingKeepsInv ==
  ASSUME SubsInv, NEW w \in Refreshers, Stamps(w) \/ Stat(w) \/ Parse(w) \/ Note(w) \/ Asks(w)
  PROVE  SubsInv'
<1> USE WorkerFacts
<1>1. CASE Stamps(w)
  <2>1. SetRefresher(w, [refresher[w] EXCEPT !.at = "stat"])
        /\ UNCHANGED <<log, provs, subCache, byHand>> /\ stamp' \in BOOLEAN
    BY <1>1 DEF Stamps, To
  <2> QED BY <2>1, MovedKnowsWell, WorkerOnlyKeepsInv DEF Places
<1>2. CASE Stat(w)
  <2>1. UNCHANGED <<log, provs, subCache, stamp, byHand>>
    BY <1>2 DEF Stat
  <2>2. CASE ProvsHit
    <3> DEFINE r == [refresher[w] EXCEPT !.at = "reads", !.url = provs.url]
    <3>1. provs.url \in SubUrls
      BY <2>2 DEF ProvsHit
    <3>2. r \in RefresherType /\ r.at = "reads" /\ r.url = provs.url /\ r.cached = refresher[w].cached
      BY <3>1 DEF RefresherType, Places
    <3>3. SetRefresher(w, r)
      BY <1>2, <2>2 DEF Stat
    <3> HIDE DEF r
    <3>4. KnowsWell(r)
      BY <3>1, <3>2 DEF KnowsWell
    <3> QED BY <2>1, <3>2, <3>3, <3>4, WorkerOnlyKeepsInv
  <2>3. CASE ~ProvsHit
    <3> DEFINE r == [refresher[w] EXCEPT !.at = "parse", !.mtime = log.mtime]
    <3>1. log.mtime \in 0..MaxLog
      OBVIOUS
    <3>2. r \in RefresherType /\ r.at = "parse" /\ r.mtime = log.mtime /\ r.cached = refresher[w].cached
      BY <3>1 DEF RefresherType, Places
    <3>3. SetRefresher(w, r)
      BY <1>2, <2>3 DEF Stat
    <3> HIDE DEF r
    <3>4. KnowsWell(r)
      BY <3>1, <3>2 DEF KnowsWell
    <3> QED BY <2>1, <3>2, <3>3, <3>4, WorkerOnlyKeepsInv
  <2> QED BY <2>2, <2>3
<1>3. CASE Parse(w)
  <2> DEFINE r == [refresher[w] EXCEPT !.at = "note", !.url = log.url]
  <2>1. log.url \in SubUrls /\ refresher[w].mtime <= log.mtime
    BY <1>3 DEF Parse, KnowsWell
  <2>2. /\ r \in RefresherType /\ r.at = "note" /\ r.url = log.url
        /\ r.mtime = refresher[w].mtime /\ r.cached = refresher[w].cached
    BY <2>1 DEF RefresherType, Places
  <2>3. SetRefresher(w, r) /\ UNCHANGED <<log, provs, subCache, stamp, byHand>>
    BY <1>3 DEF Parse
  <2> HIDE DEF r
  <2>4. KnowsWell(r)
    BY <2>1, <2>2 DEF KnowsWell
  <2> QED BY <2>2, <2>3, <2>4, WorkerOnlyKeepsInv
<1>4. CASE Note(w)
  <2> DEFINE r == [refresher[w] EXCEPT !.at = "reads"]
  <2>1. /\ refresher[w].url \in SubUrls /\ refresher[w].mtime <= log.mtime
        /\ refresher[w].mtime = log.mtime => refresher[w].url = log.url
        /\ refresher[w].mtime \in 0..MaxLog
    BY <1>4 DEF Note, KnowsWell, RefresherType
  <2>2. /\ provs' = [mtime |-> refresher[w].mtime, url |-> refresher[w].url]
        /\ UNCHANGED <<log, subCache, stamp, byHand>>
    BY <1>4 DEF Note
  <2>3. SetRefresher(w, r)
    BY <1>4 DEF Note, To
  <2>4. r \in RefresherType /\ KnowsWell(r)
    BY <2>1, MovedKnowsWell DEF Places
  <2> HIDE DEF r
  <2>5. provs' \in {Nil} \cup [mtime : 0..MaxLog, url : SubUrls] /\ ProvsFiledWell'
    BY <2>1, <2>2 DEF ProvsFiledWell
  <2>6. OwnRecord(subCache)'
    BY <2>2 DEF OwnRecord
  <2> QED BY <2>2, <2>3, <2>4, <2>5, <2>6, WorkerKeepsInv
<1>5. CASE Asks(w)
  <2> DEFINE r == [refresher[w] EXCEPT !.at = "asks", !.cached = subCache]
  <2>1. refresher[w].url \in SubUrls
    BY <1>5 DEF Asks, KnowsWell
  <2>2. r \in RefresherType /\ r.at = "asks" /\ r.url = refresher[w].url /\ r.cached = subCache
    BY DEF RefresherType, Places
  <2>3. SetRefresher(w, r) /\ UNCHANGED <<log, provs, subCache, stamp, byHand>>
    BY <1>5 DEF Asks
  <2> HIDE DEF r
  <2>4. KnowsWell(r)
    BY <2>1, <2>2 DEF KnowsWell
  <2> QED BY <2>2, <2>3, <2>4, WorkerOnlyKeepsInv
<1> QED BY <1>1, <1>2, <1>3, <1>4, <1>5

\* An answer makes a record of the worker's url, with info kept for that url.
LEMMA AnswerIsOwnRecord ==
  ASSUME SubsInv, NEW w \in Refreshers, refresher[w].at = "asks",
         NEW servers \in {refresher[w].url, Nil}, NEW headers \in BOOLEAN
  PROVE  /\ Record(w, servers, headers) \in SubRecords
         /\ OwnRecord(Record(w, servers, headers))
<1> DEFINE url == refresher[w].url  c == refresher[w].cached
           info == IF headers THEN url ELSE KeptInfo(c, url)
<1>1. /\ url \in SubUrls /\ OwnRecord(c) /\ c \in {Nil} \cup SubRecords
  BY WorkerFacts DEF KnowsWell, RefresherType
<1>2. info \in {url, Nil}
  BY <1>1 DEF KeptInfo, OwnRecord
<1>3. Record(w, servers, headers) = [url |-> url, servers |-> servers, fresh |-> TRUE, info |-> info]
  BY DEF Record
<1>4. servers \in {url, Nil}
  OBVIOUS
<1> HIDE DEF url, info, c
<1> QED BY <1>1, <1>2, <1>3, <1>4 DEF SubRecords, OwnRecord

LEMMA AnsweredKeepsInv ==
  ASSUME SubsInv, NEW w \in Refreshers, Answered(w)
  PROVE  SubsInv'
<1>1. PICK servers \in {refresher[w].url, Nil}, headers \in BOOLEAN :
        subCache' = Record(w, servers, headers)
  BY DEF Answered
<1>2. /\ refresher[w].at = "asks" /\ SetRefresher(w, Resting)
      /\ UNCHANGED <<log, provs, stamp, byHand>>
  BY DEF Answered
<1>3. subCache' \in SubRecords /\ OwnRecord(subCache')
  BY <1>1, <1>2, AnswerIsOwnRecord
<1>4. OwnRecord(subCache)' /\ ProvsFiledWell'
  BY <1>2, <1>3, WorkerFacts DEF OwnRecord, ProvsFiledWell
<1> QED BY <1>2, <1>3, <1>4, WorkerFacts, RestingKnowsWell, WorkerKeepsInv

\* An old list is the same list.
LEMMA AgeingKeepsInv == ASSUME SubsInv, CacheAges PROVE SubsInv'
<1>1. PICK c \in SubRecords : c = subCache
  BY DEF CacheAges, SubsInv, SubsTypeOK
<1>2. subCache' = [c EXCEPT !.fresh = FALSE] /\ UNCHANGED <<log, provs, stamp, refresher, byHand>>
  BY <1>1, Zenon DEF CacheAges
<1>3. /\ subCache' \in SubRecords /\ subCache'.url = c.url
      /\ subCache'.servers = c.servers /\ subCache'.info = c.info
  BY <1>2 DEF SubRecords
<1>4. OwnRecord(subCache)'
  BY <1>1, <1>3 DEF SubsInv, OwnRecord
<1> QED BY <1>2, <1>3, <1>4 DEF SubsInv, SubsTypeOK, ProvsFiledWell, KnowsWell, OwnRecord

\* Every step keeps the invariant.
LEMMA SubsStepKeepsInv == SubsInv /\ [SubsNext]_subsVars => SubsInv'
<1> SUFFICES ASSUME SubsInv, [SubsNext]_subsVars PROVE SubsInv'
  OBVIOUS
<1>1. ASSUME NEW w \in Refreshers, RequestUpdate(w) PROVE SubsInv'
  BY <1>1, RequestUpdateKeepsInv
<1>2. ASSUME NEW w \in Refreshers,
             Stamps(w) \/ Stat(w) \/ Parse(w) \/ Note(w) \/ Asks(w)
      PROVE  SubsInv'
  BY <1>2, ReadingKeepsInv
<1>3. ASSUME NEW w \in Refreshers,
             (\E force \in BOOLEAN : Refresh(w, force)) \/ Killed(w) \/ FetchFails(w) \/ StillFresh(w)
      PROVE  SubsInv'
  BY <1>3, ByHandKeepsInv
<1>4. ASSUME NEW w \in Refreshers, Answered(w) PROVE SubsInv'
  BY <1>4, AnsweredKeepsInv
<1>5. ASSUME NEW url \in SubUrls, LogGrows(url) PROVE SubsInv'
  <2>1. /\ log' = [mtime |-> log.mtime + 1, url |-> url] /\ log.mtime \in 0..MaxLog
        /\ log.mtime + 1 \in 0..MaxLog
        /\ UNCHANGED <<provs, subCache, stamp, refresher, byHand>>
    BY <1>5 DEF LogGrows, SubsInv, SubsTypeOK
  <2>2. SubsTypeOK'
    BY <2>1 DEF SubsInv, SubsTypeOK
  <2>3. ProvsFiledWell'
    BY <2>1 DEF SubsInv, SubsTypeOK, ProvsFiledWell
  <2>4. OwnRecord(subCache)'
    BY <2>1 DEF SubsInv, OwnRecord
  <2>5. ASSUME NEW w \in Refreshers PROVE KnowsWell(refresher[w])'
    <3>1. refresher[w].mtime \in 0..MaxLog /\ KnowsWell(refresher[w])
      BY WorkerFacts DEF RefresherType
    <3> QED BY <2>1, <3>1 DEF KnowsWell, OwnRecord
  <2> QED BY <2>2, <2>3, <2>4, <2>5 DEF SubsInv
<1>6. CASE CacheAges
  BY <1>6, AgeingKeepsInv
<1>7. CASE StampAges
  BY <1>7 DEF StampAges, SubsInv, SubsTypeOK, ProvsFiledWell, KnowsWell, OwnRecord
<1>8. CASE ClearCaches
  <2>1. UNCHANGED <<log, subCache, refresher>> /\ provs' = Nil /\ stamp' \in BOOLEAN
    BY <1>8 DEF ClearCaches
  <2>2. byHand' \in 0..MaxUsers
    BY <1>8 DEF ClearCaches, SubsInv, SubsTypeOK
  <2>3. SubsTypeOK'
    BY <2>1, <2>2 DEF SubsInv, SubsTypeOK
  <2> QED BY <2>1, <2>3 DEF SubsInv, ProvsFiledWell, KnowsWell, OwnRecord
<1>9. CASE UNCHANGED subsVars
  BY <1>9 DEF subsVars, SubsInv, SubsTypeOK, ProvsFiledWell, KnowsWell, OwnRecord
<1> QED BY <1>1, <1>2, <1>3, <1>4, <1>5, <1>6, <1>7, <1>8, <1>9 DEF SubsNext, RefresherStep

LEMMA SubsInvariant == SubsSpec => []SubsInv
BY InitSubsInv, SubsStepKeepsInv, PTL DEF SubsSpec

\* Type correctness, for any urls and workers.
THEOREM SubsTypeCorrect == SubsSpec => []SubsTypeOK
BY SubsInvariant, PTL DEF SubsInv

\* Whoever finds the parsed log valid has the url that Happ's log gives now,
\* whatever the workers that parsed it did between the mtime and the write.
THEOREM ProvidersAlwaysCurrent == SubsSpec => []ProvidersCurrent
<1>1. SubsInv => ProvidersCurrent
  BY DEF SubsInv, ProvsFiledWell, ProvidersCurrent, ProvsHit
<1> QED BY <1>1, SubsInvariant, PTL

\* A list that passes for fresh under the url of the log is of that url, and so
\* is its info, whichever workers of whichever urls wrote it.
THEOREM FreshIsAlwaysForUrl == SubsSpec => []FreshIsForUrl
<1>1. SubsInv => FreshIsForUrl
  BY DEF SubsInv, OwnRecord, FreshIsForUrl, FreshFor
<1> QED BY <1>1, SubsInvariant, PTL

\* The offline copy of the servers is lost to no failure, no expiry and no
\* clearing of the caches: only an answer of the panel replaces it.
THEOREM LastGoodAlwaysKept == SubsSpec => LastGoodKept
<1>1. SubsInv /\ [SubsNext]_subsVars =>
        [subCache # Nil =>
           /\ subCache' # Nil
           /\ subCache'.servers = subCache.servers \/ \E w \in Refreshers : Answered(w)]_subsVars
  <2> SUFFICES ASSUME SubsInv, SubsNext, subCache # Nil
               PROVE  /\ subCache' # Nil
                      /\ subCache'.servers = subCache.servers \/ \E w \in Refreshers : Answered(w)
    OBVIOUS
  <2>1. CASE \E w \in Refreshers : Answered(w)
    <3>1. subCache' \in SubRecords
      BY <2>1, AnswerIsOwnRecord DEF Answered
    <3> QED BY <2>1, <3>1
  <2>2. CASE CacheAges
    <3>1. PICK c \in SubRecords : c = subCache
      BY DEF CacheAges, SubsInv, SubsTypeOK
    <3>2. subCache' = [c EXCEPT !.fresh = FALSE]
      BY <2>2, <3>1, Zenon DEF CacheAges
    <3>3. subCache' \in SubRecords /\ subCache'.servers = c.servers
      BY <3>2 DEF SubRecords
    <3> QED BY <3>1, <3>3
  <2>3. CASE UNCHANGED subCache
    BY <2>3
  <2> QED BY <2>1, <2>2, <2>3
          DEF SubsNext, RefresherStep, RequestUpdate, Stamps, Stat, Parse, Note, StillFresh, Asks,
              FetchFails, Killed, Refresh, LogGrows, StampAges, ClearCaches
<1> QED BY <1>1, SubsInvariant, PTL DEF SubsSpec, LastGoodKept

-----------------------------------------------------------------------------
(* Sweeps: for any targets, any number of sweeps at once, any maximum age  *)
(* and any length of a sweep.                                              *)

HIDE SubsAssumption

USE SweepsAssumption

\* A mark says what the server did when it was measured: if it is wrong now, the
\* server has turned since.
RightNow(e, answering, steadyFor) ==
  e # NoMarks => (e.up <=> answering) \/ steadyFor <= e.age
RightThen(e, n) == RightNow(e, n \in answers, steady[n])
AllRight(marks) == \A n \in Targets : RightThen(marks[n], n)

MarksWereRight ==
  /\ pings # NoMarks => AllRight(pings.marks)
  /\ \A w \in Sweepers : AllRight(sweeper[w].marks)

SweepsInv == SweepsTypeOK /\ MarksWereRight

SweeperType == [at : {"idle", "spawned", "sweeps"}, todo : SUBSET Targets,
                marks : [Targets -> Entry], age : 0..SweepLimit]

\* A sweep that has not begun has no marks.
LEMMA NotSweepingIsRight ==
  /\ NotSweeping \in SweeperType
  /\ NoEntries \in [Targets -> Entry] /\ NotSweeping.marks = NoEntries
  /\ AllRight(NoEntries) /\ AllRight(NoEntries)'
<1>1. NoEntries \in [Targets -> Entry]
  BY DEF NoEntries, Entry
<1>2. NotSweeping \in SweeperType /\ NotSweeping.marks = NoEntries
  BY <1>1 DEF NotSweeping, SweeperType
<1>3. AllRight(NoEntries) /\ AllRight(NoEntries)'
  BY DEF NoEntries, AllRight, RightThen, RightNow
<1> QED BY <1>1, <1>2, <1>3

LEMMA InitSweepsInv == SweepsInit => SweepsInv
BY NotSweepingIsRight
   DEF SweepsInit, SweepsInv, SweepsTypeOK, MarksWereRight, SweeperType, Stale

\* One sweep moves on: the file, the servers and the other sweeps are as they
\* were.
LEMMA OneSweepKeepsInv ==
  ASSUME SweepsInv, NEW w \in Sweepers, NEW r \in SweeperType, AllRight(r.marks),
         SetSweeper(w, r), UNCHANGED <<known, answers, steady>>, news' \in 0..MaxNews,
         \/ UNCHANGED pings
         \/ \E marks \in [Targets -> Entry] : AllRight(marks) /\ pings' = [marks |-> marks, age |-> 0]
  PROVE  SweepsInv'
<1>1. sweeper' \in [Sweepers -> SweeperType]
  BY DEF SetSweeper, SweepsInv, SweepsTypeOK, SweeperType
<1>2. \A v \in Sweepers : sweeper'[v] = IF v = w THEN r ELSE sweeper[v]
  BY DEF SetSweeper, SweepsInv, SweepsTypeOK
<1>3. pings' \in {NoMarks} \cup [marks : [Targets -> Entry], age : 0..Stale]
  BY DEF SweepsInv, SweepsTypeOK, Stale
<1>4. pings' # NoMarks => AllRight(pings'.marks)
  BY DEF SweepsInv, MarksWereRight
<1>5. \A v \in Sweepers : AllRight(sweeper'[v].marks)
  BY <1>2 DEF SweepsInv, MarksWereRight
<1>6. MarksWereRight'
  BY <1>4, <1>5 DEF MarksWereRight, AllRight, RightThen
<1>7. SweepsTypeOK'
  BY <1>1, <1>3 DEF SweepsInv, SweepsTypeOK, SweeperType
<1> QED BY <1>6, <1>7 DEF SweepsInv

\* A measurement is right at once.
LEMMA MeasureKeepsInv ==
  ASSUME SweepsInv, NEW w \in Sweepers, NEW n \in Targets, Measure(w, n)
  PROVE  SweepsInv'
<1> DEFINE mark == [up |-> n \in answers, age |-> 0]
           r == [sweeper[w] EXCEPT !.todo = @ \ {n}, !.marks[n] = mark]
<1>1. sweeper[w] \in SweeperType
  BY DEF SweepsInv, SweepsTypeOK, SweeperType
<1>2. mark \in Entry
  BY DEF Entry, Stale
<1>3. r \in SweeperType /\ r.marks = [sweeper[w].marks EXCEPT ![n] = mark]
  <2> HIDE DEF mark
  <2> QED BY <1>1, <1>2 DEF SweeperType
<1>4. RightThen(mark, n)
  BY DEF RightThen, RightNow
<1>5. AllRight(r.marks)
  <2> HIDE DEF mark, r
  <2> SUFFICES ASSUME NEW m \in Targets PROVE RightThen(r.marks[m], m)
    BY DEF AllRight
  <2>1. r.marks[m] = IF m = n THEN mark ELSE sweeper[w].marks[m]
    BY <1>1, <1>3 DEF SweeperType
  <2>2. RightThen(sweeper[w].marks[m], m)
    BY DEF SweepsInv, MarksWereRight, AllRight
  <2> QED BY <2>1, <2>2, <1>4
<1>6. SetSweeper(w, r) /\ UNCHANGED <<known, answers, steady, pings, news>>
  BY DEF Measure
<1>7. news' \in 0..MaxNews
  BY <1>6 DEF SweepsInv, SweepsTypeOK
<1> HIDE DEF r
<1> QED BY <1>3, <1>5, <1>6, <1>7, OneSweepKeepsInv

\* A mark and the server's state age alike, up to Stale.
LEMMA MarksAgeAlike ==
  ASSUME SweepsTypeOK, NEW n \in Targets, NEW e \in Entry, RightThen(e, n),
         UNCHANGED answers, steady' = [m \in Targets |-> Aged(steady[m])]
  PROVE  AgedMark(e) \in Entry /\ RightNow(AgedMark(e), n \in answers', steady'[n])
<1>1. steady[n] \in 0..Stale /\ steady'[n] = Aged(steady[n])
  BY DEF SweepsTypeOK
<1>2. CASE e = NoMarks
  BY <1>2 DEF AgedMark, RightNow, Entry
<1>3. CASE e # NoMarks
  <2>1. e \in [up : BOOLEAN, age : 0..Stale]
    BY <1>3 DEF Entry
  <2>2. AgedMark(e) = [up |-> e.up, age |-> Aged(e.age)]
    BY <1>3 DEF AgedMark
  <2>3. Aged(e.age) \in 0..Stale /\ (steady[n] <= e.age => Aged(steady[n]) <= Aged(e.age))
    BY <1>1, <2>1 DEF Aged, Stale
  <2>4. AgedMark(e) \in Entry
    BY <2>1, <2>2, <2>3 DEF Entry
  <2>5. (AgedMark(e).up <=> n \in answers') \/ steady'[n] <= AgedMark(e).age
    BY <1>1, <1>3, <2>1, <2>2, <2>3 DEF RightThen, RightNow
  <2> QED BY <2>4, <2>5 DEF RightNow
<1> QED BY <1>2, <1>3

LEMMA TimeGoesByKeepsInv == ASSUME SweepsInv, TimeGoesBy PROVE SweepsInv'
<1>1. /\ steady' = [m \in Targets |-> Aged(steady[m])]
      /\ UNCHANGED <<known, answers, news>>
  BY DEF TimeGoesBy
<1>2. steady' \in [Targets -> 0..Stale]
  BY <1>1 DEF SweepsInv, SweepsTypeOK, Aged, Stale
<1>3. pings # NoMarks =>
        /\ pings.marks \in [Targets -> Entry] /\ pings.age \in 0..Stale
        /\ pings' = [marks |-> [n \in Targets |-> AgedMark(pings.marks[n])], age |-> Aged(pings.age)]
        /\ AllRight(pings.marks)
  BY DEF TimeGoesBy, SweepsInv, SweepsTypeOK, MarksWereRight
<1>4. ASSUME NEW marks \in [Targets -> Entry], AllRight(marks)
      PROVE  /\ [n \in Targets |-> AgedMark(marks[n])] \in [Targets -> Entry]
             /\ \A n \in Targets : RightNow(AgedMark(marks[n]), n \in answers', steady'[n])
  <2>1. \A n \in Targets : AgedMark(marks[n]) \in Entry /\ RightNow(AgedMark(marks[n]), n \in answers', steady'[n])
    BY <1>1, <1>4, MarksAgeAlike DEF SweepsInv, AllRight
  <2> QED BY <2>1
<1>5. pings = NoMarks => pings' = NoMarks
  BY DEF TimeGoesBy
<1>6. /\ pings' \in {NoMarks} \cup [marks : [Targets -> Entry], age : 0..Stale]
      /\ pings' # NoMarks => \A n \in Targets : RightThen(pings.marks[n], n)'
  <2>1. CASE pings = NoMarks
    BY <1>5, <2>1
  <2>2. CASE pings # NoMarks
    <3>1. Aged(pings.age) \in 0..Stale
      BY <1>3, <2>2 DEF Aged, Stale
    <3>2. /\ [n \in Targets |-> AgedMark(pings.marks[n])] \in [Targets -> Entry]
          /\ \A n \in Targets : RightNow(AgedMark(pings.marks[n]), n \in answers', steady'[n])
      BY <1>3, <1>4, <2>2
    <3>3. \A n \in Targets : pings'.marks[n] = AgedMark(pings.marks[n])
      BY <1>3, <2>2
    <3> QED BY <1>3, <2>2, <3>1, <3>2, <3>3 DEF RightThen
  <2> QED BY <2>1, <2>2
<1>7. ASSUME NEW w \in Sweepers
      PROVE  /\ sweeper'[w] \in SweeperType
             /\ \A n \in Targets : RightThen(sweeper[w].marks[n], n)'
  <2>1. sweeper[w] \in SweeperType /\ AllRight(sweeper[w].marks)
    BY DEF SweepsInv, SweepsTypeOK, MarksWereRight, SweeperType
  <2>2. CASE sweeper[w] = NotSweeping
    <3>1. sweeper'[w] = NotSweeping
      BY <2>2 DEF TimeGoesBy
    <3> QED BY <3>1, NotSweepingIsRight DEF AllRight, RightThen
  <2>3. CASE sweeper[w] # NotSweeping
    <3> DEFINE aged == [n \in Targets |-> AgedMark(sweeper[w].marks[n])]
    <3>1. sweeper[w].age < SweepLimit
          /\ sweeper'[w] = [sweeper[w] EXCEPT !.marks = aged, !.age = sweeper[w].age + 1]
      BY <2>3 DEF TimeGoesBy
    <3>2. aged \in [Targets -> Entry]
          /\ \A n \in Targets : RightNow(AgedMark(sweeper[w].marks[n]), n \in answers', steady'[n])
      BY <2>1, <1>4 DEF SweeperType
    <3>3. \A n \in Targets : aged[n] = AgedMark(sweeper[w].marks[n])
      OBVIOUS
    <3> HIDE DEF aged
    <3>4. sweeper[w].age + 1 \in 0..SweepLimit
      BY <2>1, <3>1 DEF SweeperType
    <3>5. sweeper'[w] = [at |-> sweeper[w].at, todo |-> sweeper[w].todo, marks |-> aged,
                         age |-> sweeper[w].age + 1]
      BY <2>1, <3>1 DEF SweeperType
    <3>6. sweeper[w].at \in {"idle", "spawned", "sweeps"} /\ sweeper[w].todo \in SUBSET Targets
      BY <2>1 DEF SweeperType
    <3>7. sweeper'[w] \in SweeperType /\ sweeper'[w].marks = aged
      BY <3>2, <3>4, <3>5, <3>6 DEF SweeperType
    <3> QED BY <3>2, <3>3, <3>7 DEF RightThen
  <2> QED BY <2>2, <2>3
<1>8. sweeper' \in [Sweepers -> SweeperType]
  BY <1>7 DEF TimeGoesBy
<1>9. SweepsTypeOK'
  BY <1>1, <1>2, <1>6, <1>8 DEF SweepsInv, SweepsTypeOK, SweeperType
<1>10. MarksWereRight'
  BY <1>6, <1>7 DEF MarksWereRight, AllRight
<1> QED BY <1>9, <1>10 DEF SweepsInv

\* Every step keeps the invariant.
LEMMA SweepsStepKeepsInv == SweepsInv /\ [SweepsNext]_sweepVars => SweepsInv'
<1> SUFFICES ASSUME SweepsInv, [SweepsNext]_sweepVars PROVE SweepsInv'
  OBVIOUS
<1> DEFINE Begun == [NotSweeping EXCEPT !.at = "spawned"]
<1>1. Begun \in SweeperType /\ Begun.marks = NoEntries
  BY NotSweepingIsRight DEF SweeperType
<1>2. News => news' \in 0..MaxNews
  BY DEF News, SweepsInv, SweepsTypeOK
<1>3. ASSUME NEW w \in Sweepers, RequestPing(w) \/ RefreshPings(w) PROVE SweepsInv'
  <2>1. /\ SetSweeper(w, Begun) /\ UNCHANGED <<known, answers, steady, pings>>
        /\ news' \in 0..MaxNews
    BY <1>2, <1>3 DEF RequestPing, RefreshPings, SweepsInv, SweepsTypeOK
  <2> HIDE DEF Begun
  <2> QED BY <1>1, <2>1, NotSweepingIsRight, OneSweepKeepsInv
<1>4. ASSUME NEW w \in Sweepers, CollectPingTargets(w) PROVE SweepsInv'
  <2> DEFINE r == [sweeper[w] EXCEPT !.at = "sweeps", !.todo = known]
  <2>0. sweeper[w] \in SweeperType /\ known \in SUBSET Targets
    BY DEF SweepsInv, SweepsTypeOK, SweeperType
  <2>1. r \in SweeperType /\ r.marks = sweeper[w].marks
    BY <2>0 DEF SweeperType
  <2>2. AllRight(sweeper[w].marks)
    BY DEF SweepsInv, MarksWereRight
  <2>3. SetSweeper(w, r) /\ UNCHANGED <<known, answers, steady, pings, news>> /\ news \in 0..MaxNews
    BY <1>4 DEF CollectPingTargets, SweepsInv, SweepsTypeOK
  <2> HIDE DEF r
  <2> QED BY <2>1, <2>2, <2>3, OneSweepKeepsInv
<1>5. ASSUME NEW w \in Sweepers, WritePings(w) PROVE SweepsInv'
  <2>1. sweeper[w].marks \in [Targets -> Entry] /\ AllRight(sweeper[w].marks)
    BY DEF SweepsInv, SweepsTypeOK, MarksWereRight
  <2>2. /\ SetSweeper(w, NotSweeping) /\ pings' = [marks |-> sweeper[w].marks, age |-> 0]
        /\ UNCHANGED <<known, answers, steady, news>> /\ news \in 0..MaxNews
    BY <1>5 DEF WritePings, SweepsInv, SweepsTypeOK
  <2> QED BY <2>1, <2>2, NotSweepingIsRight, OneSweepKeepsInv
<1>6. ASSUME NEW w \in Sweepers, NEW n \in Targets, Measure(w, n) PROVE SweepsInv'
  BY <1>6, MeasureKeepsInv
<1>7. ASSUME NEW w \in Sweepers, SweepKilled(w) PROVE SweepsInv'
  <2>1. /\ SetSweeper(w, NotSweeping) /\ UNCHANGED <<known, answers, steady, pings>>
        /\ news' \in 0..MaxNews
    BY <1>2, <1>7 DEF SweepKilled
  <2> QED BY <2>1, NotSweepingIsRight, OneSweepKeepsInv
<1>8. ASSUME NEW n \in Targets, ServerTurns(n) PROVE SweepsInv'
  <2>1. /\ answers' = (answers \ {n}) \cup ({n} \ answers)
        /\ steady' = [steady EXCEPT ![n] = 0]
        /\ UNCHANGED <<known, pings, sweeper>> /\ news' \in 0..MaxNews
    BY <1>2, <1>8 DEF ServerTurns
  <2>2. SweepsTypeOK'
    BY <2>1 DEF SweepsInv, SweepsTypeOK, Stale
  <2>3. ASSUME NEW m \in Targets, NEW e \in Entry, RightThen(e, m) PROVE RightThen(e, m)'
    BY <2>1, <2>3 DEF RightThen, RightNow, Entry, SweepsInv, SweepsTypeOK
  <2>4. ASSUME NEW marks \in [Targets -> Entry], AllRight(marks)
        PROVE  \A m \in Targets : RightThen(marks[m], m)'
    BY <2>3, <2>4 DEF AllRight
  <2>5. pings' # NoMarks => \A m \in Targets : RightThen(pings.marks[m], m)'
    BY <2>1, <2>4 DEF SweepsInv, SweepsTypeOK, MarksWereRight, RightThen, RightNow
  <2>6. \A w \in Sweepers : \A m \in Targets : RightThen(sweeper[w].marks[m], m)'
    BY <2>1, <2>4 DEF SweepsInv, SweepsTypeOK, MarksWereRight, RightThen, RightNow
  <2>7. MarksWereRight'
    BY <2>5, <2>6 DEF MarksWereRight, AllRight
  <2> QED BY <2>2, <2>7 DEF SweepsInv
<1>9. ASSUME NEW n \in Targets, ListChanges(n) PROVE SweepsInv'
  BY <1>2, <1>9 DEF ListChanges, SweepsInv, SweepsTypeOK, MarksWereRight, AllRight, RightThen, RightNow
<1>10. CASE ClearPings
  BY <1>2, <1>10 DEF ClearPings, SweepsInv, SweepsTypeOK, MarksWereRight, AllRight, RightThen, RightNow
<1>11. CASE TimeGoesBy
  BY <1>11, TimeGoesByKeepsInv
<1>12. CASE UNCHANGED sweepVars
  BY <1>12 DEF sweepVars, SweepsInv, SweepsTypeOK, MarksWereRight, AllRight, RightThen, RightNow
<1> QED BY <1>3, <1>4, <1>5, <1>6, <1>7, <1>8, <1>9, <1>10, <1>11, <1>12
        DEF SweepsNext, SweepStep

LEMMA SweepsInvariant == SweepsSpec => []SweepsInv
BY InitSweepsInv, SweepsStepKeepsInv, PTL DEF SweepsSpec

\* Type correctness, for any targets and sweeps; with it, that no sweep is older
\* than the longest one.
THEOREM SweepsTypeCorrect == SweepsSpec => []SweepsTypeOK
BY SweepsInvariant, PTL DEF SweepsInv

\* Whatever sweeps overlap, are killed or write late, no menu shows a mark that
\* has been wrong for longer than PING_MAX_AGE.
THEOREM MarksAreAlwaysRecent == SweepsSpec => []MarksAreRecent
<1>1. SweepsInv => MarksAreRecent
  <2> SUFFICES ASSUME SweepsInv, NEW n \in Targets, Mark(n) # NoMarks, steady[n] > MarkMaxAge
               PROVE  Mark(n).up = (n \in answers)
    BY DEF MarksAreRecent
  <2>1. /\ pings # NoMarks /\ Mark(n) = pings.marks[n]
        /\ pings.marks[n] # NoMarks /\ ~(pings.marks[n].age > MarkMaxAge)
    BY DEF Mark
  <2>2. pings.marks[n] \in [up : BOOLEAN, age : 0..Stale] /\ steady[n] \in 0..Stale
    BY <2>1 DEF SweepsInv, SweepsTypeOK, Entry
  <2>3. (pings.marks[n].up <=> n \in answers) \/ steady[n] <= pings.marks[n].age
    BY <2>1 DEF SweepsInv, MarksWereRight, AllRight, RightThen, RightNow
  <2>4. ~(steady[n] <= pings.marks[n].age)
    BY <2>1, <2>2 DEF Stale
  <2>5. pings.marks[n].up \in BOOLEAN
    BY <2>2
  <2> QED BY <2>1, <2>3, <2>4, <2>5
<1> QED BY <1>1, SweepsInvariant, PTL
=============================================================================
