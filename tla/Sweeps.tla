------------------------------- MODULE Sweeps -------------------------------
(***************************************************************************)
(* ping.json (happmeta.py): the marks of servers in the menus.  A menu     *)
(* that finds them old spawns a sweep (--update-ping); it measures one     *)
(* server after the other, for minutes, and writes all marks at its end.   *)
(* Until then every menu spawns one more.                                  *)
(***************************************************************************)
EXTENDS Naturals, FiniteSets

CONSTANTS
  Targets,      \* names of connections with an endpoint, of all providers
  Sweepers,     \* --update-ping processes
  MarkMaxAge,   \* PING_MAX_AGE
  SweepLimit,   \* the longest sweep: a few seconds for each target
  MaxNews,      \* bound: how often a server or a user does something
  NoMarks       \* no file, no entry

ASSUME SweepsAssumption ==
  /\ MarkMaxAge \in Nat \ {0} /\ {SweepLimit, MaxNews} \subseteq Nat
  /\ NoMarks \notin [up : BOOLEAN, age : Nat]

VARIABLES
  known,    \* the connections listed now
  answers,  \* those whose server answers
  steady,   \* for how long each has answered, or not answered
  pings,    \* the file: an entry or none for each, and updated_at as an age
  sweeper,  \* the sweeps: where, what is still to be measured, what has been
  news

sweepVars == <<known, answers, steady, pings, sweeper, news>>

Stale == MarkMaxAge + 1
Aged(n) == IF n < Stale THEN n + 1 ELSE Stale
AgedMark(e) == IF e = NoMarks THEN NoMarks ELSE [up |-> e.up, age |-> Aged(e.age)]

NoEntries == [n \in Targets |-> NoMarks]
NotSweeping == [at |-> "idle", todo |-> {}, marks |-> NoEntries, age |-> 0]
SetSweeper(w, r) == sweeper' = [sweeper EXCEPT ![w] = r]

\* ping_mark: a mark of an entry that is not too old.
Mark(n) ==
  IF pings = NoMarks \/ pings.marks[n] = NoMarks \/ pings.marks[n].age > MarkMaxAge
  THEN NoMarks ELSE pings.marks[n]

SweptLately == pings # NoMarks /\ pings.age < MarkMaxAge

\* request_ping_update, by the menu of a provider
RequestPing(w) ==
  /\ ~SweptLately
  /\ sweeper[w] = NotSweeping
  /\ SetSweeper(w, [NotSweeping EXCEPT !.at = "spawned"])
  /\ UNCHANGED <<known, answers, steady, pings, news>>

News == news < MaxNews /\ news' = news + 1

RefreshPings(w) ==
  /\ News /\ sweeper[w] = NotSweeping
  /\ SetSweeper(w, [NotSweeping EXCEPT !.at = "spawned"])
  /\ UNCHANGED <<known, answers, steady, pings>>

\* _collect_ping_targets
CollectPingTargets(w) ==
  /\ sweeper[w].at = "spawned"
  /\ SetSweeper(w, [sweeper[w] EXCEPT !.at = "sweeps", !.todo = known])
  /\ UNCHANGED <<known, answers, steady, pings, news>>

\* Mutant: a bad target ends the sweep.
MeasureAborts(w, n) ==
  /\ sweeper[w].at = "sweeps" /\ n \in sweeper[w].todo
  /\ SetSweeper(w, IF n \in answers
       THEN [sweeper[w] EXCEPT !.todo = @ \ {n}, !.marks[n] = [up |-> TRUE, age |-> 0]]
       ELSE NotSweeping)
  /\ UNCHANGED <<known, answers, steady, pings, news>>

\* A few seconds, nothing against MarkMaxAge; no answer is a mark, too.
Measure(w, n) ==
  /\ sweeper[w].at = "sweeps" /\ n \in sweeper[w].todo
  /\ SetSweeper(w, [sweeper[w] EXCEPT !.todo = @ \ {n},
                                      !.marks[n] = [up |-> n \in answers, age |-> 0]])
  /\ UNCHANGED <<known, answers, steady, pings, news>>

\* Mutant: the marks get the time of the write.
WritePingsStamped(w) ==
  /\ sweeper[w].at = "sweeps" /\ sweeper[w].todo = {}
  /\ pings' = [marks |-> [n \in Targets |-> IF sweeper[w].marks[n] = NoMarks THEN NoMarks
                                            ELSE [sweeper[w].marks[n] EXCEPT !.age = 0]],
               age |-> 0]
  /\ SetSweeper(w, NotSweeping)
  /\ UNCHANGED <<known, answers, steady, news>>

\* write_pings: whatever another sweep wrote meanwhile is gone.
WritePings(w) ==
  /\ sweeper[w].at = "sweeps" /\ sweeper[w].todo = {}
  /\ pings' = [marks |-> sweeper[w].marks, age |-> 0]
  /\ SetSweeper(w, NotSweeping)
  /\ UNCHANGED <<known, answers, steady, news>>

SweepKilled(w) ==
  /\ News /\ sweeper[w].at # "idle"
  /\ SetSweeper(w, NotSweeping)
  /\ UNCHANGED <<known, answers, steady, pings>>

\* clear_caches_menu
ClearPings ==
  /\ News /\ pings' = NoMarks
  /\ UNCHANGED <<known, answers, steady, sweeper>>

ServerTurns(n) ==
  /\ News
  /\ answers' = (answers \ {n}) \cup ({n} \ answers)
  /\ steady' = [steady EXCEPT ![n] = 0]
  /\ UNCHANGED <<known, pings, sweeper>>

ListChanges(n) ==
  /\ News
  /\ known' = (known \ {n}) \cup ({n} \ known)
  /\ UNCHANGED <<answers, steady, pings, sweeper>>

TimeGoesBy ==
  /\ \A w \in Sweepers : sweeper[w] # NotSweeping => sweeper[w].age < SweepLimit
  /\ steady' = [n \in Targets |-> Aged(steady[n])]
  /\ pings' = IF pings = NoMarks THEN NoMarks
              ELSE [marks |-> [n \in Targets |-> AgedMark(pings.marks[n])], age |-> Aged(pings.age)]
  /\ sweeper' = [w \in Sweepers |->
       IF sweeper[w] = NotSweeping THEN NotSweeping
       ELSE [sweeper[w] EXCEPT !.marks = [n \in Targets |-> AgedMark(@[n])], !.age = @ + 1]]
  /\ UNCHANGED <<known, answers, news>>

SweepsInit ==
  /\ known = Targets /\ answers \in SUBSET Targets
  /\ steady = [n \in Targets |-> Stale]
  /\ pings = NoMarks
  /\ sweeper = [w \in Sweepers |-> NotSweeping]
  /\ news = 0

SweepStep(w) ==
  CollectPingTargets(w) \/ WritePings(w) \/ \E n \in Targets : Measure(w, n)

SweepsNext ==
  \/ \E w \in Sweepers : RequestPing(w) \/ RefreshPings(w) \/ SweepStep(w) \/ SweepKilled(w)
  \/ \E n \in Targets : ServerTurns(n) \/ ListChanges(n)
  \/ ClearPings \/ TimeGoesBy

\* Users go on opening menus; sweeps and the clock go on.
SweepsFairness ==
  /\ WF_sweepVars(\E w \in Sweepers : RequestPing(w)) /\ WF_sweepVars(TimeGoesBy)
  /\ \A w \in Sweepers : WF_sweepVars(SweepStep(w))

SweepsSpec == SweepsInit /\ [][SweepsNext]_sweepVars
SweepsFairSpec == SweepsSpec /\ SweepsFairness

-----------------------------------------------------------------------------

Entry == {NoMarks} \cup [up : BOOLEAN, age : 0..Stale]

SweepsTypeOK ==
  /\ known \subseteq Targets /\ answers \subseteq Targets
  /\ steady \in [Targets -> 0..Stale] /\ news \in 0..MaxNews
  /\ pings \in {NoMarks} \cup [marks : [Targets -> Entry], age : 0..Stale]
  /\ sweeper \in [Sweepers -> [at : {"idle", "spawned", "sweeps"}, todo : SUBSET Targets,
                               marks : [Targets -> Entry], age : 0..SweepLimit]]

\* Sweeps overlap, each takes its time, and one that began earlier may write
\* later; still no menu shows a mark that has been wrong for longer than
\* PING_MAX_AGE.
MarksAreRecent ==
  \A n \in Targets : Mark(n) # NoMarks /\ steady[n] > MarkMaxAge =>
    Mark(n).up = (n \in answers)

\* As long as menus are opened and a sweep is faster than its marks age, every
\* server that is listed gets a mark again, although sweeps are killed, others'
\* marks are overwritten and servers do not answer.
MarksReturn == \A n \in Targets : []<>(n \in known => Mark(n) # NoMarks)
=============================================================================
