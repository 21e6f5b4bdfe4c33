------------------------------ MODULE MCCaches ------------------------------
(* Four caches that background processes fill: happd's process list, the    *)
(* exit address, the servers of a subscription, the marks of servers.  They *)
(* share no file, so a behaviour looks at one of them.                      *)
EXTENDS ProcsCache, ExitIp, Subscriptions, Sweeps, TLC

VARIABLE looksAt

MCInit ==
  /\ ProcsInit /\ ExitInit /\ SubsInit /\ SweepsInit
  /\ looksAt \in {"processes", "exit", "servers", "marks"}
  /\ looksAt # "processes" => running = {}
  /\ conn = NoVpn
  /\ log.url = CHOOSE u \in SubUrls : TRUE
  /\ looksAt # "servers" => subCache = Nil
  /\ answers = {CHOOSE n \in Targets : TRUE}

MCNext ==
  /\ UNCHANGED looksAt
  /\ \/ looksAt = "processes" /\ ProcsNext /\ UNCHANGED <<exitVars, subsVars, sweepVars>>
     \/ looksAt = "exit" /\ ExitNext /\ UNCHANGED <<procsVars, subsVars, sweepVars>>
     \/ looksAt = "servers" /\ SubsNext /\ UNCHANGED <<procsVars, exitVars, sweepVars>>
     \/ looksAt = "marks" /\ SweepsNext /\ UNCHANGED <<procsVars, exitVars, subsVars>>

On(what, A) == looksAt = what /\ A

\* ExitFairness, SubsFairness and SweepsFairness, each where its component runs.
MCSpec ==
  /\ MCInit /\ [][MCNext]_<<procsVars, exitVars, subsVars, sweepVars, looksAt>>
  /\ WF_exitVars(On("exit", RouteFollows)) /\ WF_exitVars(On("exit", TimeGoesOn))
  /\ WF_exitVars(On("exit", \E w \in Workers : TickRequests(w)))
  /\ \A w \in Workers : WF_exitVars(On("exit", WorkerStep(w)))
                        /\ SF_exitVars(On("exit", LooksUp(w)))
  /\ WF_subsVars(On("servers", \E w \in Refreshers : RequestUpdate(w)))
  /\ WF_subsVars(On("servers", StampAges))
  /\ WF_subsVars(On("servers", \E w \in Refreshers : RefresherStep(w)))
  /\ SF_subsVars(On("servers", \E w \in Refreshers : Answered(w)))
  /\ WF_sweepVars(On("marks", \E w \in Sweepers : RequestPing(w)))
  /\ WF_sweepVars(On("marks", TimeGoesBy))
  /\ \A w \in Sweepers : WF_sweepVars(On("marks", SweepStep(w)))

\* The liveness properties, where their component runs.
ExitOwnLineReturns == looksAt = "exit" => OwnLineReturns
SubsServersComeFresh == looksAt = "servers" => ServersComeFresh
SweepMarksReturn == looksAt = "marks" => MarksReturn
=============================================================================
