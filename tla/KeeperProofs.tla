---------------------------- MODULE KeeperProofs ----------------------------
(***************************************************************************)
(* Theorems about Keeper, for any number of keepers and menus, any number   *)
(* of attempts and both variants of run_keeper.                             *)
(***************************************************************************)
EXTENDS Keeper, TLAPS

\* A keeper that may still start xray has an attempt left.
Budget ==
  \A k \in Keepers :
    pc[k] \in {"unspawned", "claim", "open", "sleep"} => attempts[k] < MaxAttempts

\* An open session belongs to a keeper that is going to close it.
SessionsAttended ==
  \A k \in sessions : pc[k] \in Attending /\ state[k].status # "exited"

\* xray runs for an open session only.
XrayHasSession == Live(proc) => proc.owner \in sessions

\* A keeper that waits, or may start xray again, has not put "exited" down.
NotOver ==
  \A k \in Keepers :
    pc[k] \in {"unspawned", "claim", "open", "hold", "sleep"}
      => state[k].status # "exited"

\* A guarded write is made to record an outcome.
WritesAnOutcome ==
  \A k \in Keepers : pc[k] \in {"check", "write"} => state[k].status # "connecting"

\* The inductive invariant: the type, and what the safety properties rest on.
IInv ==
  /\ TypeOK
  /\ Budget
  /\ SessionsAttended
  /\ XrayHasSession
  /\ NotOver
  /\ WritesAnOutcome
  /\ FinishedLeavesExited

LEMMA IInvImplies == IInv => XrayAttended
  BY DEF IInv, SessionsAttended, XrayHasSession, XrayAttended

LEMMA InitIInv == Init => IInv
  BY KeeperAssumption
  DEF Init, IInv, TypeOK, Budget, SessionsAttended, XrayHasSession, NotOver,
      WritesAnOutcome, FinishedLeavesExited, Owns, Live, States, Statuses, Fresh, KeeperPCs, MenuPCs

\* Closing a session takes its requests, its frames and its xray along.
LEMMA CloseSessionEffect ==
  ASSUME IInv, NEW k \in Keepers, CloseSession(k)
  PROVE  /\ sessions' = sessions \ {k}
         /\ requests' = requests \ {k}
         /\ inbox' \in [Keepers -> Seq(Frames)]
         /\ proc' \in Procs \union {NoProc}
         /\ Live(proc') => proc' = proc /\ proc.owner # k
<1>1. /\ sessions' = sessions \ {k}
      /\ requests' = requests \ {k}
  BY DEF CloseSession
<1>2. inbox' \in [Keepers -> Seq(Frames)]
  <2>1. inbox \in [Keepers -> Seq(Frames)] /\ <<>> \in Seq(Frames)
    BY DEF IInv, TypeOK
  <2> QED  BY <2>1 DEF CloseSession
<1>3. CASE Live(proc) /\ proc.owner = k
  <2>1. proc \in Procs /\ proc' = [proc EXCEPT !.phase = "reap"]
    BY <1>3 DEF CloseSession, Live, IInv, TypeOK
  <2>2. proc' = [owner |-> proc.owner, phase |-> "reap"] /\ proc.owner \in Keepers
    BY <2>1 DEF Procs
  <2>3. proc' \in Procs /\ ~Live(proc')
    BY <2>2 DEF Procs, Phases, Live
  <2> QED  BY <1>1, <1>2, <2>3
<1>4. CASE ~(Live(proc) /\ proc.owner = k)
  BY <1>1, <1>2, <1>4 DEF CloseSession, IInv, TypeOK
<1> QED  BY <1>3, <1>4

-----------------------------------------------------------------------------
(* One keeper at a time: a step of keeper k keeps the invariant when k itself  *)
(* is left as the invariant wants it.                                          *)

\* A step changes no other keeper, and the file only by a record of k.
StepOf(k) ==
  /\ \A j \in Keepers \ {k} :
       pc'[j] = pc[j] /\ attempts'[j] = attempts[j] /\ state'[j] = state[j]
  /\ sessions' \ {k} = sessions \ {k}
  /\ file' = file \/ (file' \in Records /\ file' # NoFile /\ file'.pid = k)
  /\ UNCHANGED menuVars

\* What the invariant asks of k alone.
Sound(k) ==
  /\ pc[k] \in {"unspawned", "claim", "open", "sleep"} => attempts[k] < MaxAttempts
  /\ k \in sessions => pc[k] \in Attending /\ state[k].status # "exited"
  /\ pc[k] \in {"unspawned", "claim", "open", "hold", "sleep"}
       => state[k].status # "exited"
  /\ pc[k] \in {"check", "write"} => state[k].status # "connecting"
  /\ pc[k] = "done" /\ Owns(k) => file.status = "exited"

LEMMA KeeperStepKeepsIInv ==
  ASSUME IInv, NEW k \in Keepers, StepOf(k), TypeOK', XrayHasSession', Sound(k)'
  PROVE  IInv'
<1>1. Budget'
  BY DEF IInv, Budget, StepOf, Sound
<1>2. SessionsAttended'
  <2>1. \A j \in sessions' : j \in Keepers
    BY DEF TypeOK
  <2> QED  BY <2>1 DEF IInv, SessionsAttended, StepOf, Sound
<1>3. WritesAnOutcome'
  BY DEF IInv, WritesAnOutcome, StepOf, Sound
<1>4. FinishedLeavesExited'
  BY DEF IInv, FinishedLeavesExited, StepOf, Sound, Owns
<1>5. NotOver'
  BY DEF IInv, NotOver, StepOf, Sound
<1> QED  BY <1>1, <1>2, <1>3, <1>4, <1>5 DEF IInv

\* A keeper's record is a record, signed by it.
LEMMA RecordOfType ==
  ASSUME IInv, NEW k \in Keepers
  PROVE  /\ RecordOf(k) \in Records /\ RecordOf(k) # NoFile
         /\ RecordOf(k).pid = k /\ RecordOf(k).status = state[k].status
<1>1. state[k] \in States
  BY DEF IInv, TypeOK
<1>2. RecordOf(k) \in Records
  BY <1>1 DEF RecordOf, Records, States
<1> QED  BY <1>2, KeeperAssumption DEF RecordOf

\* What becomes of happd's side in a step that closes k's session, or only reads
\* from it.
LEMMA SessionSideKept ==
  ASSUME IInv, NEW k \in Keepers,
         \/ UNCHANGED happdVars
         \/ UNCHANGED <<sessions, requests, proc>> /\ inbox[k] # <<>>
              /\ inbox' = [inbox EXCEPT ![k] = Tail(@)]
         \/ CloseSession(k)
  PROVE  /\ sessions' \subseteq sessions /\ sessions' \ {k} = sessions \ {k}
         /\ requests' \subseteq sessions'
         /\ inbox' \in [Keepers -> Seq(Frames)]
         /\ proc' \in Procs \union {NoProc}
         /\ XrayHasSession'
<1>1. CASE UNCHANGED happdVars
  BY <1>1 DEF IInv, TypeOK, happdVars, XrayHasSession, Live
<1>2. CASE /\ UNCHANGED <<sessions, requests, proc>> /\ inbox[k] # <<>>
           /\ inbox' = [inbox EXCEPT ![k] = Tail(@)]
  <2>1. inbox[k] \in Seq(Frames) /\ inbox \in [Keepers -> Seq(Frames)]
    BY DEF IInv, TypeOK
  <2>2. Tail(inbox[k]) \in Seq(Frames)
    BY <1>2, <2>1
  <2> QED  BY <1>2, <2>1, <2>2 DEF IInv, TypeOK, XrayHasSession, Live
<1>3. CASE CloseSession(k)
  <2>1. /\ sessions' = sessions \ {k}
        /\ requests' = requests \ {k}
        /\ inbox' \in [Keepers -> Seq(Frames)]
        /\ proc' \in Procs \union {NoProc}
        /\ Live(proc') => proc' = proc /\ proc.owner # k
    BY <1>3, CloseSessionEffect
  <2>2. XrayHasSession'
    BY <2>1 DEF IInv, XrayHasSession, Live
  <2> QED  BY <2>1, <2>2 DEF IInv, TypeOK
<1> QED  BY <1>1, <1>2, <1>3

\* An error is put down in memory, to be written.
LEMMA FailKeeps ==
  ASSUME IInv, NEW k \in Keepers, Fail(k), UNCHANGED <<file, menuVars>>,
         attempts' \in [Keepers -> 0..MaxAttempts],
         \A j \in Keepers \ {k} : attempts'[j] = attempts[j],
         \/ UNCHANGED happdVars
         \/ UNCHANGED <<sessions, requests, proc>> /\ inbox[k] # <<>>
              /\ inbox' = [inbox EXCEPT ![k] = Tail(@)]
         \/ CloseSession(k)
  PROVE  IInv'
<1>1. /\ sessions' \subseteq sessions /\ sessions' \ {k} = sessions \ {k}
      /\ requests' \subseteq sessions'
      /\ inbox' \in [Keepers -> Seq(Frames)]
      /\ proc' \in Procs \union {NoProc}
      /\ XrayHasSession'
  BY SessionSideKept
<1>2. /\ pc' \in [Keepers -> KeeperPCs] /\ pc'[k] = "check"
      /\ state' \in [Keepers -> States] /\ state'[k].status = "error"
      /\ \A j \in Keepers \ {k} : pc'[j] = pc[j] /\ state'[j] = state[j]
  BY DEF IInv, TypeOK, Fail, SetPC, KeeperPCs, States, Statuses
<1>3. TypeOK'
  BY <1>1, <1>2 DEF IInv, TypeOK, menuVars
<1>4. StepOf(k)
  BY <1>1, <1>2 DEF StepOf
<1>5. Sound(k)'
  BY <1>2 DEF Sound, Attending
<1> QED  BY <1>1, <1>3, <1>4, <1>5, KeeperStepKeepsIInv

\* run_keeper ends: the session is closed and "exited" is to be written.
LEMMA EndWithKeeps ==
  ASSUME IInv, NEW k \in Keepers, EndWith(k), file' \in {file, RecordOf(k)},
         UNCHANGED menuVars,
         attempts' \in [Keepers -> 0..MaxAttempts],
         \A j \in Keepers \ {k} : attempts'[j] = attempts[j]
  PROVE  IInv'
<1>1. /\ sessions' = sessions \ {k} /\ requests' \subseteq sessions'
      /\ inbox' \in [Keepers -> Seq(Frames)]
      /\ proc' \in Procs \union {NoProc}
      /\ XrayHasSession'
  BY SessionSideKept, CloseSessionEffect DEF EndWith
<1>2. /\ pc' \in [Keepers -> KeeperPCs] /\ pc'[k] = "check"
      /\ \A j \in Keepers \ {k} : pc'[j] = pc[j]
  BY DEF IInv, TypeOK, EndWith, SetPC, KeeperPCs
<1>3. /\ state' \in [Keepers -> States] /\ state'[k].status = "exited"
      /\ \A j \in Keepers \ {k} : state'[j] = state[j]
  <2>1. state \in [Keepers -> States] /\ state[k] \in States
    BY DEF IInv, TypeOK
  <2>2. [state[k] EXCEPT !.status = "exited"] \in States
    BY <2>1 DEF States, Statuses
  <2> QED  BY <2>1, <2>2 DEF EndWith, SetStatus, States
<1>4. file' = file \/ (file' \in Records /\ file' # NoFile /\ file'.pid = k)
  BY RecordOfType
<1>5. TypeOK'
  BY <1>1, <1>2, <1>3, <1>4 DEF IInv, TypeOK, menuVars
<1>6. StepOf(k)
  BY <1>1, <1>2, <1>3, <1>4 DEF StepOf
<1>7. Sound(k)'
  BY <1>1, <1>2, <1>3 DEF Sound
<1> QED  BY <1>1, <1>5, <1>6, <1>7, KeeperStepKeepsIInv

\* The process ends, with no session open.
LEMMA GoneKeeps ==
  ASSUME IInv, NEW k \in Keepers, NEW end \in {"done", "dead"}, Gone(k, end),
         UNCHANGED happdVars \/ CloseSession(k), k \notin sessions',
         file' = file \/ (file' \in Records /\ file' # NoFile /\ file'.pid = k),
         end = "done" => (Owns(k) => file.status = "exited")',
         UNCHANGED menuVars
  PROVE  IInv'
<1>1. /\ sessions' \subseteq sessions /\ sessions' \ {k} = sessions \ {k}
      /\ requests' \subseteq sessions'
      /\ inbox' \in [Keepers -> Seq(Frames)]
      /\ proc' \in Procs \union {NoProc}
      /\ XrayHasSession'
  BY SessionSideKept
<1>2. /\ pc' \in [Keepers -> KeeperPCs] /\ pc'[k] = end
      /\ state' \in [Keepers -> States]
      /\ attempts' \in [Keepers -> 0..MaxAttempts]
      /\ \A j \in Keepers \ {k} :
           pc'[j] = pc[j] /\ state'[j] = state[j] /\ attempts'[j] = attempts[j]
  BY KeeperAssumption
  DEF IInv, TypeOK, Gone, SetPC, KeeperPCs, States, Statuses, Fresh
<1>3. TypeOK'
  BY <1>1, <1>2 DEF IInv, TypeOK, menuVars
<1>4. StepOf(k)
  BY <1>1, <1>2 DEF StepOf
<1>5. Sound(k)'
  BY <1>1, <1>2 DEF Sound
<1> QED  BY <1>1, <1>3, <1>4, <1>5, KeeperStepKeepsIInv

\* A keeper goes on to another place in run_keeper.
LEMMA MoveKeeps ==
  ASSUME IInv, NEW k \in Keepers,
         NEW p \in KeeperPCs \ {"done"}, SetPC(k, p),
         UNCHANGED happdVars \/ CloseSession(k), UNCHANGED <<attempts, state, menuVars>>,
         file' \in {file, RecordOf(k)},
         p \in {"unspawned", "claim", "open", "sleep"} => attempts[k] < MaxAttempts,
         k \in sessions' => p \in Attending /\ state[k].status # "exited",
         p \in {"unspawned", "claim", "open", "hold", "sleep"}
           => state[k].status # "exited",
         p \in {"check", "write"} => state[k].status # "connecting"
  PROVE  IInv'
<1>1. /\ sessions' \subseteq sessions /\ sessions' \ {k} = sessions \ {k}
      /\ requests' \subseteq sessions'
      /\ inbox' \in [Keepers -> Seq(Frames)]
      /\ proc' \in Procs \union {NoProc}
      /\ XrayHasSession'
  BY SessionSideKept
<1>2. /\ pc' \in [Keepers -> KeeperPCs] /\ pc'[k] = p
      /\ \A j \in Keepers \ {k} : pc'[j] = pc[j]
  BY DEF IInv, TypeOK, SetPC
<1>3. file' = file \/ (file' \in Records /\ file' # NoFile /\ file'.pid = k)
  BY RecordOfType
<1>4. TypeOK'
  BY <1>1, <1>2, <1>3 DEF IInv, TypeOK, menuVars
<1>5. StepOf(k)
  BY <1>1, <1>2, <1>3 DEF StepOf
<1>6. Sound(k)'
  BY <1>1, <1>2 DEF Sound
<1> QED  BY <1>1, <1>4, <1>5, <1>6, KeeperStepKeepsIInv

\* What follows a guarded write.
LEMMA AfterWriteKeeps ==
  ASSUME IInv, NEW k \in Keepers, pc[k] \in {"check", "write"}, AfterWrite(k),
         \/ pc[k] = "check" /\ OwnedByOther(k) /\ file' = file
         \/ pc[k] = "write" /\ file' = RecordOf(k),
         UNCHANGED menuVars
  PROVE  IInv'
<1>1. state[k] \in States /\ state[k].status # "connecting"
  BY DEF IInv, TypeOK, WritesAnOutcome
<1>2. CASE state[k].status = "connected"
  BY <1>2, MoveKeeps
  DEF AfterWrite, KeeperPCs, IInv, SessionsAttended, Attending, happdVars
<1>3. CASE state[k].status = "error"
  BY <1>3, EndWithKeeps DEF AfterWrite, IInv, TypeOK
<1>4. CASE state[k].status = "exited"
  <2>1. Gone(k, "done") /\ UNCHANGED happdVars
    BY <1>4 DEF AfterWrite
  <2>2. k \notin sessions'
    BY <2>1, <1>4 DEF IInv, SessionsAttended, happdVars
  <2>3. file' = file \/ (file' \in Records /\ file' # NoFile /\ file'.pid = k)
    BY RecordOfType
  <2>4. (Owns(k) => file.status = "exited")'
    BY <1>4, RecordOfType DEF Owns, OwnedByOther
  <2> QED  BY <2>1, <2>2, <2>3, <2>4, GoneKeeps
<1> QED  BY <1>1, <1>2, <1>3, <1>4 DEF States, Statuses

LEMMA SessionErrorKeeps ==
  ASSUME IInv, NEW k \in Keepers, SessionError(k), UNCHANGED <<file, menuVars>>,
         attempts' \in [Keepers -> 0..MaxAttempts],
         \A j \in Keepers \ {k} : attempts'[j] = attempts[j]
  PROVE  IInv'
<1>1. CASE state[k].status = "connecting"
  BY <1>1, FailKeeps DEF SessionError, happdVars
<1>2. CASE state[k].status # "connecting"
  BY <1>2, EndWithKeeps DEF SessionError
<1> QED  BY <1>1, <1>2

LEMMA RearmKeeps ==
  ASSUME IInv, NEW k \in Keepers, pc[k] = "hold", Rearm(k), UNCHANGED <<file, attempts, menuVars>>
  PROVE  IInv'
<1>1. attempts[k] \in 0..MaxAttempts /\ attempts' \in [Keepers -> 0..MaxAttempts]
  BY DEF IInv, TypeOK
<1>2. CASE attempts[k] >= MaxAttempts
  BY <1>1, <1>2, EndWithKeeps DEF Rearm
<1>3. CASE ~(attempts[k] >= MaxAttempts)
  <2>1. CloseSession(k) /\ SetPC(k, "sleep") /\ UNCHANGED state
    BY <1>3 DEF Rearm
  <2>2. k \notin sessions' /\ attempts[k] < MaxAttempts
    BY <1>1, <1>3, <2>1, KeeperAssumption DEF CloseSession
  <2>3. state[k].status # "exited"
    BY DEF IInv, NotOver
  <2> QED  BY <2>1, <2>2, <2>3, MoveKeeps DEF KeeperPCs
<1> QED  BY <1>2, <1>3

\* An answer is read: "started" or "failed".
LEMMA AckStartedKeeps ==
  ASSUME IInv, NEW k \in Keepers, AckStarted(k)
  PROVE  IInv'
<1>1. /\ sessions' = sessions /\ requests' \subseteq sessions'
      /\ inbox' \in [Keepers -> Seq(Frames)]
      /\ proc' \in Procs \union {NoProc}
      /\ XrayHasSession'
  BY SessionSideKept DEF AckStarted, NextFrame
<1>2. /\ pc' \in [Keepers -> KeeperPCs] /\ pc'[k] = "check"
      /\ \A j \in Keepers \ {k} : pc'[j] = pc[j]
  BY DEF AckStarted, IInv, TypeOK, SetPC, KeeperPCs
<1>3. /\ state' \in [Keepers -> States] /\ state'[k].status = "connected"
      /\ \A j \in Keepers \ {k} : state'[j] = state[j]
  <2>1. state \in [Keepers -> States] /\ state[k] \in States
    BY DEF IInv, TypeOK
  <2>2. [state[k] EXCEPT !.status = "connected"] \in States
    BY <2>1 DEF States, Statuses
  <2> QED  BY <2>1, <2>2 DEF AckStarted, SetStatus, States
<1>4. TypeOK'
  BY <1>1, <1>2, <1>3 DEF IInv, TypeOK, AckStarted, menuVars
<1>5. StepOf(k)
  BY <1>1, <1>2, <1>3 DEF StepOf, AckStarted
<1>6. Sound(k)'
  BY <1>2, <1>3 DEF Sound, Attending
<1> QED  BY <1>1, <1>4, <1>5, <1>6, KeeperStepKeepsIInv

\* A step of a keeper.
LEMMA KeeperKeeps ==
  ASSUME IInv, NEW k \in Keepers, KeeperStep(k)
  PROVE  IInv'
<1> USE DEF happdVars, menuVars
<1>0. /\ attempts[k] \in 0..MaxAttempts /\ attempts \in [Keepers -> 0..MaxAttempts]
      /\ state[k] \in States
  BY DEF IInv, TypeOK
<1>1. CASE Claim(k)
  BY <1>1, MoveKeeps
  DEF Claim, KeeperPCs, IInv, Budget, NotOver, SessionsAttended, Attending
<1>2. CASE PrepareRejected(k)
  BY <1>0, <1>2, FailKeeps DEF PrepareRejected
<1>3. CASE ServerMissing(k)
  <2>1. k \notin sessions
    BY <1>3 DEF ServerMissing, IInv, SessionsAttended, Attending
  <2>2. /\ pc' \in [Keepers -> KeeperPCs] /\ pc'[k] = "check"
        /\ state' \in [Keepers -> States] /\ state'[k].status = "exited"
        /\ \A j \in Keepers \ {k} : pc'[j] = pc[j] /\ state'[j] = state[j]
    BY <1>3 DEF ServerMissing, IInv, TypeOK, SetPC, KeeperPCs, States, Statuses
  <2>3. file' \in Records /\ file' # NoFile /\ file'.pid = k
    <3>1. file' = [status |-> "error", pid |-> k, reason |-> TRUE]
      BY <1>3 DEF ServerMissing
    <3>2. [status |-> "error", pid |-> k, reason |-> TRUE] \in Records
      BY DEF Records, Statuses
    <3> QED  BY <3>1, <3>2, KeeperAssumption
  <2>4. TypeOK' /\ XrayHasSession'
    BY <1>3, <2>2, <2>3 DEF ServerMissing, IInv, TypeOK, XrayHasSession, Live
  <2>5. StepOf(k)
    BY <1>3, <2>2, <2>3 DEF StepOf, ServerMissing
  <2>6. Sound(k)'
    BY <1>3, <2>1, <2>2 DEF Sound, ServerMissing
  <2> QED  BY <2>4, <2>5, <2>6, KeeperStepKeepsIInv
<1>4. CASE OpenAndStart(k)
  <2>1. state[k].status # "exited"
    BY <1>4 DEF OpenAndStart, IInv, NotOver
  <2>2. /\ pc' \in [Keepers -> KeeperPCs] /\ pc'[k] = "await"
        /\ attempts' \in [Keepers -> 0..MaxAttempts]
        /\ \A j \in Keepers \ {k} : pc'[j] = pc[j] /\ attempts'[j] = attempts[j]
    BY <1>0, <1>4, KeeperAssumption
    DEF OpenAndStart, IInv, TypeOK, Budget, SetPC, KeeperPCs
  <2>3. TypeOK' /\ XrayHasSession'
    BY <1>4, <2>2 DEF OpenAndStart, IInv, TypeOK, XrayHasSession, Live
  <2>4. StepOf(k)
    BY <1>4, <2>2 DEF StepOf, OpenAndStart
  <2>5. Sound(k)'
    BY <1>4, <2>1, <2>2 DEF Sound, Attending, OpenAndStart
  <2> QED  BY <2>3, <2>4, <2>5, KeeperStepKeepsIInv
<1>5. CASE OpenFails(k)
  <2>1. /\ attempts' \in [Keepers -> 0..MaxAttempts]
        /\ \A j \in Keepers \ {k} : attempts'[j] = attempts[j]
    BY <1>0, <1>5, KeeperAssumption DEF OpenFails, IInv, Budget
  <2> QED  BY <1>5, <2>1, SessionErrorKeeps DEF OpenFails
<1>6. CASE AckStarted(k)
  BY <1>6, AckStartedKeeps
<1>7. CASE AckFailed(k)
  BY <1>0, <1>7, FailKeeps DEF AckFailed, NextFrame
<1>8. CASE AckTimeout(k)
  BY <1>0, <1>8, FailKeeps DEF AckTimeout
<1>9. CASE AwaitLost(k)
  BY <1>0, <1>9, SessionErrorKeeps DEF AwaitLost
<1>10. CASE CheckOwner(k)
  <2>1. CASE OwnedByOther(k)
    BY <1>10, <2>1, AfterWriteKeeps DEF CheckOwner
  <2>2. CASE ~OwnedByOther(k)
    BY <1>10, <2>2, MoveKeeps
    DEF CheckOwner, KeeperPCs, IInv, SessionsAttended, WritesAnOutcome, Attending
  <2> QED  BY <2>1, <2>2
<1>11. CASE WriteOwn(k)
  BY <1>11, AfterWriteKeeps DEF WriteOwn
<1>12. CASE HoldSuperseded(k)
  BY <1>0, <1>12, EndWithKeeps DEF HoldSuperseded
<1>13. CASE HoldIfaceGone(k)
  BY <1>13, RearmKeeps DEF HoldIfaceGone
<1>14. CASE HoldStopped(k)
  BY <1>0, <1>14, EndWithKeeps DEF HoldStopped
<1>15. CASE HoldDied(k)
  BY <1>15, RearmKeeps DEF HoldDied
<1>16. CASE Wake(k)
  <2>1. CASE Owns(k)
    BY <1>16, <2>1, MoveKeeps
    DEF Wake, KeeperPCs, IInv, Budget, NotOver, SessionsAttended, Attending
  <2>2. CASE ~Owns(k)
    BY <1>0, <1>16, <2>2, EndWithKeeps DEF Wake
  <2> QED  BY <2>1, <2>2
<1> QED
  BY <1>1, <1>2, <1>3, <1>4, <1>5, <1>6, <1>7, <1>8, <1>9, <1>10, <1>11, <1>12,
     <1>13, <1>14, <1>15, <1>16 DEF KeeperStep

-----------------------------------------------------------------------------
(* Faults, happd and the menus.                                                *)

LEMMA CrashKeeps ==
  ASSUME IInv, NEW k \in Keepers, Crash(k)
  PROVE  IInv'
<1>1. k \notin sessions'
  BY CloseSessionEffect DEF Crash
<1> QED  BY <1>1, GoneKeeps DEF Crash

LEMMA UnexpectedKeeps ==
  ASSUME IInv, NEW k \in Keepers, Unexpected(k)
  PROVE  IInv'
<1>1. attempts' \in [Keepers -> 0..MaxAttempts] /\ UNCHANGED attempts
  BY DEF Unexpected, IInv, TypeOK
<1> QED  BY <1>1, FailKeeps DEF Unexpected, menuVars

\* A step that leaves keepers and file alone keeps the invariant when happd's
\* side keeps its type.
LEMMA HappdSideKeeps ==
  ASSUME IInv, UNCHANGED <<file, keeperVars, menuVars>>,
         sessions' \subseteq sessions, requests' \subseteq sessions',
         inbox' \in [Keepers -> Seq(Frames)], proc' \in Procs \union {NoProc},
         XrayHasSession'
  PROVE  IInv'
<1>1. TypeOK'
  BY DEF IInv, TypeOK, keeperVars, menuVars
<1>2. Budget' /\ NotOver' /\ WritesAnOutcome'
  BY DEF IInv, Budget, NotOver, WritesAnOutcome, keeperVars
<1>3. SessionsAttended' /\ FinishedLeavesExited'
  BY DEF IInv, SessionsAttended, FinishedLeavesExited, Owns, keeperVars
<1> QED  BY <1>1, <1>2, <1>3 DEF IInv

\* A frame is put on a session.
LEMMA DeliverType ==
  ASSUME IInv, NEW k \in Keepers, NEW f \in Frames, Deliver(k, f)
  PROVE  inbox' \in [Keepers -> Seq(Frames)]
<1>1. inbox \in [Keepers -> Seq(Frames)] /\ inbox[k] \in Seq(Frames)
  BY DEF IInv, TypeOK
<1>2. Append(inbox[k], f) \in Seq(Frames)
  BY <1>1
<1> QED  BY <1>1, <1>2 DEF Deliver

LEMMA HappdKeeps ==
  ASSUME IInv, HappdStep \/ HappdRestart \/ XrayCrashes \/ XrayVanishes
  PROVE  IInv'
<1>0. /\ inbox \in [Keepers -> Seq(Frames)] /\ proc \in Procs \union {NoProc}
      /\ requests \subseteq sessions /\ sessions \subseteq Keepers
      /\ NoProc \notin Procs
  BY KeeperAssumption DEF IInv, TypeOK
<1>1. ASSUME NEW k \in Keepers, HappdStart(k)  PROVE IInv'
  <2>1. proc' \in Procs /\ proc'.owner = k /\ k \in sessions
    BY <1>0, <1>1 DEF HappdStart, Procs, Phases
  <2>2. inbox' \in [Keepers -> Seq(Frames)]
    BY <1>1, DeliverType DEF HappdStart, Frames
  <2>3. XrayHasSession'
    BY <1>1, <2>1 DEF XrayHasSession, HappdStart
  <2> QED  BY <1>0, <1>1, <2>1, <2>2, <2>3, HappdSideKeeps DEF HappdStart
<1>2. ASSUME NEW k \in Keepers, HappdRefuse(k)  PROVE IInv'
  <2>1. inbox' \in [Keepers -> Seq(Frames)]
    BY <1>2, DeliverType DEF HappdRefuse, Frames
  <2>2. XrayHasSession'
    BY <1>2 DEF XrayHasSession, HappdRefuse, IInv, Live
  <2> QED  BY <1>0, <1>2, <2>1, <2>2, HappdSideKeeps DEF HappdRefuse
<1>3. CASE XrayUp
  <2>1. proc \in Procs /\ proc' = [owner |-> proc.owner, phase |-> "up"]
    BY <1>0, <1>3 DEF XrayUp, Procs
  <2>2. proc' \in Procs /\ proc'.owner = proc.owner
    BY <2>1 DEF Procs, Phases
  <2>3. XrayHasSession'
    BY <1>3, <2>2 DEF XrayUp, XrayHasSession, IInv, Live
  <2> QED  BY <1>0, <1>3, <2>2, <2>3, HappdSideKeeps DEF XrayUp
<1>4. CASE XrayExits \/ XrayCrashes \/ XrayVanishes
  <2>1. proc \in Procs /\ proc.owner \in Keepers /\ proc' = NoProc
    BY <1>0, <1>4 DEF XrayExits, XrayCrashes, XrayVanishes, Live, Procs
  <2>2. inbox' \in [Keepers -> Seq(Frames)]
    BY <1>0, <1>4, <2>1, DeliverType DEF XrayExits, XrayCrashes, XrayVanishes, Frames
  <2>3. XrayHasSession'
    BY <2>1 DEF XrayHasSession, Live
  <2>4. UNCHANGED <<file, keeperVars, sessions, requests, menuVars>>
    BY <1>4 DEF XrayExits, XrayCrashes, XrayVanishes
  <2> QED  BY <1>0, <2>1, <2>2, <2>3, <2>4, HappdSideKeeps
<1>5. CASE HappdRestart
  <2>1. \A k \in Keepers : Append(inbox[k], "eof") \in Seq(Frames)
    <3>1. ASSUME NEW k \in Keepers  PROVE Append(inbox[k], "eof") \in Seq(Frames)
      <4>1. inbox[k] \in Seq(Frames) /\ "eof" \in Frames
        BY <1>0 DEF Frames
      <4> QED  BY <4>1
    <3> QED  BY <3>1
  <2>2. inbox' \in [Keepers -> Seq(Frames)]
    BY <1>0, <1>5, <2>1 DEF HappdRestart
  <2>3. XrayHasSession'
    BY <1>5 DEF HappdRestart, XrayHasSession, Live
  <2> QED  BY <1>0, <1>5, <2>2, <2>3, HappdSideKeeps DEF HappdRestart
<1> QED  BY <1>1, <1>2, <1>3, <1>4, <1>5 DEF HappdStep

\* A menu removes the state file, asks happd to stop, or spawns a keeper.
LEMMA MenuKeeps ==
  ASSUME IInv, NEW m \in Menus, MenuStep(m) \/ User(m)
  PROVE  IInv'
<1>1. CASE SpawnKeeper(m)
  <2>1. PICK k \in Keepers :
          /\ pc[k] = "unspawned" /\ SetPC(k, "claim") /\ mk' = [mk EXCEPT ![m] = k]
    BY <1>1 DEF SpawnKeeper
  <2>2. /\ pc' \in [Keepers -> KeeperPCs] /\ pc'[k] = "claim"
        /\ \A j \in Keepers \ {k} : pc'[j] = pc[j]
    BY <2>1 DEF SetPC, IInv, TypeOK, KeeperPCs
  <2>3. TypeOK'
    BY <1>1, <2>1, <2>2 DEF SpawnKeeper, IInv, TypeOK, happdVars, MenuPCs
  <2>4. Budget' /\ NotOver' /\ WritesAnOutcome'
    BY <1>1, <2>1, <2>2 DEF SpawnKeeper, IInv, Budget, NotOver, WritesAnOutcome
  <2>5. SessionsAttended' /\ XrayHasSession' /\ FinishedLeavesExited'
    <3>1. k \notin sessions
      BY <2>1 DEF IInv, SessionsAttended, Attending
    <3>2. \A j \in sessions : j \in Keepers \ {k}
      BY <3>1 DEF IInv, TypeOK
    <3> QED  BY <1>1, <2>2, <3>2
      DEF SpawnKeeper, IInv, SessionsAttended, XrayHasSession, Live,
          FinishedLeavesExited, Owns, happdVars
  <2> QED  BY <2>3, <2>4, <2>5 DEF IInv
<1>2. CASE ~SpawnKeeper(m)
  <2>1. /\ file' \in {file, NoFile} /\ UNCHANGED <<keeperVars, sessions, requests, inbox>>
        /\ UNCHANGED proc \/ (Live(proc) /\ proc' = [proc EXCEPT !.phase = "term"])
        /\ mpc' \in [Menus -> MenuPCs] /\ mk' \in [Menus -> Keepers \union {NoKeeper}]
    BY <1>2 DEF MenuStep, User, StopRunning, NoneLeft, PollDecides, PollTimeout, Return,
                DisconnectStop, StartConnect, StartDisconnect, AskToStop, happdVars,
                IInv, TypeOK, MenuPCs, keeperVars
  <2>2. proc' \in Procs \union {NoProc} /\ (Live(proc') => proc' = proc)
    <3>1. CASE UNCHANGED proc
      BY <3>1 DEF IInv, TypeOK
    <3>2. CASE Live(proc) /\ proc' = [proc EXCEPT !.phase = "term"]
      <4>1. proc \in Procs
        BY <3>2 DEF Live, IInv, TypeOK
      <4>2. proc' = [owner |-> proc.owner, phase |-> "term"] /\ proc.owner \in Keepers
        BY <3>2, <4>1 DEF Procs
      <4> QED  BY <4>2 DEF Procs, Phases, Live
    <3> QED  BY <2>1, <3>1, <3>2
  <2>3. TypeOK'
    BY <2>1, <2>2 DEF IInv, TypeOK, keeperVars
  <2>4. Budget' /\ NotOver' /\ WritesAnOutcome' /\ SessionsAttended'
    BY <2>1 DEF IInv, Budget, NotOver, WritesAnOutcome, SessionsAttended, keeperVars
  <2>5. XrayHasSession' /\ FinishedLeavesExited'
    BY <2>1, <2>2 DEF IInv, XrayHasSession, Live, FinishedLeavesExited, Owns, keeperVars
  <2> QED  BY <2>3, <2>4, <2>5 DEF IInv
<1> QED  BY <1>1, <1>2

-----------------------------------------------------------------------------
(* The theorems.                                                               *)

\* Every step keeps the inductive invariant.
LEMMA NextKeepsIInv == IInv /\ [Next]_vars => IInv'
<1> SUFFICES ASSUME IInv, [Next]_vars  PROVE IInv'
  OBVIOUS
<1>1. ASSUME NEW k \in Keepers, KeeperStep(k)  PROVE IInv'
  BY <1>1, KeeperKeeps
<1>2. ASSUME NEW k \in Keepers, Crash(k) \/ Unexpected(k)  PROVE IInv'
  BY <1>2, CrashKeeps, UnexpectedKeeps
<1>3. CASE HappdStep \/ HappdRestart \/ XrayCrashes \/ XrayVanishes
  BY <1>3, HappdKeeps
<1>4. ASSUME NEW m \in Menus, MenuStep(m) \/ User(m)  PROVE IInv'
  BY <1>4, MenuKeeps
<1>5. CASE UNCHANGED vars
  BY <1>5 DEF vars, keeperVars, happdVars, menuVars, IInv, TypeOK, Budget, NotOver,
              SessionsAttended, XrayHasSession, Live, WritesAnOutcome,
              FinishedLeavesExited, Owns
<1> QED  BY <1>1, <1>2, <1>3, <1>4, <1>5 DEF Next, Fault

THEOREM InvariantHolds == Spec => []IInv
<1>1. Init => IInv
  BY InitIInv
<1>2. IInv /\ [Next]_vars => IInv'
  BY NextKeepsIInv
<1> QED  BY <1>1, <1>2, PTL DEF Spec

\* Every variable of the protocol keeps its type; in particular no keeper of
\* run_keeper makes more than max_attempts starts.
THEOREM TypeCorrect == Spec => []TypeOK
<1>1. IInv => TypeOK
  BY DEF IInv
<1> QED  BY <1>1, InvariantHolds, PTL

\* No xray is left running that no keeper is going to close: whichever of the
\* early returns, exceptions and crashes of run_keeper happens.
THEOREM NoOrphanTunnel == Spec => []XrayAttended
<1>1. IInv => XrayAttended
  BY IInvImplies
<1> QED  BY <1>1, InvariantHolds, PTL

\* A keeper that ran to its end and still owns the state file says so in it.
THEOREM NoStaleConnected == Spec => []FinishedLeavesExited
<1>1. IInv => FinishedLeavesExited
  BY DEF IInv
<1> QED  BY <1>1, InvariantHolds, PTL

-----------------------------------------------------------------------------
(* No resurrection.                                                            *)

\* What a record of k may say once k is out.
OnlyEndings(k) == Owns(k) => file.status \in {"error", "exited"}

\* k is out: it has lost the file while it waited, or it is ending or has ended
\* with nothing but an ending to write.
Out(k) ==
  \/ pc[k] \in {"hold", "sleep"} /\ ~Owns(k)
  \/ pc[k] \in {"check", "write"} /\ state[k].status \in {"error", "exited"} /\ OnlyEndings(k)
  \/ pc[k] \in {"done", "dead"} /\ OnlyEndings(k)

\* Other keepers, happd and menus leave a keeper out.
LEMMA OutElsewhere ==
  ASSUME NEW k \in Keepers, Out(k), pc'[k] = pc[k], state'[k] = state[k],
         file' = file \/ file' = NoFile \/ file'.pid # k
  PROVE  Out(k)'
BY DEF Out, OnlyEndings, Owns

\* A step of another keeper changes nothing of k.
LEMMA OtherKeeper ==
  ASSUME IInv, NEW k \in Keepers, NEW j \in Keepers, j # k,
         KeeperStep(j) \/ Crash(j) \/ Unexpected(j)
  PROVE  /\ pc'[k] = pc[k] /\ state'[k] = state[k]
         /\ file' = file \/ file'.pid # k
<1> USE DEF EndWith, SetPC, SetStatus, SessionError, Fail, Gone, AfterWrite, Rearm
<1>0. /\ pc \in [Keepers -> KeeperPCs] /\ state \in [Keepers -> States]
      /\ RecordOf(j).pid = j
  BY RecordOfType DEF IInv, TypeOK
<1>1. CASE Claim(j) \/ PrepareRejected(j) \/ ServerMissing(j)
  BY <1>0, <1>1 DEF Claim, PrepareRejected, ServerMissing
<1>2. CASE OpenAndStart(j) \/ OpenFails(j) \/ AckStarted(j) \/ AckFailed(j)
  BY <1>0, <1>2 DEF OpenAndStart, OpenFails, AckStarted, AckFailed
<1>3. CASE AckTimeout(j) \/ AwaitLost(j) \/ CheckOwner(j) \/ WriteOwn(j)
  BY <1>0, <1>3 DEF AckTimeout, AwaitLost, CheckOwner, WriteOwn
<1>4. CASE HoldSuperseded(j) \/ HoldIfaceGone(j) \/ HoldStopped(j) \/ HoldDied(j)
  BY <1>0, <1>4 DEF HoldSuperseded, HoldIfaceGone, HoldStopped, HoldDied
<1>5. CASE Wake(j) \/ Crash(j) \/ Unexpected(j)
  BY <1>0, <1>5 DEF Wake, Crash, Unexpected
<1> QED  BY <1>1, <1>2, <1>3, <1>4, <1>5 DEF KeeperStep

\* The keeper's own steps keep it out.
LEMMA OutOwnStep ==
  ASSUME IInv, NEW k \in Keepers, Out(k), KeeperStep(k) \/ Crash(k) \/ Unexpected(k)
  PROVE  Out(k)'
<1> USE DEF Out, OnlyEndings, Owns, EndWith, SetPC, SetStatus, Fail, Gone
<1>0. /\ pc \in [Keepers -> KeeperPCs] /\ state \in [Keepers -> States]
      /\ state[k] \in States
      /\ RecordOf(k).pid = k /\ RecordOf(k).status = state[k].status
  BY RecordOfType DEF IInv, TypeOK
<1>1. [state[k] EXCEPT !.status = "exited"].status = "exited"
  BY <1>0 DEF States
<1>2. CASE CheckOwner(k)
  BY <1>0, <1>1, <1>2 DEF CheckOwner, AfterWrite, OwnedByOther
<1>3. CASE WriteOwn(k)
  BY <1>0, <1>1, <1>3 DEF WriteOwn, AfterWrite
<1>4. CASE HoldSuperseded(k) \/ HoldStopped(k)
  BY <1>0, <1>1, <1>4 DEF HoldSuperseded, HoldStopped
<1>5. CASE HoldDied(k)
  BY <1>0, <1>1, <1>5 DEF HoldDied, Rearm
<1>6. CASE Wake(k)
  BY <1>0, <1>1, <1>6 DEF Wake
<1>7. CASE Unexpected(k)
  BY <1>0, <1>7 DEF Unexpected
<1>8. CASE Crash(k)
  BY <1>0, <1>8 DEF Crash
<1>9. CASE \/ Claim(k) \/ PrepareRejected(k) \/ ServerMissing(k) \/ OpenAndStart(k)
           \/ OpenFails(k) \/ AckStarted(k) \/ AckFailed(k) \/ AckTimeout(k)
           \/ AwaitLost(k) \/ HoldIfaceGone(k)
  BY <1>9 DEF Claim, PrepareRejected, ServerMissing, OpenAndStart, OpenFails,
              AckStarted, AckFailed, AckTimeout, AwaitLost, HoldIfaceGone
<1> QED
  BY <1>2, <1>3, <1>4, <1>5, <1>6, <1>7, <1>8, <1>9 DEF KeeperStep

LEMMA OutIsFinal ==
  ASSUME NEW k \in Keepers
  PROVE  IInv /\ Out(k) /\ [Next]_vars => Out(k)'
<1> SUFFICES ASSUME IInv, Out(k), [Next]_vars  PROVE Out(k)'
  OBVIOUS
<1>1. ASSUME NEW j \in Keepers, KeeperStep(j) \/ Crash(j) \/ Unexpected(j)
      PROVE  Out(k)'
  <2>1. CASE j = k
    BY <1>1, <2>1, OutOwnStep
  <2>2. CASE j # k
    BY <1>1, <2>2, OtherKeeper, OutElsewhere
  <2> QED  BY <2>1, <2>2
<1>2. CASE \/ HappdStep \/ HappdRestart \/ XrayCrashes \/ XrayVanishes
           \/ UNCHANGED vars
  <2>1. UNCHANGED <<file, keeperVars>>
    BY <1>2 DEF HappdStep, HappdRestart, XrayCrashes, XrayVanishes, HappdStart,
                HappdRefuse, XrayUp, XrayExits, vars
  <2> QED  BY <2>1, OutElsewhere DEF keeperVars
<1>3. ASSUME NEW m \in Menus, MenuStep(m) \/ User(m)  PROVE Out(k)'
  <2>1. CASE SpawnKeeper(m)
    <3>1. PICK j \in Keepers : pc[j] = "unspawned" /\ SetPC(j, "claim")
      BY <2>1 DEF SpawnKeeper
    <3>2. pc'[k] = pc[k]
      BY <3>1 DEF SetPC, Out, IInv, TypeOK
    <3> QED  BY <2>1, <3>2, OutElsewhere DEF SpawnKeeper
  <2>2. CASE ~SpawnKeeper(m)
    <3>1. file' \in {file, NoFile} /\ UNCHANGED keeperVars
      BY <1>3, <2>2 DEF MenuStep, User, StopRunning, NoneLeft, PollDecides, PollTimeout,
                   DisconnectStop, StartConnect, StartDisconnect
    <3> QED  BY <3>1, OutElsewhere DEF keeperVars
  <2> QED  BY <2>1, <2>2
<1> QED  BY <1>1, <1>2, <1>3 DEF Next, Fault

\* Once a keeper that holds its session, or sleeps before a re-arm, has lost the
\* state file (to a disconnect or to a newer keeper), it never starts xray again
\* and never puts "connected" into the file.
THEOREM NoResurrectionHolds == Spec => NoResurrection
<1> SUFFICES ASSUME NEW k \in Keepers
             PROVE  Spec => [](pc[k] \in {"hold", "sleep"} /\ ~Owns(k)
                      => [](pc[k] # "open" /\ (Owns(k) => file.status \in {"error", "exited"})))
  BY DEF NoResurrection
<1>1. pc[k] \in {"hold", "sleep"} /\ ~Owns(k) => Out(k)
  BY DEF Out
<1>2. Out(k) => pc[k] # "open" /\ (Owns(k) => file.status \in {"error", "exited"})
  BY DEF Out, OnlyEndings
<1>3. IInv /\ Out(k) /\ [Next]_vars => Out(k)'
  BY OutIsFinal
<1> QED  BY <1>1, <1>2, <1>3, InvariantHolds, PTL DEF Spec

-----------------------------------------------------------------------------
(* The keepers implement the slot.                                             *)

\* A step of k that does not end it, and is no new try, can only release things.
LEMMA ReleaseStep ==
  ASSUME IInv, UNCHANGED attempts, Ended' = Ended, requests' \subseteq requests,
         Live(proc') => proc' = proc
  PROVE  Slot!Release
BY DEF Slot!Release, SlotHolder

\* A keeper that goes on to another place than the end is not ended.
LEMMA EndedSame ==
  ASSUME IInv, NEW k \in Keepers, pc[k] \notin {"done", "dead"},
         NEW p \in KeeperPCs \ {"done", "dead"}, SetPC(k, p)
  PROVE  Ended' = Ended
BY DEF Ended, SetPC, IInv, TypeOK

LEMMA ClosingReleases ==
  ASSUME IInv, NEW k \in Keepers, CloseSession(k)
  PROVE  requests' \subseteq requests /\ (Live(proc') => proc' = proc)
BY CloseSessionEffect

\* The way out of run_keeper releases what the keeper had.
LEMMA EndWithReleases ==
  ASSUME IInv, NEW k \in Keepers, pc[k] \notin {"done", "dead"}, EndWith(k),
         UNCHANGED attempts
  PROVE  Slot!Release
<1>1. Ended' = Ended
  BY EndedSame DEF EndWith, KeeperPCs
<1> QED  BY <1>1, ClosingReleases, ReleaseStep DEF EndWith

LEMMA FailReleases ==
  ASSUME IInv, NEW k \in Keepers, pc[k] \notin {"done", "dead"}, Fail(k),
         UNCHANGED attempts, UNCHANGED <<requests, proc>> \/ CloseSession(k)
  PROVE  Slot!Release
<1>1. Ended' = Ended
  BY EndedSame DEF Fail, KeeperPCs
<1> QED  BY <1>1, ClosingReleases, ReleaseStep DEF Fail

LEMMA SessionErrorReleases ==
  ASSUME IInv, NEW k \in Keepers, pc[k] \notin {"done", "dead"}, SessionError(k),
         UNCHANGED attempts
  PROVE  Slot!Release
BY FailReleases, EndWithReleases DEF SessionError

\* A keeper without an open session has nothing in the slot.
LEMMA NoSessionNoSlot ==
  ASSUME IInv, NEW k \in Keepers, k \notin sessions
  PROVE  SlotHolder # k /\ k \notin requests
BY KeeperAssumption DEF IInv, TypeOK, XrayHasSession, SlotHolder

\* A process that is gone has left the slot.
LEMMA GoneEnds ==
  ASSUME IInv, NEW k \in Keepers, pc[k] \notin {"done", "dead"},
         NEW end \in {"done", "dead"}, Gone(k, end),
         \/ UNCHANGED happdVars /\ k \notin sessions
         \/ CloseSession(k)
  PROVE  Slot!End(k)
<1>1. k \notin Ended /\ Ended' = Ended \union {k}
  BY DEF Ended, Gone, SetPC, IInv, TypeOK
<1>2. attempts' = [attempts EXCEPT ![k] = 0]
  BY DEF Gone
<1>3. /\ SlotHolder' = IF SlotHolder = k THEN NoKeeper ELSE SlotHolder
      /\ requests' = requests \ {k}
  <2>1. CASE UNCHANGED happdVars /\ k \notin sessions
    BY <2>1, NoSessionNoSlot DEF happdVars, SlotHolder, Live
  <2>2. CASE CloseSession(k)
    <3>1. requests' = requests \ {k} /\ (Live(proc') => proc' = proc /\ proc.owner # k)
      BY <2>2, CloseSessionEffect
    <3>2. Live(proc) /\ proc.owner # k => proc' = proc
      BY <2>2 DEF CloseSession
    <3> QED  BY <3>1, <3>2, KeeperAssumption DEF SlotHolder
  <2> QED  BY <2>1, <2>2
<1> QED  BY <1>1, <1>2, <1>3 DEF Slot!End

LEMMA AfterWriteMaps ==
  ASSUME IInv, NEW k \in Keepers, pc[k] \in {"check", "write"}, AfterWrite(k)
  PROVE  [Slot!Next]_(Slot!vars)
<1>1. state[k].status \in {"connected", "error", "exited"}
  BY DEF IInv, TypeOK, WritesAnOutcome, States, Statuses
<1>2. CASE state[k].status = "connected"
  <2>1. Ended' = Ended
    BY <1>2, EndedSame DEF AfterWrite, KeeperPCs
  <2> QED  BY <1>2, <2>1, ReleaseStep DEF AfterWrite, happdVars, Slot!Next
<1>3. CASE state[k].status = "error"
  BY <1>3, EndWithReleases DEF AfterWrite, Slot!Next
<1>4. CASE state[k].status = "exited"
  <2>1. k \notin sessions
    BY <1>4 DEF IInv, SessionsAttended
  <2> QED  BY <1>4, <2>1, GoneEnds DEF AfterWrite, Slot!Next
<1> QED  BY <1>1, <1>2, <1>3, <1>4

LEMMA RearmReleases ==
  ASSUME IInv, NEW k \in Keepers, pc[k] = "hold", Rearm(k), UNCHANGED attempts
  PROVE  Slot!Release
<1>1. CASE attempts[k] >= MaxAttempts
  BY <1>1, EndWithReleases DEF Rearm
<1>2. CASE ~(attempts[k] >= MaxAttempts)
  <2>1. Ended' = Ended
    BY <1>2, EndedSame DEF Rearm, KeeperPCs
  <2> QED  BY <1>2, <2>1, ClosingReleases, ReleaseStep DEF Rearm
<1> QED  BY <1>1, <1>2

\* A try, made by a keeper that has no session yet and an attempt left.
LEMMA TryStep ==
  ASSUME IInv, NEW k \in Keepers, pc[k] = "open",
         attempts' = [attempts EXCEPT ![k] = @ + 1],
         requests' \in {requests, requests \union {k}},
         Ended' = Ended, SlotHolder' = SlotHolder
  PROVE  Slot!Try(k)
<1>1. k \notin sessions /\ k \notin Ended /\ attempts[k] < MaxAttempts
  BY DEF IInv, SessionsAttended, Attending, Ended, Budget
<1>2. SlotHolder # k /\ k \notin requests
  BY <1>1, NoSessionNoSlot
<1> QED  BY <1>1, <1>2 DEF Slot!Try

LEMMA KeeperMaps ==
  ASSUME IInv, NEW k \in Keepers, KeeperStep(k) \/ Crash(k) \/ Unexpected(k)
  PROVE  [Slot!Next]_(Slot!vars)
<1> USE DEF Slot!Next, happdVars
<1>1. CASE Claim(k)
  <2>1. Ended' = Ended
    BY <1>1, EndedSame DEF Claim, KeeperPCs
  <2> QED  BY <1>1, <2>1, ReleaseStep DEF Claim
<1>2. CASE PrepareRejected(k) \/ AckFailed(k) \/ AckTimeout(k) \/ Unexpected(k)
  BY <1>2, FailReleases DEF PrepareRejected, AckFailed, AckTimeout, Unexpected
<1>3. CASE ServerMissing(k)
  <2>1. Ended' = Ended
    BY <1>3, EndedSame DEF ServerMissing, KeeperPCs
  <2> QED  BY <1>3, <2>1, ReleaseStep DEF ServerMissing
<1>4. CASE OpenAndStart(k)
  <2>1. Ended' = Ended /\ SlotHolder' = SlotHolder
    BY <1>4, EndedSame DEF OpenAndStart, KeeperPCs, SlotHolder, Live
  <2> QED  BY <1>4, <2>1, TryStep DEF OpenAndStart
<1>5. CASE OpenFails(k)
  <2>1. k \notin sessions
    BY <1>5 DEF OpenFails, IInv, SessionsAttended, Attending
  <2>2. Ended' = Ended
    BY <1>5, EndedSame DEF OpenFails, SessionError, Fail, EndWith, KeeperPCs
  <2>3. requests' = requests /\ proc' = proc
    BY <1>5, <2>1, NoSessionNoSlot
    DEF OpenFails, SessionError, EndWith, CloseSession, SlotHolder
  <2>4. SlotHolder' = SlotHolder
    BY <2>3 DEF SlotHolder, Live
  <2> QED  BY <1>5, <2>2, <2>3, <2>4, TryStep DEF OpenFails
<1>6. CASE AckStarted(k)
  <2>1. Ended' = Ended
    BY <1>6, EndedSame DEF AckStarted, KeeperPCs
  <2> QED  BY <1>6, <2>1, ReleaseStep DEF AckStarted
<1>7. CASE AwaitLost(k)
  BY <1>7, SessionErrorReleases DEF AwaitLost
<1>8. CASE CheckOwner(k) /\ ~OwnedByOther(k)
  <2>1. Ended' = Ended
    BY <1>8, EndedSame DEF CheckOwner, KeeperPCs
  <2> QED  BY <1>8, <2>1, ReleaseStep DEF CheckOwner
<1>9. CASE WriteOwn(k) \/ (CheckOwner(k) /\ OwnedByOther(k))
  BY <1>9, AfterWriteMaps DEF WriteOwn, CheckOwner
<1>10. CASE HoldSuperseded(k) \/ HoldStopped(k)
  BY <1>10, EndWithReleases DEF HoldSuperseded, HoldStopped
<1>11. CASE HoldIfaceGone(k) \/ HoldDied(k)
  BY <1>11, RearmReleases DEF HoldIfaceGone, HoldDied
<1>12. CASE Wake(k)
  <2>1. CASE Owns(k)
    <3>1. Ended' = Ended
      BY <1>12, <2>1, EndedSame DEF Wake, KeeperPCs
    <3> QED  BY <1>12, <2>1, <3>1, ReleaseStep DEF Wake
  <2>2. CASE ~Owns(k)
    BY <1>12, <2>2, EndWithReleases DEF Wake
  <2> QED  BY <2>1, <2>2
<1>13. CASE Crash(k)
  BY <1>13, GoneEnds DEF Crash
<1> QED
  BY <1>1, <1>2, <1>3, <1>4, <1>5, <1>6, <1>7, <1>8, <1>9, <1>10, <1>11, <1>12, <1>13
  DEF KeeperStep

LEMMA HappdMaps ==
  ASSUME IInv, HappdStep \/ HappdRestart \/ XrayCrashes \/ XrayVanishes
  PROVE  [Slot!Next]_(Slot!vars)
<1>0. Ended' = Ended /\ UNCHANGED attempts
  BY DEF HappdStep, HappdRestart, XrayCrashes, XrayVanishes, HappdStart, HappdRefuse,
         XrayUp, XrayExits, keeperVars, Ended
<1>1. ASSUME NEW k \in Keepers, HappdStart(k)  PROVE Slot!Start(k)
  <2>1. SlotHolder' = k
    <3>1. proc' = [owner |-> k, phase |-> "starting"] /\ proc' # NoProc
      <4>1. proc' \in Procs
        BY <1>1 DEF HappdStart, Procs, Phases
      <4> QED  BY <1>1, <4>1, KeeperAssumption DEF HappdStart
    <3> QED  BY <3>1 DEF SlotHolder, Live
  <2> QED  BY <1>0, <1>1, <2>1 DEF HappdStart, Slot!Start
<1>2. ASSUME NEW k \in Keepers, HappdRefuse(k)  PROVE Slot!Release
  BY <1>0, <1>2, ReleaseStep DEF HappdRefuse
<1>3. CASE XrayUp
  <2>1. proc \in Procs /\ proc' \in Procs /\ proc'.owner = proc.owner
    <3>1. proc \in Procs
      BY <1>3 DEF XrayUp, IInv, TypeOK
    <3>2. proc' = [owner |-> proc.owner, phase |-> "up"]
      BY <1>3, <3>1 DEF XrayUp, Procs
    <3> QED  BY <3>1, <3>2 DEF Procs, Phases
  <2>2. SlotHolder' = SlotHolder
    <3>1. proc.phase = "starting" /\ proc'.phase = "up"
      BY <1>3, <2>1 DEF XrayUp, Procs
    <3> QED  BY <2>1, <3>1, KeeperAssumption DEF SlotHolder, Live
  <2> QED  BY <1>0, <1>3, <2>2 DEF XrayUp, Slot!vars
<1>4. CASE XrayExits \/ XrayCrashes \/ XrayVanishes \/ HappdRestart
  <2>1. proc' = NoProc /\ requests' \subseteq requests
    BY <1>4 DEF XrayExits, XrayCrashes, XrayVanishes, HappdRestart
  <2> QED  BY <1>0, <2>1, ReleaseStep DEF Live, Slot!Next
<1> QED  BY <1>1, <1>2, <1>3, <1>4 DEF HappdStep, Slot!Next

LEMMA MenuMaps ==
  ASSUME IInv, NEW m \in Menus, MenuStep(m) \/ User(m)
  PROVE  [Slot!Next]_(Slot!vars)
<1>1. UNCHANGED <<attempts, requests>>
  BY DEF MenuStep, User, StopRunning, SpawnKeeper, NoneLeft, PollDecides, PollTimeout,
         DisconnectStop, StartConnect, StartDisconnect, keeperVars, happdVars
<1>2. Ended' = Ended
  <2>1. CASE SpawnKeeper(m)
    BY <2>1, EndedSame DEF SpawnKeeper, KeeperPCs
  <2>2. CASE ~SpawnKeeper(m)
    BY <2>2 DEF MenuStep, User, StopRunning, NoneLeft, PollDecides, PollTimeout,
                DisconnectStop, StartConnect, StartDisconnect, keeperVars, Ended
  <2> QED  BY <2>1, <2>2
<1>3. Live(proc') => proc' = proc
  <2>1. UNCHANGED proc \/ (Live(proc) /\ proc' = [proc EXCEPT !.phase = "term"])
    BY DEF MenuStep, User, StopRunning, SpawnKeeper, NoneLeft, PollDecides, PollTimeout,
           DisconnectStop, StartConnect, StartDisconnect, AskToStop, happdVars
  <2>2. CASE Live(proc) /\ proc' = [proc EXCEPT !.phase = "term"]
    <3>1. proc \in Procs
      BY <2>2 DEF Live, IInv, TypeOK
    <3> QED  BY <2>2, <3>1 DEF Live, Procs
  <2> QED  BY <2>1, <2>2
<1> QED  BY <1>1, <1>2, <1>3, ReleaseStep DEF Slot!Next

\* A keeper has at most max_attempts tries; each gets at most one xray running;
\* and a keeper that has ended, in whatever way, has none and gets none.
THEOREM SlotImplemented == Spec => ImplementsSlot
<1>1. Init => Slot!Init
  BY KeeperAssumption DEF Init, Slot!Init, SlotHolder, Live, Ended
<1>2. IInv /\ [Next]_vars => [Slot!Next]_(Slot!vars)
  <2> SUFFICES ASSUME IInv, [Next]_vars  PROVE [Slot!Next]_(Slot!vars)
    OBVIOUS
  <2>1. CASE UNCHANGED vars
    BY <2>1 DEF vars, keeperVars, happdVars, Slot!vars, SlotHolder, Live, Ended
  <2>2. ASSUME NEW k \in Keepers, KeeperStep(k) \/ Crash(k) \/ Unexpected(k)
        PROVE  [Slot!Next]_(Slot!vars)
    BY <2>2, KeeperMaps
  <2>3. CASE HappdStep \/ HappdRestart \/ XrayCrashes \/ XrayVanishes
    BY <2>3, HappdMaps
  <2>4. ASSUME NEW m \in Menus, MenuStep(m) \/ User(m)
        PROVE  [Slot!Next]_(Slot!vars)
    BY <2>4, MenuMaps
  <2> QED  BY <2>1, <2>2, <2>3, <2>4 DEF Next, Fault
<1> QED  BY <1>1, <1>2, InvariantHolds, PTL DEF Spec, ImplementsSlot, Slot!Spec
=============================================================================
