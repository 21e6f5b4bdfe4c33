------------------------------- MODULE Keeper -------------------------------
(***************************************************************************)
(* The headless-connect protocol of the happd-backed providers: keeper     *)
(* processes (run_keeper of providers/happ.py and providers/keys.py), the  *)
(* keeper state file they share, the menu processes that connect and       *)
(* disconnect, and happd, the root daemon that runs xray for them.  One    *)
(* instance of the module is one process id ("xray-core", or one of the    *)
(* "xray-keys-*" ones) with its own state file.                            *)
(***************************************************************************)
EXTENDS Naturals, Sequences

CONSTANTS
  Keepers,      \* keeper processes that may be spawned, named by their pid
  Menus,        \* vpn_manager.py --menu processes acting at the same time
  MaxAttempts,  \* max_attempts of run_keeper: starts before giving up
  Kind,         \* "happ" or "keys": the two variants of run_keeper
  NoFile,       \* the keeper state file is absent
  NoProc,       \* happd runs nothing under the process id
  NoKeeper      \* a menu that waits for no keeper

Statuses == {"connecting", "connected", "error", "exited"}
States   == [status : Statuses, reason : BOOLEAN]  \* reason: it has a "message"
Records  == [status : Statuses, pid : Keepers, reason : BOOLEAN]
Fresh    == [status |-> "connecting", reason |-> FALSE]
Phases   == {"starting", "up", "term", "reap"}
Procs    == [owner : Keepers, phase : Phases]
Frames   == {"started", "failed", "term", "crash", "eof"}
KeeperPCs == {"unspawned", "claim", "open", "await", "check", "write", "hold",
              "sleep", "done", "dead"}
MenuPCs  == {"idle", "stop", "spawn", "poll", "dstop"}

ASSUME KeeperAssumption ==
  /\ MaxAttempts \in Nat \ {0}
  /\ Kind \in {"happ", "keys"}
  /\ NoKeeper \notin Keepers
  /\ NoFile \notin Records
  /\ NoProc \notin Procs

VARIABLES
  file,      \* the keeper state file
  pc,        \* where each keeper is in run_keeper
  attempts,  \* its starts so far
  state,     \* its own `state` dict
  sessions,  \* keepers with an open happd session
  requests,  \* keepers whose "start" frame happd has not handled yet
  inbox,     \* frames on each session not read yet
  proc,      \* the xray process happd runs under the process id
  mpc,       \* where each menu process is
  mk         \* the keeper a connecting menu has spawned and waits for

keeperVars == <<pc, attempts, state>>
happdVars  == <<sessions, requests, inbox, proc>>
menuVars   == <<mpc, mk>>
vars == <<file, keeperVars, happdVars, menuVars>>

Init ==
  /\ file = NoFile
  /\ pc = [k \in Keepers |-> "unspawned"]
  /\ attempts = [k \in Keepers |-> 0]
  /\ state = [k \in Keepers |-> Fresh]
  /\ sessions = {}
  /\ requests = {}
  /\ inbox = [k \in Keepers |-> <<>>]
  /\ proc = NoProc
  /\ mpc = [m \in Menus |-> "idle"]
  /\ mk = [m \in Menus |-> NoKeeper]

-----------------------------------------------------------------------------
(* Helpers.                                                                *)

Live(p) == p # NoProc /\ p.phase \in {"starting", "up"}

\* The tunnel interface exists from xray's creation of it to xray's exit.
IfaceExists == proc # NoProc /\ proc.phase # "starting"

Owns(k) == file # NoFile /\ file.pid = k

OwnedByOther(k) == file # NoFile /\ file.pid # k

RecordOf(k) == [status |-> state[k].status, pid |-> k, reason |-> state[k].reason]

SetPC(k, p) == pc' = [pc EXCEPT ![k] = p]

SetStatus(k, s) == state' = [state EXCEPT ![k].status = s]

\* The session of k closes: happd reaps the processes it started.
CloseSession(k) ==
  /\ sessions' = sessions \ {k}
  /\ requests' = requests \ {k}
  /\ inbox' = [inbox EXCEPT ![k] = <<>>]
  /\ proc' = IF Live(proc) /\ proc.owner = k THEN [proc EXCEPT !.phase = "reap"]
             ELSE proc

\* happd sends a frame on k's session, if it is still open.
Deliver(k, frame) ==
  inbox' = IF k \in sessions THEN [inbox EXCEPT ![k] = Append(@, frame)] ELSE inbox

-----------------------------------------------------------------------------
(* Keeper processes.  Frames are read and state dicts updated in memory; what  *)
(* others can see of a keeper is its session and its writes to the file.       *)

\* state.update(status="error", message=...), then the guarded write.
Fail(k) ==
  /\ state' = [state EXCEPT ![k] = [status |-> "error", reason |-> TRUE]]
  /\ SetPC(k, "check")

\* The way out of run_keeper: the socket is closed, then "exited" is written.
EndWith(k) ==
  /\ CloseSession(k)
  /\ SetStatus(k, "exited")
  /\ SetPC(k, "check")

\* OSError: only a keeper that was never connected records it.
SessionError(k) ==
  IF state[k].status = "connecting"
  THEN Fail(k) /\ UNCHANGED <<sessions, requests, inbox, proc>>
  ELSE EndWith(k)

\* The process is gone, and its memory with it.
Gone(k, end) ==
  /\ SetPC(k, end)
  /\ attempts' = [attempts EXCEPT ![k] = 0]
  /\ state' = [state EXCEPT ![k] = Fresh]

\* Mutant: an error return that skips the finally clause's "exited".
AfterWriteNoFinally(k) ==
  CASE state[k].status = "connected" ->
         SetPC(k, "hold") /\ UNCHANGED <<attempts, state, happdVars>>
    [] state[k].status = "error" -> CloseSession(k) /\ Gone(k, "done")
    [] OTHER -> Gone(k, "done") /\ UNCHANGED happdVars

\* What follows a guarded write, whether the write was made or skipped.
AfterWrite(k) ==
  CASE state[k].status = "connected" ->
         SetPC(k, "hold") /\ UNCHANGED <<attempts, state, happdVars>>
    [] state[k].status = "error" -> EndWith(k) /\ UNCHANGED attempts
    [] OTHER -> Gone(k, "done") /\ UNCHANGED happdVars

\* The unconditional first write: this process was just designated.
Claim(k) ==
  /\ pc[k] = "claim"
  /\ file' = RecordOf(k)
  /\ SetPC(k, "open")
  /\ UNCHANGED <<attempts, state, happdVars, menuVars>>

\* Before the first start: xray -test rejects the config (for Happ also: there
\* is no config for the server).
PrepareRejected(k) ==
  /\ pc[k] = "open"
  /\ attempts[k] = 0
  /\ Fail(k)
  /\ UNCHANGED <<file, attempts, happdVars, menuVars>>

\* A keys keeper that does not find its server writes without the guard.
ServerMissing(k) ==
  /\ Kind = "keys"
  /\ pc[k] = "open"
  /\ attempts[k] = 0
  /\ file' = [status |-> "error", pid |-> k, reason |-> TRUE]
  /\ state' = [state EXCEPT ![k] = [status |-> "exited", reason |-> TRUE]]
  /\ SetPC(k, "check")
  /\ UNCHANGED <<attempts, happdVars, menuVars>>

\* One turn of the re-arm loop: open a session and send the start frame.
OpenAndStart(k) ==
  /\ pc[k] = "open"
  /\ attempts' = [attempts EXCEPT ![k] = @ + 1]
  /\ sessions' = sessions \union {k}
  /\ requests' = requests \union {k}
  /\ SetPC(k, "await")
  /\ UNCHANGED <<file, state, inbox, proc, menuVars>>

OpenFails(k) ==
  /\ pc[k] = "open"
  /\ attempts' = [attempts EXCEPT ![k] = @ + 1]
  /\ SessionError(k)
  /\ UNCHANGED <<file, menuVars>>

NextFrame(k, frame) == inbox[k] # <<>> /\ Head(inbox[k]) = frame

\* The acknowledgement: the frame is read off the open session.
AckStarted(k) ==
  /\ pc[k] = "await"
  /\ NextFrame(k, "started")
  /\ inbox' = [inbox EXCEPT ![k] = Tail(@)]
  /\ SetStatus(k, "connected")
  /\ SetPC(k, "check")
  /\ UNCHANGED <<file, attempts, sessions, requests, proc, menuVars>>

AckFailed(k) ==
  /\ pc[k] = "await"
  /\ NextFrame(k, "failed")
  /\ inbox' = [inbox EXCEPT ![k] = Tail(@)]
  /\ Fail(k)
  /\ UNCHANGED <<file, attempts, sessions, requests, proc, menuVars>>

\* Mutant: a late ack is no longer waited for, the keeper just goes away.
AckTimeoutSilent(k) ==
  /\ pc[k] = "await"
  /\ Gone(k, "done")
  /\ UNCHANGED <<file, happdVars, menuVars>>

\* No ack within XRAY_TIMEOUT.
AckTimeout(k) ==
  /\ pc[k] = "await"
  /\ Fail(k)
  /\ UNCHANGED <<file, attempts, happdVars, menuVars>>

\* The session is cut before the ack.
AwaitLost(k) ==
  /\ pc[k] = "await"
  /\ NextFrame(k, "eof")
  /\ SessionError(k)
  /\ UNCHANGED <<file, attempts, menuVars>>

\* _write_own_keeper_state reads the file ...
CheckOwner(k) ==
  /\ pc[k] = "check"
  /\ IF OwnedByOther(k) THEN AfterWrite(k)
     ELSE SetPC(k, "write") /\ UNCHANGED <<attempts, state, happdVars>>
  /\ UNCHANGED <<file, menuVars>>

\* ... and writes it in a later step.
WriteOwn(k) ==
  /\ pc[k] = "write"
  /\ file' = RecordOf(k)
  /\ AfterWrite(k)
  /\ UNCHANGED menuVars

\* Mutant: an attempt too many.
RearmOnceMore(k) ==
  IF attempts[k] > MaxAttempts THEN EndWith(k)
  ELSE CloseSession(k) /\ SetPC(k, "sleep") /\ UNCHANGED state

\* xray died: close the socket, then give up or sleep before the next start.
Rearm(k) ==
  IF attempts[k] >= MaxAttempts THEN EndWith(k)
  ELSE CloseSession(k) /\ SetPC(k, "sleep") /\ UNCHANGED state

\* Mutant: the keeper returns from the hold and leaves its socket open.
HoldSupersededOpen(k) ==
  /\ pc[k] = "hold"
  /\ inbox[k] = <<>>
  /\ ~Owns(k)
  /\ SetStatus(k, "exited")
  /\ SetPC(k, "check")
  /\ UNCHANGED <<file, attempts, happdVars, menuVars>>

\* Mutant: only a newer keeper ends the hold, a removed file does not.
HoldSupersededByOther(k) ==
  /\ pc[k] = "hold"
  /\ inbox[k] = <<>>
  /\ OwnedByOther(k)
  /\ EndWith(k)
  /\ UNCHANGED <<file, attempts, menuVars>>

\* _hold_session, a receive timeout: nothing was sent for 15 s.
HoldSuperseded(k) ==
  /\ pc[k] = "hold"
  /\ inbox[k] = <<>>
  /\ ~Owns(k)
  /\ EndWith(k)
  /\ UNCHANGED <<file, attempts, menuVars>>

HoldIfaceGone(k) ==
  /\ pc[k] = "hold"
  /\ inbox[k] = <<>>
  /\ Owns(k)
  /\ ~IfaceExists
  /\ Rearm(k)
  /\ UNCHANGED <<file, attempts, menuVars>>

\* _hold_session, a frame: stopped on request (or the session is cut) ...
HoldStopped(k) ==
  /\ pc[k] = "hold"
  /\ NextFrame(k, "term") \/ NextFrame(k, "eof")
  /\ EndWith(k)
  /\ UNCHANGED <<file, attempts, menuVars>>

\* ... or xray died by itself.
HoldDied(k) ==
  /\ pc[k] = "hold"
  /\ NextFrame(k, "crash")
  /\ Rearm(k)
  /\ UNCHANGED <<file, attempts, menuVars>>

\* Mutant: after the sleep nobody looks at the state file.
WakeBlindly(k) ==
  /\ pc[k] = "sleep"
  /\ SetPC(k, "open")
  /\ UNCHANGED <<file, attempts, state, happdVars, menuVars>>

Wake(k) ==
  /\ pc[k] = "sleep"
  /\ IF Owns(k) THEN SetPC(k, "open") /\ UNCHANGED <<state, happdVars>>
     ELSE EndWith(k)
  /\ UNCHANGED <<file, attempts, menuVars>>

\* Any other exception while the session is open (a frame that is not an
\* object, say): the session is closed on the way to the last except clause.
Unexpected(k) ==
  /\ pc[k] \in {"await", "hold"}
  /\ CloseSession(k)
  /\ Fail(k)
  /\ UNCHANGED <<file, attempts, menuVars>>

\* The process is killed (logout, SIGKILL): the kernel closes its socket.
Crash(k) ==
  /\ pc[k] \notin {"unspawned", "done", "dead"}
  /\ CloseSession(k)
  /\ Gone(k, "dead")
  /\ UNCHANGED <<file, menuVars>>

KeeperStep(k) ==
  \/ Claim(k) \/ PrepareRejected(k) \/ ServerMissing(k)
  \/ OpenAndStart(k) \/ OpenFails(k)
  \/ AckStarted(k) \/ AckFailed(k) \/ AckTimeout(k) \/ AwaitLost(k)
  \/ CheckOwner(k) \/ WriteOwn(k)
  \/ HoldSuperseded(k) \/ HoldIfaceGone(k) \/ HoldStopped(k) \/ HoldDied(k)
  \/ Wake(k)

-----------------------------------------------------------------------------
(* happd and xray (external).                                              *)

\* A start under the same process id silently replaces the old process.
HappdStart(k) ==
  /\ k \in requests
  /\ requests' = requests \ {k}
  /\ proc' = [owner |-> k, phase |-> "starting"]
  /\ Deliver(k, "started")
  /\ UNCHANGED <<file, keeperVars, sessions, menuVars>>

HappdRefuse(k) ==
  /\ k \in requests
  /\ requests' = requests \ {k}
  /\ Deliver(k, "failed")
  /\ UNCHANGED <<file, keeperVars, sessions, proc, menuVars>>

\* happd goes down: every session is cut and every process with it.
HappdRestart ==
  /\ sessions # {}
  /\ sessions' = {}
  /\ requests' = {}
  /\ inbox' = [k \in Keepers |->
                 IF k \in sessions THEN Append(inbox[k], "eof") ELSE inbox[k]]
  /\ proc' = NoProc
  /\ UNCHANGED <<file, keeperVars, menuVars>>

XrayUp ==
  /\ proc # NoProc
  /\ proc.phase = "starting"
  /\ proc' = [proc EXCEPT !.phase = "up"]
  /\ UNCHANGED <<file, keeperVars, sessions, requests, inbox, menuVars>>

\* A stopped xray exits and its owner is told; a reaped one has no owner left.
XrayExits ==
  /\ proc # NoProc
  /\ proc.phase \in {"term", "reap"}
  /\ proc' = NoProc
  /\ IF proc.phase = "term" THEN Deliver(proc.owner, "term") ELSE UNCHANGED inbox
  /\ UNCHANGED <<file, keeperVars, sessions, requests, menuVars>>

XrayCrashes ==
  /\ Live(proc)
  /\ proc' = NoProc
  /\ Deliver(proc.owner, "crash")
  /\ UNCHANGED <<file, keeperVars, sessions, requests, menuVars>>

\* "happd occasionally kills the managed xray without telling us".
XrayVanishes ==
  /\ Live(proc)
  /\ proc' = NoProc
  /\ UNCHANGED <<file, keeperVars, sessions, requests, inbox, menuVars>>

HappdStep == (\E k \in Keepers : HappdStart(k) \/ HappdRefuse(k)) \/ XrayUp \/ XrayExits

Fault ==
  \/ HappdRestart \/ XrayCrashes \/ XrayVanishes
  \/ \E k \in Keepers : Crash(k) \/ Unexpected(k)

-----------------------------------------------------------------------------
(* Menu processes.                                                         *)

\* Outcomes of asking happd to stop what it runs: nothing seen (or happd
\* unreachable), a stop that was lost, a stop that took effect.
AskToStop ==
  \/ UNCHANGED proc
  \/ Live(proc) /\ proc' = [proc EXCEPT !.phase = "term"]

StartConnect(m) ==
  /\ mpc[m] = "idle"
  /\ \E k \in Keepers : pc[k] = "unspawned"
  /\ mpc' = [mpc EXCEPT ![m] = "stop"]
  /\ UNCHANGED <<file, keeperVars, happdVars, mk>>

\* _stop_running; its bounded wait for the interface may end either way.
StopRunning(m) ==
  /\ mpc[m] = "stop"
  /\ AskToStop
  /\ mpc' = [mpc EXCEPT ![m] = "spawn"]
  /\ UNCHANGED <<file, keeperVars, sessions, requests, inbox, mk>>

\* _headless_connect: unlink the state file, spawn the keeper.
SpawnKeeper(m) ==
  /\ mpc[m] = "spawn"
  /\ \E k \in Keepers :
       /\ pc[k] = "unspawned"
       /\ SetPC(k, "claim")
       /\ mk' = [mk EXCEPT ![m] = k]
  /\ file' = NoFile
  /\ mpc' = [mpc EXCEPT ![m] = "poll"]
  /\ UNCHANGED <<attempts, state, happdVars>>

\* No process is left to spawn in this bounded instance.
NoneLeft(m) ==
  /\ mpc[m] = "spawn"
  /\ \A k \in Keepers : pc[k] # "unspawned"
  /\ mpc' = [mpc EXCEPT ![m] = "idle"]
  /\ UNCHANGED <<file, keeperVars, happdVars, mk>>

Return(m) ==
  /\ mpc' = [mpc EXCEPT ![m] = "idle"]
  /\ mk' = [mk EXCEPT ![m] = NoKeeper]

\* _await_keeper: whatever record the file holds is the verdict, once it says
\* "connected", "error" or "exited" ...
PollDecides(m) ==
  /\ mpc[m] = "poll"
  /\ file # NoFile
  /\ file.status # "connecting"
  /\ Return(m)
  /\ UNCHANGED <<file, keeperVars, happdVars>>

\* ... or the deadline passes.
PollTimeout(m) ==
  /\ mpc[m] = "poll"
  /\ Return(m)
  /\ UNCHANGED <<file, keeperVars, happdVars>>

\* disconnect: unlink the state file first, then stop what happd runs.
StartDisconnect(m) ==
  /\ mpc[m] = "idle"
  /\ file' = NoFile
  /\ mpc' = [mpc EXCEPT ![m] = "dstop"]
  /\ UNCHANGED <<keeperVars, happdVars, mk>>

DisconnectStop(m) ==
  /\ mpc[m] = "dstop"
  /\ AskToStop
  /\ mpc' = [mpc EXCEPT ![m] = "idle"]
  /\ UNCHANGED <<file, keeperVars, sessions, requests, inbox, mk>>

MenuStep(m) ==
  \/ StopRunning(m) \/ SpawnKeeper(m) \/ NoneLeft(m)
  \/ PollDecides(m) \/ PollTimeout(m) \/ DisconnectStop(m)

User(m) == StartConnect(m) \/ StartDisconnect(m)

Next ==
  \/ \E k \in Keepers : KeeperStep(k)
  \/ HappdStep
  \/ Fault
  \/ \E m \in Menus : MenuStep(m) \/ User(m)

Spec == Init /\ [][Next]_vars

\* Processes are scheduled and timeouts fire; happd answers and xray, told to
\* stop, exits.  Users and faults owe nothing.
Fairness ==
  /\ \A k \in Keepers : WF_vars(KeeperStep(k))
  /\ WF_vars(HappdStep)
  /\ \A m \in Menus : WF_vars(MenuStep(m))

FairSpec == Spec /\ Fairness

-----------------------------------------------------------------------------
(* Properties.                                                             *)

\* Every variable keeps its type.
TypeOK ==
  /\ file \in Records \union {NoFile}
  /\ pc \in [Keepers -> KeeperPCs]
  /\ attempts \in [Keepers -> 0..MaxAttempts]
  /\ state \in [Keepers -> States]
  /\ sessions \subseteq Keepers
  /\ requests \subseteq sessions
  /\ inbox \in [Keepers -> Seq(Frames)]
  /\ proc \in Procs \union {NoProc}
  /\ mpc \in [Menus -> MenuPCs]
  /\ mk \in [Menus -> Keepers \union {NoKeeper}]

\* A keeper in one of these is still going to read its session, or to close it.
Attending == {"await", "check", "write", "hold"}

\* No orphan tunnel: an xray that nobody asked to stop belongs to a keeper that
\* has its session open and is on a path of run_keeper that ends in closing it.
XrayAttended ==
  Live(proc) => proc.owner \in sessions /\ pc[proc.owner] \in Attending

\* Whatever way run_keeper ended, the record it leaves behind says so: the menu
\* never finds "connecting" or "connected" signed by a keeper that finished.
FinishedLeavesExited ==
  \A k \in Keepers : pc[k] = "done" /\ Owns(k) => file.status = "exited"

\* A keeper that has lost the state file while it held its session or slept is
\* out: it never goes for another start, and nothing it still writes can be taken
\* for a connection.  ("never ... a sleeping keeper behind to resurrect")
NoResurrection ==
  \A k \in Keepers :
    [](pc[k] \in {"hold", "sleep"} /\ ~Owns(k)
         => [](pc[k] # "open" /\ (Owns(k) => file.status \in {"error", "exited"})))

\* Nobody is on the way to anything, and what is held is what is recorded.
Settled ==
  /\ \A k \in Keepers :
       /\ pc[k] \in {"unspawned", "hold", "done", "dead"}
       /\ pc[k] = "hold" => Owns(k) /\ Live(proc) /\ proc.owner = k
  /\ file # NoFile /\ pc[file.pid] # "dead" =>
       file.status = IF pc[file.pid] = "hold" THEN "connected" ELSE "exited"
  /\ proc # NoProc => proc.phase = "up" /\ pc[proc.owner] = "hold"

\* Whatever the menus do and whatever faults happen, once they stop the keepers
\* agree: at most one holds the tunnel, and the state file names it.
Converges == <>[]Settled

\* The slot that happd keeps for one xray: who runs in it, who may still start.
SlotHolder == IF Live(proc) THEN proc.owner ELSE NoKeeper
Ended == {k \in Keepers : pc[k] \in {"done", "dead"}}

Slot == INSTANCE TunnelSlot WITH
  Nobody <- NoKeeper,
  holder <- SlotHolder, armed <- requests, tries <- attempts, over <- Ended

\* The keepers implement the slot: every xray answers one try of a keeper that
\* is still there, and no keeper tries more than MaxAttempts times.
ImplementsSlot == Slot!Spec

\* What the code's comments promise and its runs refute.

\* "a rejected config fails the connect with xray's own error": a verdict taken
\* from the menu's own keeper after it recorded a reason reports that reason.
ReasonIsReported ==
  [][\A m \in Menus :
       PollDecides(m) /\ file.pid = mk[m] /\ file.reason => file.status = "error"]_vars

\* "a disconnect (state unlinked) ends this one whatever happd says": out of a
\* removed file no keeper makes a "connected" record of its own.
DisconnectEnds ==
  [][file = NoFile /\ file' # NoFile => file'.status # "connected"]_vars
=============================================================================
