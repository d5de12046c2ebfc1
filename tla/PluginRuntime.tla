--------------------------- MODULE PluginRuntime ---------------------------
(* The processes of plugins (ndimon-state, domains/plugins/runtime.rs).  The  *)
(* control process keeps one session per running plugin: a reconcile loop     *)
(* stops sessions that failed or are no longer wanted and spawns activation   *)
(* tasks for those that are missing; an activation runs the enable hook of a  *)
(* freshly installed version once, starts the unit through privd, answers the *)
(* handshake with the committed state and registers the session; HTTP         *)
(* commands travel through the session and their proposals are committed with *)
(* compare-and-set.  All of these run concurrently with the state actor.      *)
(*                                                                            *)
(* One plugin is modelled.  A revision stands for the state subtree that was  *)
(* committed with it.                                                         *)
EXTENDS Naturals, Sequences

CONSTANTS PrQueue,     \* capacity of a session's queue of calls
          PrChanges,   \* commands, settings changes and installs
          PrFaults     \* crashes, silent processes, refused starts, lost events

ASSUME PrAssumption == PrQueue \in Nat \ {0} /\ PrChanges \in Nat /\ PrFaults \in Nat

VARIABLES pDoc,    \* what the state actor has committed
          pLoop,   \* the reconcile loop and its event subscription
          pTask,   \* the activation task
          pConn,   \* the entry of Manager.connections and its session
          pProc,   \* the plugin's process
          pCmd,    \* a plugin command in progress
          pHooks,  \* ghost: enable hooks granted, and run
          pLeft    \* the bounds still unspent

prVars == <<pDoc, pLoop, pTask, pConn, pProc, pCmd, pHooks, pLeft>>
-----------------------------------------------------------------------------
PrRevs == 0 .. PrChanges
PrVersions == {1, 2}

PrCalls == [kind : {"start"}, rev : PrRevs, who : {"task", "sync", "command"}]
             \cup [kind : {"stop"}, who : {"loop"}]
             \cup [kind : {"command"}, who : {"caller", "nobody"}]

NoTask == [at |-> "none", pend |-> FALSE, version |-> 1, rev |-> 0]
NoSession == [open |-> FALSE, version |-> 1, alive |-> FALSE, calls |-> <<>>]
NoProcess == [up |-> FALSE, version |-> 1, view |-> 0, own |-> "no"]
NoCommand == [at |-> "none", expects |-> 0, base |-> 0]

PrTypeOK ==
    /\ pDoc \in [rev : PrRevs, enabled : BOOLEAN, version : PrVersions, job : BOOLEAN,
                 seen : PrVersions, pend : BOOLEAN, failed : BOOLEAN]
    /\ pLoop \in [at : {"look", "stop", "remove", "halt", "spawn", "wait"}, failed : BOOLEAN,
                  events : BOOLEAN, lagged : BOOLEAN, holds : BOOLEAN, up : BOOLEAN,
                  saw : {"no", "run", "hook"}, version : PrVersions]
    /\ pTask \in [at : {"none", "gate", "hook", "await", "check", "open", "accept", "register",
                        "start", "fail", "ended", "broke"},
                  pend : BOOLEAN, version : PrVersions, rev : PrRevs]
    /\ pConn \in [open : BOOLEAN, version : PrVersions, alive : BOOLEAN, calls : Seq(PrCalls)]
    /\ Len(pConn.calls) <= PrQueue
    /\ pProc \in [up : BOOLEAN, version : PrVersions, view : PrRevs,
                 own : {"no", "asked", "stray"}]
    /\ pCmd \in [at : {"none", "call", "commit", "resync", "resyncing"}, expects : PrRevs, base : PrRevs]
    /\ pHooks \in [granted : Nat, run : Nat]
    /\ pLeft \in [changes : PrRevs, faults : 0 .. PrFaults]

PrInit ==
    /\ pDoc \in [rev : {0}, enabled : BOOLEAN, version : {1}, job : {FALSE},
                 seen : {1}, pend : {FALSE}, failed : {FALSE}]
    /\ pLoop = [at |-> "look", failed |-> FALSE, events |-> FALSE, lagged |-> FALSE,
                holds |-> FALSE, up |-> TRUE, saw |-> "no", version |-> 1]
    /\ pTask = NoTask /\ pConn = NoSession /\ pProc = NoProcess /\ pCmd = NoCommand
    /\ pHooks = [granted |-> 0, run |-> 0]
    /\ pLeft = [changes |-> PrChanges, faults |-> PrFaults]

PrUp == pLoop.up
PrChange == pLeft.changes > 0 /\ pLeft' = [pLeft EXCEPT !.changes = @ - 1]
PrFault == pLeft.faults > 0 /\ pLeft' = [pLeft EXCEPT !.faults = @ - 1]
-----------------------------------------------------------------------------
(* The state actor.                                                           *)

\* Anything else that commits this plugin's subtree: a restore, a proposal.
ChangeState ==
    /\ PrUp /\ PrChange
    /\ pDoc' = [pDoc EXCEPT !.rev = @ + 1]
    /\ pLoop' = [pLoop EXCEPT !.events = TRUE]
    /\ UNCHANGED <<pTask, pConn, pProc, pCmd, pHooks>>

\* `apply` of a command that takes the process away: stop_process removes the
\* session and has the unit stopped.
Quiesced == pConn' = NoSession /\ pProc' = NoProcess

\* The plugin is disabled or, without a hook of its own, enabled again.
SetEnabled ==
    /\ PrUp /\ ~pDoc.job /\ PrChange
    /\ pDoc' = [pDoc EXCEPT !.enabled = ~@, !.failed = FALSE]
    /\ pLoop' = [pLoop EXCEPT !.events = TRUE]
    /\ IF pDoc.enabled THEN Quiesced ELSE UNCHANGED <<pConn, pProc>>
    /\ UNCHANGED <<pTask, pCmd, pHooks>>

\* A newer version is installed as a job; the version is accepted with the job
\* and its enable hook is left for the next activation.
Install ==
    /\ PrUp /\ ~pDoc.job /\ pDoc.version = 1 /\ PrChange
    /\ pDoc' = [pDoc EXCEPT !.version = 2, !.enabled = TRUE, !.job = TRUE]
    /\ pLoop' = [pLoop EXCEPT !.events = TRUE]
    /\ Quiesced
    /\ UNCHANGED <<pTask, pCmd, pHooks>>

\* The job ends: an install leaves the activation pending, a hook nothing.
JobEnds ==
    /\ PrUp /\ pDoc.job
    /\ pDoc' = [pDoc EXCEPT !.job = FALSE, !.seen = pDoc.version,
                            !.pend = IF pDoc.seen # pDoc.version THEN TRUE ELSE @]
    /\ pHooks' = IF pDoc.seen # pDoc.version THEN [pHooks EXCEPT !.granted = @ + 1] ELSE pHooks
    /\ pLoop' = [pLoop EXCEPT !.events = TRUE]
    /\ UNCHANGED <<pTask, pConn, pProc, pCmd, pLeft>>
-----------------------------------------------------------------------------
(* Sessions.                                                                  *)

\* What Connection.sender.try_send does: a full queue ends the session.
Enqueued(call) ==
    IF ~pConn.alive THEN pConn
    ELSE IF Len(pConn.calls) < PrQueue THEN [pConn EXCEPT !.calls = Append(@, call)]
    ELSE [pConn EXCEPT !.alive = FALSE, !.calls = <<>>]

Enqueues == pConn.alive /\ Len(pConn.calls) < PrQueue

\* Is a call of this kind still unanswered?
Waiting(call) == \E i \in DOMAIN pConn.calls : pConn.calls[i] = call

\* The call of a plugin command, which its caller may have stopped waiting for.
Commanded(who) == [kind |-> "command", who |-> who]

\* The process answers the call at the head of the queue.  To a command it answers
\* with a proposal, which nobody commits once the caller has given up.
Answer ==
    /\ PrUp /\ pConn.alive /\ pConn.calls # <<>> /\ pProc.up
    /\ LET call == Head(pConn.calls)
       IN /\ pProc' = CASE call.kind = "start" -> [pProc EXCEPT !.view = call.rev, !.own = "no"]
                        [] call = Commanded("caller") -> [pProc EXCEPT !.own = "asked"]
                        [] call = Commanded("nobody") -> [pProc EXCEPT !.own = "stray"]
                        [] OTHER -> pProc
          /\ pCmd' = IF call = Commanded("caller") /\ pCmd.at = "call"
                     THEN [pCmd EXCEPT !.at = "commit", !.base = pProc.view] ELSE pCmd
    /\ pConn' = [pConn EXCEPT !.calls = Tail(@)]
    /\ UNCHANGED <<pDoc, pLoop, pTask, pHooks, pLeft>>

\* A call fails or its deadline passes: the session ends, and with it every
\* call that is queued.
Abandoned(conn) == [conn EXCEPT !.alive = FALSE, !.calls = <<>>]

Unanswered ==
    /\ PrUp /\ pConn.alive /\ pConn.calls # <<>>
    /\ IF pProc.up THEN PrFault ELSE UNCHANGED pLeft
    /\ pConn' = Abandoned(pConn)
    /\ UNCHANGED <<pDoc, pLoop, pTask, pProc, pCmd, pHooks>>

\* The reader finds the socket of a dead process closed.
Disconnected ==
    /\ PrUp /\ pConn.alive /\ ~pProc.up
    /\ pConn' = [pConn EXCEPT !.alive = FALSE, !.calls = <<>>]
    /\ UNCHANGED <<pDoc, pLoop, pTask, pProc, pCmd, pHooks, pLeft>>

ProcessDies ==
    /\ pProc.up /\ PrFault
    /\ pProc' = NoProcess
    /\ UNCHANGED <<pDoc, pLoop, pTask, pConn, pCmd, pHooks>>
-----------------------------------------------------------------------------
(* The reconcile loop.                                                        *)

\* A session that failed, or that the committed state no longer wants.
Unwanted(failed) == failed \/ ~pDoc.enabled \/ pDoc.version # pConn.version

\* What the snapshot says of a plugin that is not being started: that it should
\* run, after its enable hook or without one, or that it should not.
Pending == pDoc.seen # pDoc.version \/ pDoc.pend
Seen ==
    IF pTask.at \notin {"none", "ended", "broke"} \/ pDoc.job \/ ~pDoc.enabled THEN "no"
    ELSE IF Pending THEN "hook"
    ELSE IF pDoc.failed THEN "no" ELSE "run"

\* The loop takes a snapshot, which its later steps go by.
LoopLooks ==
    /\ PrUp /\ pLoop.at = "look"
    /\ pTask' = IF pTask.at \in {"ended", "broke"} THEN NoTask ELSE pTask
    /\ LET failed == pConn.open /\ ~pConn.alive
       IN pLoop' = [pLoop EXCEPT
            !.at = IF pConn.open /\ Unwanted(failed) THEN "stop" ELSE "spawn",
            !.failed = failed, !.saw = Seen, !.version = pDoc.version,
            !.holds = @ \/ pTask.at = "broke"]
    /\ UNCHANGED <<pDoc, pConn, pProc, pCmd, pHooks, pLeft>>

\* Manager::stop: the process is told, the session dropped, the unit stopped.
LoopStops ==
    /\ PrUp /\ pLoop.at = "stop"
    /\ pConn' = Enqueued([kind |-> "stop", who |-> "loop"])
    /\ pLoop' = [pLoop EXCEPT !.at = "remove"]
    /\ UNCHANGED <<pDoc, pTask, pProc, pCmd, pHooks, pLeft>>

\* The call is answered, or given up behind others in the queue.
LoopRemoves ==
    /\ PrUp /\ pLoop.at = "remove"
    /\ IF Waiting([kind |-> "stop", who |-> "loop"]) THEN PrFault ELSE UNCHANGED pLeft
    /\ pConn' = NoSession
    /\ pLoop' = [pLoop EXCEPT !.at = "halt"]
    /\ UNCHANGED <<pDoc, pTask, pProc, pCmd, pHooks>>

LoopHalts ==
    /\ PrUp /\ pLoop.at = "halt"
    /\ pProc' = NoProcess
    /\ pLoop' = [pLoop EXCEPT !.at = "spawn", !.holds = @ \/ pLoop.failed, !.failed = FALSE]
    /\ UNCHANGED <<pDoc, pTask, pConn, pCmd, pHooks, pLeft>>

\* A plugin that should run by the snapshot, whose version the host still has, and
\* that has no session now and is not waiting for its retry.
Missing ==
    /\ pLoop.saw # "no" /\ pLoop.version = pDoc.version
    /\ ~pConn.open /\ ~pLoop.holds

LoopSpawns ==
    /\ PrUp /\ pLoop.at = "spawn"
    /\ pTask' = IF Missing
                THEN [at |-> "gate", pend |-> pLoop.saw = "hook", version |-> pLoop.version,
                      rev |-> 0]
                ELSE pTask
    /\ pLoop' = [pLoop EXCEPT !.at = "wait", !.saw = "no"]
    /\ UNCHANGED <<pDoc, pConn, pProc, pCmd, pHooks, pLeft>>

\* An event of the plugins domain: the committed state goes to the process.
LoopHears ==
    /\ PrUp /\ pLoop.at = "wait" /\ pLoop.events /\ ~pLoop.lagged
    /\ pConn' = IF pDoc.enabled
                THEN Enqueued([kind |-> "start", rev |-> pDoc.rev, who |-> "sync"]) ELSE pConn
    /\ pLoop' = [pLoop EXCEPT !.at = "look", !.events = FALSE]
    /\ UNCHANGED <<pDoc, pTask, pProc, pCmd, pHooks, pLeft>>

\* Events were missed: every session is stopped, and started anew.
AfterEventsLost == IF pConn.open THEN "stop" ELSE "look"

LoopLags ==
    /\ PrUp /\ pLoop.at = "wait" /\ pLoop.lagged
    /\ pLoop' = [pLoop EXCEPT !.at = AfterEventsLost, !.events = FALSE, !.lagged = FALSE]
    /\ UNCHANGED <<pDoc, pTask, pConn, pProc, pCmd, pHooks, pLeft>>

\* It looks again every quarter of a second.
LoopWakes ==
    /\ PrUp /\ pLoop.at = "wait"
    /\ pLoop' = [pLoop EXCEPT !.at = "look"]
    /\ UNCHANGED <<pDoc, pTask, pConn, pProc, pCmd, pHooks, pLeft>>

RetryFallsDue ==
    /\ PrUp /\ pLoop.holds
    /\ pLoop' = [pLoop EXCEPT !.holds = FALSE]
    /\ UNCHANGED <<pDoc, pTask, pConn, pProc, pCmd, pHooks, pLeft>>

EventsLost ==
    /\ PrUp /\ pLoop.events /\ ~pLoop.lagged /\ PrFault
    /\ pLoop' = [pLoop EXCEPT !.lagged = TRUE]
    /\ UNCHANGED <<pDoc, pTask, pConn, pProc, pCmd, pHooks>>

LoopStep ==
    LoopLooks \/ LoopStops \/ LoopRemoves \/ LoopHalts \/ LoopSpawns \/ LoopHears \/ LoopLags \/ LoopWakes
-----------------------------------------------------------------------------
(* An activation (activate, launch).                                          *)

TaskTo(at) == pTask' = [pTask EXCEPT !.at = at]
Superseded == ~pDoc.enabled \/ pDoc.version # pTask.version

\* A mutant: the pending activation is left for after its hook.
ConsumedLater(doc) == [doc EXCEPT !.failed = TRUE]

\* The pending activation is used up before its hook runs, so that a crash in
\* between leaves an error for the operator and never a second run.
Consumed(doc) == [doc EXCEPT !.seen = doc.version, !.pend = FALSE, !.failed = TRUE]

TaskGate ==
    /\ PrUp /\ pTask.at = "gate"
    /\ IF ~pTask.pend THEN TaskTo("check") /\ UNCHANGED pDoc
       ELSE IF Superseded THEN TaskTo("ended") /\ UNCHANGED pDoc
       ELSE /\ ~pDoc.job
            /\ pDoc' = Consumed(pDoc)
            /\ TaskTo("hook")
    /\ UNCHANGED <<pLoop, pConn, pProc, pCmd, pHooks, pLeft>>

\* The enable hook is submitted like any other enable: refused while another
\* job runs or once superseded, otherwise a job of its own.
TaskHook ==
    /\ PrUp /\ pTask.at = "hook"
    /\ IF pDoc.job \/ Superseded
       THEN TaskTo("broke") /\ UNCHANGED <<pDoc, pHooks>>
       ELSE /\ pDoc' = [pDoc EXCEPT !.job = TRUE]
            /\ pHooks' = [pHooks EXCEPT !.run = @ + 1]
            /\ TaskTo("await")
    /\ UNCHANGED <<pLoop, pConn, pProc, pCmd, pLeft>>

\* The job's result clears the error, if the version is still the one.
TaskAwait ==
    /\ PrUp /\ pTask.at = "await" /\ ~pDoc.job
    /\ pDoc' = IF pDoc.version = pTask.version
               THEN [Consumed(pDoc) EXCEPT !.failed = FALSE] ELSE pDoc
    /\ TaskTo("check")
    /\ UNCHANGED <<pLoop, pConn, pProc, pCmd, pHooks, pLeft>>

\* launch: the state it will send is read before the unit is started.
TaskCheck ==
    /\ PrUp /\ pTask.at = "check"
    /\ pTask' = IF Superseded THEN [pTask EXCEPT !.at = "ended"]
                ELSE [pTask EXCEPT !.at = "open", !.rev = pDoc.rev]
    /\ UNCHANGED <<pDoc, pLoop, pConn, pProc, pCmd, pHooks, pLeft>>

\* PluginRuntimeStart: whatever version is on the host is what runs.
TaskOpens ==
    /\ PrUp /\ pTask.at = "open"
    /\ pProc' = [up |-> TRUE, version |-> pDoc.version, view |-> pTask.rev, own |-> "no"]
    /\ TaskTo("accept")
    /\ UNCHANGED <<pDoc, pLoop, pConn, pCmd, pHooks, pLeft>>

TaskStartRefused ==
    /\ PrUp /\ pTask.at = "open" /\ PrFault
    /\ TaskTo("fail")
    /\ UNCHANGED <<pDoc, pLoop, pConn, pProc, pCmd, pHooks>>

\* The handshake: identity and version must be the manifest's.
TaskAccepts ==
    /\ PrUp /\ pTask.at = "accept"
    /\ IF pProc.up /\ pProc.version = pTask.version THEN TaskTo("register") ELSE TaskTo("fail")
    /\ UNCHANGED <<pDoc, pLoop, pConn, pProc, pCmd, pHooks, pLeft>>

TaskRegisters ==
    /\ PrUp /\ pTask.at = "register"
    /\ pConn' = [open |-> TRUE, version |-> pTask.version, alive |-> TRUE,
                 calls |-> <<[kind |-> "start", rev |-> pTask.rev, who |-> "task"]>>]
    /\ TaskTo("start")
    /\ UNCHANGED <<pDoc, pLoop, pProc, pCmd, pHooks, pLeft>>

TaskStarted ==
    /\ PrUp /\ pTask.at = "start"
    /\ ~Waiting([kind |-> "start", rev |-> pTask.rev, who |-> "task"])
    /\ IF pConn.alive THEN TaskTo("ended") ELSE TaskTo("fail")
    /\ UNCHANGED <<pDoc, pLoop, pConn, pProc, pCmd, pHooks, pLeft>>

\* A launch that failed has its unit stopped.
TaskFails ==
    /\ PrUp /\ pTask.at = "fail"
    /\ pProc' = NoProcess
    /\ TaskTo("broke")
    /\ UNCHANGED <<pDoc, pLoop, pConn, pCmd, pHooks, pLeft>>

TaskStep ==
    TaskGate \/ TaskHook \/ TaskAwait \/ TaskCheck \/ TaskOpens \/ TaskAccepts
        \/ TaskRegisters \/ TaskStarted \/ TaskFails
-----------------------------------------------------------------------------
(* Plugin commands (plugin_command).                                          *)

CmdBegins ==
    /\ PrUp /\ pCmd.at = "none" /\ ~pDoc.job /\ pDoc.enabled /\ pConn.alive /\ PrChange
    /\ pConn' = Enqueued(Commanded("caller"))
    /\ pCmd' = IF Enqueues THEN [at |-> "call", expects |-> pDoc.rev, base |-> 0] ELSE NoCommand
    /\ UNCHANGED <<pDoc, pLoop, pTask, pProc, pHooks>>

\* The session ended with the call.
CmdDropped ==
    /\ PrUp /\ pCmd.at = "call" /\ ~Waiting(Commanded("caller"))
    /\ pCmd' = NoCommand
    /\ UNCHANGED <<pDoc, pLoop, pTask, pConn, pProc, pHooks, pLeft>>

\* The caller's own limit, which counts from when the call was queued, has passed, or
\* the client went away: the command is dropped where it waits.  The call stays queued,
\* and a proposal that was made is neither committed nor refused.
GivenUp(call) == IF call = Commanded("caller") THEN Commanded("nobody") ELSE call

CmdGivesUp ==
    /\ PrUp /\ pCmd.at # "none" /\ PrFault
    /\ pCmd' = NoCommand
    /\ pConn' = [pConn EXCEPT !.calls = [i \in DOMAIN @ |-> GivenUp(@[i])]]
    /\ pProc' = IF pCmd.at # "call" /\ pProc.own = "asked"
                THEN [pProc EXCEPT !.own = "stray"] ELSE pProc
    /\ UNCHANGED <<pDoc, pLoop, pTask, pHooks>>

\* The proposal is committed if nothing was committed since it was asked for;
\* the process then has what is committed.
CmdCommits ==
    /\ PrUp /\ pCmd.at = "commit" /\ pDoc.rev = pCmd.expects
    /\ pDoc' = [pDoc EXCEPT !.rev = @ + 1]
    /\ pLoop' = [pLoop EXCEPT !.events = TRUE]
    /\ pProc' = IF pProc.own = "asked"
                THEN [pProc EXCEPT !.view = pDoc.rev + 1, !.own = "no"] ELSE pProc
    /\ pCmd' = NoCommand
    /\ UNCHANGED <<pTask, pConn, pHooks, pLeft>>

\* A mutant: a refused proposal is only reported.
RefusalOnly == NoCommand

\* A refused proposal: the process is given the committed state again.
AfterRefusal == [pCmd EXCEPT !.at = "resync"]

\* Refused: the subtree was committed since, or the reply is not valid, or a
\* commit of another domain moved the revision, which sends no event here.
CmdRefused ==
    /\ PrUp /\ pCmd.at = "commit"
    /\ IF pDoc.rev # pCmd.expects THEN UNCHANGED pLeft ELSE PrChange
    /\ pCmd' = AfterRefusal
    /\ UNCHANGED <<pDoc, pLoop, pTask, pConn, pProc, pHooks>>

CmdReads ==
    /\ PrUp /\ pCmd.at = "resync"
    /\ pCmd' = [pCmd EXCEPT !.at = "resyncing", !.base = pDoc.rev]
    /\ UNCHANGED <<pDoc, pLoop, pTask, pConn, pProc, pHooks, pLeft>>

CmdResyncs ==
    /\ PrUp /\ pCmd.at = "resyncing"
    /\ pConn' = Enqueued([kind |-> "start", rev |-> pCmd.base, who |-> "command"])
    /\ pCmd' = NoCommand
    /\ UNCHANGED <<pDoc, pLoop, pTask, pProc, pHooks, pLeft>>

CmdStep == CmdDropped \/ CmdCommits \/ CmdRefused \/ CmdReads \/ CmdResyncs
-----------------------------------------------------------------------------
\* The control process dies; plugin units are bound to it and stop.
ControlDies ==
    /\ PrUp /\ PrFault
    /\ pLoop' = [pLoop EXCEPT !.at = "look", !.failed = FALSE, !.events = FALSE, !.lagged = FALSE,
                              !.holds = FALSE, !.up = FALSE, !.saw = "no"]
    /\ pTask' = NoTask /\ pConn' = NoSession /\ pProc' = NoProcess /\ pCmd' = NoCommand
    /\ UNCHANGED <<pDoc, pHooks>>

ControlStarts ==
    /\ ~PrUp
    /\ pLoop' = [pLoop EXCEPT !.up = TRUE]
    /\ UNCHANGED <<pDoc, pTask, pConn, pProc, pCmd, pHooks, pLeft>>

PrNext ==
    \/ ChangeState \/ SetEnabled \/ Install \/ JobEnds
    \/ Answer \/ Unanswered \/ Disconnected \/ ProcessDies
    \/ LoopStep \/ RetryFallsDue \/ EventsLost
    \/ TaskStep \/ TaskStartRefused
    \/ CmdBegins \/ CmdStep \/ CmdGivesUp
    \/ ControlDies \/ ControlStarts

\* Tasks run on the executor, calls have deadlines, timers fire, systemd
\* restarts the service, jobs end (PluginJobs).
PrFair ==
    /\ WF_prVars(LoopStep) /\ WF_prVars(TaskStep) /\ WF_prVars(CmdStep)
    /\ SF_prVars(LoopHears) /\ SF_prVars(LoopLags)
    /\ WF_prVars(Answer \/ Unanswered) /\ WF_prVars(Disconnected)
    /\ WF_prVars(RetryFallsDue) /\ WF_prVars(JobEnds) /\ WF_prVars(ControlStarts)
-----------------------------------------------------------------------------
(* Properties.                                                                *)

\* The enable hook of an installed version, which runs as root, is not run a
\* second time because the control process died, or was superseded, halfway.
HookRunsOnce == pHooks.run <= pHooks.granted

\* A plugin that stays enabled, with no activation that failed, comes to have a
\* living session with a process of the accepted version, whatever crashed.
EnabledComesUp ==
    <>[](pDoc.enabled /\ ~pDoc.failed)
        => []<>(pConn.alive /\ pProc.up /\ pConn.version = pDoc.version
                    /\ pProc.version = pDoc.version)

\* A plugin that stays disabled comes to have neither session nor process, even
\* one whose launch was under way.
DisabledGoesDown == <>[](~pDoc.enabled) => <>[](~pConn.open /\ ~pProc.up)

\* A process does not stay with a proposal of its own that was refused, as long as
\* the caller waits for the answer.
RefusedIsForgotten == []<>(pProc.own # "asked")

\* "If a request fails or times out the host drops the session."  It does not when the
\* request times out in the queue, and the process then keeps what it proposed.
StraysAreForgotten == []<>(pProc.own # "stray")

\* "`start`: after the handshake, after a reconnect, and whenever the plugins
\* domain changes. Always carries the complete committed subtree."
ProcessSeesCommitted == <>[](pConn.alive => pProc.view = pDoc.rev)

\* What the plugin runtime promises of the hooks it runs as root.
RuntimePromises == PrTypeOK /\ HookRunsOnce

\* What it promises to get done: processes follow the committed document.
ProcessesFollow == EnabledComesUp /\ DisabledGoesDown /\ RefusedIsForgotten
=============================================================================
