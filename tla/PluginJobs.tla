------------------------------ MODULE PluginJobs ------------------------------
(***************************************************************************)
(* A plugin lifecycle operation (install, update or remove) as a job that  *)
(* outlives its caller.  The state actor reserves `plugin_job` durably,    *)
(* asks privd to start a root unit, and records the unit's name with the   *)
(* accepted intent; an observer outside the actor polls the unit and       *)
(* submits its outcome.  The acknowledgement may be lost or late, control  *)
(* and the unit may die, and /run, where units leave their results, is     *)
(* lost at a reboot.                                                       *)
(***************************************************************************)
EXTENDS Naturals, FiniteSets

CONSTANTS
    MaxOps,        \* bound on lifecycle commands accepted by the guard
    LostPolls,     \* LOST_POLLS: polls in a row that find a job gone (3 in the code)
    MaxTroubles    \* bound on calls, applies and commits that fail, on deaths of control
                   \* and of units, and on reboots, taken together

ASSUME JobsAssumption ==
    MaxOps \in Nat /\ LostPolls \in Nat \ {0} /\ MaxTroubles \in Nat

Ops == 1 .. MaxOps

VARIABLES
    reg,        \* document.plugins: the operation whose intent is accepted
    job,        \* plugin_job
    results,    \* plugin_results
    up,         \* is the control process up
    actor,      \* what the actor is doing: "idle", "reserved" or "started"
    ops,        \* lifecycle commands so far
    unit,       \* what has become of each operation's unit
    stop,       \* units systemd was asked to stop
    file,       \* result files under /run
    host,       \* the package on the host, the one set aside, and is it marked .broken
    ended,      \* ghost: how each unit's work ended, known to itself
    pc,         \* where the observer is: "look", "file", "unit" or "tell"
    snap,       \* the plugin_job it saw
    first,      \* has it not yet looked since control started
    lost,       \* polls in a row that found the job gone
    asked,      \* the job it has asked to cancel
    out,        \* the outcome it submits
    stray,      \* ghost: operations whose record was dropped before it named their unit
    waived,     \* ghost: operations the operator cancelled before they had a unit's name
    harmed,     \* ghost: has a unit been ended that nobody asked to stop
    troubles    \* what has gone wrong so far

durable == <<reg, job, results>>
root == <<unit, stop, file, host, ended>>
observer == <<pc, snap, first, lost, asked, out>>
ghosts == <<stray, waived, harmed>>
vars == <<durable, up, actor, ops, root, observer, ghosts, troubles>>

NoJob == [id |-> 0, op |-> 0, prev |-> 0, inv |-> FALSE, cancelled |-> FALSE]

(* `id` is the unit's name, 0 is "unknown"; `op` stands for the action.    *)
PendingJob == [id : 0 .. MaxOps, op : 0 .. MaxOps, prev : 0 .. MaxOps,
               inv : BOOLEAN, cancelled : BOOLEAN]
Outcomes == {"none", "ok", "err", "unknown"}
Active == {"waiting", "inside", "good", "bad"}
UnitStates == {"none", "sent", "gone"} \cup Active

DurableType ==
    /\ reg \in 0 .. MaxOps /\ job \in PendingJob
    /\ results \in [Ops -> {"none", "ok", "err", "inv"}]
ActorType == up \in BOOLEAN /\ actor \in {"idle", "reserved", "started"} /\ ops \in 0 .. MaxOps
RootType ==
    /\ unit \in [Ops -> UnitStates] /\ stop \subseteq Ops
    /\ file \in [Ops -> {"none", "ok", "err"}]
    /\ host \in [ver : 0 .. MaxOps, old : 0 .. MaxOps, broken : BOOLEAN]
    /\ ended \in [Ops -> {"none", "good", "bad"}]
ObserverType ==
    /\ pc \in {"look", "file", "unit", "tell"} /\ snap \in PendingJob
    /\ first \in BOOLEAN /\ lost \in 0 .. LostPolls /\ asked \in 0 .. MaxOps /\ out \in Outcomes
GhostType ==
    /\ stray \subseteq Ops /\ waived \subseteq Ops /\ harmed \in BOOLEAN
    /\ troubles \in 0 .. MaxTroubles

(* Every variable has its type.                                            *)
TypeOK == DurableType /\ ActorType /\ RootType /\ ObserverType /\ GhostType

Init ==
    /\ reg = 0 /\ job = NoJob /\ results = [n \in Ops |-> "none"]
    /\ up = TRUE /\ actor = "idle" /\ ops = 0
    /\ unit = [n \in Ops |-> "none"] /\ stop = {} /\ file = [n \in Ops |-> "none"]
    /\ host = [ver |-> 0, old |-> 0, broken |-> FALSE] /\ ended = [n \in Ops |-> "none"]
    /\ pc = "look" /\ snap = NoJob /\ first = TRUE /\ lost = 0 /\ asked = 0 /\ out = "none"
    /\ stray = {} /\ waived = {} /\ harmed = FALSE /\ troubles = 0

(* Is there still something at privd that will change the host for n?      *)
Alive(n) == unit[n] \in Active \cup {"sent"}

(* The ghost of a record that is dropped before it names the unit.         *)
Dropped == stray' = IF job.id = 0 /\ unit[job.op] # "none" THEN stray \cup {job.op} ELSE stray

Trouble == troubles < MaxTroubles /\ troubles' = troubles + 1
NoTrouble == troubles' = troubles

-------------------------------------------------------------------------------
(* The actor: submit.                                                      *)

\* `guard`: a lifecycle command competes with the job that is recorded.
Free == job = NoJob

\* `submit` up to `reserve`: the job is durable before any privileged effect.
Submit ==
    /\ up /\ actor = "idle" /\ ops < MaxOps /\ Free
    /\ ops' = ops + 1
    /\ job' = [id |-> 0, op |-> ops + 1, prev |-> reg, inv |-> FALSE, cancelled |-> FALSE]
    /\ actor' = "reserved"
    /\ UNCHANGED <<reg, results, up, root, observer, ghosts, troubles>>

\* `restore`: a reservation whose failure is certain is released.
Release == job' = NoJob /\ Dropped

\* Something fails before privd is asked, or privd refuses to start the unit.
Refused ==
    /\ up /\ actor = "reserved" /\ Trouble
    /\ Release /\ actor' = "idle"
    /\ UNCHANGED <<reg, results, up, ops, root, observer, waived, harmed>>

\* The request reaches privd; the acknowledgement comes, or the call times out
\* or fails and is reported as "uncertain:", which keeps the reservation.
Request(late) ==
    /\ up /\ actor = "reserved"
    /\ late => Trouble
    /\ ~late => NoTrouble
    /\ \E u \in IF late THEN {"sent", "none"} ELSE {"waiting"} :
          unit' = [unit EXCEPT ![job.op] = u]
    /\ actor' = IF late THEN "idle" ELSE "started"
    /\ UNCHANGED <<durable, up, ops, stop, file, host, ended, observer, ghosts>>

\* `accepted` and the commit: the unit's name and the new intent are durable.
Accept ==
    /\ up /\ actor = "started"
    /\ job' = [job EXCEPT !.id = job.op] /\ reg' = job.op
    /\ actor' = "idle"
    /\ UNCHANGED <<results, up, ops, root, observer, ghosts, troubles>>

\* After the unit was started another domain's replay fails, or the commit
\* does: `restore` takes the reason for a certain failure.
AcceptFails ==
    /\ up /\ actor = "started" /\ Trouble
    /\ Release /\ actor' = "idle"
    /\ UNCHANGED <<reg, results, up, ops, root, observer, waived, harmed>>

\* CancelPluginJob: stop the unit, if it has a name, and keep the cancel.
Cancel ==
    /\ up /\ actor = "idle" /\ job # NoJob /\ ~job.cancelled
    /\ stop' = IF job.id # 0 THEN stop \cup {job.id} ELSE stop
    /\ job' = [job EXCEPT !.cancelled = TRUE]
    /\ waived' = IF job.id = 0 THEN waived \cup {job.op} ELSE waived
    /\ UNCHANGED <<reg, results, up, actor, ops, unit, file, host, ended, observer, stray, harmed,
                   troubles>>

\* Defect: a parked job takes no outcome, settling or not.
ForOpenJob(settle) == job # NoJob /\ snap.id = job.id /\ ~job.inv

\* `completion`: the outcome is of the recorded job, and an investigation is
\* left alone unless it is being settled.
ForThisJob(settle) == job # NoJob /\ snap.id = job.id /\ (job.inv => settle)

\* `complete`, `completion`, `completed`: a failure restores the intent the job
\* replaced, an unknown outcome parks the job, anything else clears it.
Complete(o) ==
    /\ IF o = "unknown" THEN job' = [job EXCEPT !.inv = TRUE] /\ UNCHANGED stray
                        ELSE job' = NoJob /\ Dropped
    /\ results' = [n \in Ops |-> IF n = job.id THEN IF o = "unknown" THEN "inv" ELSE o
                                 ELSE results[n]]
    /\ reg' = IF o = "err" THEN job.prev ELSE reg

-------------------------------------------------------------------------------
(* The observer: observe_with and settle.                                  *)

\* One look: what the recorded job calls for.
Look ==
    /\ up /\ actor = "idle" /\ pc = "look"
    /\ snap' = job
    /\ lost' = IF job # NoJob /\ ~job.inv THEN lost ELSE 0
    /\ \/ /\ job = NoJob \/ (job.inv /\ ~first /\ ~job.cancelled)      \* nothing to do
          /\ first' = FALSE /\ UNCHANGED <<pc, out>>
       \/ /\ job # NoJob /\ (job.inv => first \/ job.cancelled)
          /\ job.id = 0                                                 \* no unit to ask
          /\ out' = IF job.inv THEN "err" ELSE "unknown"
          /\ pc' = "tell" /\ first' = FALSE
       \/ /\ job # NoJob /\ (job.inv => first \/ job.cancelled)
          /\ job.id # 0
          /\ pc' = "file" /\ UNCHANGED <<first, out>>
    /\ UNCHANGED <<durable, up, actor, ops, root, asked, ghosts, troubles>>

\* Defect: a unit that is gone counts as one that succeeded.
ConcludeOptimist(answer) == IF answer = "active" THEN "none" ELSE IF answer = "err" THEN "err" ELSE "ok"

\* What the observer makes of an answer: "ok" or "err" from a result file,
\* "active", or "ended" without a result.
Conclude(answer) ==
    CASE answer \in {"ok", "err"} -> answer
      [] answer = "active" -> "none"
      [] answer = "ended" /\ (snap.inv \/ snap.cancelled) -> "err"
      [] answer = "ended" /\ ~snap.inv /\ ~snap.cancelled ->
            IF lost + 1 < LostPolls THEN "none" ELSE "unknown"

\* An answer has come.  A job older than 300 s is cancelled once.
Answered(answer) ==
    /\ out' = Conclude(answer)
    /\ pc' = IF out' = "none" THEN "look" ELSE "tell"
    /\ lost' = IF answer = "ended" /\ ~snap.inv /\ ~snap.cancelled /\ lost < LostPolls
              THEN lost + 1 ELSE IF snap.inv \/ answer = "ended" THEN lost ELSE 0
    /\ first' = FALSE
    /\ \/ UNCHANGED <<stop, asked>>
       \/ /\ out' = "none" /\ ~snap.inv /\ asked # snap.id
          /\ stop' = stop \cup {snap.id} /\ asked' = snap.id

\* `job_status`: a result file answers at once.
StatusFile ==
    /\ up /\ pc = "file"
    /\ \/ file[snap.id] # "none" /\ Answered(file[snap.id])
       \/ file[snap.id] = "none" /\ pc' = "unit" /\ UNCHANGED <<out, lost, first, stop, asked>>
    /\ UNCHANGED <<durable, up, actor, ops, unit, file, host, ended, snap, ghosts, troubles>>

\* Defect: a unit that is still being started counts as inactive.
UnitAnswerStarting(n) == IF unit[n] \in Active \ {"waiting"} THEN "active"
                         ELSE IF file[n] # "none" THEN file[n] ELSE "ended"

\* Then the unit's state, and the file once more if the unit is inactive.
UnitAnswer(n) == IF unit[n] \in Active THEN "active"
                 ELSE IF file[n] # "none" THEN file[n] ELSE "ended"

StatusUnit ==
    /\ up /\ pc = "unit"
    /\ Answered(UnitAnswer(snap.id))
    /\ UNCHANGED <<durable, up, actor, ops, unit, file, host, ended, snap, ghosts, troubles>>

\* privd cannot be asked: the next look tries again, as the first one if the
\* first was settling.
StatusFails ==
    /\ up /\ pc \in {"file", "unit"} /\ Trouble
    /\ pc' = "look" /\ first' = (first /\ snap.inv)
    /\ UNCHANGED <<durable, up, actor, ops, root, snap, lost, asked, out, ghosts>>

\* The actor takes the outcome, which may be stale by now.
Tell ==
    /\ up /\ actor = "idle" /\ pc = "tell"
    /\ \/ ForThisJob(snap.inv) /\ Complete(out)
       \/ ~ForThisJob(snap.inv) /\ UNCHANGED <<durable, stray>>
    /\ pc' = "look"
    /\ UNCHANGED <<up, actor, ops, root, waived, harmed, snap, first, lost, asked, out, troubles>>

\* The completion fails and is rolled back; the next look observes again.
TellFails ==
    /\ up /\ actor = "idle" /\ pc = "tell" /\ Trouble
    /\ pc' = "look"
    /\ UNCHANGED <<durable, up, actor, ops, root, snap, first, lost, asked, out, ghosts>>

-------------------------------------------------------------------------------
(* privd and its units.                                                    *)

\* `start_job`: a request whose caller has given up is served all the same,
\* or never is.
Serve(n) ==
    /\ unit[n] = "sent"
    /\ \E u \in {"waiting", "none"} : unit' = [unit EXCEPT ![n] = u]
    /\ UNCHANGED <<durable, up, actor, ops, stop, file, host, ended, observer, ghosts, troubles>>

\* The operation lock is free.
LockFree(n) == \A m \in Ops : unit[m] # "inside"

\* `install` or `uninstall` refuses before it changes anything, or sets the
\* package aside and works on the new one, marked .broken.
Enter(n) ==
    /\ unit[n] = "waiting" /\ LockFree(n)
    /\ \/ /\ unit' = [unit EXCEPT ![n] = "bad"] /\ ended' = [ended EXCEPT ![n] = "bad"]
          /\ UNCHANGED host
       \/ /\ unit' = [unit EXCEPT ![n] = "inside"]
          /\ host' = [ver |-> n, old |-> host.ver, broken |-> TRUE]
          /\ UNCHANGED ended
    /\ UNCHANGED <<durable, up, actor, ops, stop, file, observer, ghosts, troubles>>

\* The hook has run: the mark goes.  Or it has failed: the package that was set
\* aside comes back, if there is one, and the mark stays.
Leave(n) ==
    /\ unit[n] = "inside"
    /\ \E end \in {"good", "bad"} :
          /\ unit' = [unit EXCEPT ![n] = end] /\ ended' = [ended EXCEPT ![n] = end]
          /\ \E v \in IF end = "good" THEN {n} ELSE {host.old, n} :
                host' = [ver |-> v, old |-> 0, broken |-> end = "bad"]
    /\ UNCHANGED <<durable, up, actor, ops, stop, file, observer, ghosts, troubles>>

\* `run_job` stores the result; then the unit is gone.
Report(n) ==
    /\ unit[n] \in {"good", "bad"}
    /\ file' = [file EXCEPT ![n] = IF unit[n] = "good" THEN "ok" ELSE "err"]
    /\ unit' = [unit EXCEPT ![n] = "gone"]
    /\ UNCHANGED <<durable, up, actor, ops, stop, host, ended, observer, ghosts, troubles>>

\* systemd ends a unit it was asked to stop, or one that ran too long or died.
Killed(n) ==
    /\ unit[n] \in Active
    /\ \/ n \in stop /\ NoTrouble /\ UNCHANGED harmed
       \/ n \notin stop /\ Trouble /\ harmed' = TRUE
    /\ unit' = [unit EXCEPT ![n] = "gone"]
    /\ UNCHANGED <<durable, up, actor, ops, stop, file, host, ended, observer, stray, waived>>

-------------------------------------------------------------------------------
Forget == /\ up' = FALSE /\ actor' = "idle"
          /\ pc' = "look" /\ snap' = NoJob /\ first' = TRUE /\ lost' = 0 /\ asked' = 0
          /\ out' = "none"

\* The control process dies; units and results stay.
Crash ==
    /\ up /\ Forget /\ Trouble
    /\ UNCHANGED <<durable, ops, root, ghosts>>

\* A reboot ends every unit and empties /run.
Reboot ==
    /\ Forget /\ Trouble /\ harmed' = TRUE
    /\ unit' = [n \in Ops |-> IF unit[n] = "none" THEN "none" ELSE "gone"]
    /\ file' = [n \in Ops |-> "none"] /\ stop' = {}
    /\ UNCHANGED <<durable, ops, host, ended, stray, waived>>

Restart ==
    /\ ~up /\ up' = TRUE
    /\ UNCHANGED <<durable, actor, ops, root, observer, ghosts, troubles>>

ActorNext == \/ Submit \/ Refused \/ Request(TRUE) \/ Request(FALSE) \/ Accept \/ AcceptFails
             \/ Cancel
ObserverNext == Look \/ StatusFile \/ StatusUnit \/ StatusFails \/ Tell \/ TellFails
UnitNext == \E n \in Ops : Serve(n) \/ Enter(n) \/ Leave(n) \/ Report(n) \/ Killed(n)
Next == ActorNext \/ ObserverNext \/ UnitNext \/ Crash \/ Reboot \/ Restart

Spec == Init /\ [][Next]_vars

(* The observer looks every 250 ms, systemd restarts control, an accepted  *)
(* command runs to its end, and every unit has a runtime limit.            *)
ActorEnds == Request(FALSE) \/ Accept
UnitRuns(n) == Serve(n) \/ Enter(n) \/ Leave(n) \/ Report(n) \/ (n \in stop /\ Killed(n))
Fairness ==
    /\ WF_vars(Look) /\ WF_vars(StatusFile) /\ WF_vars(StatusUnit) /\ WF_vars(Tell)
    /\ WF_vars(ActorEnds) /\ WF_vars(Restart)
    /\ \A n \in Ops : WF_vars(UnitRuns(n))

FairSpec == Spec /\ Fairness

-------------------------------------------------------------------------------
(* A job whose unit has a name is recorded until that unit has ended: no   *)
(* cancel, lost poll, restart or stale outcome drops it before (observe_with, *)
(* completion).                                                            *)
RecordOutlivesUnit ==
    [][job.id # 0 /\ job'.op # job.op => unit[job.id] = "gone"]_vars

(* What a client is told of a job is what its unit found (outcome): success *)
(* only after the work succeeded, and, while /run lasts and no unit is     *)
(* killed before it reports, failure only after it did not.                *)
TruthfulResult ==
    \A n \in Ops :
        /\ results[n] = "ok" => ended[n] = "good"
        /\ results[n] = "err" /\ ~harmed /\ n \notin stop => ended[n] # "good"

(* An outcome that was told is never told differently: a completion that is *)
(* repeated after a crash finds its job gone.                              *)
SettledOnce ==
    [][\A n \in Ops : results[n] \in {"ok", "err"} => results'[n] = results[n]]_vars

(* A job is recorded until its unit has ended, and told of once.           *)
SettledForGood == RecordOutlivesUnit /\ SettledOnce

Quiet == job = NoJob /\ \A n \in Ops : ~Alive(n)

(* Once no job is recorded and no unit runs, the accepted intent is what is *)
(* on the host, or the package is marked .broken.  The exceptions are a    *)
(* unit whose record never named it, one ended before it reported, and a   *)
(* reboot that took its report.                                            *)
IntentMatchesHost ==
    Quiet /\ stray = {} /\ stop = {} /\ ~harmed =>
        host.ver = reg \/ host.broken

(* The client, the registry and the host agree on what a job did.          *)
ResultsAreReal == TruthfulResult /\ IntentMatchesHost

(* One lifecycle operation runs at a time (docs/plugins.md), unless the    *)
(* operator has cancelled one whose unit nobody could name.                *)
OneAtATime == Cardinality({n \in Ops \ waived : unit[n] \in Active}) <= 1

(* The package files of a cancelled job are rolled back by privd           *)
(* (docs/plugins.md): once everything is quiet, no earlier package is left *)
(* set aside.                                                              *)
CancelRollsBack == Quiet => host.old = 0

(* The inductive invariant behind the four safety properties.  A unit, once *)
(* it exists, runs and is gone, and its record keeps what it found.        *)
Began == Active \cup {"gone"}
Unharmed(n) == ~harmed /\ n \notin stop
Clean == stray = {} /\ stop = {} /\ ~harmed

\* The record: an unnamed job has not changed the intent, a named one has, and
\* its unit exists.
RecordInv ==
    /\ job # NoJob => job.op \in 1 .. ops
    /\ job # NoJob /\ job.id = 0 => reg = job.prev
    /\ job.id # 0 => job.id = job.op /\ reg = job.op /\ unit[job.op] \in Began
    /\ actor # "idle" => job # NoJob /\ job.id = 0
    /\ actor = "reserved" => unit[job.op] = "none"
    /\ actor = "started" => unit[job.op] \in Began

\* The unit: its file says how it ended, and only a stop, a death or a reboot
\* ends it without one.
UnitInv == \A n \in Ops :
    /\ n > ops => unit[n] = "none"
    /\ file[n] # "none" => unit[n] = "gone"
    /\ file[n] = "ok" \/ unit[n] = "good" => ended[n] = "good"
    /\ file[n] = "err" \/ unit[n] = "bad" => ended[n] = "bad"
    /\ ended[n] # "none" => unit[n] \in {"good", "bad", "gone"}
    /\ unit[n] = "gone" /\ Unharmed(n) => file[n] # "none"

\* The observer: it asks about units that exist and tells only of units that
\* are gone, and only what they found.
ObserverInv ==
    /\ pc \in {"file", "unit"} => snap.id # 0 /\ unit[snap.id] \in Began
    /\ pc = "tell" =>
          /\ out # "none"
          /\ snap.id = 0 => out # "ok"
          /\ snap.id # 0 =>
                /\ unit[snap.id] = "gone"
                /\ out = "ok" => ended[snap.id] = "good"
                /\ out = "err" /\ Unharmed(snap.id) => ended[snap.id] = "bad"

\* What was told is of a unit that is gone, and its job is not recorded.
ToldInv == \A n \in Ops :
    /\ results[n] # "none" => unit[n] = "gone"
    /\ results[n] \in {"ok", "err"} => job.op # n
    /\ results[n] = "ok" => ended[n] = "good"
    /\ results[n] = "err" /\ Unharmed(n) => ended[n] = "bad"

\* The host: while nothing was dropped, stopped or killed, only the recorded
\* operation can change it, and its progress says what is there.
HostInv == Clean =>
    /\ \A n \in Ops : Alive(n) => n = job.op
    /\ job = NoJob => host.ver = reg \/ host.broken
    /\ job # NoJob =>
          /\ unit[job.op] \in {"none", "sent", "waiting"} \/ ended[job.op] = "bad" =>
                host.ver = job.prev \/ host.broken
          /\ unit[job.op] = "inside" => host.broken
          /\ ended[job.op] = "good" => host.ver = job.op

Inv == RecordInv /\ UnitInv /\ ObserverInv /\ ToldInv /\ HostInv

(* A job with a named unit is completed or parked for the operator,        *)
(* whatever died meanwhile (observe_with).                                 *)
NamedJobEnds == \A n \in Ops : job.id = n ~> job.id # n \/ job.inv

(* A cancelled job is settled, also one that was parked (settle).          *)
CancelSettles == job.cancelled ~> ~job.cancelled

(* No job stays open for ever.                                             *)
JobsEnd == NamedJobEnds /\ CancelSettles
===============================================================================
