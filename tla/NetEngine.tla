------------------------------- MODULE NetEngine -------------------------------
(***************************************************************************)
(* The network engine's journaled transaction (ndimon-netengine): a change *)
(* is journaled, applied to the host part by part, and kept only by one    *)
(* replacement of the authority's decision; otherwise its before-images    *)
(* are restored, by a timer, by the operator or by the next boot.  Every   *)
(* entry point takes the engine's lock without waiting, so one operation   *)
(* runs at a time; each may die at every step, every step may fail with or *)
(* without its effect, and the host may reboot.                            *)
(***************************************************************************)
EXTENDS Naturals, Sequences

CONSTANTS
    Nets,          \* network documents
    MaxJobs,       \* bound on transactions staged
    MaxFaults,     \* bound on steps that fail
    MaxCrashes,    \* bound on operations that die
    MaxBoots,      \* bound on reboots
    MaxWrites      \* bound on unrelated writes of the state actor

ASSUME EngineAssumption ==
    /\ Nets # {} /\ "none" \notin Nets
    /\ MaxJobs \in Nat /\ MaxFaults \in Nat /\ MaxCrashes \in Nat
    /\ MaxBoots \in Nat /\ MaxWrites \in Nat

VARIABLES
    saved,      \* the authority's Commit: revision, profiles, transaction, decision revision
    journal,    \* pending.json
    last,       \* last.json
    host,       \* which document each part of the host's configuration is of
    media,      \* do the units that use the network run?
    timers,     \* transient systemd timers armed for the journal's job
    op,         \* the operation that holds the engine's lock
    pc,         \* its next step
    step,       \* the part of the host it is at
    j,          \* its copy of the journal
    due,        \* has the journal's deadline passed?
    fresh,      \* is the journal of this boot?
    booted,     \* has the boot oneshot succeeded?
    excuse,     \* history: "resumed" after a failed recovery, "accepted" by the operator
    jobs, faults, crashes, boots, writes     \* counters of the bounds

env == <<jobs, crashes, boots, writes>>
clock == <<due, fresh, booted>>
proc == <<op, pc, step, j>>
vars == <<saved, journal, last, host, media, timers, op, pc, step, j, due, fresh, booted,
          excuse, jobs, faults, crashes, boots, writes>>

Phases == {"staged", "applying", "applied", "confirmed", "reverting", "reverted", "expired",
           "failed"}
Parts == {"table", "files", "live", "bind"}

\* `run_apply_job` puts the guard in place before the addressing and publishes
\* the bindings last; `recover_locked` restores the addressing under the
\* candidate's guard; `accept_current` leaves the live addressing alone.
ApplyOrderGuardLate == <<"files", "live", "table", "bind">>   \* Defect: the guard after the addressing
ApplyOrder == <<"table", "files", "live", "bind">>
RestoreOrder == <<"files", "live", "table", "bind">>
AcceptOrder == <<"files", "table", "bind">>

Commit == [rev : Nat, net : Nets \cup {"none"}, txn : Nat, netrev : Nat]
Journal == [id : Nat, base : Commit, cand : Nets \cup {"none"}, phase : Phases, outcome : Phases,
            pending : BOOLEAN, media : BOOLEAN, old : [Parts -> Nets \cup {"none"}]]
Blank == [id |-> 0, base |-> [rev |-> 0, net |-> "none", txn |-> 0, netrev |-> 0],
          cand |-> "none", phase |-> "staged", outcome |-> "expired",
          pending |-> FALSE, media |-> FALSE,
          old |-> [p \in Parts |-> "none"]]            \* there is no pending.json

Ops == {"none", "stage", "apply", "recover", "revert", "confirm", "accept", "boot"}
Points == {"idle", "s_write", "s_guard", "s_apply", "a_mark", "a_stop", "a_part", "a_start",
           "a_done", "a_window", "a_fail", "r_mark", "r_retry", "r_stop", "r_part", "r_again",
           "r_start",
           "r_last", "r_remove", "r_fail", "u_last", "u_remove", "k_cas", "k_mark", "c_clean",
           "c_last", "c_remove", "x_stop", "x_part", "x_start", "b_guard"}
Timers == {"apply", "guard", "window", "retry"}
Recovering == {"guard", "window", "retry"}     \* timers that run `network-job recover`

TypeOK ==
    /\ saved \in Commit /\ saved.net \in Nets /\ journal \in Journal /\ j \in Journal
    /\ last \in [id : Nat, phase : Phases]
    /\ host \in [Parts -> Nets \cup {"none"}]
    /\ media \in {"running", "stopped"}
    /\ timers \subseteq Timers
    /\ op \in Ops /\ pc \in Points /\ step \in 1 .. 4
    /\ due \in BOOLEAN /\ fresh \in BOOLEAN /\ booted \in BOOLEAN
    /\ excuse \in {"none", "resumed", "accepted"}
    /\ jobs \in Nat /\ faults \in Nat /\ crashes \in Nat /\ boots \in Nat /\ writes \in Nat

Init ==
    /\ saved \in [rev : {0}, net : Nets, txn : {0}, netrev : {0}]
    /\ journal = Blank /\ j = Blank /\ last = [id |-> 0, phase |-> "confirmed"]
    /\ host = [p \in Parts |-> saved.net] /\ media = "running"
    /\ timers = {}
    /\ op = "none" /\ pc = "idle" /\ step = 1
    /\ due = FALSE /\ fresh = TRUE /\ booted = TRUE /\ excuse = "none"
    /\ jobs = 0 /\ faults = 0 /\ crashes = 0 /\ boots = 0 /\ writes = 0

-------------------------------------------------------------------------------
(* Steps that may fail.  `Root::replace` renames and then syncs the           *)
(* directory, and a tool may act before it reports an error or times out, so  *)
(* a failure may leave the effect behind ("late") or not ("lost").            *)

Outcomes == IF faults < MaxFaults THEN {"ok", "lost", "late"} ELSE {"ok"}
Count(r) == faults' = IF r = "ok" THEN faults ELSE faults + 1
Stored(r, old, new) == IF r = "lost" THEN old ELSE new

WriteJournal(r, e) == journal' = Stored(r, journal, e) /\ Count(r)
Arm(r, k) == timers' = Stored(r, timers, timers \cup {k}) /\ Count(r)
SetPart(r, p, n) == host' = Stored(r, host, [host EXCEPT ![p] = n]) /\ Count(r)
SetMedia(r, m) == media' = Stored(r, media, m) /\ Count(r)

\* Starting the units; at boot they are only queued behind the oneshot itself.
StartMedia(r) == SetMedia(r, IF op = "boot" THEN "stopped" ELSE "running")

To(l) == pc' = l /\ UNCHANGED <<op, j, step>>

\* The operation returns, with or without an error, and drops the lock.
Leave == pc' = "idle" /\ op' = "none" /\ j' = Blank /\ step' = 1

\* A transaction was resolved; the boot oneshot goes on to the guards.
Done == IF op = "boot" THEN pc' = "b_guard" /\ j' = Blank /\ step' = 1 /\ UNCHANGED op
        ELSE Leave

Taken == op = "none" /\ journal.id # 0

\* The operator's requests come through control, which waits for the oneshot.
Asked == Taken /\ booted

-------------------------------------------------------------------------------
(* Decisions.                                                                 *)

\* `next_commit`.
NextCommit(e) == [rev |-> e.base.rev + 1, net |-> e.cand, txn |-> e.id,
                  netrev |-> e.base.rev + 1]

\* `committed`: the decision is this transaction's, whatever other writes followed.
Committed(e) == /\ saved.rev >= e.base.rev + 1
                /\ saved = [NextCommit(e) EXCEPT !.rev = saved.rev]

Late == due \/ ~fresh

\* `recover_locked` up to its first write.
Recover(o, e, out) ==
    /\ op' = o /\ step' = 1
    /\ j' = [e EXCEPT !.outcome = out]
    /\ pc' = IF Committed(e) THEN "c_clean"
             ELSE IF e.phase = "staged" THEN "u_last" ELSE "r_mark"

\* The before-image of a part: what the plan found, and for the live addressing
\* the previous document activated again.
Before(e, p) == IF p = "live" THEN e.base.net ELSE e.old[p]

Enter(o, l) == op' = o /\ pc' = l /\ j' = journal /\ step' = 1

-------------------------------------------------------------------------------
(* Staging.                                                                   *)

\* `stage` under the lock: nothing is pending and the boot oneshot has run.
Stage(n) ==
    /\ op = "none" /\ journal.id = 0 /\ booted
    /\ n # saved.net
    /\ jobs < MaxJobs /\ jobs' = jobs + 1
    /\ op' = "stage" /\ pc' = "s_write" /\ step' = 1
    /\ j' = [id |-> jobs + 1, base |-> saved, cand |-> n, phase |-> "staged",
             outcome |-> "expired", pending |-> FALSE, media |-> FALSE, old |-> host]
    /\ timers' = {}
    /\ UNCHANGED <<saved, journal, last, host, media, clock, excuse, faults, crashes,
                   boots, writes>>

StageWrite ==
    /\ pc = "s_write"
    /\ \E r \in Outcomes :
         /\ WriteJournal(r, j)
         /\ due' = Stored(r, due, FALSE) /\ fresh' = Stored(r, fresh, TRUE)
         /\ IF r = "ok" THEN To("s_guard") ELSE Leave
    /\ UNCHANGED <<saved, last, host, media, timers, booted, excuse, env>>

\* The repeating guard first, then the timer that applies the change.
StageArm(at, k, next) ==
    /\ pc = at
    /\ \E r \in Outcomes :
         /\ Arm(r, k)
         /\ IF r # "ok" THEN /\ pc' = "u_last" /\ j' = [j EXCEPT !.outcome = "failed"]
                             /\ UNCHANGED <<op, step>>
            ELSE IF next = "idle" THEN Leave ELSE To(next)
    /\ UNCHANGED <<saved, journal, last, host, media, clock, excuse, env>>

StageGuard == StageArm("s_guard", "guard", "s_apply")
StageApply == StageArm("s_apply", "apply", "idle")

\* Defect: an outcome of its own for last.json.
UnmodifiedUndefined ==
    /\ pc = "u_last" /\ last' = [id |-> j.id, phase |-> "unmodified"] /\ To("u_remove")
    /\ UNCHANGED <<saved, journal, host, media, timers, clock, excuse, faults, env>>

\* `finish_unmodified`, and the end of `accept_current`: last.json, then pending.json.
Unmodified ==
    /\ pc = "u_last"
    /\ \E r \in Outcomes :
         /\ last' = Stored(r, last, [id |-> j.id, phase |-> j.outcome]) /\ Count(r)
         /\ IF r = "ok" THEN To("u_remove") ELSE Leave
    /\ UNCHANGED <<saved, journal, host, media, timers, clock, excuse, env>>

UnmodifiedRemove ==
    /\ pc = "u_remove"
    /\ \E r \in Outcomes :
         /\ WriteJournal(r, Blank)
         /\ IF r = "ok" THEN Done /\ timers' = {} ELSE Leave /\ UNCHANGED timers
    /\ UNCHANGED <<saved, last, host, media, clock, excuse, env>>

-------------------------------------------------------------------------------
(* Applying: `run_apply_job`, once, from its timer.                           *)

ApplyJob ==
    /\ Taken /\ "apply" \in timers
    /\ timers' = timers \ {"apply"}
    /\ \/ (Committed(journal) \/ Late) /\ Recover("apply", journal, "expired")
       \/ ~Committed(journal) /\ ~Late /\ journal.phase # "staged" /\ UNCHANGED proc
       \/ /\ ~Committed(journal) /\ ~Late /\ journal.phase = "staged"
          /\ \/ saved = journal.base /\ Enter("apply", "a_mark")
             \/ /\ saved # journal.base \/ faults < MaxFaults   \* conflict, or preflight fails
                /\ op' = "apply" /\ pc' = "u_last" /\ step' = 1
                /\ j' = [journal EXCEPT !.outcome = "failed"]
    /\ UNCHANGED <<saved, journal, last, host, media, clock, excuse, faults, env>>

\* The job gives up after ten seconds in which somebody else held the engine's
\* lock or the actor held the decision lock.
ApplyMissed ==
    /\ "apply" \in timers
    /\ timers' = timers \ {"apply"}
    /\ UNCHANGED <<saved, journal, last, host, media, proc, clock, excuse, faults, env>>

Failing(e) == pc' = "a_fail" /\ j' = [e EXCEPT !.outcome = "failed"] /\ UNCHANGED <<op, step>>

\* Defect: the phase is changed in memory only.
ApplyMarkUnsaved ==
    /\ pc = "a_mark"
    /\ pc' = "a_stop" /\ j' = [j EXCEPT !.phase = "applying"]
    /\ UNCHANGED <<op, step, saved, journal, last, host, media, timers, clock, excuse, faults, env>>

\* The journal says "applying" before anything of the host changes.
ApplyMark ==
    /\ pc = "a_mark"
    /\ LET e == [j EXCEPT !.phase = "applying"] IN
       \E r \in Outcomes :
         /\ WriteJournal(r, e)
         /\ IF r = "ok" THEN pc' = "a_stop" /\ j' = e /\ UNCHANGED <<op, step>> ELSE Failing(e)
    /\ UNCHANGED <<saved, last, host, media, timers, clock, excuse, env>>

ApplyStop ==
    /\ pc = "a_stop"
    /\ \E r \in Outcomes :
         /\ SetMedia(r, "stopped")
         /\ IF r = "ok" THEN To("a_part") ELSE Failing(j)
    /\ UNCHANGED <<saved, journal, last, host, timers, clock, excuse, env>>

\* The n-th part of an order is written; the last one leads to `next`.
NextPart(order, next) ==
    IF step < Len(order) THEN step' = step + 1 /\ UNCHANGED <<op, pc, j>>
                         ELSE step' = 1 /\ pc' = next /\ UNCHANGED <<op, j>>

ApplyPart ==
    /\ pc = "a_part"
    /\ \E r \in Outcomes :
         /\ SetPart(r, ApplyOrder[step], j.cand)
         /\ IF r = "ok" THEN NextPart(ApplyOrder, "a_start") ELSE Failing(j)
    /\ UNCHANGED <<saved, journal, last, media, timers, clock, excuse, env>>

ApplyStart ==
    /\ pc = "a_start"
    /\ \E r \in Outcomes :
         /\ SetMedia(r, "running")
         /\ IF r = "ok" THEN To("a_done") ELSE Failing(j)
    /\ UNCHANGED <<saved, journal, last, host, timers, clock, excuse, env>>

\* Readiness is durable, with the confirmation window, before its timer.
ApplyDone ==
    /\ pc = "a_done"
    /\ LET e == [j EXCEPT !.phase = "applied"] IN
       \E r \in Outcomes :
         /\ WriteJournal(r, e)
         /\ due' = Stored(r, due, FALSE)
         /\ IF r = "ok" THEN pc' = "a_window" /\ j' = e /\ UNCHANGED <<op, step>> ELSE Failing(e)
    /\ UNCHANGED <<saved, last, host, media, timers, fresh, booted, excuse, env>>

ApplyWindow ==
    /\ pc = "a_window"
    /\ \E r \in Outcomes :
         /\ Arm(r, "window")
         /\ IF r = "ok" THEN Leave ELSE Failing(j)
    /\ UNCHANGED <<saved, journal, last, host, media, clock, excuse, env>>

\* A failed apply is recorded and recovered in the same operation.
ApplyFails ==
    /\ pc = "a_fail"
    /\ \E r \in Outcomes :
         /\ WriteJournal(r, j)
         /\ IF r = "ok" THEN Recover(op, j, "failed") ELSE Leave
    /\ UNCHANGED <<saved, last, host, media, timers, clock, excuse, env>>

-------------------------------------------------------------------------------
(* Recovering: `recover_locked`.                                              *)

RecoverMark ==
    /\ pc = "r_mark"
    /\ LET e == [j EXCEPT !.phase = "reverting", !.pending = TRUE] IN
       \E r \in Outcomes :
         /\ WriteJournal(r, e)
         /\ IF r = "ok" THEN pc' = "r_retry" /\ j' = e /\ UNCHANGED <<op, step>> ELSE Leave
    /\ UNCHANGED <<saved, last, host, media, timers, clock, excuse, env>>

RecoverRetry ==
    /\ pc = "r_retry"
    /\ \E r \in Outcomes :
         /\ Arm(r, "retry")
         /\ IF r = "ok" THEN To("r_stop") ELSE To("r_fail")
    /\ UNCHANGED <<saved, journal, last, host, media, clock, excuse, env>>

\* Units a failed attempt left running are not stopped for every retry.
RecoverStop ==
    /\ pc = "r_stop"
    /\ IF j.media THEN To("r_part") /\ UNCHANGED <<media, faults>>
       ELSE \E r \in Outcomes :
              SetMedia(r, "stopped") /\ IF r = "ok" THEN To("r_part") ELSE To("r_fail")
    /\ UNCHANGED <<saved, journal, last, host, timers, clock, excuse, env>>

RecoverPart ==
    /\ pc = "r_part"
    /\ \E r \in Outcomes :
         /\ SetPart(r, RestoreOrder[step], Before(j, RestoreOrder[step]))
         /\ IF r = "ok" THEN NextPart(RestoreOrder, IF j.media THEN "r_again" ELSE "r_start")
                        ELSE To("r_fail")
    /\ UNCHANGED <<saved, journal, last, media, timers, clock, excuse, env>>

\* Units a failed attempt left running restart once, on the restored network.
RecoverAgain ==
    /\ pc = "r_again"
    /\ \E r \in Outcomes :
         /\ SetMedia(r, "stopped")
         /\ IF r = "ok" THEN To("r_start") ELSE To("r_fail")
    /\ UNCHANGED <<saved, journal, last, host, timers, clock, excuse, env>>

\* Defect: the units stopped for a recovery are not started after it.
RecoverStartForgotten ==
    /\ pc = "r_start" /\ To("r_last")
    /\ UNCHANGED <<saved, journal, last, host, media, timers, clock, excuse, faults, env>>

RecoverStart ==
    /\ pc = "r_start"
    /\ \E r \in Outcomes :
         /\ StartMedia(r)
         /\ IF r = "ok" THEN To("r_last") ELSE To("r_fail")
    /\ UNCHANGED <<saved, journal, last, host, timers, clock, excuse, env>>

RecoverLast ==
    /\ pc = "r_last"
    /\ \E r \in Outcomes :
         /\ last' = Stored(r, last, [id |-> j.id, phase |-> j.outcome]) /\ Count(r)
         /\ IF r = "ok" THEN To("r_remove") ELSE To("r_fail")
    /\ UNCHANGED <<saved, journal, host, media, timers, clock, excuse, env>>

RecoverRemove ==
    /\ pc = "r_remove"
    /\ \E r \in Outcomes :
         /\ WriteJournal(r, Blank)
         /\ IF r = "ok"
            THEN /\ Done /\ timers' = {}
                 /\ excuse' = IF \A p \in Parts : Before(j, p) = j.base.net THEN "none" ELSE excuse
            ELSE To("r_fail") /\ UNCHANGED <<timers, excuse>>
    /\ UNCHANGED <<saved, last, host, media, clock, env>>

\* The failure path: the media run again, the journal is kept and says so.  At
\* boot this is the recovery's own failure, and the boot goes on.
RecoverFails ==
    /\ pc = "r_fail"
    /\ media' = IF op = "boot" THEN "stopped" ELSE "running"
    /\ excuse' = IF excuse = "none" THEN "resumed" ELSE excuse
    /\ LET e == [j EXCEPT !.phase = "failed", !.pending = TRUE, !.media = TRUE] IN
       \E r \in Outcomes :
         /\ WriteJournal(r, e)
         /\ IF op = "boot" THEN pc' = "b_guard" /\ j' = e /\ step' = 1 /\ UNCHANGED op
            ELSE Leave
    /\ UNCHANGED <<saved, last, host, timers, clock, env>>

\* Defect: a transaction whose deadline has passed only gets its window again.
RecoverJobRearms ==
    /\ Taken /\ timers \cap Recovering # {} /\ ~Committed(journal)
    /\ timers' = timers \cup {"window"}
    /\ UNCHANGED <<proc, saved, journal, last, host, media, clock, excuse, faults, env>>

\* `run_recovery`, from any of the repeating timers, early or late.
RecoverJob ==
    /\ Taken /\ timers \cap Recovering # {}
    /\ \/ Committed(journal) /\ Enter("recover", "c_clean") /\ UNCHANGED timers
       \/ /\ ~Committed(journal) /\ ~Late /\ ~journal.pending
          /\ timers' = timers \cup {"window"} /\ UNCHANGED proc
       \/ /\ ~Committed(journal) /\ (Late \/ journal.pending)
          /\ Recover("recover", journal, IF journal.pending THEN journal.outcome ELSE "expired")
          /\ UNCHANGED timers
    /\ UNCHANGED <<saved, journal, last, host, media, clock, excuse, faults, env>>

-------------------------------------------------------------------------------
(* The operator: Keep, Revert, and accepting what a failed recovery left.     *)

\* Defect: Keep before the change has been applied.
ConfirmEarly ==
    /\ Asked /\ ~Committed(journal) /\ ~journal.pending /\ ~Late
    /\ Enter("confirm", "k_cas")
    /\ UNCHANGED <<saved, journal, last, host, media, timers, clock, excuse, faults, env>>

\* `confirm` up to the decision; refusals change nothing.
Confirm ==
    /\ Asked
    /\ \/ Committed(journal) /\ Enter("confirm", "c_clean")
       \/ /\ ~Committed(journal) /\ ~journal.pending /\ Late
          /\ Recover("confirm", journal, "expired")
       \/ /\ ~Committed(journal) /\ ~journal.pending /\ ~Late /\ journal.phase = "applied"
          /\ Enter("confirm", "k_cas")
    /\ UNCHANGED <<saved, journal, last, host, media, timers, clock, excuse, faults, env>>

\* `compare_and_commit`.  An error is resolved by reading the decision again; a
\* read that fails too leaves the transaction to a later operation.
Keep ==
    /\ pc = "k_cas"
    /\ \/ /\ saved = j.base
          /\ \E r \in Outcomes :
               /\ saved' = Stored(r, saved, NextCommit(j)) /\ Count(r)
               /\ \/ r # "lost" /\ To("k_mark")
                  \/ r # "ok" /\ Leave
       \/ saved # j.base /\ Leave /\ UNCHANGED <<saved, faults>>
    /\ UNCHANGED <<journal, last, host, media, timers, clock, excuse, env>>

KeepMark ==
    /\ pc = "k_mark"
    /\ LET e == [j EXCEPT !.phase = "confirmed"] IN
       \E r \in Outcomes :
         /\ WriteJournal(r, e)
         /\ pc' = "c_clean" /\ j' = e /\ UNCHANGED <<op, step>>
    /\ UNCHANGED <<saved, last, host, media, timers, clock, excuse, env>>

\* `finish_committed`: cleanup only, retried until it is done.
Cleanup(at, next) ==
    /\ pc = at
    /\ \E r \in Outcomes :
         /\ last' = Stored(IF at = "c_last" THEN r ELSE "lost", last,
                           [id |-> j.id, phase |-> "confirmed"])
         /\ Count(r)
         /\ IF r = "ok" THEN To(next) ELSE Leave
    /\ UNCHANGED <<saved, journal, host, media, timers, clock, excuse, env>>

FinishClean == Cleanup("c_clean", "c_last")
FinishLast == Cleanup("c_last", "c_remove")

FinishRemove ==
    /\ pc = "c_remove"
    /\ \E r \in Outcomes :
         /\ WriteJournal(r, Blank)
         /\ IF r = "ok" THEN Done /\ timers' = {} /\ excuse' = "none"
                        ELSE Leave /\ UNCHANGED <<timers, excuse>>
    /\ UNCHANGED <<saved, last, host, media, clock, env>>

\* `revert` and the privileged `rollback`.
Revert ==
    /\ Asked
    /\ Recover("revert", journal, "reverted")
    /\ UNCHANGED <<saved, journal, last, host, media, timers, clock, excuse, faults, env>>

\* `accept_current`: only after a recovery has failed.
Accept ==
    /\ Asked
    /\ \/ Committed(journal) /\ Enter("accept", "c_clean") /\ UNCHANGED excuse
       \/ /\ ~Committed(journal) /\ journal.pending /\ journal.phase = "failed"
          /\ op' = "accept" /\ pc' = "x_stop" /\ step' = 1
          /\ j' = [journal EXCEPT !.outcome = "failed"]
          /\ excuse' = "accepted"
    /\ UNCHANGED <<saved, journal, last, host, media, timers, clock, faults, env>>

AcceptStop ==
    /\ pc = "x_stop"
    /\ \E r \in Outcomes : SetMedia(r, "stopped")
    /\ To("x_part")
    /\ UNCHANGED <<saved, journal, last, host, timers, clock, excuse, env>>

AcceptPart ==
    /\ pc = "x_part"
    /\ \E r \in Outcomes : SetPart(r, AcceptOrder[step], Before(j, AcceptOrder[step]))
    /\ NextPart(AcceptOrder, "x_start")
    /\ UNCHANGED <<saved, journal, last, media, timers, clock, excuse, env>>

AcceptStart ==
    /\ pc = "x_start"
    /\ \E r \in Outcomes : SetMedia(r, "running")
    /\ To("u_last")
    /\ UNCHANGED <<saved, journal, last, host, timers, clock, excuse, env>>

-------------------------------------------------------------------------------
(* Boot, and what happens to the engine.                                      *)

\* Defect: the oneshot leaves a pending transaction to its timers.
BootGuardsOnly ==
    /\ op = "none" /\ ~booted /\ Enter("boot", "b_guard")
    /\ UNCHANGED <<saved, journal, last, host, media, timers, clock, excuse, faults, env>>

\* The boot oneshot, retried until it succeeds.
Boot ==
    /\ op = "none" /\ ~booted
    /\ IF journal.id = 0 THEN Enter("boot", "b_guard")
       ELSE Recover("boot", journal, "expired")
    /\ UNCHANGED <<saved, journal, last, host, media, timers, clock, excuse, faults, env>>

\* The decision's guards, then the stack is queued.  After a failed recovery the
\* guards are best effort.
BootGuard ==
    /\ pc = "b_guard"
    /\ \E r \in Outcomes :
         /\ SetPart(r, "table", saved.net)
         /\ IF r = "ok" \/ j.phase = "failed"
            THEN booted' = TRUE /\ media' = "running" ELSE UNCHANGED <<booted, media>>
    /\ Leave
    /\ UNCHANGED <<saved, journal, last, timers, due, fresh, excuse, env>>

\* An operation is killed, or its process dies.
Crash ==
    /\ op # "none" /\ crashes < MaxCrashes
    /\ crashes' = crashes + 1
    /\ Leave
    /\ UNCHANGED <<saved, journal, last, host, media, timers, clock, excuse, jobs, faults,
                   boots, writes>>

\* A reboot: files stay and become the live addressing; the nft table, the timers
\* and every process are gone.
Reboot ==
    /\ boots < MaxBoots /\ boots' = boots + 1
    /\ Leave
    /\ host' = [host EXCEPT !["live"] = host["files"], !["table"] = "none"]
    /\ media' = "stopped" /\ timers' = {} /\ booted' = FALSE
    /\ fresh' = FALSE
    /\ UNCHANGED <<saved, journal, last, due, excuse, jobs, faults, crashes, writes>>

\* The journal's deadline passes.
Tick ==
    /\ journal.id # 0 /\ ~due
    /\ due' = TRUE
    /\ UNCHANGED <<saved, journal, last, host, media, timers, proc, fresh, booted, excuse,
                   faults, env>>

\* The actor commits something else: the revision moves, the decision stays.
ActorWrite ==
    /\ writes < MaxWrites /\ writes' = writes + 1
    /\ saved' = [saved EXCEPT !.rev = saved.rev + 1]
    /\ UNCHANGED <<journal, last, host, media, timers, proc, clock, excuse, faults, jobs,
                   crashes, boots>>

-------------------------------------------------------------------------------
StepNext ==
    \/ StageWrite \/ StageGuard \/ StageApply \/ Unmodified \/ UnmodifiedRemove
    \/ ApplyMark \/ ApplyStop \/ ApplyPart \/ ApplyStart \/ ApplyDone \/ ApplyWindow \/ ApplyFails
    \/ RecoverMark \/ RecoverRetry \/ RecoverStop \/ RecoverPart \/ RecoverAgain \/ RecoverStart \/ RecoverLast
    \/ RecoverRemove \/ RecoverFails
    \/ Keep \/ KeepMark \/ FinishClean \/ FinishLast \/ FinishRemove
    \/ AcceptStop \/ AcceptPart \/ AcceptStart \/ BootGuard

Next ==
    \/ StepNext
    \/ \E n \in Nets : Stage(n)
    \/ ApplyJob \/ ApplyMissed \/ RecoverJob \/ Confirm \/ Revert \/ Accept \/ Boot
    \/ Crash \/ Reboot \/ Tick \/ ActorWrite

Spec == Init /\ [][Next]_vars

-------------------------------------------------------------------------------
(* Properties.                                                                *)

Of(n) == \A p \in Parts : host[p] = n

\* With nothing pending the host is configured as the decision says: every change
\* was kept whole or undone whole, through failures, crashes and reboots
\* (engine.rs `finish_unmodified`, `finish_committed`, `recover_locked`).
RestMatchesDecision ==
    op = "none" /\ journal.id = 0 /\ booted /\ excuse # "accepted" => Of(saved.net)

\* Once the decision names a transaction, nothing takes its configuration back,
\* however often its cleanup fails or is repeated (engine.rs `committed`).
KeptNotUndone ==
    journal.id # 0 /\ saved.txn = journal.id
      => host["files"] = saved.net /\ host["live"] = saved.net /\ host["bind"] = saved.net

\* The host and the decision go together, at rest and while a kept change is
\* cleaned up.
HostFollowsDecision == RestMatchesDecision /\ KeptNotUndone

\* Candidate addressing is live only behind the candidate's guard, while it is
\* applied and while it is undone (engine.rs `run_apply_job`, `recover_locked`).
NewAddressesGuarded ==
    journal.id # 0 /\ fresh /\ excuse # "accepted" /\ host["live"] = journal.cand
      => host["table"] = journal.cand

\* The units that use the network run only on a network that is of one document,
\* unless a recovery has failed (engine.rs `stop_consumers`, NI-17 D14).
MediaOnWholeNetwork ==
    media = "running" /\ excuse = "none" => \E n \in Nets : Of(n)

\* Only a network that is applied completely is ever kept.
KeepsOnlyApplied == [][saved'.txn # saved.txn => Of(saved'.net)]_vars

\* In the boot that staged it, a transaction that has touched the host is watched
\* by a timer that undoes it, whatever was killed or failed (engine.rs
\* `stage_transaction`: the guard is armed before the apply timer).
TouchedIsWatched ==
    op = "none" /\ fresh /\ journal.id # 0 /\ journal.phase # "staged"
      => timers \cap Recovering # {}

\* What protects the media path and the host while addresses change.
ChangeIsGuarded == NewAddressesGuarded /\ MediaOnWholeNetwork /\ TouchedIsWatched

\* A journal whose recovery has failed is retried (privd network.rs: "it retries
\* every ten seconds").
FailedRecoveryRetries ==
    op = "none" /\ booted /\ journal.id # 0 /\ journal.phase = "failed"
      => timers \cap Recovering # {}

-------------------------------------------------------------------------------
(* Liveness.  An operation that runs goes on, a repeating timer keeps firing,  *)
(* systemd retries the boot oneshot, and deadlines pass.  Failures, crashes    *)
(* and reboots are bounded, so each run says what happens once they stop.      *)

Fairness == /\ WF_vars(StepNext) /\ WF_vars(RecoverJob) /\ WF_vars(Boot) /\ WF_vars(Tick)
            /\ WF_vars(ApplyJob)

FairSpec == Spec /\ Fairness

\* The recovery that nothing retries, which FailedRecoveryRetries is about.  The
\* journal says "reverting" when the write of the failure failed as well.
Unretried ==
    booted /\ journal.phase \in {"reverting", "failed"} /\ timers \cap Recovering = {}

\* A transaction with a recovery timer is resolved: kept, undone or accepted,
\* without anybody asking for it.
Resolved == journal.id # 0 /\ timers \cap Recovering # {} ~> journal.id = 0 \/ Unretried

\* After a reboot no transaction of an earlier boot stays undecided (engine.rs
\* `boot_locked`).
StartsClean == ~booted ~> booted /\ (journal.id = 0 \/ Unretried)

\* The units that use the network do not stay stopped, except after the operator
\* has accepted the network as it is: `accept_current` starts them once and does
\* not look at the outcome.
MediaReturn == media = "stopped" ~> media = "running" \/ Unretried \/ excuse = "accepted"

\* All three: nothing waits for somebody who is gone.
RecoveryEnds == Resolved /\ StartsClean /\ MediaReturn
================================================================================
