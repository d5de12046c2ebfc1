-------------------------------- MODULE Handoff --------------------------------
(***************************************************************************)
(* The transfer of a configured port between two network engines of one    *)
(* host (ndimon-netengine, handoff.rs): R releases, A receives.  NDIMon-R  *)
(* is R or A, a standalone Tessera the other; both halves are modelled     *)
(* from this code.  R offers a document and fences itself (`quiesce`); A   *)
(* takes its own lock and then R's, journals, reserves the transfer in R's *)
(* directory (`external`), and changes the host; its decision to keep is   *)
(* the only one, published to R as `.done` afterwards.  A undone transfer  *)
(* is recorded as undone before R's fence is opened.  A process that holds *)
(* a lock may die at every step, a step may fail, the host may reboot.     *)
(***************************************************************************)
EXTENDS Naturals

CONSTANTS
    MaxOffers,     \* bound on documents R prepares
    MaxChanges,    \* bound on R's own network changes
    HandFaults,    \* bound on steps that fail
    HandCrashes    \* bound on operations that die and on reboots

ASSUME HandoffAssumption ==
    MaxOffers \in Nat /\ MaxChanges \in Nat /\ HandFaults \in Nat /\ HandCrashes \in Nat

VARIABLES
    docs,       \* R: <id>.json of the offers on disk
    quiesce,    \* R: quiesce.json, the offer R has fenced itself for
    external,   \* R: external.json, the transfer A has reserved
    done,       \* R: <id>.done, transfers A has decided
    archived,   \* R: has its network decision been archived?
    rnet,       \* R: its committed network
    offers,     \* ids drawn so far
    pending,    \* A: pending.json
    decision,   \* A: the offer its committed network was received from
    host,       \* whose network the host runs, and whose nft table guards it
    timers,     \* A: are the recovery timers armed?
    late,       \* A: has the journal's deadline passed?
    up,         \* engines whose boot job has run
    run,        \* the operation in progress, its step, and its copy of the journal
    handFaults, handCrashes     \* counters of the bounds

handVars == <<docs, quiesce, external, done, archived, rnet, offers, pending, decision, host,
              timers, late, up, run, handFaults, handCrashes>>
peerFiles == <<docs, quiesce, external, done, archived, rnet, offers>>
limits == <<handFaults, handCrashes>>

None == 0
Ids == 1 .. MaxOffers
NoJournal == [id |-> None, phase |-> "none", before |-> None, undone |-> FALSE, retry |-> FALSE]
Network(owner, version) == [by |-> owner, net |-> version]
Idle == [at |-> "idle", j |-> NoJournal, boot |-> FALSE]
At(step, j) == [at |-> step, j |-> j, boot |-> run.boot]

\* The steps of an operation of A hold A's lock and R's, those of R hold R's:
\* one operation is in progress at a time, and a second one is refused at once.
Free == run = Idle

HandInit ==
    /\ docs = {} /\ quiesce = None /\ external = None /\ done = {} /\ archived = FALSE
    /\ rnet = 1 /\ offers = 0 /\ pending = NoJournal /\ decision = None
    /\ host = [net |-> Network("R", 1), guard |-> "R"]
    /\ timers = FALSE /\ late = FALSE /\ up = {"R", "A"} /\ run = Idle
    /\ handFaults = 0 /\ handCrashes = 0

-----------------------------------------------------------------------------
(* What R's files say of its ownership. *)

ExternallyManaged == external # None /\ external \in done /\ external \in docs
                        /\ quiesce \in {None, external}
Writable == quiesce = None /\ ~ExternallyManaged

CompleteReleaseUnfences ==      \* Defect: the fence goes before the archive
    /\ Free /\ "R" \in up /\ ExternallyManaged /\ quiesce # None
    /\ run' = At("unfence", NoJournal)
    /\ UNCHANGED <<peerFiles, pending, decision, host, timers, late, up, limits>>
\* `complete_release`: R has lost the network.  Its decision is archived before
\* the fence is lifted, so a death in between is resumed.
CompleteRelease ==
    /\ Free /\ "R" \in up /\ ExternallyManaged /\ quiesce # None
    /\ run' = At("archive", NoJournal)
    /\ UNCHANGED <<peerFiles, pending, decision, host, timers, late, up, limits>>
Archive ==
    /\ run.at = "archive"
    /\ archived' = TRUE /\ run' = At("unfence", NoJournal)
    /\ UNCHANGED <<docs, quiesce, external, done, rnet, offers, pending, decision, host, timers,
                   late, up, limits>>

\* `prepare_handoff`: the document, then the marker; an offer that is open is
\* returned as it is.
PrepareHandoff ==
    /\ Free /\ Writable /\ external = None /\ offers < MaxOffers
    /\ offers' = offers + 1 /\ docs' = docs \cup {offers + 1}
    /\ run' = At("fence", NoJournal)
    /\ UNCHANGED <<quiesce, external, done, archived, rnet, pending, decision, host, timers, late,
                   up, limits>>
Fence ==
    /\ run.at = "fence"
    /\ quiesce' = offers /\ run' = Idle
    /\ UNCHANGED <<docs, external, done, archived, rnet, offers, pending, decision, host, timers,
                   late, up, limits>>

\* `cancel_handoff`: refused once A has reserved; the marker goes last.
Cancellable == Free /\ quiesce # None /\ external = None
CancelHandoff ==
    /\ Cancellable
    /\ docs' = docs \ {quiesce} /\ run' = At("unfence", NoJournal)
    /\ UNCHANGED <<quiesce, external, done, archived, rnet, offers, pending, decision, host,
                   timers, late, up, limits>>
Unfence ==
    /\ run.at = "unfence"
    /\ quiesce' = None /\ run' = Idle
    /\ UNCHANGED <<docs, external, done, archived, rnet, offers, pending, decision, host, timers,
                   late, up, limits>>

\* A transaction of R's own network, whole (see NetEngine): refused by `idle`
\* and `ownership` while the fence or the marker is there.
ChangeNetwork ==
    /\ Free /\ Writable /\ external = None /\ "R" \in up /\ rnet < 1 + MaxChanges
    /\ rnet' = rnet + 1 /\ host' = [net |-> Network("R", rnet + 1), guard |-> "R"]
    /\ UNCHANGED <<docs, quiesce, external, done, archived, offers, pending, decision, timers,
                   late, up, run, limits>>

\* R's boot job: guards are rebuilt unless R has lost the network or A has
\* reserved it and orders the recovery.
RebuildsGuards == IF quiesce # None THEN external = None ELSE ~ExternallyManaged
BootReleasing ==
    /\ Free /\ "R" \notin up /\ ~(ExternallyManaged /\ quiesce # None)
    /\ host' = IF RebuildsGuards THEN [host EXCEPT !.guard = "R"] ELSE host
    /\ up' = up \cup {"R"}
    /\ UNCHANGED <<peerFiles, pending, decision, timers, late, run, limits>>
BootCompletes ==
    /\ Free /\ "R" \notin up /\ ExternallyManaged /\ quiesce # None
    /\ up' = up \cup {"R"} /\ run' = At("archive", NoJournal)
    /\ UNCHANGED <<peerFiles, pending, decision, host, timers, late, limits>>

-----------------------------------------------------------------------------
(* A: `commit_handoff`, the apply job, Keep, recovery. *)

Committed(j) == decision = j.id

\* `validate`: a document with its fence; an orphan of either is no offer.
Offered == quiesce # None /\ quiesce \in docs

\* `handoff_plan` and `stage_transaction`: the journal holds R's before-images,
\* then the reservation, then the timers.
CommitHandoff ==
    /\ Free /\ pending = NoJournal /\ decision = None /\ external = None /\ "A" \in up
    /\ Offered
    /\ pending' = [NoJournal EXCEPT !.id = quiesce, !.phase = "staged", !.before = host.net]
    /\ run' = At("reserve", pending') /\ late' = FALSE
    /\ UNCHANGED <<peerFiles, decision, host, timers, up, limits>>
Reserve ==
    /\ run.at = "reserve"
    /\ external' = run.j.id /\ run' = At("arm", run.j)
    /\ UNCHANGED <<docs, quiesce, done, archived, rnet, offers, pending, decision, host, timers,
                   late, up, limits>>
Arm ==
    /\ run.at = "arm"
    /\ timers' = TRUE /\ run' = Idle
    /\ UNCHANGED <<peerFiles, pending, decision, host, late, up, limits>>

\* `run_apply_job`: `check` finds the reservation, the fence and the document
\* as they were reviewed; otherwise nothing has changed and nothing is undone.
Checked(j) == external = j.id /\ quiesce = j.id /\ j.id \in docs
RunApplyJob ==
    /\ Free /\ timers /\ pending.phase = "staged" /\ ~late
    /\ IF Committed(pending) THEN run' = At("publish", pending) /\ UNCHANGED pending
       ELSE IF Checked(pending)
            THEN /\ pending' = [pending EXCEPT !.phase = "applying"]
                 /\ run' = At("apply_table", pending')
            ELSE run' = At("drop_external", pending) /\ UNCHANGED pending
    /\ UNCHANGED <<peerFiles, decision, host, timers, late, up, limits>>
ApplyTable ==
    /\ run.at = "apply_table"
    /\ host' = [host EXCEPT !.guard = "A"] /\ run' = At("apply_files", run.j)
    /\ UNCHANGED <<peerFiles, pending, decision, timers, late, up, limits>>
ApplyFiles ==
    /\ run.at = "apply_files"
    /\ host' = [host EXCEPT !.net = Network("mixed", None)] /\ run' = At("activate", run.j)
    /\ UNCHANGED <<peerFiles, pending, decision, timers, late, up, limits>>
Activate ==
    /\ run.at = "activate"
    /\ host' = [host EXCEPT !.net = Network("A", run.j.id)]
    /\ pending' = [run.j EXCEPT !.phase = "applied"] /\ run' = Idle
    /\ UNCHANGED <<peerFiles, decision, timers, late, up, limits>>

\* `confirm`: the authority's replacement is the decision; what follows is
\* cleanup that the timers or the boot repeat.
Confirm ==
    /\ Free /\ pending.phase = "applied" /\ ~pending.retry /\ ~late
    /\ decision' = pending.id /\ run' = At("publish", pending)
    /\ UNCHANGED <<peerFiles, pending, host, timers, late, up, limits>>
\* `finish_committed`: `kept` publishes the decision to R under the reservation.
Publish ==
    /\ run.at = "publish" /\ external = run.j.id
    /\ done' = done \cup {run.j.id} /\ run' = At("forget", run.j)
    /\ UNCHANGED <<docs, quiesce, external, archived, rnet, offers, pending, decision, host,
                   timers, late, up, limits>>
Forget ==
    /\ run.at = "forget"
    /\ pending' = NoJournal /\ timers' = FALSE /\ run' = Idle
    /\ UNCHANGED <<peerFiles, decision, host, late, up, limits>>

\* `recover_locked`: a kept decision is finished; what has not touched the host
\* or has already been undone is only released; the rest is undone.
Recovery(j) == IF Committed(j) THEN "publish"
               ELSE IF j.phase = "staged" \/ j.undone THEN "drop_external" ELSE "mark"
RunRecovery ==
    /\ Free /\ timers /\ pending # NoJournal /\ (late \/ pending.retry \/ Committed(pending))
    /\ run' = At(Recovery(pending), pending)
    /\ UNCHANGED <<peerFiles, pending, decision, host, timers, late, up, limits>>
Revert ==       \* `revert` and `rollback`
    /\ Free /\ pending # NoJournal /\ "A" \in up
    /\ run' = At(Recovery(pending), pending)
    /\ UNCHANGED <<peerFiles, pending, decision, host, timers, late, up, limits>>
MarkReverting ==
    /\ run.at = "mark"
    /\ pending' = [run.j EXCEPT !.phase = "reverting", !.retry = TRUE]
    /\ run' = At("rearm", pending')
    /\ UNCHANGED <<peerFiles, decision, host, timers, late, up, limits>>
Rearm ==
    /\ run.at = "rearm"
    /\ timers' = TRUE /\ run' = At("restore_files", run.j)
    /\ UNCHANGED <<peerFiles, pending, decision, host, late, up, limits>>
RestoreFiles ==
    /\ run.at = "restore_files"
    /\ host' = [host EXCEPT !.net = Network("mixed", None)] /\ run' = At("reactivate", run.j)
    /\ UNCHANGED <<peerFiles, pending, decision, timers, late, up, limits>>
Reactivate ==       \* `activate` and `source_readiness`
    /\ run.at = "reactivate"
    /\ host' = [host EXCEPT !.net = run.j.before] /\ run' = At("restore_table", run.j)
    /\ UNCHANGED <<peerFiles, pending, decision, timers, late, up, limits>>
RestoreTable ==
    /\ run.at = "restore_table"
    /\ host' = [host EXCEPT !.guard = "R"] /\ run' = At("record", run.j)
    /\ UNCHANGED <<peerFiles, pending, decision, timers, late, up, limits>>
RecordRestored ==
    /\ run.at = "record"
    /\ pending' = [run.j EXCEPT !.undone = TRUE] /\ run' = At("drop_external", pending')
    /\ UNCHANGED <<peerFiles, decision, host, timers, late, up, limits>>
\* `restored`: only the markers of this transfer.
DroppedAny(marker, j) == None      \* Defect: whatever is there is removed
Dropped(marker, j) == IF marker = j.id THEN None ELSE marker
DropExternal ==
    /\ run.at = "drop_external"
    /\ external' = Dropped(external, run.j) /\ run' = At("drop_quiesce", run.j)
    /\ UNCHANGED <<docs, quiesce, done, archived, rnet, offers, pending, decision, host, timers,
                   late, up, limits>>
DropQuiesce ==
    /\ run.at = "drop_quiesce"
    /\ quiesce' = Dropped(quiesce, run.j) /\ run' = At("forget", run.j)
    /\ UNCHANGED <<docs, external, done, archived, rnet, offers, pending, decision, host, timers,
                   late, up, limits>>

\* A's boot job recovers the journal whatever its deadline says, and puts the
\* committed network's guards in place; it is run again until it succeeds.
BootRecovers ==
    /\ Free /\ "A" \notin up /\ pending # NoJournal
    /\ run' = [At(Recovery(pending), pending) EXCEPT !.boot = TRUE]
    /\ UNCHANGED <<peerFiles, pending, decision, host, timers, late, up, limits>>
BootReceiving ==
    /\ Free /\ "A" \notin up /\ pending = NoJournal
    /\ up' = up \cup {"A"}
    /\ host' = IF decision # None THEN [host EXCEPT !.guard = "A"] ELSE host
    /\ UNCHANGED <<peerFiles, pending, decision, timers, late, run, limits>>

-----------------------------------------------------------------------------
(* Faults. *)

Staging == {"reserve", "arm"}
Applying == {"apply_table", "apply_files", "activate"}
Restoring == {"rearm", "restore_files", "reactivate", "restore_table", "record"}
Releasing == {"drop_external", "drop_quiesce"}

\* What an operation does when its step fails: staging is dropped, an apply is
\* undone, a recovery is left pending for its timer; the rest returns an error.
AfterFailure ==
    IF run.at \in Staging THEN <<At("drop_external", run.j), pending>>
    ELSE IF run.at \in Applying THEN <<At("mark", run.j), pending>>
    ELSE IF run.at \in Restoring \/ (run.at \in Releasing /\ run.j.undone /\ run.j.phase = "reverting")
         THEN <<Idle, [run.j EXCEPT !.phase = "failed", !.retry = TRUE,
                                    !.undone = @ \/ run.at = "record"]>>
    ELSE <<Idle, pending>>
Fail ==
    /\ ~Free /\ handFaults < HandFaults /\ run.at # "publish"
    /\ handFaults' = handFaults + 1
    /\ run' = AfterFailure[1] /\ pending' = AfterFailure[2]
    /\ up' = IF run.boot /\ pending'.phase = "failed" THEN up \cup {"A"} ELSE up
    /\ UNCHANGED <<peerFiles, decision, host, timers, late, handCrashes>>
\* `kept` fails, or finds another reservation: the journal stays.
FailPublish ==
    /\ run.at = "publish" /\ (external # run.j.id \/ handFaults < HandFaults)
    /\ handFaults' = IF external # run.j.id THEN handFaults ELSE handFaults + 1
    /\ run' = Idle
    /\ UNCHANGED <<peerFiles, pending, decision, host, timers, late, up, handCrashes>>
Die ==
    /\ ~Free /\ handCrashes < HandCrashes
    /\ handCrashes' = handCrashes + 1 /\ run' = Idle
    /\ UNCHANGED <<peerFiles, pending, decision, host, timers, late, up, handFaults>>
\* Transient timers and nft tables do not survive; configuration files do.
Reboot ==
    /\ handCrashes < HandCrashes
    /\ handCrashes' = handCrashes + 1 /\ run' = Idle /\ up' = {}
    /\ timers' = FALSE /\ late' = TRUE /\ host' = [host EXCEPT !.guard = "none"]
    /\ UNCHANGED <<peerFiles, pending, decision, handFaults>>
Expire ==
    /\ ~late /\ pending # NoJournal
    /\ late' = TRUE
    /\ UNCHANGED <<peerFiles, pending, decision, host, timers, up, run, limits>>

Steps ==
    \/ Archive \/ Fence \/ Unfence \/ Reserve \/ Arm \/ ApplyTable \/ ApplyFiles \/ Activate
    \/ Publish \/ FailPublish \/ Forget \/ MarkReverting \/ Rearm \/ RestoreFiles \/ Reactivate
    \/ RestoreTable \/ RecordRestored \/ DropExternal \/ DropQuiesce
HandNext ==
    \/ CompleteRelease \/ PrepareHandoff \/ CancelHandoff \/ ChangeNetwork
    \/ BootReleasing \/ BootCompletes \/ CommitHandoff \/ RunApplyJob \/ Confirm \/ RunRecovery
    \/ Revert \/ BootRecovers \/ BootReceiving \/ Steps \/ Fail \/ Die \/ Reboot \/ Expire

-----------------------------------------------------------------------------
Networks == {Network("R", v) : v \in 1 .. 1 + MaxChanges} \cup {Network("mixed", None)}
              \cup {Network("A", i) : i \in Ids}
Journals == [id : Ids, phase : {"staged", "applying", "applied", "reverting", "failed"},
             before : Networks, undone : BOOLEAN, retry : BOOLEAN] \cup {NoJournal}

HandTypeOK ==
    /\ docs \subseteq Ids /\ quiesce \in Ids \cup {None} /\ external \in Ids \cup {None}
    /\ done \subseteq Ids /\ archived \in BOOLEAN /\ rnet \in 1 .. 1 + MaxChanges
    /\ offers \in 0 .. MaxOffers /\ pending \in Journals /\ decision \in Ids \cup {None}
    /\ host \in [net : Networks, guard : {"R", "A", "none"}]
    /\ timers \in BOOLEAN /\ late \in BOOLEAN /\ up \subseteq {"R", "A"}
    /\ run.j \in Journals

\* An engine that may change the network is on its own network: while R's
\* fence is open the host runs R's committed network and no table of A, also
\* after a transfer was undone, in part, more than once, or over a reboot.
WritableIsOnOwnNetwork ==
    Writable => host.net = Network("R", rnet) /\ host.guard # "A"

\* Once A has decided to keep the transfer it is never undone: the host keeps
\* A's network through every retry, reboot and late request.
DecisionStands == decision # None => host.net = Network("A", decision) /\ host.guard # "R"

\* R's offer is withdrawn by R or by the transfer that took it up, and never
\* by the cleanup of an earlier one.
OfferWithdrawnByItsOwn ==
    [][quiesce # None /\ quiesce' # quiesce =>
        run.at = "unfence" \/ run.j.id = quiesce]_handVars

\* A transfer whose timers are armed ends, kept or undone, also over a reboot
\* (unless the boot cannot arm its retry timer, which NetEngineRetry is about).
TransferEnds ==
    []<>(pending = NoJournal \/ (~timers /\ "A" \in up))

\* A decided transfer is published to R and R finishes its release, whichever
\* of the two dies in between.
ReleaseCompletes == []<>(decision = None \/ (quiesce = None /\ archived))

HandFair ==
    /\ WF_handVars(Steps) /\ WF_handVars(Expire) /\ WF_handVars(RunRecovery)
    /\ WF_handVars(BootRecovers \/ BootReceiving) /\ WF_handVars(BootReleasing \/ BootCompletes)
    /\ WF_handVars(CompleteRelease)

\* What the handoff promises: one owner, on its own network.
HandoffIsSafe ==
    /\ []HandTypeOK /\ []WritableIsOnOwnNetwork /\ []DecisionStands
    /\ OfferWithdrawnByItsOwn

\* What it promises to get done: a transfer ends, and so does a release.
HandoffEnds == TransferEnds /\ ReleaseCompletes
================================================================================
