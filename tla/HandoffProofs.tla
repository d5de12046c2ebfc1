----------------------------- MODULE HandoffProofs -----------------------------
(***************************************************************************)
(* Proofs about the two ways in which a network changes its owner, and of  *)
(* a change on a host that NetworkManager runs.                            *)
(* Handoff, for any number of offers, changes, failing steps, deaths and   *)
(* reboots: the engine that may change the network is on its own network,  *)
(* a decision to keep a transfer stands, and an offer is withdrawn only by *)
(* R or by the transfer that took it up (HandInv: what the journal of A,   *)
(* the reservation and the fence say together of whose network the host    *)
(* runs). Migration, for any number of faults, deaths and settings: the    *)
(* decision names the network the host runs, and the sources of the import *)
(* outlive it (MigInv: what the two journals and the step of the boot job  *)
(* say of the network that will be decided for, which was recovered, is    *)
(* live and is imported once). NmProfiles, for any VLANs, changes, edits,  *)
(* faults and deaths: what the document owns is there, and what a change   *)
(* made is undone, unless the operator kept a failed change and discarding *)
(* failed (NmInv: what the plan in the journal says of each connection and *)
(* of its file, against the step of the job).                              *)
(***************************************************************************)
EXTENDS Handoff, Migration, NmProfiles, FiniteSetTheorems, TLAPS

\* The handoff by itself.
HandSpec == HandInit /\ [][HandNext]_handVars

-------------------------------------------------------------------------------
(* The inductive invariant.                                                    *)

\* Where an operation of R, and one of A, may be.
ReleasePoints == {"archive", "fence", "unfence"}
ReceivePoints ==
    Staging \cup Applying \cup Restoring \cup Releasing \cup {"publish", "forget", "mark"}

\* An operation works on the journal that is on disk.
RunInv ==
    /\ run \in [at : {"idle"} \cup ReleasePoints \cup ReceivePoints, j : Journals,
         boot : BOOLEAN]
    /\ run.at = "idle" => run = Idle
    /\ run.at \in ReleasePoints => run.j = NoJournal
    /\ run.at \in ReceivePoints => run.j = pending /\ pending.id # None

\* The transfer in the journal may have changed the host.
Touched == pending.id # None /\ pending.phase # "staged" /\ ~pending.undone

\* A decision is made once, under the reservation, and the document stays.
DecidedInv ==
    /\ done \subseteq {decision}
    /\ decision # None =>
         /\ external = decision /\ decision \in docs /\ quiesce \in {None, decision}
         /\ quiesce = None => decision \in done
         /\ pending.id # None => pending.id = decision /\ Touched

\* A reservation is that of the transfer in the journal, and R is fenced while
\* the host may have been changed.
ReservedInv ==
    /\ decision = None /\ external # None => external = pending.id
    /\ decision = None /\ Touched =>
         external = pending.id /\ quiesce = pending.id /\ pending.id \in docs
    /\ Touched /\ decision = None => pending.before = Network("R", rnet)
    /\ pending.id # None /\ pending.phase = "staged" =>
         /\ ~pending.undone
         /\ external = pending.id \/ run.at = "reserve" => pending.before = Network("R", rnet)

\* Whose network the host runs.
HostInv ==
    /\ decision # None => host.net = Network("A", decision) /\ host.guard # "R"
    /\ decision = None /\ ~Touched => host.net = Network("R", rnet) /\ host.guard # "A"
    /\ pending.phase = "applied" =>
         ~pending.undone /\ host.net = Network("A", pending.id) /\ host.guard # "R"

\* What has been done when an operation has come to a point.
PointInv ==
    /\ run.at = "fence" => external = None /\ quiesce = None /\ offers \in Ids
    /\ run.at = "archive" => external \in done
    /\ run.at = "unfence" => external = None \/ external \in done
    /\ run.at \in Staging => pending.phase = "staged"
    /\ run.at \in Applying => pending.phase = "applying" /\ Touched
    /\ run.at \in {"apply_files", "activate"} => host.guard = "A"
    /\ run.at \in Restoring => pending.phase = "reverting" /\ Touched
    /\ run.at \in {"restore_table", "record"} => host.net = pending.before
    /\ run.at = "record" => host.guard = "R"
    /\ run.at = "mark" => Touched
    /\ run.at \in Releasing => ~Touched
    /\ run.at \in {"drop_quiesce", "forget"} /\ decision = None => external = None
    /\ run.at \in {"publish", "forget"} => decision = pending.id \/ ~Touched
    /\ run.at = "publish" => decision = pending.id
    /\ run.at \in ReceivePoints \ {"publish", "forget"} => decision = None

HandInv == HandTypeOK /\ RunInv /\ DecidedInv /\ ReservedInv /\ HostInv /\ PointInv

-------------------------------------------------------------------------------
(* Journals.                                                                   *)

\* No journal is a journal, and has no transfer.
LEMMA EmptyJournal ==
    /\ NoJournal \in Journals /\ NoJournal.id = None /\ NoJournal.phase = "none"
    /\ NoJournal.undone = FALSE /\ NoJournal.retry = FALSE
    /\ Idle.at = "idle" /\ Idle.j = NoJournal /\ Idle.boot = FALSE
  BY DEF NoJournal, Journals, None, Idle

\* The fields of a journal; only an empty one has no transfer.
LEMMA JournalFields ==
    ASSUME NEW j \in Journals
    PROVE  /\ j.id \in Ids \cup {None} /\ j.undone \in BOOLEAN /\ j.retry \in BOOLEAN
           /\ j.phase \in {"none", "staged", "applying", "applied", "reverting", "failed"}
           /\ j.id = None <=> j = NoJournal
           /\ j.id # None => j.before \in Networks /\ j.phase # "none"
           /\ None \notin Ids
<1>1. None \notin Ids
  BY HandoffAssumption DEF HandoffAssumption, None, Ids
<1>2. CASE j = NoJournal
  BY <1>1, <1>2, EmptyJournal
<1>3. CASE j \in [id : Ids, phase : {"staged", "applying", "applied", "reverting", "failed"},
                   before : Networks, undone : BOOLEAN, retry : BOOLEAN]
  <2>1. j.id # None /\ j.id # NoJournal.id
    BY <1>1, <1>3, EmptyJournal
  <2> QED
    BY <1>1, <1>3, <2>1
<1> QED
  BY <1>2, <1>3 DEF Journals

\* A journal that moves on is a journal of the same transfer.
LEMMA JournalMoves ==
    ASSUME NEW j \in Journals, j.id # None, NEW phase \in {"applying", "applied"}
    PROVE  LET e == [j EXCEPT !.phase = phase] IN
           /\ e \in Journals /\ e.id = j.id /\ e.phase = phase
           /\ e.before = j.before /\ e.undone = j.undone
  BY JournalFields DEF NoJournal, Journals, None

LEMMA JournalReverts ==
    ASSUME NEW j \in Journals, j.id # None
    PROVE  LET e == [j EXCEPT !.phase = "reverting", !.retry = TRUE] IN
           /\ e \in Journals /\ e.id = j.id /\ e.phase = "reverting"
           /\ e.before = j.before /\ e.undone = j.undone
  BY JournalFields DEF NoJournal, Journals, None

LEMMA JournalUndone ==
    ASSUME NEW j \in Journals, j.id # None
    PROVE  LET e == [j EXCEPT !.undone = TRUE] IN
           /\ e \in Journals /\ e.id = j.id /\ e.phase = j.phase
           /\ e.before = j.before /\ e.undone
  BY JournalFields DEF NoJournal, Journals, None

LEMMA JournalFails ==
    ASSUME NEW j \in Journals, j.id # None, NEW undone \in BOOLEAN
    PROVE  LET e == [j EXCEPT !.phase = "failed", !.retry = TRUE, !.undone = undone] IN
           /\ e \in Journals /\ e.id = j.id /\ e.phase = "failed"
           /\ e.before = j.before /\ e.undone = undone
  BY JournalFields DEF NoJournal, Journals, None


-------------------------------------------------------------------------------
(* What the steps that write the journal do.                                   *)

\* The journal on disk, and the fields of the operation in progress.
LEMMA Known ==
    ASSUME HandTypeOK, RunInv
    PROVE  /\ pending \in Journals
           /\ pending.id \in Ids \cup {None} /\ pending.undone \in BOOLEAN
           /\ pending.id = None <=> pending = NoJournal
           /\ pending.id # None => pending.before \in Networks /\ pending.phase # "none"
           /\ run.at \in {"idle"} \cup ReleasePoints \cup ReceivePoints
           /\ run.boot \in BOOLEAN /\ run.j \in Journals
           /\ None \notin Ids
           /\ Free <=> run.at = "idle"
<1>1. pending \in Journals
  BY DEF HandTypeOK
<1>2. Free <=> run.at = "idle"
  BY EmptyJournal DEF RunInv, Free
<1>3. /\ run.at \in {"idle"} \cup ReleasePoints \cup ReceivePoints
      /\ run.boot \in BOOLEAN /\ run.j \in Journals
  BY DEF RunInv
<1> QED
  BY <1>1, <1>2, <1>3, JournalFields

LEMMA CommitHandoffEffect ==
    ASSUME HandTypeOK, RunInv, CommitHandoff
    PROVE  /\ quiesce # None /\ quiesce \in docs /\ decision = None /\ external = None
           /\ pending = NoJournal /\ run.at = "idle"
           /\ pending' \in Journals /\ pending'.id = quiesce /\ pending'.phase = "staged"
           /\ pending'.before = host.net /\ pending'.undone = FALSE
           /\ run'.at = "reserve" /\ run'.j = pending' /\ run' = At("reserve", pending')
           /\ late' = FALSE
           /\ UNCHANGED <<docs, quiesce, external, done, archived, rnet, offers, decision,
                          host, timers, up>>
<1>1. quiesce \in Ids /\ host.net \in Networks
  <2>1. quiesce # None
    BY Zenon DEF CommitHandoff, Offered
  <2> QED
    BY <2>1 DEF HandTypeOK
<1>2. pending' = [NoJournal EXCEPT !.id = quiesce, !.phase = "staged", !.before = host.net]
  BY Zenon DEF CommitHandoff
<1>3. /\ pending' \in Journals /\ pending'.id = quiesce /\ pending'.phase = "staged"
      /\ pending'.before = host.net /\ pending'.undone = FALSE
  <2>1. PICK i \in Ids : i = quiesce
    BY <1>1
  <2>2. PICK n \in Networks : n = host.net
    BY <1>1
  <2>3. PICK e : e = pending'
    OBVIOUS
  <2>4. e = [NoJournal EXCEPT !.id = i, !.phase = "staged", !.before = n]
    BY <1>2, <2>1, <2>2, <2>3, Zenon
  <2>5. e \in Journals /\ e.id = i /\ e.phase = "staged" /\ e.before = n /\ e.undone = FALSE
    <3>1. e \in [id : Ids, phase : {"staged"}, before : Networks, undone : BOOLEAN,
                 retry : BOOLEAN]
      BY <2>4 DEF NoJournal
    <3>2. e.id = i /\ e.before = n /\ e.undone = FALSE
      BY <2>4 DEF NoJournal
    <3> QED
      BY <3>1, <3>2 DEF Journals
  <2> QED
    BY <2>1, <2>2, <2>3, <2>5
<1>4. /\ quiesce # None /\ quiesce \in docs /\ decision = None /\ external = None
      /\ pending = NoJournal /\ Free /\ run' = At("reserve", pending') /\ late' = FALSE
      /\ UNCHANGED <<peerFiles, decision, host, timers, up>>
  BY Zenon DEF CommitHandoff, Offered
<1>5. run'.at = "reserve" /\ run'.j = pending'
  BY <1>4 DEF At
<1> QED
  BY <1>3, <1>4, <1>5, Known DEF peerFiles

LEMMA RunApplyJobEffect ==
    ASSUME HandTypeOK, RunInv, RunApplyJob
    PROVE  /\ pending.id # None /\ pending.phase = "staged" /\ run.at = "idle"
           /\ pending' \in Journals /\ run'.j = pending' /\ run' = At(run'.at, pending')
           /\ \/ pending' = pending /\ run'.at = "publish" /\ decision = pending.id
              \/ pending' = pending /\ run'.at = "drop_external" /\ decision # pending.id
              \/ /\ pending'.id = pending.id /\ pending'.phase = "applying"
                 /\ pending'.before = pending.before /\ pending'.undone = pending.undone
                 /\ run'.at = "apply_table" /\ decision # pending.id
                 /\ external = pending.id /\ quiesce = pending.id /\ pending.id \in docs
           /\ UNCHANGED <<docs, quiesce, external, done, archived, rnet, offers, decision,
                          host, timers, late, up>>
<1>1. pending.id # None /\ pending \in Journals /\ run.at = "idle"
  BY Known, EmptyJournal DEF RunApplyJob
<1>2. UNCHANGED <<docs, quiesce, external, done, archived, rnet, offers, decision, host,
                  timers, late, up>> /\ pending.phase = "staged"
  BY DEF RunApplyJob, peerFiles
<1>3. CASE Committed(pending) \/ ~Checked(pending)
  BY <1>1, <1>2, <1>3 DEF RunApplyJob, Committed, At
<1>4. CASE ~Committed(pending) /\ Checked(pending)
  <2>1. pending' = [pending EXCEPT !.phase = "applying"] /\ run' = At("apply_table", pending')
    BY <1>4 DEF RunApplyJob
  <2>2. run'.at = "apply_table" /\ run'.j = pending'
    BY <2>1 DEF At
  <2> QED
    BY <1>1, <1>2, <1>4, <2>1, <2>2, JournalMoves DEF Committed, Checked
<1> QED
  BY <1>3, <1>4

LEMMA ActivateEffect ==
    ASSUME HandTypeOK, RunInv, Activate
    PROVE  /\ run.at = "activate" /\ run.j = pending /\ pending.id # None
           /\ pending' \in Journals /\ pending'.id = pending.id /\ pending'.phase = "applied"
           /\ pending'.before = pending.before /\ pending'.undone = pending.undone
           /\ host' = [host EXCEPT !.net = Network("A", pending.id)] /\ run' = Idle
           /\ UNCHANGED <<docs, quiesce, external, done, archived, rnet, offers, decision,
                          timers, late, up>>
<1>1. run.j = pending /\ pending.id # None /\ pending \in Journals
  BY Known DEF RunInv, Activate, ReceivePoints, Applying
<1> QED
  BY ZenonT(60), <1>1, JournalMoves DEF Activate, peerFiles

LEMMA ForgetEffect ==
    ASSUME HandTypeOK, RunInv, Forget
    PROVE  /\ run.at = "forget" /\ run.j = pending /\ pending.id # None
           /\ pending' = NoJournal /\ timers' = FALSE /\ run' = Idle
           /\ UNCHANGED <<docs, quiesce, external, done, archived, rnet, offers, decision,
                          host, late, up>>
  BY DEF RunInv, Forget, ReceivePoints, peerFiles

LEMMA MarkRevertingEffect ==
    ASSUME HandTypeOK, RunInv, MarkReverting
    PROVE  /\ run.at = "mark" /\ run.j = pending /\ pending.id # None
           /\ pending' \in Journals /\ pending'.id = pending.id /\ pending'.phase = "reverting"
           /\ pending'.before = pending.before /\ pending'.undone = pending.undone
           /\ run'.at = "rearm" /\ run'.j = pending' /\ run' = At("rearm", pending')
           /\ UNCHANGED <<docs, quiesce, external, done, archived, rnet, offers, decision,
                          host, timers, late, up>>
<1>1. run.j = pending /\ pending.id # None /\ pending \in Journals
  BY Known DEF RunInv, MarkReverting, ReceivePoints
<1>2. pending' = [pending EXCEPT !.phase = "reverting", !.retry = TRUE]
  BY <1>1 DEF MarkReverting
<1> QED
  BY <1>1, <1>2, JournalReverts DEF MarkReverting, At, peerFiles

LEMMA RecordRestoredEffect ==
    ASSUME HandTypeOK, RunInv, RecordRestored
    PROVE  /\ run.at = "record" /\ run.j = pending /\ pending.id # None
           /\ pending' \in Journals /\ pending'.id = pending.id /\ pending'.phase = pending.phase
           /\ pending'.before = pending.before /\ pending'.undone
           /\ run'.at = "drop_external" /\ run'.j = pending' /\ run' = At("drop_external",
                pending')
           /\ UNCHANGED <<docs, quiesce, external, done, archived, rnet, offers, decision,
                          host, timers, late, up>>
<1>1. run.j = pending /\ pending.id # None /\ pending \in Journals
  BY Known DEF RunInv, RecordRestored, ReceivePoints, Restoring
<1>2. pending' = [pending EXCEPT !.undone = TRUE]
  BY <1>1 DEF RecordRestored
<1> QED
  BY <1>1, <1>2, JournalUndone DEF RecordRestored, At, peerFiles

\* A failure drops the staging, undoes an apply, leaves a recovery to its timer,
\* or is an error that changes nothing.
LEMMA FailEffect ==
    ASSUME HandTypeOK, RunInv, Fail
    PROVE  /\ run.at \notin {"idle", "publish"}
           /\ pending' \in Journals
           /\ \/ /\ run.at \in Staging /\ run'.at = "drop_external"
                 /\ pending' = pending /\ run'.j = pending /\ run' = At("drop_external",
                      pending')
              \/ /\ run.at \in Applying /\ run'.at = "mark"
                 /\ pending' = pending /\ run'.j = pending /\ run' = At("mark", pending')
              \/ /\ run.at \in Restoring \cup Releasing /\ run' = Idle /\ run.j = pending
                 /\ run.at \in Releasing => pending.undone
                 /\ pending.id # None /\ pending'.id = pending.id /\ pending'.phase = "failed"
                 /\ pending'.before = pending.before
                 /\ pending'.undone = IF run.at = "record" THEN TRUE ELSE pending.undone
              \/ pending' = pending /\ run' = Idle
           /\ up' \in {up, up \cup {"A"}}
           /\ UNCHANGED <<docs, quiesce, external, done, archived, rnet, offers, decision,
                          host, timers, late>>
<1>1. run.at \in ReceivePoints => run.j = pending /\ pending.id # None
  BY DEF RunInv
<1>2. pending \in Journals /\ pending.undone \in BOOLEAN /\ run.at \notin {"idle", "publish"}
  BY Known DEF Fail
<1>3. up' \in {up, up \cup {"A"}} /\ UNCHANGED <<docs, quiesce, external, done, archived, rnet,
      offers, decision, host, timers, late>>
  BY DEF Fail, peerFiles
<1>4. CASE run.at \in Staging
  BY <1>1, <1>2, <1>3, <1>4 DEF Fail, AfterFailure, At, ReceivePoints
<1>5. CASE run.at \in Applying
  BY <1>1, <1>2, <1>3, <1>5 DEF Fail, AfterFailure, At, ReceivePoints, Applying, Staging
<1>6. CASE run.at \in Restoring \/ (run.at \in Releasing /\ run.j.undone
                                     /\ run.j.phase = "reverting")
  <2>1. run.j = pending /\ pending.id # None
    BY <1>1, <1>6 DEF ReceivePoints
  <2>2. /\ run' = Idle
        /\ pending' = [pending EXCEPT !.phase = "failed", !.retry = TRUE,
                                      !.undone = @ \/ run.at = "record"]
    BY <1>6, <2>1 DEF Fail, AfterFailure, Applying, Staging, Restoring, Releasing
  <2> DEFINE u == IF run.at = "record" THEN TRUE ELSE pending.undone
  <2>3. /\ u \in BOOLEAN
        /\ pending' = [pending EXCEPT !.phase = "failed", !.retry = TRUE, !.undone = u]
    BY <1>2, <2>2
  <2> HIDE DEF u
  <2>5. /\ pending' \in Journals /\ pending'.id = pending.id /\ pending'.phase = "failed"
        /\ pending'.before = pending.before /\ pending'.undone = u
    BY <1>2, <2>1, <2>3, JournalFails
  <2>4. /\ pending' \in Journals /\ pending'.id = pending.id /\ pending'.phase = "failed"
        /\ pending'.before = pending.before
        /\ pending'.undone = IF run.at = "record" THEN TRUE ELSE pending.undone
    BY <1>2, <2>5 DEF u
  <2>6. run.at \in Releasing => pending.undone
    BY <1>6, <2>1 DEF Restoring, Releasing
  <2>7. run.at \in Restoring \cup Releasing
    BY <1>6
  <2> QED
    BY <1>2, <1>3, <2>1, <2>2, <2>4, <2>6, <2>7
<1>7. CASE ~(\/ run.at \in Staging \cup Applying \cup Restoring
             \/ (run.at \in Releasing /\ run.j.undone /\ run.j.phase = "reverting"))
  BY <1>2, <1>3, <1>7 DEF Fail, AfterFailure
<1> QED
  BY <1>4, <1>5, <1>6, <1>7

-------------------------------------------------------------------------------
(* Every step keeps the invariant, one part at a time.                         *)

\* The networks of the two engines, and one in the middle of a change.
LEMMA NetworkTypes ==
    /\ \A v \in 1 .. 1 + MaxChanges : Network("R", v) \in Networks
    /\ \A i \in Ids : Network("A", i) \in Networks
    /\ Network("mixed", None) \in Networks
  BY DEF Networks

\* The next point of an operation: nothing in progress, one of R, one of A.
LEMMA RunEnds == ASSUME run' = Idle PROVE RunInv'
<1>1. Idle \in [at : {"idle"}, j : Journals, boot : BOOLEAN]
  BY EmptyJournal DEF Idle
<1>2. Idle \in [at : {"idle"} \cup ReleasePoints \cup ReceivePoints, j : Journals,
                boot : BOOLEAN]
  BY <1>1
<1>3. Idle.at = "idle" /\ "idle" \notin ReleasePoints /\ "idle" \notin ReceivePoints
  BY DEF Idle, ReleasePoints, ReceivePoints, Staging, Applying, Restoring, Releasing
<1> QED
  BY <1>2, <1>3 DEF RunInv

LEMMA RunReleases ==
    ASSUME NEW step \in ReleasePoints, run.boot \in BOOLEAN, run' = At(step, NoJournal)
    PROVE  RunInv'
<1>1. run' \in [at : {step}, j : {NoJournal}, boot : BOOLEAN]
  BY DEF At
<1>2. run' \in [at : {"idle"} \cup ReleasePoints \cup ReceivePoints, j : Journals,
                boot : BOOLEAN]
  BY <1>1, EmptyJournal
<1>3. run'.at = step /\ run'.j = NoJournal
  BY <1>1
<1>4. step # "idle" /\ step \notin ReceivePoints
  BY DEF ReleasePoints, ReceivePoints, Staging, Applying, Restoring, Releasing
<1> QED
  BY <1>2, <1>3, <1>4 DEF RunInv

LEMMA RunReceives ==
    ASSUME NEW step \in ReceivePoints, pending' \in Journals, pending'.id # None,
           run.boot \in BOOLEAN,
           \/ run' = At(step, pending')
           \/ run' = [At(step, pending') EXCEPT !.boot = TRUE]
    PROVE  RunInv'
<1>a. At(step, pending') \in [at : {step}, j : {pending'}, boot : BOOLEAN]
  BY DEF At
<1>1. run' \in [at : {step}, j : {pending'}, boot : BOOLEAN]
  BY <1>a
<1>2. run' \in [at : {"idle"} \cup ReleasePoints \cup ReceivePoints, j : Journals,
                boot : BOOLEAN]
  BY <1>1
<1>3. run'.at = step /\ run'.j = pending' /\ pending'.id # None
  BY <1>1
<1>4. step # "idle" /\ step \notin ReleasePoints
  BY DEF ReleasePoints, ReceivePoints, Staging, Applying, Restoring, Releasing
<1> QED
  BY <1>2, <1>3, <1>4 DEF RunInv

\* The operation works on the journal on disk.
LEMMA RunKept ==
    ASSUME HandInv, [HandNext]_handVars
    PROVE  RunInv'
<1> USE Known, EmptyJournal DEF HandInv
<1>1. CASE UNCHANGED <<run, pending>>
  BY <1>1 DEF RunInv
<1>2. CASE CompleteRelease
  BY <1>2, RunReleases DEF CompleteRelease, ReleasePoints
<1>3. CASE Archive
  BY <1>3, RunReleases DEF Archive, ReleasePoints
<1>4. CASE PrepareHandoff
  BY <1>4, RunReleases DEF PrepareHandoff, ReleasePoints
<1>5. CASE Fence
  BY <1>5, RunEnds DEF Fence
<1>6. CASE CancelHandoff
  BY <1>6, RunReleases DEF CancelHandoff, ReleasePoints
<1>7. CASE Unfence
  BY <1>7, RunEnds DEF Unfence
<1>8. CASE BootCompletes
  BY <1>8, RunReleases DEF BootCompletes, ReleasePoints
<1>9. CASE CommitHandoff
  <2>1. run'.at \in ReceivePoints /\ run' = At(run'.at, pending') /\ pending' \in Journals
        /\ pending'.id # None
    BY <1>9, CommitHandoffEffect DEF ReceivePoints, Staging, Applying, Restoring, Releasing
  <2> QED
    BY <2>1, Known, RunReceives
<1>10. CASE Reserve
  <2>1. /\ run.j = pending \/ run.at = "idle"
        /\ pending.id # None /\ pending' = pending
    BY <1>10, Known DEF RunInv, Reserve, ReceivePoints, Staging, Applying, Restoring, Releasing
  <2>2. run' = At("arm", pending')
    BY <1>10, <2>1 DEF Reserve
  <2> QED
    BY <2>1, <2>2, Known, RunReceives DEF ReceivePoints, Staging, Applying, Restoring, Releasing
<1>11. CASE Arm
  BY <1>11, RunEnds DEF Arm
<1>12. CASE RunApplyJob
  <2>1. run'.at \in ReceivePoints /\ run' = At(run'.at, pending') /\ pending' \in Journals
        /\ pending'.id # None
    BY <1>12, RunApplyJobEffect DEF ReceivePoints, Staging, Applying, Restoring, Releasing
  <2> QED
    BY <2>1, Known, RunReceives
<1>13. CASE ApplyTable
  <2>1. /\ run.j = pending \/ run.at = "idle"
        /\ pending.id # None /\ pending' = pending
    BY <1>13, Known DEF RunInv, ApplyTable, ReceivePoints, Staging, Applying, Restoring,
         Releasing
  <2>2. run' = At("apply_files", pending')
    BY <1>13, <2>1 DEF ApplyTable
  <2> QED
    BY <2>1, <2>2, Known, RunReceives DEF ReceivePoints, Staging, Applying, Restoring, Releasing
<1>14. CASE ApplyFiles
  <2>1. /\ run.j = pending \/ run.at = "idle"
        /\ pending.id # None /\ pending' = pending
    BY <1>14, Known DEF RunInv, ApplyFiles, ReceivePoints, Staging, Applying, Restoring,
         Releasing
  <2>2. run' = At("activate", pending')
    BY <1>14, <2>1 DEF ApplyFiles
  <2> QED
    BY <2>1, <2>2, Known, RunReceives DEF ReceivePoints, Staging, Applying, Restoring, Releasing
<1>15. CASE Activate
  BY <1>15, ActivateEffect, RunEnds
<1>16. CASE Confirm
  <2>1. /\ run.j = pending \/ run.at = "idle"
        /\ pending.id # None /\ pending' = pending
    BY <1>16, Known DEF RunInv, Confirm, ReceivePoints, Staging, Applying, Restoring, Releasing
  <2>2. run' = At("publish", pending')
    BY <1>16, <2>1 DEF Confirm
  <2> QED
    BY <2>1, <2>2, Known, RunReceives DEF ReceivePoints, Staging, Applying, Restoring, Releasing
<1>17. CASE Publish
  <2>1. /\ run.j = pending \/ run.at = "idle"
        /\ pending.id # None /\ pending' = pending
    BY <1>17, Known DEF RunInv, Publish, ReceivePoints, Staging, Applying, Restoring, Releasing
  <2>2. run' = At("forget", pending')
    BY <1>17, <2>1 DEF Publish
  <2> QED
    BY <2>1, <2>2, Known, RunReceives DEF ReceivePoints, Staging, Applying, Restoring, Releasing
<1>18. CASE FailPublish
  BY <1>18, RunEnds DEF FailPublish
<1>19. CASE Forget
  BY <1>19, ForgetEffect, RunEnds
<1>20. CASE RunRecovery
  <2>1. pending.id # None /\ pending' = pending
    BY <1>20, Known DEF RunRecovery
  <2>2. Recovery(pending) \in ReceivePoints
    BY DEF Recovery, ReceivePoints, Releasing
  <2> QED
    BY <1>20, <2>1, <2>2, Known, RunReceives DEF RunRecovery
<1>21. CASE Revert
  <2>1. pending.id # None /\ pending' = pending
    BY <1>21, Known DEF Revert
  <2>2. Recovery(pending) \in ReceivePoints
    BY DEF Recovery, ReceivePoints, Releasing
  <2> QED
    BY <1>21, <2>1, <2>2, Known, RunReceives DEF Revert
<1>22. CASE MarkReverting
  <2>1. run'.at \in ReceivePoints /\ run' = At(run'.at, pending') /\ pending' \in Journals
        /\ pending'.id # None
    BY <1>22, MarkRevertingEffect DEF ReceivePoints, Staging, Applying, Restoring, Releasing
  <2> QED
    BY <2>1, Known, RunReceives
<1>23. CASE Rearm
  <2>1. /\ run.j = pending \/ run.at = "idle"
        /\ pending.id # None /\ pending' = pending
    BY <1>23, Known DEF RunInv, Rearm, ReceivePoints, Staging, Applying, Restoring, Releasing
  <2>2. run' = At("restore_files", pending')
    BY <1>23, <2>1 DEF Rearm
  <2> QED
    BY <2>1, <2>2, Known, RunReceives DEF ReceivePoints, Staging, Applying, Restoring, Releasing
<1>24. CASE RestoreFiles
  <2>1. /\ run.j = pending \/ run.at = "idle"
        /\ pending.id # None /\ pending' = pending
    BY <1>24, Known DEF RunInv, RestoreFiles, ReceivePoints, Staging, Applying, Restoring,
         Releasing
  <2>2. run' = At("reactivate", pending')
    BY <1>24, <2>1 DEF RestoreFiles
  <2> QED
    BY <2>1, <2>2, Known, RunReceives DEF ReceivePoints, Staging, Applying, Restoring, Releasing
<1>25. CASE Reactivate
  <2>1. /\ run.j = pending \/ run.at = "idle"
        /\ pending.id # None /\ pending' = pending
    BY <1>25, Known DEF RunInv, Reactivate, ReceivePoints, Staging, Applying, Restoring,
         Releasing
  <2>2. run' = At("restore_table", pending')
    BY <1>25, <2>1 DEF Reactivate
  <2> QED
    BY <2>1, <2>2, Known, RunReceives DEF ReceivePoints, Staging, Applying, Restoring, Releasing
<1>26. CASE RestoreTable
  <2>1. /\ run.j = pending \/ run.at = "idle"
        /\ pending.id # None /\ pending' = pending
    BY <1>26, Known DEF RunInv, RestoreTable, ReceivePoints, Staging, Applying, Restoring,
         Releasing
  <2>2. run' = At("record", pending')
    BY <1>26, <2>1 DEF RestoreTable
  <2> QED
    BY <2>1, <2>2, Known, RunReceives DEF ReceivePoints, Staging, Applying, Restoring, Releasing
<1>27. CASE RecordRestored
  <2>1. run'.at \in ReceivePoints /\ run' = At(run'.at, pending') /\ pending' \in Journals
        /\ pending'.id # None
    BY <1>27, RecordRestoredEffect DEF ReceivePoints, Staging, Applying, Restoring, Releasing
  <2> QED
    BY <2>1, Known, RunReceives
<1>28. CASE DropExternal
  <2>1. /\ run.j = pending \/ run.at = "idle"
        /\ pending.id # None /\ pending' = pending
    BY <1>28, Known DEF RunInv, DropExternal, ReceivePoints, Staging, Applying, Restoring,
         Releasing
  <2>2. run' = At("drop_quiesce", pending')
    BY <1>28, <2>1 DEF DropExternal
  <2> QED
    BY <2>1, <2>2, Known, RunReceives DEF ReceivePoints, Staging, Applying, Restoring, Releasing
<1>29. CASE DropQuiesce
  <2>1. /\ run.j = pending \/ run.at = "idle"
        /\ pending.id # None /\ pending' = pending
    BY <1>29, Known DEF RunInv, DropQuiesce, ReceivePoints, Staging, Applying, Restoring,
         Releasing
  <2>2. run' = At("forget", pending')
    BY <1>29, <2>1 DEF DropQuiesce
  <2> QED
    BY <2>1, <2>2, Known, RunReceives DEF ReceivePoints, Staging, Applying, Restoring, Releasing
<1>30. CASE BootRecovers
  <2>1. pending.id # None /\ pending' = pending
    BY <1>30, Known DEF BootRecovers
  <2>2. Recovery(pending) \in ReceivePoints
    BY DEF Recovery, ReceivePoints, Releasing
  <2> QED
    BY <1>30, <2>1, <2>2, Known, RunReceives DEF BootRecovers
<1>31. CASE Fail
  <2>1. CASE run' = Idle
    BY <2>1, RunEnds
  <2>2. CASE run.at \in Staging \cup Applying /\ pending' = pending
             /\ \/ run' = At("drop_external", pending')
                \/ run' = At("mark", pending')
    <3>2. run.at \in ReceivePoints
      BY <2>2 DEF ReceivePoints
    <3>3. pending.id # None
      BY <3>2 DEF RunInv
    <3>1. pending' \in Journals /\ pending'.id # None
      BY <2>2, <3>3, Known
    <3>4. CASE run' = At("drop_external", pending')
      BY <3>1, <3>4, Known, RunReceives DEF ReceivePoints, Releasing
    <3>5. CASE run' = At("mark", pending')
      BY <3>1, <3>5, Known, RunReceives DEF ReceivePoints
    <3> QED
      BY <2>2, <3>4, <3>5
  <2> QED
    BY <1>31, <2>1, <2>2, FailEffect
<1>32. CASE Die
  BY <1>32, RunEnds DEF Die
<1>33. CASE Reboot
  BY <1>33, RunEnds DEF Reboot
<1>34. \/ UNCHANGED <<run, pending>>
      \/ CompleteRelease \/ Archive \/ PrepareHandoff \/ Fence \/ CancelHandoff
      \/ Unfence \/ BootCompletes \/ CommitHandoff \/ Reserve \/ Arm \/ RunApplyJob
      \/ ApplyTable \/ ApplyFiles \/ Activate \/ Confirm \/ Publish \/ FailPublish
      \/ Forget \/ RunRecovery \/ Revert \/ MarkReverting \/ Rearm \/ RestoreFiles
      \/ Reactivate \/ RestoreTable \/ RecordRestored \/ DropExternal \/ DropQuiesce
      \/ BootRecovers \/ Fail \/ Die \/ Reboot
  BY DEF HandNext, Steps, handVars, peerFiles, ChangeNetwork, BootReleasing, BootReceiving,
       Expire
<1> QED
  BY <1>1, <1>2, <1>3, <1>4, <1>5, <1>6, <1>7, <1>8, <1>9, <1>10, <1>11, <1>12, <1>13, <1>14,
       <1>15, <1>16, <1>17, <1>18, <1>19, <1>20, <1>21, <1>22, <1>23, <1>24, <1>25, <1>26,
            <1>27, <1>28, <1>29, <1>30, <1>31, <1>32, <1>33, <1>34

\* Every variable keeps its type, whatever step is taken.
LEMMA TypeKept ==
    ASSUME HandInv, [HandNext]_handVars
    PROVE  HandTypeOK'
<1> USE HandoffAssumption, Known, EmptyJournal, NetworkTypes DEF HandInv, HandTypeOK
<1>0. run'.j \in Journals
  BY RunKept DEF RunInv
<1> USE <1>0
<1>1. CASE UNCHANGED <<docs, quiesce, external, done, archived, rnet, offers, pending,
                decision, host, timers, late, up>>
  BY <1>1
<1>2. CASE Archive
  BY <1>2 DEF Archive, At
<1>3. CASE PrepareHandoff
  BY <1>3 DEF PrepareHandoff, Free, Writable, At, ExternallyManaged, HandoffAssumption, Ids
<1>4. CASE Fence
  BY <1>4 DEF Fence, PointInv
<1>5. CASE CancelHandoff
  BY <1>5 DEF CancelHandoff, At, Cancellable
<1>6. CASE Unfence
  BY <1>6 DEF Unfence
<1>7. CASE ChangeNetwork
  BY <1>7 DEF ChangeNetwork, Free, Writable, Network, ExternallyManaged
<1>8. CASE BootReleasing
  BY <1>8 DEF BootReleasing, Free, ExternallyManaged, RebuildsGuards, peerFiles
<1>9. CASE BootCompletes
  BY <1>9 DEF BootCompletes, Free, ExternallyManaged, At, peerFiles
<1>10. CASE CommitHandoff
  BY <1>10, CommitHandoffEffect
<1>11. CASE Reserve
  BY <1>11 DEF Reserve, At, RunInv, ReceivePoints, Staging
<1>12. CASE Arm
  BY <1>12 DEF Arm, peerFiles
<1>13. CASE RunApplyJob
  BY <1>13, RunApplyJobEffect
<1>14. CASE ApplyTable
  BY <1>14 DEF ApplyTable, At, peerFiles
<1>15. CASE ApplyFiles
  BY <1>15 DEF ApplyFiles, At, Network, peerFiles
<1>16. CASE Activate
  BY <1>16, ActivateEffect
<1>17. CASE Confirm
  BY <1>17 DEF Confirm, Free, At, peerFiles
<1>18. CASE Publish
  BY <1>18 DEF Publish, At, RunInv, ReceivePoints
<1>19. CASE Forget
  BY <1>19, ForgetEffect
<1>20. CASE MarkReverting
  BY <1>20, MarkRevertingEffect
<1>21. CASE Rearm
  BY <1>21 DEF Rearm, At, peerFiles
<1>22. CASE RestoreFiles
  BY <1>22 DEF RestoreFiles, At, Network, peerFiles
<1>23. CASE Reactivate
  BY <1>23 DEF Reactivate, At, peerFiles, RunInv, ReceivePoints, Restoring
<1>24. CASE RestoreTable
  BY <1>24 DEF RestoreTable, At, peerFiles
<1>25. CASE RecordRestored
  BY <1>25, RecordRestoredEffect
<1>26. CASE DropExternal
  BY <1>26 DEF DropExternal, At, Dropped
<1>27. CASE DropQuiesce
  BY <1>27 DEF DropQuiesce, At, Dropped
<1>28. CASE BootReceiving
  BY <1>28 DEF BootReceiving, Free, peerFiles
<1>29. CASE Fail
  BY <1>29, FailEffect
<1>30. CASE Reboot
  BY <1>30 DEF Reboot, peerFiles
<1>31. CASE Expire
  BY <1>31 DEF Expire, peerFiles
<1>32. \/ UNCHANGED <<docs, quiesce, external, done, archived, rnet, offers, pending,
               decision, host, timers, late, up>>
      \/ Archive \/ PrepareHandoff \/ Fence \/ CancelHandoff \/ Unfence \/ ChangeNetwork
      \/ BootReleasing \/ BootCompletes \/ CommitHandoff \/ Reserve \/ Arm
      \/ RunApplyJob \/ ApplyTable \/ ApplyFiles \/ Activate \/ Confirm \/ Publish
      \/ Forget \/ MarkReverting \/ Rearm \/ RestoreFiles \/ Reactivate \/ RestoreTable
      \/ RecordRestored \/ DropExternal \/ DropQuiesce \/ BootReceiving \/ Fail
      \/ Reboot \/ Expire
  BY DEF HandNext, Steps, handVars, peerFiles, CompleteRelease, FailPublish, RunRecovery,
       Revert, BootRecovers, Die
<1> QED
  BY <1>1, <1>2, <1>3, <1>4, <1>5, <1>6, <1>7, <1>8, <1>9, <1>10, <1>11, <1>12, <1>13, <1>14,
       <1>15, <1>16, <1>17, <1>18, <1>19, <1>20, <1>21, <1>22, <1>23, <1>24, <1>25, <1>26,
            <1>27, <1>28, <1>29, <1>30, <1>31, <1>32

\* The decision is made once, under the reservation, whatever step is taken.
LEMMA DecidedKept ==
    ASSUME HandInv, [HandNext]_handVars
    PROVE  DecidedInv'
<1> USE Known, EmptyJournal DEF HandInv, RunInv, DecidedInv, ReservedInv, PointInv, Touched,
     ReleasePoints, ReceivePoints, Staging, Applying, Restoring, Releasing
<1>1. CASE UNCHANGED <<done, decision, external, docs, quiesce, pending>>
  BY <1>1
<1>2. CASE PrepareHandoff
  BY <1>2 DEF PrepareHandoff, Free, Writable, At, ExternallyManaged
<1>3. CASE Fence
  BY <1>3 DEF Fence
<1>4. CASE CancelHandoff
  BY <1>4 DEF CancelHandoff, At, Cancellable
<1>5. CASE Unfence
  BY <1>5 DEF Unfence
<1>6. CASE CommitHandoff
  BY <1>6, CommitHandoffEffect
<1>7. CASE Reserve
  BY <1>7 DEF Reserve, At
<1>8. CASE RunApplyJob
  BY <1>8, RunApplyJobEffect
<1>9. CASE Activate
  BY <1>9, ActivateEffect
<1>10. CASE Confirm
  BY <1>10 DEF Confirm, Free, At, peerFiles, HostInv, HandTypeOK
<1>11. CASE Publish
  BY <1>11 DEF Publish, At
<1>12. CASE Forget
  BY ZenonT(60), <1>12, ForgetEffect
<1>13. CASE MarkReverting
  BY <1>13, MarkRevertingEffect
<1>14. CASE RecordRestored
  BY <1>14, RecordRestoredEffect
<1>15. CASE DropExternal
  BY <1>15 DEF DropExternal, At, Dropped
<1>16. CASE DropQuiesce
  BY <1>16 DEF DropQuiesce, At, Dropped
<1>17. CASE Fail
  BY ZenonT(60), <1>17, FailEffect
<1>18. \/ UNCHANGED <<done, decision, external, docs, quiesce, pending>>
      \/ PrepareHandoff \/ Fence \/ CancelHandoff \/ Unfence \/ CommitHandoff \/ Reserve
      \/ RunApplyJob \/ Activate \/ Confirm \/ Publish \/ Forget \/ MarkReverting
      \/ RecordRestored \/ DropExternal \/ DropQuiesce \/ Fail
  BY DEF HandNext, Steps, handVars, peerFiles, CompleteRelease, Archive, ChangeNetwork,
       BootReleasing, BootCompletes, Arm, ApplyTable, ApplyFiles, FailPublish, RunRecovery,
            Revert, Rearm, RestoreFiles, Reactivate, RestoreTable, BootRecovers,
                 BootReceiving, Die, Reboot, Expire
<1> QED
  BY <1>1, <1>2, <1>3, <1>4, <1>5, <1>6, <1>7, <1>8, <1>9, <1>10, <1>11, <1>12, <1>13, <1>14,
       <1>15, <1>16, <1>17, <1>18

\* The reservation and the fence stay with the transfer that has touched the host.
LEMMA ReservedKept ==
    ASSUME HandInv, [HandNext]_handVars
    PROVE  ReservedInv'
<1> USE Known, EmptyJournal DEF HandInv, RunInv, DecidedInv, ReservedInv, HostInv, PointInv,
     Touched, ReleasePoints, ReceivePoints, Staging, Applying, Restoring, Releasing
<1>1. CASE UNCHANGED <<decision, external, pending, quiesce, docs, rnet, run>>
  BY <1>1
<1>2. CASE CompleteRelease
  BY <1>2 DEF CompleteRelease, Free, ExternallyManaged, At, peerFiles
<1>3. CASE Archive
  BY <1>3 DEF Archive, At
<1>4. CASE PrepareHandoff
  BY <1>4 DEF PrepareHandoff, Free, Writable, At, ExternallyManaged
<1>5. CASE Fence
  BY <1>5 DEF Fence
<1>6. CASE CancelHandoff
  BY <1>6 DEF CancelHandoff, At, Cancellable
<1>7. CASE Unfence
  BY <1>7 DEF Unfence
<1>8. CASE ChangeNetwork
  BY <1>8 DEF ChangeNetwork, Free, Writable, Network, ExternallyManaged
<1>9. CASE BootCompletes
  BY <1>9 DEF BootCompletes, Free, ExternallyManaged, At, peerFiles
<1>10. CASE CommitHandoff
  BY <1>10, CommitHandoffEffect
<1>11. CASE Reserve
  BY <1>11 DEF Reserve, At
<1>12. CASE Arm
  BY <1>12 DEF Arm, peerFiles
<1>13. CASE RunApplyJob
  BY <1>13, RunApplyJobEffect
<1>14. CASE ApplyTable
  BY <1>14 DEF ApplyTable, At, peerFiles
<1>15. CASE ApplyFiles
  BY <1>15 DEF ApplyFiles, At, Network, peerFiles
<1>16. CASE Activate
  BY <1>16, ActivateEffect
<1>17. CASE Confirm
  BY <1>17 DEF Confirm, Free, At, peerFiles
<1>18. CASE Publish
  BY <1>18 DEF Publish, At
<1>19. CASE FailPublish
  BY <1>19 DEF FailPublish, peerFiles
<1>20. CASE Forget
  BY <1>20, ForgetEffect
<1>21. CASE RunRecovery
  BY <1>21 DEF RunRecovery, Free, At, Recovery, Committed, peerFiles
<1>22. CASE Revert
  BY <1>22 DEF Revert, Free, At, Recovery, Committed, peerFiles
<1>23. CASE MarkReverting
  BY <1>23, MarkRevertingEffect
<1>24. CASE Rearm
  BY <1>24 DEF Rearm, At, peerFiles
<1>25. CASE RestoreFiles
  BY <1>25 DEF RestoreFiles, At, Network, peerFiles
<1>26. CASE Reactivate
  BY <1>26 DEF Reactivate, At, peerFiles
<1>27. CASE RestoreTable
  BY <1>27 DEF RestoreTable, At, peerFiles
<1>28. CASE RecordRestored
  BY <1>28, RecordRestoredEffect
<1>29. CASE DropExternal
  BY <1>29 DEF DropExternal, At, Dropped
<1>30. CASE DropQuiesce
  BY <1>30 DEF DropQuiesce, At, Dropped
<1>31. CASE BootRecovers
  BY <1>31 DEF BootRecovers, Free, At, Recovery, Committed, peerFiles
<1>32. CASE Fail
  BY <1>32, FailEffect
<1>33. CASE Die
  BY <1>33 DEF Die, Free, peerFiles
<1>34. CASE Reboot
  BY <1>34 DEF Reboot, peerFiles
<1>35. \/ UNCHANGED <<decision, external, pending, quiesce, docs, rnet, run>>
      \/ CompleteRelease \/ Archive \/ PrepareHandoff \/ Fence \/ CancelHandoff
      \/ Unfence \/ ChangeNetwork \/ BootCompletes \/ CommitHandoff \/ Reserve \/ Arm
      \/ RunApplyJob \/ ApplyTable \/ ApplyFiles \/ Activate \/ Confirm \/ Publish
      \/ FailPublish \/ Forget \/ RunRecovery \/ Revert \/ MarkReverting \/ Rearm
      \/ RestoreFiles \/ Reactivate \/ RestoreTable \/ RecordRestored \/ DropExternal
      \/ DropQuiesce \/ BootRecovers \/ Fail \/ Die \/ Reboot
  BY DEF HandNext, Steps, handVars, peerFiles, BootReleasing, BootReceiving, Expire
<1> QED
  BY <1>1, <1>2, <1>3, <1>4, <1>5, <1>6, <1>7, <1>8, <1>9, <1>10, <1>11, <1>12, <1>13, <1>14,
       <1>15, <1>16, <1>17, <1>18, <1>19, <1>20, <1>21, <1>22, <1>23, <1>24, <1>25, <1>26,
            <1>27, <1>28, <1>29, <1>30, <1>31, <1>32, <1>33, <1>34, <1>35

\* Whose network the host runs stays what the decision and the journal say.
LEMMA HostKept ==
    ASSUME HandInv, [HandNext]_handVars
    PROVE  HostInv'
<1> USE Known, EmptyJournal DEF HandInv, RunInv, DecidedInv, ReservedInv, HostInv, PointInv,
     Touched, ReleasePoints, ReceivePoints, Staging, Applying, Restoring, Releasing
<1>1. CASE UNCHANGED <<decision, host, pending, rnet>>
  BY <1>1
<1>2. CASE ChangeNetwork
  BY <1>2 DEF ChangeNetwork, Free, Writable, Network, ExternallyManaged
<1>3. CASE BootReleasing
  BY <1>3 DEF BootReleasing, Free, ExternallyManaged, RebuildsGuards, peerFiles
<1>4. CASE CommitHandoff
  BY <1>4, CommitHandoffEffect
<1>5. CASE RunApplyJob
  BY <1>5, RunApplyJobEffect
<1>6. CASE ApplyTable
  BY <1>6 DEF ApplyTable, At, peerFiles
<1>7. CASE ApplyFiles
  BY <1>7 DEF ApplyFiles, At, Network, peerFiles
<1>8. CASE Activate
  BY <1>8, ActivateEffect DEF HandTypeOK
<1>9. CASE Confirm
  BY <1>9 DEF Confirm, Free, At, peerFiles
<1>10. CASE Forget
  BY <1>10, ForgetEffect
<1>11. CASE MarkReverting
  BY <1>11, MarkRevertingEffect
<1>12. CASE RestoreFiles
  BY <1>12 DEF RestoreFiles, At, Network, peerFiles
<1>13. CASE Reactivate
  BY <1>13 DEF Reactivate, At, peerFiles
<1>14. CASE RestoreTable
  BY <1>14 DEF RestoreTable, At, peerFiles
<1>15. CASE RecordRestored
  BY <1>15, RecordRestoredEffect
<1>16. CASE BootReceiving
  BY <1>16 DEF BootReceiving, Free, peerFiles
<1>17. CASE Fail
  BY ZenonT(60), <1>17, FailEffect
<1>18. CASE Reboot
  BY <1>18 DEF Reboot, peerFiles
<1>19. \/ UNCHANGED <<decision, host, pending, rnet>>
      \/ ChangeNetwork \/ BootReleasing \/ CommitHandoff \/ RunApplyJob \/ ApplyTable
      \/ ApplyFiles \/ Activate \/ Confirm \/ Forget \/ MarkReverting \/ RestoreFiles
      \/ Reactivate \/ RestoreTable \/ RecordRestored \/ BootReceiving \/ Fail \/ Reboot
  BY DEF HandNext, Steps, handVars, peerFiles, CompleteRelease, Archive, PrepareHandoff,
       Fence, CancelHandoff, Unfence, BootCompletes, Reserve, Arm, Publish, FailPublish,
            RunRecovery, Revert, Rearm, DropExternal, DropQuiesce, BootRecovers, Die, Expire
<1> QED
  BY <1>1, <1>2, <1>3, <1>4, <1>5, <1>6, <1>7, <1>8, <1>9, <1>10, <1>11, <1>12, <1>13, <1>14,
       <1>15, <1>16, <1>17, <1>18, <1>19

\* What an operation has done when it comes to a point.
LEMMA PointKept ==
    ASSUME HandInv, [HandNext]_handVars
    PROVE  PointInv'
<1> USE Known, EmptyJournal, HandoffAssumption DEF HandInv, RunInv, DecidedInv, ReservedInv,
     HostInv, PointInv, Touched, ReleasePoints, ReceivePoints, Staging, Applying, Restoring,
          Releasing
<1>1. CASE UNCHANGED <<run, quiesce, external, pending, host, decision, done, offers>>
  BY <1>1
<1>2. CASE CompleteRelease
  BY <1>2 DEF CompleteRelease, Free, ExternallyManaged, At, peerFiles
<1>3. CASE Archive
  BY <1>3 DEF Archive, At
<1>4. CASE PrepareHandoff
  BY <1>4 DEF PrepareHandoff, Free, Writable, At, ExternallyManaged, HandTypeOK, Ids,
       HandoffAssumption
<1>5. CASE Fence
  BY <1>5 DEF Fence
<1>6. CASE CancelHandoff
  BY <1>6 DEF CancelHandoff, At, Cancellable
<1>7. CASE Unfence
  BY <1>7 DEF Unfence
<1>8. CASE ChangeNetwork
  BY <1>8 DEF ChangeNetwork, Free, Writable, Network, ExternallyManaged
<1>9. CASE BootReleasing
  BY <1>9 DEF BootReleasing, Free, ExternallyManaged, RebuildsGuards, peerFiles
<1>10. CASE BootCompletes
  BY <1>10 DEF BootCompletes, Free, ExternallyManaged, At, peerFiles
<1>11. CASE CommitHandoff
  BY <1>11, CommitHandoffEffect
<1>12. CASE Reserve
  BY <1>12 DEF Reserve, At
<1>13. CASE Arm
  BY <1>13 DEF Arm, peerFiles
<1>14. CASE RunApplyJob
  BY <1>14, RunApplyJobEffect
<1>15. CASE ApplyTable
  BY <1>15 DEF ApplyTable, At, peerFiles
<1>16. CASE ApplyFiles
  BY <1>16 DEF ApplyFiles, At, Network, peerFiles
<1>17. CASE Activate
  BY <1>17, ActivateEffect
<1>18. CASE Confirm
  BY <1>18 DEF Confirm, Free, At, peerFiles
<1>19. CASE Publish
  BY <1>19 DEF Publish, At
<1>20. CASE FailPublish
  BY <1>20 DEF FailPublish, peerFiles
<1>21. CASE Forget
  BY <1>21, ForgetEffect
<1>22. CASE RunRecovery
  BY <1>22 DEF RunRecovery, Free, At, Recovery, Committed, peerFiles
<1>23. CASE Revert
  BY <1>23 DEF Revert, Free, At, Recovery, Committed, peerFiles
<1>24. CASE MarkReverting
  BY <1>24, MarkRevertingEffect
<1>25. CASE Rearm
  BY <1>25 DEF Rearm, At, peerFiles
<1>26. CASE RestoreFiles
  BY <1>26 DEF RestoreFiles, At, Network, peerFiles
<1>27. CASE Reactivate
  BY <1>27 DEF Reactivate, At, peerFiles
<1>28. CASE RestoreTable
  BY <1>28 DEF RestoreTable, At, peerFiles
<1>29. CASE RecordRestored
  BY <1>29, RecordRestoredEffect
<1>30. CASE DropExternal
  BY <1>30 DEF DropExternal, At, Dropped
<1>31. CASE DropQuiesce
  BY <1>31 DEF DropQuiesce, At, Dropped
<1>32. CASE BootRecovers
  BY <1>32 DEF BootRecovers, Free, At, Recovery, Committed, peerFiles
<1>33. CASE BootReceiving
  BY <1>33 DEF BootReceiving, Free, peerFiles
<1>34. CASE Fail
  BY <1>34, FailEffect
<1>35. CASE Die
  BY <1>35 DEF Die, Free, peerFiles
<1>36. CASE Reboot
  BY <1>36 DEF Reboot, peerFiles
<1>37. \/ UNCHANGED <<run, quiesce, external, pending, host, decision, done, offers>>
      \/ CompleteRelease \/ Archive \/ PrepareHandoff \/ Fence \/ CancelHandoff
      \/ Unfence \/ ChangeNetwork \/ BootReleasing \/ BootCompletes \/ CommitHandoff
      \/ Reserve \/ Arm \/ RunApplyJob \/ ApplyTable \/ ApplyFiles \/ Activate
      \/ Confirm \/ Publish \/ FailPublish \/ Forget \/ RunRecovery \/ Revert
      \/ MarkReverting \/ Rearm \/ RestoreFiles \/ Reactivate \/ RestoreTable
      \/ RecordRestored \/ DropExternal \/ DropQuiesce \/ BootRecovers \/ BootReceiving
      \/ Fail \/ Die \/ Reboot
  BY DEF HandNext, Steps, handVars, peerFiles, Expire
<1> QED
  BY <1>1, <1>2, <1>3, <1>4, <1>5, <1>6, <1>7, <1>8, <1>9, <1>10, <1>11, <1>12, <1>13, <1>14,
       <1>15, <1>16, <1>17, <1>18, <1>19, <1>20, <1>21, <1>22, <1>23, <1>24, <1>25, <1>26,
            <1>27, <1>28, <1>29, <1>30, <1>31, <1>32, <1>33, <1>34, <1>35, <1>36, <1>37


-------------------------------------------------------------------------------
(* The promises.                                                               *)

\* The two engines start with no offer and no transfer, on R's network.
LEMMA InvAtFirst == HandInit => HandInv
<1> SUFFICES ASSUME HandInit PROVE HandInv
  OBVIOUS
<1> USE EmptyJournal, NetworkTypes, HandoffAssumption DEF HandInit
<1>1. HandTypeOK
  <2>1. host \in [net : Networks, guard : {"R", "A", "none"}]
    <3>1. 1 \in 1 .. 1 + MaxChanges
      BY DEF HandoffAssumption
    <3>2. Network("R", 1) \in Networks
      BY <3>1, NetworkTypes, Zenon
    <3> QED
      BY <3>2
  <2>2. rnet \in 1 .. 1 + MaxChanges /\ offers \in 0 .. MaxOffers
    BY DEF HandoffAssumption
  <2>3. run.j \in Journals /\ pending \in Journals
    OBVIOUS
  <2>4. /\ docs \subseteq Ids /\ quiesce \in Ids \cup {None} /\ external \in Ids \cup {None}
        /\ done \subseteq Ids /\ archived \in BOOLEAN /\ decision \in Ids \cup {None}
        /\ timers \in BOOLEAN /\ late \in BOOLEAN /\ up \subseteq {"R", "A"}
    OBVIOUS
  <2> QED
    BY <2>1, <2>2, <2>3, <2>4 DEF HandTypeOK
<1>2. RunInv
  <2>1. Idle \in [at : {"idle"}, j : Journals, boot : BOOLEAN]
    BY DEF Idle
  <2>2. Idle \in [at : {"idle"} \cup ReleasePoints \cup ReceivePoints, j : Journals,
                  boot : BOOLEAN]
    BY <2>1
  <2> QED
    BY <2>2 DEF RunInv, ReleasePoints, ReceivePoints, Staging, Applying, Restoring, Releasing
<1>3. DecidedInv
  BY DEF DecidedInv
<1>4. ReservedInv
  BY DEF ReservedInv, Touched
<1>5. HostInv
  BY DEF HostInv, Touched
<1>6. PointInv
  BY DEF PointInv, ReceivePoints, Staging, Applying, Restoring, Releasing
<1> QED
  BY <1>1, <1>2, <1>3, <1>4, <1>5, <1>6 DEF HandInv

LEMMA InvKept == HandInv /\ [HandNext]_handVars => HandInv'
<1> SUFFICES ASSUME HandInv, [HandNext]_handVars PROVE HandInv'
  OBVIOUS
<1> QED
  BY TypeKept, RunKept, DecidedKept, ReservedKept, HostKept, PointKept DEF HandInv

\* The invariant holds of every behaviour of the two engines.
THEOREM HandInvHolds == HandSpec => []HandInv
<1> QED
  BY InvAtFirst, InvKept, PTL DEF HandSpec

\* The values keep their types; while R may write, the host runs R's committed
\* network without a table of A; once A has decided, the host keeps A's network;
\* and R's offer is withdrawn only by R or by the transfer that took it up
\* (handoff.rs `writable`, `restored`, `kept`).
THEOREM HandoffIsSafeHolds == HandSpec => HandoffIsSafe
<1>1. HandInv => HandTypeOK
  BY DEF HandInv
<1>2. HandInv => DecisionStands
  BY DEF HandInv, HostInv, DecisionStands
<1>3. HandInv => WritableIsOnOwnNetwork
  <2> SUFFICES ASSUME HandInv, Writable
               PROVE  host.net = Network("R", rnet) /\ host.guard # "A"
    BY DEF WritableIsOnOwnNetwork
  <2>1. quiesce = None /\ ~ExternallyManaged
    BY DEF Writable
  <2>2. decision = None
    BY <2>1 DEF HandInv, DecidedInv, ExternallyManaged
  <2>3. ~Touched
    BY <2>1, <2>2 DEF HandInv, ReservedInv, Touched
  <2> QED
    BY <2>2, <2>3 DEF HandInv, HostInv
<1>4. HandInv /\ [HandNext]_handVars =>
        [quiesce # None /\ quiesce' # quiesce =>
            run.at = "unfence" \/ run.j.id = quiesce]_handVars
  <2> SUFFICES ASSUME HandInv, [HandNext]_handVars, quiesce # None, quiesce' # quiesce
               PROVE  run.at = "unfence" \/ run.j.id = quiesce
    OBVIOUS
  <2>1. Fence \/ Unfence \/ DropQuiesce
    BY CommitHandoffEffect, RunApplyJobEffect, ActivateEffect, ForgetEffect,
       MarkRevertingEffect, RecordRestoredEffect, FailEffect
    DEF HandInv, HandNext, Steps, handVars, peerFiles, CompleteRelease, Archive,
         PrepareHandoff, CancelHandoff, ChangeNetwork, BootReleasing, BootCompletes, Reserve,
              Arm, ApplyTable, ApplyFiles, Confirm, Publish, FailPublish, RunRecovery,
                   Revert, Rearm, RestoreFiles, Reactivate, RestoreTable, DropExternal,
                        BootRecovers, BootReceiving, Die, Reboot, Expire
  <2>2. CASE Fence
    BY <2>2 DEF Fence, HandInv, PointInv
  <2>3. CASE Unfence
    BY <2>3 DEF Unfence
  <2>4. CASE DropQuiesce
    BY <2>4 DEF DropQuiesce, Dropped
  <2> QED
    BY <2>1, <2>2, <2>3, <2>4
<1> QED
  BY <1>1, <1>2, <1>3, <1>4, HandInvHolds, PTL DEF HandSpec, HandoffIsSafe,
     OfferWithdrawnByItsOwn

----------------
(* The import of the legacy stack.*)

\* The import by itself, without what the timer and the boot owe it.
MigSafe == MigInit /\ [][MigNext]_migVars

-------------------------------------------------------------------------------
(* The inductive invariant.                                                    *)

Upgrades == [base : Nat, target : {"none", "old", "new", "adopt"}, undo : BOOLEAN,
             recovered : BOOLEAN, replacement : {"none", "old", "new"}]
JobPoints == {"idle", "arm", "undo", "reactivate", "recovered", "review", "commit", "clean", "stop"}
MigTypes ==
    /\ sources \subseteq {"committed", "profile", "base", "index"}
    /\ inFlight \in {"none", "scheduled", "applied", "confirmed"}
    /\ live \in {"old", "new", "mixed"}
    /\ auth \in [revision : Nat, net : {"none", "old", "new"}]
    /\ upgrade \in Upgrades /\ job \in [at : JobPoints, u : Upgrades, boot : BOOLEAN]
    /\ unsound \in BOOLEAN /\ retrying \in BOOLEAN /\ stack \in BOOLEAN
    /\ migWrites \in 0 .. MigWrites

\* The decision moved once for the import and once for each setting saved.
CountInv == auth.revision = IF auth.net = "none" THEN migWrites ELSE migWrites + 1

\* A job works from the upgrade journal on disk, which it removes at the end.
JournalInv ==
    /\ job.at = "idle" => job = NoJob
    /\ job.at # "idle" => job.u.target # "none"
    /\ job.at \notin {"idle", "stop"} => upgrade = job.u
    /\ job.at = "stop" => upgrade = NoUpgrade /\ sources = {}
    /\ upgrade.target = "none" => upgrade = NoUpgrade

\* An undo in progress is in the journal; what was recovered is no mixture.
UndoInv ==
    /\ live = "mixed" => upgrade.target # "none" /\ upgrade.undo /\ ~upgrade.recovered
    /\ job.at \in {"undo", "reactivate", "recovered"} => ~job.u.recovered
    /\ job.at = "recovered" => live # "mixed"
    /\ job.at \in {"review", "commit"} => job.u.recovered

\* What will be decided was recovered and is what the host runs.
ReplacementInv ==
    /\ upgrade.replacement # "none" => upgrade.recovered /\ live = upgrade.replacement
    /\ job.at = "commit" => job.u.replacement # "none"

\* Nothing is imported twice: what is left of the import only cleans up.
ImportedInv ==
    /\ auth.net = "none" => job.at \notin {"clean", "stop"}
    /\ auth.net # "none" =>
        /\ job.at \in {"idle", "arm", "clean", "stop"}
        /\ live = auth.net
        /\ job.at # "idle" => job.u.replacement = auth.net
        /\ upgrade.target # "none" => upgrade.replacement = auth.net
        /\ sources # {} => upgrade.target # "none"
    /\ job.at = "stop" => job.u.recovered

MigInv == MigTypes /\ CountInv /\ JournalInv /\ UndoInv /\ ReplacementInv /\ ImportedInv

-------------------------------------------------------------------------------
(* The steps.                                                                  *)

LEMMA MigInvAtFirst == MigInit => MigInv
<1> SUFFICES ASSUME MigInit PROVE MigInv
  OBVIOUS
<1>1. upgrade = NoUpgrade /\ job = NoJob /\ NoUpgrade \in Upgrades /\ NoUpgrade.target = "none"
      /\ NoUpgrade.replacement = "none"
  BY DEF MigInit, NoUpgrade, Upgrades
<1>2. job.at = "idle" /\ job \in [at : JobPoints, u : Upgrades, boot : BOOLEAN]
  BY <1>1 DEF NoJob, JobPoints
<1>3. /\ auth.net = "none" /\ auth.revision = 0 /\ migWrites = 0
      /\ auth \in [revision : Nat, net : {"none", "old", "new"}]
  BY DEF MigInit
<1>4. live \in {"old", "new"}
  BY DEF MigInit
<1>5. sources \subseteq {"committed", "profile", "base", "index"}
  BY DEF MigInit
<1>6. inFlight \in {"none", "scheduled", "applied", "confirmed"}
  BY DEF MigInit
<1>7. MigTypes
  <2>1. unsound \in BOOLEAN /\ retrying \in BOOLEAN /\ stack \in BOOLEAN
    BY DEF MigInit
  <2>2. migWrites \in 0 .. MigWrites /\ live \in {"old", "new", "mixed"} /\ upgrade \in Upgrades
    BY <1>1, <1>3, <1>4, MigrationAssumption
  <2> QED
    BY <1>2, <1>3, <1>5, <1>6, <2>1, <2>2 DEF MigTypes
<1> QED
  BY <1>1, <1>2, <1>3, <1>4, <1>7
     DEF MigInv, CountInv, JournalInv, UndoInv, ReplacementInv, ImportedInv

LEMMA StartKeeps == ASSUME MigInv, NEW boot \in BOOLEAN, Start(boot) PROVE MigInv'
<1>1. /\ UNCHANGED <<sources, inFlight, live, auth, unsound, retrying, stack, migWrites>>
      /\ job = NoJob /\ (sources # {} \/ upgrade # NoUpgrade)
  BY DEF Start, Stopped, Needed, migLimits
<1>2. PICK u : u = IF upgrade = NoUpgrade THEN Make ELSE upgrade
  OBVIOUS
<1>3. upgrade' = u /\ job' = [at |-> "arm", u |-> u, boot |-> boot]
  BY <1>2 DEF Start
<1>4. /\ upgrade = NoUpgrade => auth.net = "none" /\ live # "mixed"
      /\ upgrade # NoUpgrade => upgrade.target # "none"
  BY <1>1 DEF MigInv, ImportedInv, JournalInv, UndoInv, NoUpgrade
<1>5. CASE upgrade = NoUpgrade
  <2>1. /\ u \in Upgrades /\ u.target # "none" /\ u.replacement = "none" /\ ~u.recovered
    <3>1. PICK target : target = IF sources \cap {"committed", "profile"} = {} THEN "adopt"
                                 ELSE IF inFlight = "confirmed" THEN "new" ELSE "old"
      OBVIOUS
    <3>2. u = [base |-> auth.revision, target |-> target, undo |-> UndoPlan, recovered |-> FALSE,
               replacement |-> "none"]
      BY <1>2, <1>5, <3>1 DEF Make, NoUpgrade
    <3>3. auth.revision \in Nat /\ target \in {"adopt", "new", "old"} /\ UndoPlan \in BOOLEAN
      BY <3>1 DEF MigInv, MigTypes, UndoPlan
    <3> QED
      BY <3>2, <3>3 DEF Upgrades
  <2> QED
    BY <1>1, <1>3, <1>4, <1>5, <2>1
       DEF MigInv, MigTypes, JobPoints, CountInv, JournalInv, UndoInv, ReplacementInv, ImportedInv
<1>6. CASE upgrade # NoUpgrade
  BY <1>1, <1>2, <1>3, <1>4, <1>6
     DEF MigInv, MigTypes, JobPoints, CountInv, JournalInv, UndoInv, ReplacementInv, ImportedInv
<1> QED
  BY <1>5, <1>6

\* Steps that end the job, and leave the journal of the disk as the job has it.
LEMMA EndKeeps ==
    ASSUME MigInv, job' = NoJob,
           UNCHANGED <<sources, inFlight, live, auth, unsound, migWrites>>,
           upgrade' = upgrade \/ (job # NoJob /\ upgrade' = job.u),
           retrying' \in BOOLEAN, stack' \in BOOLEAN
    PROVE  MigInv'
<1>1. job'.at = "idle" /\ job' \in [at : JobPoints, u : Upgrades, boot : BOOLEAN]
  BY DEF NoJob, NoUpgrade, JobPoints, Upgrades
<1>2. CASE upgrade' = upgrade
  BY <1>1, <1>2 DEF MigInv, MigTypes, CountInv, JournalInv, UndoInv, ReplacementInv, ImportedInv
<1>3. CASE job # NoJob /\ upgrade' = job.u
  <2>1. job.at # "idle" /\ job.u \in Upgrades
    BY <1>3 DEF MigInv, MigTypes, JournalInv
  <2>2. CASE job.at # "stop"
    BY <1>1, <1>3, <2>1, <2>2
       DEF MigInv, MigTypes, CountInv, JournalInv, UndoInv, ReplacementInv, ImportedInv
  <2>3. CASE job.at = "stop"
    BY <1>1, <1>3, <2>1, <2>3
       DEF MigInv, MigTypes, CountInv, JournalInv, UndoInv, ReplacementInv, ImportedInv
  <2> QED
    BY <2>2, <2>3
<1> QED
  BY <1>2, <1>3

LEMMA UndoKeeps ==
    ASSUME MigInv, ArmRetry \/ Undo \/ UndoActivate
    PROVE  MigInv'
<1>1. /\ UNCHANGED <<sources, inFlight, auth, upgrade, unsound, stack, migWrites>>
      /\ retrying' \in BOOLEAN
  BY DEF ArmRetry, Undo, UndoActivate, migDisk, migLimits, MigInv, MigTypes
<1>2. CASE ArmRetry
  <2>1. PICK at : at = IF Decided THEN "clean" ELSE IF job.u.recovered THEN "review" ELSE "undo"
    OBVIOUS
  <2>2. job.at = "arm" /\ live' = live /\ job' = [at |-> at, u |-> job.u, boot |-> job.boot]
    BY <1>2, <2>1 DEF ArmRetry, To, MigInv, MigTypes
  <2>3. /\ at \in {"clean", "review", "undo"}
        /\ at = "clean" => auth.net # "none" /\ auth.net = job.u.replacement
        /\ at # "clean" => auth.net = "none"
        /\ at = "review" => job.u.recovered
        /\ at = "undo" => ~job.u.recovered
    BY <2>1, <2>2 DEF Decided, MigInv, ImportedInv
  <2> QED
    BY <1>1, <2>2, <2>3
       DEF MigInv, MigTypes, JobPoints, CountInv, JournalInv, UndoInv, ReplacementInv, ImportedInv
<1>3. CASE Undo
  <2>1. PICK at : at = IF job.u.undo THEN "reactivate" ELSE "recovered"
    OBVIOUS
  <2>2. /\ job.at = "undo" /\ job' = [at |-> at, u |-> job.u, boot |-> job.boot]
        /\ live' = IF job.u.undo THEN "mixed" ELSE live
        /\ at \in {"reactivate", "recovered"} /\ (at = "recovered" => ~job.u.undo)
    BY <1>3, <2>1 DEF Undo, To, MigInv, MigTypes
  <2> QED
    BY <1>1, <2>2
       DEF MigInv, MigTypes, JobPoints, CountInv, JournalInv, UndoInv, ReplacementInv, ImportedInv
<1>4. CASE UndoActivate
  <2>1. /\ job.at = "reactivate" /\ job' = [at |-> "recovered", u |-> job.u, boot |-> job.boot]
        /\ live' = "old"
    BY <1>4 DEF UndoActivate, To, MigInv, MigTypes
  <2> QED
    BY <1>1, <2>1
       DEF MigInv, MigTypes, JobPoints, CountInv, JournalInv, UndoInv, ReplacementInv, ImportedInv
<1> QED
  BY <1>2, <1>3, <1>4

LEMMA RecordKeeps ==
    ASSUME MigInv, RecordRecovered \/ RecordReplacement
    PROVE  MigInv'
<1>1. UNCHANGED <<sources, inFlight, live, auth, unsound, retrying, stack, migWrites>>
  BY DEF RecordRecovered, RecordReplacement, migLimits
<1>2. CASE RecordRecovered
  <2>1. PICK u : u = Recovered
    OBVIOUS
  <2>2. /\ job.at = "recovered" /\ upgrade' = u
        /\ job' = [at |-> "review", u |-> u, boot |-> job.boot]
    BY <1>2, <2>1 DEF RecordRecovered, To, MigInv, MigTypes
  <2>3. /\ u \in Upgrades /\ u.recovered /\ u.target = job.u.target /\ u.replacement = job.u.replacement
    BY <2>1 DEF Recovered, MigInv, MigTypes, Upgrades
  <2> QED
    BY <1>1, <2>2, <2>3
       DEF MigInv, MigTypes, JobPoints, CountInv, JournalInv, UndoInv, ReplacementInv, ImportedInv
<1>3. CASE RecordReplacement
  <2>1. PICK u : u = [job.u EXCEPT !.replacement = IF @ = "none" THEN Imported(job.u) ELSE @]
    OBVIOUS
  <2>2. /\ job.at = "review" /\ Imported(job.u) = live /\ upgrade' = u
        /\ job' = [at |-> "commit", u |-> u, boot |-> job.boot]
    BY <1>3, <2>1 DEF RecordReplacement, Ready, To, MigInv, MigTypes
  <2>3. upgrade = job.u /\ job.u.recovered /\ live # "mixed"
    BY <2>2 DEF MigInv, JournalInv, UndoInv
  <2>4. /\ u \in Upgrades /\ u.recovered /\ u.target = job.u.target /\ u.replacement = live
    BY <2>1, <2>2, <2>3 DEF MigInv, MigTypes, Upgrades, ReplacementInv
  <2> QED
    BY <1>1, <2>2, <2>3, <2>4
       DEF MigInv, MigTypes, JobPoints, CountInv, JournalInv, UndoInv, ReplacementInv, ImportedInv
<1> QED
  BY <1>2, <1>3

LEMMA CommitKeeps == ASSUME MigInv, Commit \/ CommitUnsure PROVE MigInv'
<1>1. /\ UNCHANGED <<sources, inFlight, live, upgrade, unsound, retrying, stack, migWrites>>
      /\ job.at = "commit" /\ job' = [at |-> "clean", u |-> job.u, boot |-> job.boot]
      /\ auth' = [revision |-> auth.revision + 1, net |-> job.u.replacement]
  BY DEF Commit, CommitUnsure, To, migDisk, migLimits, MigInv, MigTypes
<1>2. /\ auth.net = "none" /\ job.u.replacement # "none" /\ live = job.u.replacement
      /\ upgrade = job.u
  BY <1>1 DEF MigInv, JournalInv, ReplacementInv, ImportedInv
<1> QED
  BY <1>1, <1>2
     DEF MigInv, MigTypes, Upgrades, JobPoints, CountInv, JournalInv, UndoInv, ReplacementInv, ImportedInv

LEMMA CleanKeeps == ASSUME MigInv, RemoveSource \/ RemoveUpgrade PROVE MigInv'
<1>1. UNCHANGED <<live, auth, unsound, retrying, stack, migWrites>> /\ job.at = "clean"
  BY DEF RemoveSource, RemoveUpgrade, Cleans, migLimits
<1>2. CASE RemoveSource
  <2>1. /\ UNCHANGED <<job, upgrade>> /\ sources' \subseteq sources
        /\ inFlight' \in {"none", inFlight}
    BY <1>2 DEF RemoveSource
  <2> QED
    BY <1>1, <2>1
       DEF MigInv, MigTypes, CountInv, JournalInv, UndoInv, ReplacementInv, ImportedInv
<1>3. CASE RemoveUpgrade
  <2>1. /\ UNCHANGED <<sources, inFlight>> /\ sources = {} /\ upgrade' = NoUpgrade
        /\ job' = [at |-> "stop", u |-> job.u, boot |-> job.boot]
    BY <1>3 DEF RemoveUpgrade, To, MigInv, MigTypes
  <2>2. NoUpgrade \in Upgrades /\ NoUpgrade.target = "none" /\ NoUpgrade.replacement = "none"
    BY DEF NoUpgrade, Upgrades
  <2>3. upgrade = job.u /\ auth.net # "none" /\ job.u.replacement = auth.net /\ job.u.recovered
    BY <1>1 DEF MigInv, JournalInv, ImportedInv, ReplacementInv
  <2> QED
    BY <1>1, <2>1, <2>2, <2>3
       DEF MigInv, MigTypes, JobPoints, CountInv, JournalInv, UndoInv, ReplacementInv, ImportedInv
<1> QED
  BY <1>2, <1>3

\* Steps beside the jobs.
LEMMA AsideKeeps ==
    ASSUME MigInv, BootClean \/ Repair \/ SaveSetting \/ UNCHANGED migVars
    PROVE  MigInv'
<1>1. UNCHANGED <<sources, inFlight, live, upgrade, job>>
  BY DEF BootClean, Repair, SaveSetting, migVars, migDisk
<1>2. unsound' \in BOOLEAN /\ retrying' \in BOOLEAN /\ stack' \in BOOLEAN
  BY DEF BootClean, Repair, SaveSetting, migVars, MigInv, MigTypes
<1>3. CASE SaveSetting
  <2>1. /\ migWrites < MigWrites /\ migWrites' = migWrites + 1
        /\ auth' = [revision |-> auth.revision + 1, net |-> auth.net]
    BY <1>3 DEF SaveSetting, MigInv, MigTypes
  <2> QED
    BY <1>1, <1>2, <2>1, MigrationAssumption
       DEF MigInv, MigTypes, CountInv, JournalInv, UndoInv, ReplacementInv, ImportedInv
<1>4. CASE BootClean \/ Repair \/ UNCHANGED migVars
  <2>1. UNCHANGED <<auth, migWrites>>
    BY <1>4 DEF BootClean, Repair, migVars, migLimits
  <2> QED
    BY <1>1, <1>2, <2>1
       DEF MigInv, MigTypes, CountInv, JournalInv, UndoInv, ReplacementInv, ImportedInv
<1> QED
  BY <1>3, <1>4

LEMMA MigInvKept == MigInv /\ [MigNext]_migVars => MigInv'
<1> SUFFICES ASSUME MigInv, [MigNext]_migVars PROVE MigInv'
  OBVIOUS
<1>1. CASE BootJob \/ RetryJob \/ MigrateLegacy
  BY <1>1, StartKeeps DEF BootJob, RetryJob, MigrateLegacy
<1>2. CASE NotReady \/ RefuseStore \/ RevisionConflict \/ StopRetry \/ JobDies \/ DeviceReboots
  BY <1>2, EndKeeps DEF NotReady, RefuseStore, RevisionConflict, StopRetry, JobDies, DeviceReboots,
     migDisk, migLimits, MigInv, MigTypes
<1>3. CASE FailStep
  <2>1. UNCHANGED <<sources, inFlight, live, auth, unsound, migWrites, retrying, stack>>
    BY <1>3 DEF FailStep
  <2> QED
    BY <1>3, <2>1, EndKeeps DEF FailStep, Stopped, MigInv, MigTypes
<1> QED
  BY <1>1, <1>2, <1>3, UndoKeeps, RecordKeeps, CommitKeeps, CleanKeeps, AsideKeeps
     DEF MigNext, JobSteps

\* MigInv is an inductive invariant of the import: for any failing steps, deaths,
\* reboots and settings saved meanwhile, the upgrade journal says what was undone
\* and what will be decided (migration.rs, run).
THEOREM MigInvHolds == MigSafe => []MigInv
BY MigInvAtFirst, MigInvKept, PTL DEF MigSafe

\* The decision that was imported is the network the host runs, also after an
\* undo that was interrupted, and no 1.3 file goes before the decision
\* (migration.rs, recover, commit, cleanup).
THEOREM ImportIsSafe == MigSafe => MigrationPromises
<1>1. MigInv => MigTypeOK
  <2> SUFFICES ASSUME MigInv PROVE MigTypeOK
    OBVIOUS
  <2>1. auth.revision \in 0 .. 1 + MigWrites
    BY MigrationAssumption DEF MigInv, MigTypes, CountInv
  <2> QED
    BY <2>1 DEF MigInv, MigTypes, MigTypeOK, Upgrades
<1>2. MigInv => DecisionIsLive
  BY DEF MigInv, ImportedInv, DecisionIsLive
<1>3. ASSUME MigInv, [MigNext]_migVars
      PROVE  sources' # sources => auth.net # "none" /\ auth.net = upgrade.replacement
  <2>1. sources' # sources => job.at = "clean"
    BY <1>3 DEF MigNext, JobSteps, BootJob, RetryJob, MigrateLegacy, Start, BootClean, ArmRetry, Undo,
       UndoActivate, RecordRecovered, RecordReplacement, NotReady, RefuseStore, Commit,
       RevisionConflict, RemoveSource, Cleans, RemoveUpgrade, StopRetry, FailStep, CommitUnsure,
       JobDies, DeviceReboots, Repair, SaveSetting, migDisk, migVars
  <2> QED
    BY <1>3, <2>1 DEF MigInv, JournalInv, ImportedInv
<1> QED
  BY <1>1, <1>2, <1>3, MigInvHolds, PTL DEF MigSafe, MigrationPromises, SourcesOutliveImport

-------------------------------------------------------------------------------
(* Connections of NetworkManager.                                              *)

\* The jobs by themselves, without what their timers owe them.
NmSafe == NmInit /\ [][NmNext]_nmVars

-------------------------------------------------------------------------------
(* The inductive invariant.                                                    *)

\* The values of the variables.
NmFiles == [there : BOOLEAN, val : NmValues, auto : BOOLEAN, moved : BOOLEAN, saved : BOOLEAN]
NmCons == [here : BOOLEAN, val : NmValues, auto : BOOLEAN, on : BOOLEAN, file : NmFiles]
NmChs == [uuid : NmUuids \ {NmForeign}, existed : BOOLEAN, removed : BOOLEAN, before : NmCons]
NmSteps == {"idle", "staged", "settle", "apply", "links", "ready", "applied", "prune", "recover",
            "relinks", "failed"}
NmSubs == {"begin", "modify", "up", "files", "verify"}

ConTypes == nCon \in [NmUuids -> NmCons] /\ nLinks \subseteq NmTags /\ nNetplan \in BOOLEAN
LeftTypes == nLeft \in [changes : 0 .. NmChanges, edits : 0 .. NmEdits, faults : 0 .. NmFaults]

\* The changes planned so far; an identity names the change it is from.
NmSpent == NmChanges - nLeft.changes
DocOwned == Owned(nDoc.owned, nDoc.tags)
PlanOwned == Owned(nPlan.owned, nPlan.tags)
\* The connections of changes that have come to an end.
Bygone == nDoc.ever \cup nDoc.lost
LostTags == {u[1] : u \in nDoc.lost}
DocTypes ==
    /\ nDoc \in [tags : SUBSET NmTags, owned : [NmTags -> 0 .. NmChanges],
                ever : SUBSET NmUuids, lost : SUBSET NmUuids]
    /\ \A t \in nDoc.tags : nDoc.owned[t] \in 1 .. NmChanges
    /\ DocOwned \subseteq nDoc.ever
    /\ \A u \in Bygone : u[2] <= NmSpent
PlanTypes ==
    /\ nPlan \in [n : 0 .. NmChanges, tags : SUBSET NmTags, owned : [NmTags -> 0 .. NmChanges],
                  ch : Seq(NmChs)]
    /\ \A i, j \in DOMAIN nPlan.ch : nPlan.ch[i].uuid = nPlan.ch[j].uuid => i = j
AtTypes ==
    /\ nAt \in [step : NmSteps, i : Nat, sub : NmSubs]
    /\ 1 <= nAt.i /\ nAt.i <= Len(nPlan.ch) + 1
    /\ nAt.step \notin {"apply", "recover"} => nAt.sub = "begin"
    /\ nAt.sub # "begin" => nAt.i <= Len(nPlan.ch)

\* Until it is committed, the plan names what the document owns and what it creates.
Making == {"apply", "ready", "applied", "recover", "relinks", "failed"}
Uncommitted == {"staged", "settle"} \cup Making
Planned(c) ==
    /\ c.existed = (c.uuid \in {NmParent} \cup DocOwned)
    /\ ~c.existed => c.uuid \in PlanOwned /\ c.uuid \notin Bygone
                     /\ c.uuid[1] \in nPlan.tags \ nDoc.tags
    /\ c.existed /\ c.uuid # NmParent => c.uuid[1] \in nDoc.tags
    /\ c.removed => c.existed /\ c.uuid \notin PlanOwned \cup {NmParent}
PlanInv ==
    nAt.step \in Uncommitted =>
       /\ \A t \in nPlan.tags : nPlan.owned[t] \in 1 .. NmSpent
       /\ \A i \in DOMAIN nPlan.ch : Planned(nPlan.ch[i])
PruneInv ==
    nAt.step = "prune" =>
       \A i \in DOMAIN nPlan.ch : nPlan.ch[i].removed => nPlan.ch[i].uuid \notin DocOwned \cup {NmParent}

\* The connections and the files that may be there.
Created == IF nAt.step \in Making
           THEN {nPlan.ch[i].uuid : i \in {j \in DOMAIN nPlan.ch : ~nPlan.ch[j].existed}} ELSE {}
NmKnown == Bygone \cup Created
HereOf(con) ==
    /\ con[NmParent].here /\ \A u \in DocOwned : con[u].here
    /\ \A u \in NmUuids : con[u].on => con[u].here /\ u # NmForeign
    /\ \A u \in NmUuids \ {NmParent, NmForeign} : con[u].here => u \in NmKnown
FilesOf(con) ==
    nNetplan =>
       /\ ~con[NmForeign].file.there
       /\ \A u \in NmUuids \ {NmParent} : con[u].file.there => u \in NmKnown
Agrees(c) == c.here /\ c.file.there => c.val = c.file.val /\ c.auto = c.file.auto
Filed(u, c) == u # NmForeign /\ c.here => c.file.there
AgreeOf(con) == nNetplan => \A u \in NmUuids : Agrees(con[u]) /\ Filed(u, con[u])
HereInv == HereOf(nCon) /\ FilesOf(nCon) /\ AgreeOf(nCon)
RightCons(con) == con \in [NmUuids -> NmCons] /\ HereOf(con) /\ FilesOf(con) /\ AgreeOf(con)

LinksInv ==
    /\ IF nAt.step = "idle" THEN nLinks \subseteq nDoc.tags \cup LostTags
       ELSE nLinks \subseteq nDoc.tags \cup nPlan.tags
    /\ nAt.step \in {"staged", "prune", "relinks"} => nLinks \subseteq nDoc.tags
    /\ nAt.step \in {"ready", "applied"} => nLinks \subseteq nPlan.tags

\* The images: what existed was there, with a file that said the same; what did not had none.
ImageOf(c) ==
    /\ c.existed => c.before.here
    /\ nNetplan /\ c.existed => Agrees(c.before) /\ c.before.file.there
    /\ nNetplan /\ ~c.existed => ~c.before.file.there
ImageInv == nAt.step \in Uncommitted => \A i \in DOMAIN nPlan.ch : ImageOf(nPlan.ch[i])
SettledInv ==
    nAt.step = "settle" =>
       \A i \in DOMAIN nPlan.ch : nPlan.ch[i].existed =>
          /\ nCon[nPlan.ch[i].uuid].val = nPlan.ch[i].before.val
          /\ nCon[nPlan.ch[i].uuid].auto = nPlan.ch[i].before.auto

\* Applying: what is modified or taken up is there.
ApplyInv ==
    nAt.step = "apply" /\ nAt.sub # "begin" => nAt.sub \in {"modify", "up"} /\ nCon[Cur.uuid].here
AppliedInv == nAt.step = "applied" => \A u \in PlanOwned : nCon[u].here

\* Recovering: what has been put back.
PutBack(con, c) ==
    /\ c.existed => con.val = c.before.val /\ con.auto = c.before.auto /\ con.on = c.before.on
    /\ nNetplan /\ c.existed => SameProfile(con.file, c.before.file)
    /\ ~c.existed => ~con.here
    /\ nNetplan /\ ~c.existed => ~con.file.there
AsBefore(i) == PutBack(nCon[nPlan.ch[i].uuid], nPlan.ch[i])
RecoverInv ==
    /\ nAt.step = "recover" =>
         /\ \A i \in DOMAIN nPlan.ch : i < nAt.i => AsBefore(i)
         /\ nAt.sub \in {"begin", "files", "up", "verify"}
         /\ nAt.sub = "files" => Cur.existed \/ nNetplan \/ ~nCon[Cur.uuid].here
         /\ nAt.sub = "verify" => Cur.existed \/ ~nCon[Cur.uuid].here
         /\ nAt.sub = "up" => Cur.existed
         /\ nAt.sub = "verify" /\ Cur.existed => nCon[Cur.uuid].on = Cur.before.on
    /\ nAt.step = "relinks" => \A i \in DOMAIN nPlan.ch : AsBefore(i)
NmInv == /\ ConTypes /\ LeftTypes /\ DocTypes /\ PlanTypes /\ AtTypes /\ PlanInv /\ PruneInv
         /\ HereInv /\ LinksInv /\ ImageInv /\ SettledInv /\ ApplyInv /\ AppliedInv /\ RecoverInv
-------------------------------------------------------------------------------
(* Connections and their names.                                                *)

LEMMA Uuids ==
    /\ NmParent \in NmUuids /\ NmForeign \in NmUuids /\ NmParent # NmForeign
    /\ \A t \in NmTags, n \in 1 .. NmChanges :
           /\ <<t, n>> \in NmUuids /\ <<t, n>> # NmParent /\ <<t, n>> # NmForeign
<1>1. 0 \notin NmTags
  BY NmAssumption
<1>2. NmParent # NmForeign
  BY DEF NmParent, NmForeign
<1>3. ASSUME NEW t \in NmTags, NEW n \in 1 .. NmChanges
      PROVE  <<t, n>> \in NmUuids /\ <<t, n>> # NmParent /\ <<t, n>> # NmForeign
  BY <1>1 DEF NmUuids, NmParent, NmForeign
<1> QED
  BY <1>2, <1>3 DEF NmUuids, NmParent, NmForeign

LEMMA OwnedUuids ==
    ASSUME NEW owned, NEW tags \in SUBSET NmTags, \A t \in tags : owned[t] \in 1 .. NmChanges
    PROVE  /\ Owned(owned, tags) \subseteq NmUuids \ {NmParent, NmForeign}
           /\ \A u \in Owned(owned, tags) : u[1] \in tags
BY Uuids DEF Owned

LEMMA NoConIsACon == NoCon \in NmCons /\ ~NoCon.here /\ ~NoCon.on /\ NoCon.file = NoFile
                     /\ NoFile \in NmFiles /\ ~NoFile.there
<1>1. PICK no \in BOOLEAN : no = FALSE
  OBVIOUS
<1>2. 0 \in NmValues
  BY NmAssumption DEF NmValues
<1>3. PICK file : file = [there |-> no, val |-> 0, auto |-> no, moved |-> no, saved |-> no]
  OBVIOUS
<1>4. file \in NmFiles /\ ~file.there /\ file = NoFile
  BY <1>1, <1>2, <1>3 DEF NmFiles, NoFile
<1>5. PICK con : con = [here |-> no, val |-> 0, auto |-> no, on |-> no, file |-> file]
  OBVIOUS
<1>6. con \in NmCons /\ ~con.here /\ ~con.on /\ con.file = file
  BY <1>1, <1>2, <1>4, <1>5 DEF NmCons
<1>7. NoCon = con
  BY <1>1, <1>4, <1>5, Zenon DEF NoCon
<1> QED
  BY <1>4, <1>6, <1>7

LEMMA ModifiedCon ==
    ASSUME nNetplan \in BOOLEAN, NEW c \in NmCons, NEW val \in NmValues, NEW auto \in BOOLEAN, NEW con
    PROVE  con = Modified(c, val, auto) =>
           /\ con \in NmCons /\ con.here = c.here /\ con.on = c.on
           /\ con.val = val /\ con.auto = auto
           /\ con.file.there /\ con.file.val = val /\ con.file.auto = auto
<1>1. PICK yes \in BOOLEAN, no \in BOOLEAN, moved \in BOOLEAN :
        yes = TRUE /\ no = FALSE /\ moved = nNetplan
  OBVIOUS
<1>2. PICK file : file = [there |-> yes, val |-> val, auto |-> auto, moved |-> moved, saved |-> no]
  OBVIOUS
<1>3. file \in NmFiles /\ file.there /\ file.val = val /\ file.auto = auto
  BY <1>1, <1>2 DEF NmFiles
<1>4. ASSUME con = [c EXCEPT !.val = val, !.auto = auto, !.file = file]
      PROVE  /\ con \in NmCons /\ con.here = c.here /\ con.on = c.on
             /\ con.val = val /\ con.auto = auto
             /\ con.file.there /\ con.file.val = val /\ con.file.auto = auto
  <2>1. con = [here |-> c.here, val |-> val, auto |-> auto, on |-> c.on, file |-> file]
    BY <1>4 DEF NmCons
  <2> QED
    BY <1>3, <2>1 DEF NmCons
<1>5. Modified(c, val, auto) = [c EXCEPT !.val = val, !.auto = auto, !.file = file]
  BY <1>1, <1>2, Zenon DEF Modified
<1> QED
  BY <1>4, <1>5, Zenon

\* A connection that is added is written at once.
LEMMA AddedCon ==
    ASSUME nNetplan \in BOOLEAN
    PROVE  \E con \in NmCons : /\ con.here /\ ~con.on /\ Agrees(con) /\ con.file.there
                              /\ con = [Modified(NoCon, 0, TRUE) EXCEPT !.here = TRUE]
<1>1. NoCon \in NmCons /\ ~NoCon.on /\ 0 \in NmValues
  BY NoConIsACon, NmAssumption DEF NmValues
<1>2. PICK yes \in BOOLEAN : yes = TRUE
  OBVIOUS
<1>3. \A made : made = Modified(NoCon, 0, yes) =>
           /\ made \in NmCons /\ made.on = NoCon.on
           /\ made.val = 0 /\ made.auto = yes
           /\ made.file.there /\ made.file.val = 0 /\ made.file.auto = yes
  <2> PICK zero \in NmValues, none \in NmCons : zero = 0 /\ none = NoCon
    BY <1>1
  <2>1. \A made : made = Modified(none, zero, yes) =>
           /\ made \in NmCons /\ made.on = none.on
           /\ made.val = zero /\ made.auto = yes
           /\ made.file.there /\ made.file.val = zero /\ made.file.auto = yes
    BY ModifiedCon
  <2> QED
    BY <2>1, Zenon
<1>4. ASSUME NEW made, made \in NmCons /\ made.on = NoCon.on
                       /\ made.val = 0 /\ made.auto = yes
                       /\ made.file.there /\ made.file.val = 0 /\ made.file.auto = yes
      PROVE  \E con \in NmCons : /\ con.here /\ ~con.on /\ Agrees(con) /\ con.file.there
                               /\ con = [made EXCEPT !.here = TRUE]
  <2>1. PICK con : con = [made EXCEPT !.here = yes]
    OBVIOUS
  <2>2. con = [here |-> yes, val |-> made.val, auto |-> made.auto, on |-> made.on, file |-> made.file]
    BY <1>4, <2>1 DEF NmCons
  <2>3. con \in NmCons /\ con.here /\ ~con.on /\ Agrees(con) /\ con.file.there
    BY <1>1, <1>2, <1>4, <2>2 DEF NmCons, Agrees
  <2> QED
    BY <1>2, <2>1, <2>3, Zenon
<1> QED
  BY <1>2, <1>3, <1>4, Zenon

LEMMA DeletedCon ==
    ASSUME NEW c \in NmCons, NEW leave, NEW con, con = Deleted(c, leave)
    PROVE  /\ con \in NmCons /\ ~con.here /\ ~con.on
           /\ con.file.there => nNetplan /\ c.file.there
<1>1. PICK file : file = (IF nNetplan /\ leave THEN c.file ELSE NoFile)
  OBVIOUS
<1>2. file \in NmFiles /\ (file.there => nNetplan /\ c.file.there)
  BY <1>1, NoConIsACon DEF NmCons
<1>3. PICK none : none = NoCon
  OBVIOUS
<1>4. none \in NmCons /\ ~none.here /\ ~none.on
  BY <1>3, NoConIsACon
<1>5. con = [none EXCEPT !.file = file]
  BY <1>1, <1>3 DEF Deleted
<1> QED
  BY <1>2, <1>4, <1>5 DEF NmCons

\* What a reload does to the connections.
IsReload(con, q) ==
    \A u \in NmUuids :
       /\ ~nNetplan \/ u = NmForeign => q[u] = con[u]
       /\ nNetplan /\ u # NmForeign /\ con[u].file.there =>
              /\ q[u].file = con[u].file /\ q[u].on = con[u].on /\ q[u].here
              /\ q[u].val = con[u].file.val /\ q[u].auto = con[u].file.auto
       /\ nNetplan /\ u # NmForeign /\ ~con[u].file.there => q[u] = NoCon

LEMMA ReloadedOneCon ==
    ASSUME NEW c \in NmCons, NEW r, r = ReloadedOne(c)
    PROVE  /\ r \in NmCons
           /\ c.file.there => r.file = c.file /\ r.on = c.on /\ r.here
                              /\ r.val = c.file.val /\ r.auto = c.file.auto
           /\ ~c.file.there => r = NoCon
<1>1. CASE ~c.file.there
  BY <1>1, NoConIsACon DEF ReloadedOne
<1>2. CASE c.file.there
  <2>1. PICK yes \in BOOLEAN : yes = TRUE
    OBVIOUS
  <2>2. r = [c EXCEPT !.here = TRUE, !.val = c.file.val, !.auto = c.file.auto]
    BY <1>2 DEF ReloadedOne
  <2>3. r = [here |-> yes, val |-> c.file.val, auto |-> c.file.auto, on |-> c.on, file |-> c.file]
    BY <2>1, <2>2 DEF NmCons
  <2>4. c.file \in NmFiles /\ c.file.val \in NmValues /\ c.file.auto \in BOOLEAN /\ c.on \in BOOLEAN
    BY DEF NmCons, NmFiles
  <2>5. r \in NmCons
    BY <2>3, <2>4 DEF NmCons
  <2> QED
    BY <1>2, <2>1, <2>3, <2>5
<1> QED
  BY <1>1, <1>2

LEMMA ReloadedCon ==
    ASSUME NEW con \in [NmUuids -> NmCons], NEW q, q = Reloaded(con)
    PROVE  q \in [NmUuids -> NmCons] /\ IsReload(con, q)
<1>1. q = [u \in NmUuids |-> IF ~nNetplan \/ u = NmForeign THEN con[u] ELSE ReloadedOne(con[u])]
  BY Zenon DEF Reloaded
<1>2. ASSUME NEW u \in NmUuids
      PROVE  /\ q[u] \in NmCons
             /\ ~nNetplan \/ u = NmForeign => q[u] = con[u]
             /\ nNetplan /\ u # NmForeign /\ con[u].file.there =>
                    /\ q[u].file = con[u].file /\ q[u].on = con[u].on /\ q[u].here
                    /\ q[u].val = con[u].file.val /\ q[u].auto = con[u].file.auto
             /\ nNetplan /\ u # NmForeign /\ ~con[u].file.there => q[u] = NoCon
  <2>1. PICK c \in NmCons : c = con[u]
    OBVIOUS
  <2>2. CASE ~nNetplan \/ u = NmForeign
    BY <1>1, <2>1, <2>2
  <2>3. CASE nNetplan /\ u # NmForeign
    <3>1. q[u] = ReloadedOne(c)
      BY <1>1, <2>1, <2>3
    <3> QED
      BY <2>1, <2>3, <3>1, ReloadedOneCon
  <2> QED
    BY <2>2, <2>3
<1>3. q \in [NmUuids -> NmCons]
  BY <1>1, <1>2
<1> QED
  BY <1>2, <1>3 DEF IsReload

-------------------------------------------------------------------------------
(* What the actions have in common.                                            *)

\* The change a job is at.
LEMMA CurChange ==
    ASSUME PlanTypes, AtTypes, nAt.i <= Len(nPlan.ch)
    PROVE  /\ nAt.i \in DOMAIN nPlan.ch /\ Cur = nPlan.ch[nAt.i]
           /\ Cur \in NmChs /\ Cur.uuid \in NmUuids /\ Cur.uuid # NmForeign
           /\ Cur.before \in NmCons /\ Cur.existed \in BOOLEAN /\ Cur.removed \in BOOLEAN
<1>1. PICK ch \in Seq(NmChs) : ch = nPlan.ch
  BY DEF PlanTypes
<1>2. PICK i \in Nat : i = nAt.i /\ 1 <= i /\ i <= Len(ch)
  BY <1>1 DEF AtTypes
<1>3. i \in DOMAIN ch /\ ch[i] \in NmChs
  BY <1>1, <1>2
<1> QED
  BY <1>1, <1>2, <1>3 DEF Cur, NmChs

\* Every change of the plan.
LEMMA PlanChange ==
    ASSUME PlanTypes, NEW i \in DOMAIN nPlan.ch
    PROVE  /\ i \in 1 .. Len(nPlan.ch) /\ nPlan.ch[i] \in NmChs
           /\ nPlan.ch[i].uuid \in NmUuids /\ nPlan.ch[i].uuid # NmForeign
           /\ nPlan.ch[i].before \in NmCons /\ nPlan.ch[i].before.file \in NmFiles
           /\ nPlan.ch[i].existed \in BOOLEAN /\ nPlan.ch[i].removed \in BOOLEAN
<1>1. PICK ch \in Seq(NmChs) : ch = nPlan.ch
  BY DEF PlanTypes
<1>2. i \in 1 .. Len(ch) /\ ch[i] \in NmChs
  BY <1>1
<1>3. PICK c \in NmChs : c = nPlan.ch[i]
  BY <1>1, <1>2
<1>4. c.uuid \in NmUuids /\ c.uuid # NmForeign /\ c.before \in NmCons
      /\ c.existed \in BOOLEAN /\ c.removed \in BOOLEAN
  BY DEF NmChs
<1>5. c.before.file \in NmFiles
  BY <1>4 DEF NmCons
<1> QED
  BY <1>1, <1>2, <1>3, <1>4, <1>5

\* What the document owns.
LEMMA DocUuids ==
    ASSUME DocTypes
    PROVE  DocOwned \subseteq NmUuids \ {NmParent, NmForeign}
BY OwnedUuids DEF DocOwned, DocTypes

\* A connection of the plan that existed is there until the change is committed.
LEMMA ExistedHere ==
    ASSUME PlanInv, HereOf(nCon), nAt.step \in Uncommitted, NEW i \in DOMAIN nPlan.ch,
           nPlan.ch[i].existed
    PROVE  nCon[nPlan.ch[i].uuid].here
BY DEF PlanInv, Planned, HereOf

\* What a plan says, while it is not exchanged for another.
LEMMA PlanStays ==
    ASSUME NmInv, UNCHANGED <<nNetplan, nDoc, nPlan>>, nLeft'.changes = nLeft.changes,
           nAt'.step \in Uncommitted => nAt.step \in Uncommitted,
           nAt'.step = "prune" => nAt.step = "prune"
    PROVE  DocTypes' /\ PlanTypes' /\ PlanInv' /\ PruneInv' /\ ImageInv'
<1>1. DocOwned' = DocOwned /\ PlanOwned' = PlanOwned /\ NmSpent' = NmSpent /\ Bygone' = Bygone
  BY DEF DocOwned, PlanOwned, NmSpent, Bygone
<1>2. DocTypes' /\ PlanTypes'
  BY <1>1 DEF NmInv, DocTypes, PlanTypes
<1>3. \A c : Planned(c)' = Planned(c) /\ ImageOf(c)' = ImageOf(c)
  BY <1>1, Zenon DEF Planned, ImageOf
<1>4. PlanInv' /\ ImageInv'
  BY <1>1, <1>3 DEF NmInv, PlanInv, ImageInv
<1>5. PruneInv'
  BY <1>1 DEF NmInv, PruneInv
<1> QED
  BY <1>2, <1>4, <1>5

\* Connections that are right stay so when more may be there.
LEMMA StillRight ==
    ASSUME UNCHANGED <<nNetplan, nDoc>>, Created \subseteq Created',
           HereOf(nCon'), FilesOf(nCon'), AgreeOf(nCon')
    PROVE  HereInv'
<1>1. DocOwned' = DocOwned /\ NmKnown \subseteq NmKnown'
  BY DEF DocOwned, NmKnown, Bygone
<1> QED
  BY <1>1 DEF HereInv, HereOf, FilesOf, AgreeOf

\* One connection is exchanged for another that may be there.
Fits(u, c) ==
    /\ u \in {NmParent} \cup DocOwned => c.here
    /\ c.on => c.here /\ u # NmForeign
    /\ c.here => u \in NmKnown \cup {NmParent, NmForeign}
    /\ nNetplan /\ c.file.there => u \in (NmKnown \cup {NmParent}) /\ u # NmForeign
    /\ nNetplan => Agrees(c) /\ Filed(u, c)

LEMMA OneExchanged ==
    ASSUME NmInv, NEW u \in NmUuids, NEW c \in NmCons, Fits(u, c), NEW q \in [NmUuids -> NmCons],
           q[u] = c, \A w \in NmUuids : w # u => q[w] = nCon[w]
    PROVE  RightCons(q)
<1>1. HereOf(q)
  BY Uuids, DocUuids DEF NmInv, HereInv, HereOf, Fits
<1>2. FilesOf(q)
  BY Uuids DEF NmInv, HereInv, FilesOf, Fits
<1>3. AgreeOf(q)
  BY DEF NmInv, HereInv, AgreeOf, Fits
<1> QED
  BY <1>1, <1>2, <1>3 DEF RightCons

LEMMA OneCon ==
    ASSUME NmInv, NEW u \in NmUuids, NEW c \in NmCons, Fits(u, c),
           NEW q, q = [nCon EXCEPT ![u] = c]
    PROVE  RightCons(q) /\ q[u] = c
<1>1. q \in [NmUuids -> NmCons] /\ q[u] = c /\ (\A w \in NmUuids : w # u => q[w] = nCon[w])
  BY DEF NmInv, ConTypes
<1> QED
  BY <1>1, OneExchanged

\* A reload keeps connections right, and makes each agree with its file.
FiledOwn(con) == nNetplan => \A u \in {NmParent} \cup DocOwned : con[u].file.there
LEMMA ReloadedRight ==
    ASSUME ConTypes, DocTypes, NEW con \in [NmUuids -> NmCons], HereOf(con), FilesOf(con),
           FiledOwn(con), nNetplan \/ AgreeOf(con), NEW q \in [NmUuids -> NmCons], IsReload(con, q)
    PROVE  RightCons(q)
<1>1. CASE ~nNetplan
  <2>1. \A u \in NmUuids : q[u] = con[u]
    BY <1>1 DEF IsReload
  <2>2. HereOf(q)
    BY <2>1, Uuids, DocUuids DEF HereOf
  <2> QED
    BY <1>1, <2>2 DEF RightCons, FilesOf, AgreeOf
<1>2. CASE nNetplan
  <2>1. q[NmForeign] = con[NmForeign]
    BY Uuids DEF IsReload
  <2>2. \A u \in NmUuids : u # NmForeign =>
           /\ q[u].here = con[u].file.there /\ (q[u].on => con[u].on /\ q[u].here)
           /\ q[u].file.there = con[u].file.there
    <3> SUFFICES ASSUME NEW u \in NmUuids, u # NmForeign
                 PROVE  /\ q[u].here = con[u].file.there /\ (q[u].on => con[u].on /\ q[u].here)
                        /\ q[u].file.there = con[u].file.there
      OBVIOUS
    <3>1. con[u] \in NmCons /\ con[u].file \in NmFiles /\ con[u].file.there \in BOOLEAN
          /\ q[u] \in NmCons /\ q[u].here \in BOOLEAN /\ q[u].file.there \in BOOLEAN
      BY DEF NmCons, NmFiles
    <3>2. CASE con[u].file.there
      BY <1>2, <3>1, <3>2 DEF IsReload
    <3>3. CASE ~con[u].file.there
      <4>1. q[u] = NoCon
        BY <1>2, <3>3 DEF IsReload
      <4>2. ~NoCon.here /\ ~NoCon.on /\ ~NoCon.file.there
        BY NoConIsACon, Zenon
      <4> QED
        BY <3>1, <3>3, <4>1, <4>2
    <3> QED
      BY <3>2, <3>3
  <2>3. HereOf(q)
    <3>1. q[NmParent].here /\ \A u \in DocOwned : q[u].here
      BY <1>2, <2>2, Uuids, DocUuids DEF FiledOwn
    <3>2. \A u \in NmUuids : q[u].on => q[u].here /\ u # NmForeign
      BY <2>1, <2>2 DEF HereOf
    <3>3. \A u \in NmUuids \ {NmParent, NmForeign} : q[u].here => u \in NmKnown
      BY <1>2, <2>2 DEF FilesOf
    <3> QED
      BY <3>1, <3>2, <3>3 DEF HereOf
  <2>4. FilesOf(q)
    BY <1>2, <2>1, <2>2, Uuids DEF FilesOf
  <2>5. AgreeOf(q)
    <3> SUFFICES ASSUME NEW u \in NmUuids PROVE Agrees(q[u]) /\ Filed(u, q[u])
      BY DEF AgreeOf
    <3>1. CASE u = NmForeign
      BY <1>2, <2>1, <3>1 DEF Agrees, Filed, FilesOf
    <3>2. CASE u # NmForeign /\ con[u].file.there
      BY <1>2, <3>2 DEF IsReload, Agrees, Filed
    <3>3. CASE u # NmForeign /\ ~con[u].file.there
      BY <2>2, <3>3 DEF Agrees, Filed
    <3> QED
      BY <3>1, <3>2, <3>3
  <2> QED
    BY <2>3, <2>4, <2>5 DEF RightCons
<1> QED
  BY <1>1, <1>2 DEF ConTypes

LEMMA ReloadRight ==
    ASSUME ConTypes, DocTypes, NEW con \in [NmUuids -> NmCons], HereOf(con), FilesOf(con),
           FiledOwn(con), nNetplan \/ AgreeOf(con), NEW q, q = Reloaded(con)
    PROVE  RightCons(q)
<1>1. q \in [NmUuids -> NmCons] /\ IsReload(con, q)
  BY ReloadedCon
<1> QED
  BY <1>1, ReloadedRight

\* What is there has a file, and so has what the document owns.
LEMMA OwnFiled ==
    ASSUME DocTypes, NEW con, HereOf(con), AgreeOf(con)
    PROVE  FiledOwn(con)
BY Uuids, DocUuids DEF FiledOwn, HereOf, AgreeOf, Filed

-------------------------------------------------------------------------------
(* Steps that only move the job.                                               *)

LEMMA Started ==
    ASSUME NEW goal \in NmSteps, NmTo(goal)
    PROVE  /\ nAt' \in [step : NmSteps, i : Nat, sub : NmSubs]
           /\ nAt'.step = goal /\ nAt'.i = 1 /\ nAt'.sub = "begin"
<1>1. PICK begin \in NmSubs : begin = "begin"
  BY DEF NmSubs
<1>2. nAt' = [step |-> goal, i |-> 1, sub |-> begin]
  BY <1>1 DEF NmTo, NmIdle
<1> QED
  BY <1>1, <1>2

\* The job goes to another step, and links may go.
LEMMA Turned ==
    ASSUME NmInv, UNCHANGED <<nCon, nNetplan, nDoc, nPlan>>, nLinks' \subseteq nLinks,
           LeftTypes', nLeft'.changes = nLeft.changes,
           NEW step, NmTo(step),
           \/ nAt.step = "prune" /\ step = "prune"
           \/ /\ nAt.step \in Making \cup {"settle"}
              /\ step \in {"ready", "applied", "recover", "relinks", "failed"},
           step \in {"ready", "applied"} => nLinks' \subseteq nPlan.tags,
           step = "relinks" => nLinks' \subseteq nDoc.tags /\ \A i \in DOMAIN nPlan.ch : AsBefore(i),
           step = "applied" => \A u \in PlanOwned : nCon[u].here
    PROVE  NmInv'
<1>1. step \in NmSteps /\ step \notin {"apply", "settle", "idle", "staged"}
  BY DEF NmSteps
<1>2. /\ nAt' \in [step : NmSteps, i : Nat, sub : NmSubs]
      /\ nAt'.step = step /\ nAt'.i = 1 /\ nAt'.sub = "begin"
  BY <1>1, Started
<1>3. DocTypes' /\ PlanTypes' /\ PlanInv' /\ PruneInv' /\ ImageInv'
  BY <1>2, PlanStays DEF Making, Uncommitted
<1>4. ConTypes' /\ LeftTypes'
  BY DEF NmInv, ConTypes
<1>5. AtTypes'
  <2>1. Len(nPlan.ch) \in Nat
    BY DEF NmInv, PlanTypes
  <2> QED
    BY <1>2, <2>1 DEF AtTypes
<1>6. HereInv'
  <2>1. Created \subseteq Created'
    BY <1>2 DEF Created, Making
  <2> QED
    BY <2>1, StillRight DEF NmInv, HereInv
<1>7. LinksInv'
  BY <1>1, <1>2 DEF NmInv, LinksInv, Making
<1>8. SettledInv' /\ ApplyInv'
  BY <1>1, <1>2 DEF SettledInv, ApplyInv
<1>9. AppliedInv'
  BY <1>2 DEF AppliedInv, PlanOwned
<1>10. RecoverInv'
  <2>1. \A i : AsBefore(i)' = AsBefore(i)
    BY Zenon DEF AsBefore, PutBack
  <2>2. \A i \in DOMAIN nPlan.ch : ~(i < 1)
    BY PlanChange DEF NmInv
  <2> QED
    BY <1>2, <2>1, <2>2 DEF RecoverInv
<1> QED
  BY <1>3, <1>4, <1>5, <1>6, <1>7, <1>8, <1>9, <1>10 DEF NmInv

LEMMA FaultsStay ==
    ASSUME LeftTypes, nLeft.faults > 0, nLeft' = [nLeft EXCEPT !.faults = @ - 1]
    PROVE  LeftTypes' /\ nLeft'.changes = nLeft.changes
BY NmAssumption DEF LeftTypes

LEMMA NmCommandFailsInv == NmInv /\ NmCommandFails => NmInv'
<1> SUFFICES ASSUME NmInv, NmCommandFails PROVE NmInv'
  OBVIOUS
<1>1. LeftTypes' /\ nLeft'.changes = nLeft.changes
  BY FaultsStay DEF NmCommandFails, NmInv
<1> QED
  BY <1>1, Turned DEF NmCommandFails, Making

LEMMA PruneFailsInv == NmInv /\ PruneFails => NmInv'
<1> SUFFICES ASSUME NmInv, PruneFails PROVE NmInv'
  OBVIOUS
<1>1. LeftTypes' /\ nLeft'.changes = nLeft.changes
  BY FaultsStay DEF PruneFails, NmInv
<1> QED
  BY <1>1, Turned DEF PruneFails, Making

LEMMA RecoveryFailsInv == NmInv /\ RecoveryFails => NmInv'
<1> SUFFICES ASSUME NmInv, RecoveryFails PROVE NmInv'
  OBVIOUS
<1>1. LeftTypes' /\ nLeft'.changes = nLeft.changes
  BY FaultsStay DEF RecoveryFails, NmInv
<1> QED
  BY <1>1, Turned DEF RecoveryFails, Making

LEMMA NmJobDiesInv == NmInv /\ NmJobDies => NmInv'
<1> SUFFICES ASSUME NmInv, NmJobDies PROVE NmInv'
  OBVIOUS
<1>1. LeftTypes' /\ nLeft'.changes = nLeft.changes
  BY FaultsStay DEF NmJobDies, NmInv
<1> QED
  BY <1>1, Turned DEF NmJobDies, Making

LEMMA ExpireNmInv == NmInv /\ ExpireNm => NmInv'
BY Turned DEF ExpireNm, NmSame, Making, NmInv, LeftTypes

LEMMA RecoverAgainNmInv == NmInv /\ RecoverAgainNm => NmInv'
BY Turned DEF RecoverAgainNm, NmSame, Making, NmInv, LeftTypes

\* The links of VLANs that the candidate drops are gone before it is verified.
LEMMA RemoveLinksInv == NmInv /\ RemoveLinks => NmInv'
<1> SUFFICES ASSUME NmInv, RemoveLinks PROVE NmInv'
  OBVIOUS
<1>1. nLinks' \subseteq nLinks /\ nLinks' \subseteq nPlan.tags
  BY DEF RemoveLinks, NmInv, LinksInv
<1> QED
  BY <1>1, Turned DEF RemoveLinks, NmSame, Making, NmInv, LeftTypes

\* A connection that is on is there.
LEMMA VerifyNmInv == NmInv /\ VerifyNm => NmInv'
<1> SUFFICES ASSUME NmInv, VerifyNm PROVE NmInv'
  OBVIOUS
<1>1. PlanOwned \subseteq NmUuids
  <2>1. nPlan.tags \subseteq NmTags /\ \A t \in nPlan.tags : nPlan.owned[t] \in 1 .. NmChanges
    BY NmAssumption DEF VerifyNm, NmInv, PlanTypes, PlanInv, Uncommitted, Making, NmSpent, LeftTypes
  <2> QED
    BY <2>1, OwnedUuids DEF PlanOwned
<1>2. (\A u \in PlanOwned : nCon[u].on) => \A u \in PlanOwned : nCon[u].here
  BY <1>1 DEF NmInv, HereInv, HereOf
<1>3. UNCHANGED <<nCon, nNetplan, nDoc, nPlan, nLinks>> /\ LeftTypes' /\ nLeft'.changes = nLeft.changes
      /\ nLinks' \subseteq nPlan.tags
  BY DEF VerifyNm, NmSame, NmInv, LeftTypes, LinksInv
<1>4. CASE \A u \in {NmParent} \cup PlanOwned : nCon[u].on
  BY <1>2, <1>3, <1>4, Turned DEF VerifyNm, Making, PlanOwned
<1>5. CASE ~\A u \in {NmParent} \cup PlanOwned : nCon[u].on
  BY <1>3, <1>5, Turned DEF VerifyNm, Making, PlanOwned
<1> QED
  BY <1>4, <1>5

\* The last link goes only after every connection has been put back.
LEMMA RestoreLinksInv == NmInv /\ RestoreLinks => NmInv'
<1> SUFFICES ASSUME NmInv, RestoreLinks PROVE NmInv'
  OBVIOUS
<1>1. nLinks' \subseteq nLinks /\ nLinks' \subseteq nDoc.tags
  BY DEF RestoreLinks, NmInv, LinksInv
<1>2. \A i \in DOMAIN nPlan.ch : AsBefore(i)
  <2>1. \A i \in DOMAIN nPlan.ch : i < nAt.i
    BY PlanChange DEF RestoreLinks, NmInv, AtTypes, PlanTypes
  <2> QED
    BY <2>1 DEF RestoreLinks, NmInv, RecoverInv
<1> QED
  BY <1>1, <1>2, Turned DEF RestoreLinks, NmSame, Making, NmInv, LeftTypes

-------------------------------------------------------------------------------
(* Steps at a change of the plan.                                              *)

LEMMA AtSub ==
    ASSUME PlanTypes, AtTypes, UNCHANGED nPlan, NEW goal \in NmSubs, NmSub(goal),
           nAt.step \in {"apply", "recover"}, nAt.i <= Len(nPlan.ch)
    PROVE  AtTypes' /\ nAt'.step = nAt.step /\ nAt'.i = nAt.i /\ nAt'.sub = goal
<1>1. nAt' = [step |-> nAt.step, i |-> nAt.i, sub |-> goal]
  BY DEF NmSub, AtTypes
<1>2. nAt' \in [step : NmSteps, i : Nat, sub : NmSubs]
  BY <1>1 DEF AtTypes
<1>3. Len(nPlan.ch) \in Nat
  BY DEF PlanTypes
<1> QED
  BY <1>1, <1>2, <1>3 DEF AtTypes

LEMMA AtNext ==
    ASSUME PlanTypes, AtTypes, UNCHANGED nPlan, NextCh, nAt.i <= Len(nPlan.ch)
    PROVE  AtTypes' /\ nAt'.step = nAt.step /\ nAt'.i = nAt.i + 1 /\ nAt'.sub = "begin"
<1>1. PICK begin \in NmSubs : begin = "begin"
  BY DEF NmSubs
<1>2. nAt' = [step |-> nAt.step, i |-> nAt.i + 1, sub |-> begin]
  BY <1>1 DEF NextCh, AtTypes
<1>3. nAt' \in [step : NmSteps, i : Nat, sub : NmSubs]
  BY <1>2 DEF AtTypes
<1>4. Len(nPlan.ch) \in Nat
  BY DEF PlanTypes
<1> QED
  BY <1>1, <1>2, <1>3, <1>4 DEF AtTypes

\* A job that works at its plan, and what it has to see to.
LEMMA InPlace ==
    ASSUME NmInv, NmSame, nAt.step \in {"apply", "recover", "prune"}, nAt'.step = nAt.step, AtTypes',
           RightCons(nCon'),
           nLinks' \subseteq nDoc.tags \cup nPlan.tags,
           nAt.step = "prune" => nLinks' \subseteq nDoc.tags,
           ApplyInv', RecoverInv'
    PROVE  NmInv'
<1>1. DocTypes' /\ PlanTypes' /\ PlanInv' /\ PruneInv' /\ ImageInv'
  BY PlanStays DEF NmSame
<1>2. ConTypes' /\ LeftTypes'
  BY DEF NmInv, ConTypes, LeftTypes, NmSame, DocTypes, PlanTypes, RightCons
<1>3. HereInv'
  <2>1. Created' = Created
    BY DEF Created, NmSame
  <2> QED
    BY <2>1, StillRight DEF NmSame, RightCons
<1>4. LinksInv'
  BY DEF LinksInv, NmSame
<1>5. SettledInv' /\ AppliedInv'
  BY DEF SettledInv, AppliedInv
<1> QED
  BY <1>1, <1>2, <1>3, <1>4, <1>5 DEF NmInv

\* A connection at the change that a job is at.
LEMMA CurHere ==
    ASSUME NmInv, nAt.step \in {"apply", "recover"}, nAt.i <= Len(nPlan.ch)
    PROVE  /\ Cur.existed => nCon[Cur.uuid].here
           /\ ~Cur.existed => Cur.uuid \in Created /\ Cur.uuid \notin DocOwned \cup {NmParent}
           /\ Cur.uuid # NmParent => Cur.uuid[1] \in nDoc.tags \cup nPlan.tags
           /\ ImageOf(Cur)
<1>1. nAt.i \in DOMAIN nPlan.ch /\ Cur = nPlan.ch[nAt.i]
  BY CurChange DEF NmInv
<1>2. Planned(Cur) /\ ImageOf(Cur)
  BY <1>1 DEF NmInv, PlanInv, ImageInv, Uncommitted, Making
<1>3. Cur.existed => nCon[Cur.uuid].here
  BY <1>1, ExistedHere DEF NmInv, HereInv, Uncommitted, Making
<1>4. ~Cur.existed => Cur.uuid \in Created
  BY <1>1 DEF Created, Making
<1> QED
  BY <1>2, <1>3, <1>4 DEF Planned

LEMMA AddConnectionInv == NmInv /\ AddConnection => NmInv'
<1> SUFFICES ASSUME NmInv, AddConnection PROVE NmInv'
  OBVIOUS
<1>1. nAt.step = "apply" /\ nAt.i <= Len(nPlan.ch) /\ NmSame /\ UNCHANGED nLinks /\ NmSub("modify")
  BY DEF AddConnection, NmStep
<1>2. AtTypes' /\ nAt'.step = "apply" /\ nAt'.i = nAt.i /\ nAt'.sub = "modify"
  BY <1>1, AtSub DEF NmSame, NmInv, NmSubs
<1>3. PICK u \in NmUuids : u = Cur.uuid /\ u # NmForeign
  BY <1>1, CurChange DEF NmInv
<1>4. /\ RightCons(nCon')
      /\ nCon'[u].here
  <2>1. CASE Cur.existed \/ nCon[u].here
    <3>1. nCon' = nCon /\ nCon[u].here
      BY <1>1, <1>3, <2>1, CurHere DEF AddConnection
    <3> QED
      BY <3>1 DEF NmInv, ConTypes, HereInv, RightCons
  <2>2. CASE ~(Cur.existed \/ nCon[u].here)
    <3>1. PICK con \in NmCons : /\ con.here /\ ~con.on /\ Agrees(con) /\ con.file.there
                                /\ con = [Modified(NoCon, 0, TRUE) EXCEPT !.here = TRUE]
      BY AddedCon, Zenon DEF NmInv, ConTypes
    <3>2. nCon' = [nCon EXCEPT ![u] = con]
      BY <1>3, <2>2, <3>1, Zenon DEF AddConnection
    <3>3. u \in NmKnown
      BY <1>1, <1>3, <2>2, CurHere DEF NmKnown
    <3>4. con.here /\ ~con.on /\ Agrees(con) /\ con.file.there
      BY <3>1, Zenon
    <3>5. Fits(u, con)
      BY <1>3, <3>3, <3>4 DEF Fits, Filed
    <3>6. /\ RightCons(nCon')
          /\ nCon'[u] = con
      BY <3>2, <3>5, OneCon
    <3> QED
      BY <3>4, <3>6
  <2> QED
    BY <2>1, <2>2
<1>5. ApplyInv' /\ RecoverInv'
  <2>1. Cur' = Cur
    BY <1>1, <1>2 DEF Cur, NmSame
  <2> QED
    BY <1>2, <1>3, <1>4, <2>1 DEF ApplyInv, RecoverInv
<1> QED
  BY <1>1, <1>2, <1>4, <1>5, InPlace DEF NmInv, LinksInv

\* A connection that is modified agrees with its file.
LEMMA ModifiedRight ==
    ASSUME NmInv, NEW u \in NmUuids, u # NmForeign, nCon[u].here,
           NEW val \in NmValues, NEW auto \in BOOLEAN, NEW q
    PROVE  q = [nCon EXCEPT ![u] = Modified(nCon[u], val, auto)] =>
           /\ RightCons(q)
           /\ q[u].here /\ q[u].val = val /\ q[u].auto = auto /\ q[u].on = nCon[u].on
           /\ \A w \in NmUuids : w # u => q[w] = nCon[w]
<1>1. PICK c \in NmCons : c = nCon[u]
  BY DEF NmInv, ConTypes
<1>2. PICK con : con = Modified(c, val, auto)
  OBVIOUS
<1>3. /\ con \in NmCons /\ con.here = c.here /\ con.on = c.on
      /\ con.val = val /\ con.auto = auto
      /\ con.file.there /\ con.file.val = val /\ con.file.auto = auto
  BY <1>2, ModifiedCon DEF NmInv, ConTypes
<1>4. u \in NmKnown \cup {NmParent}
  BY DEF NmInv, HereInv, HereOf
<1>5. con.here /\ Fits(u, con)
  BY <1>1, <1>3, <1>4 DEF Agrees, Fits, Filed
<1>6. ASSUME q = [nCon EXCEPT ![u] = con]
      PROVE  /\ RightCons(q)
             /\ q[u] = con
             /\ \A w \in NmUuids : w # u => q[w] = nCon[w]
  <2>1. RightCons(q) /\ q[u] = con
    BY <1>3, <1>5, <1>6, OneCon
  <2>2. \A w \in NmUuids : w # u => q[w] = nCon[w]
    BY <1>6 DEF NmInv, ConTypes
  <2> QED
    BY <2>1, <2>2
<1>7. ASSUME q = [nCon EXCEPT ![u] = con]
      PROVE  /\ RightCons(q)
             /\ q[u].here /\ q[u].val = val /\ q[u].auto = auto /\ q[u].on = nCon[u].on
             /\ \A w \in NmUuids : w # u => q[w] = nCon[w]
  BY <1>1, <1>3, <1>5, <1>6, <1>7
<1> QED
  BY <1>1, <1>2, <1>7, Zenon

\* A connection that no document owns may be deleted, whether or not its file stays.
LEMMA DeletedRight ==
    ASSUME NmInv, NEW u \in NmUuids, u \notin DocOwned \cup {NmParent, NmForeign},
           NEW leave, NEW q
    PROVE  q = [nCon EXCEPT ![u] = Deleted(nCon[u], leave)] =>
           /\ RightCons(q)
           /\ ~q[u].here /\ \A w \in NmUuids : w # u => q[w] = nCon[w]
<1>1. PICK c \in NmCons : c = nCon[u]
  BY DEF NmInv, ConTypes
<1>2. PICK con \in NmCons : con = Deleted(c, leave)
  BY DeletedCon
<1>3. ~con.here /\ ~con.on /\ (con.file.there => nNetplan /\ c.file.there)
  BY <1>2, DeletedCon
<1>4. nNetplan /\ con.file.there => u \in NmKnown
  BY <1>1, <1>3 DEF NmInv, HereInv, FilesOf
<1>5. Fits(u, con)
  BY <1>3, <1>4 DEF Agrees, Fits, Filed
<1>6. ASSUME q = [nCon EXCEPT ![u] = con]
      PROVE  /\ RightCons(q)
             /\ ~q[u].here /\ \A w \in NmUuids : w # u => q[w] = nCon[w]
  <2>1. RightCons(q) /\ q[u] = con
    BY <1>5, <1>6, OneCon
  <2>2. \A w \in NmUuids : w # u => q[w] = nCon[w]
    BY <1>6 DEF NmInv, ConTypes
  <2> QED
    BY <1>3, <2>1, <2>2
<1> QED
  BY <1>1, <1>2, <1>6, Zenon

\* A connection that is there may be taken up or down.
LEMMA TakenUp ==
    ASSUME NmInv, NEW u \in NmUuids, u # NmForeign, nCon[u].here, NEW on \in BOOLEAN,
           NEW q
    PROVE  q = [nCon EXCEPT ![u].on = on] =>
           /\ RightCons(q)
           /\ q[u].here /\ q[u].on = on
           /\ q[u].val = nCon[u].val /\ q[u].auto = nCon[u].auto /\ q[u].file = nCon[u].file
           /\ \A w \in NmUuids : w # u => q[w] = nCon[w]
<1>1. PICK c \in NmCons : c = nCon[u]
  BY DEF NmInv, ConTypes
<1>2. PICK con : con = [here |-> c.here, val |-> c.val, auto |-> c.auto, on |-> on, file |-> c.file]
  OBVIOUS
<1>3. con = [c EXCEPT !.on = on]
  BY <1>2 DEF NmCons
<1>4. [nCon EXCEPT ![u].on = on] = [nCon EXCEPT ![u] = con]
  BY <1>1, <1>3 DEF NmInv, ConTypes
<1>5. con \in NmCons /\ con.here = c.here /\ con.on = on /\ con.val = c.val /\ con.auto = c.auto
      /\ con.file = c.file
  BY <1>2 DEF NmCons
<1>6. u \in NmKnown \cup {NmParent} /\ (nNetplan => Agrees(c) /\ Filed(u, c))
  BY <1>1 DEF NmInv, HereInv, HereOf, AgreeOf
<1>7. Fits(u, con)
  <2>1. nNetplan /\ con.file.there => u \in NmKnown \cup {NmParent}
    BY <1>6
  <2>2. nNetplan => Agrees(con) /\ Filed(u, con)
    BY <1>5, <1>6 DEF Agrees, Filed
  <2>3. con.here
    BY <1>1, <1>5
  <2> QED
    BY <1>6, <2>1, <2>2, <2>3 DEF Fits
<1>8. ASSUME q = [nCon EXCEPT ![u] = con]
      PROVE  /\ RightCons(q)
             /\ q[u].here /\ q[u].on = on
             /\ q[u].val = nCon[u].val /\ q[u].auto = nCon[u].auto /\ q[u].file = nCon[u].file
             /\ \A w \in NmUuids : w # u => q[w] = nCon[w]
  <2>1. RightCons(q) /\ q[u] = con
    BY <1>5, <1>7, <1>8, OneCon
  <2>2. \A w \in NmUuids : w # u => q[w] = nCon[w]
    BY <1>8 DEF NmInv, ConTypes
  <2> QED
    BY <1>1, <1>5, <2>1, <2>2
<1> QED
  BY <1>4, <1>8, Zenon

LEMMA ModifyConnectionInv == NmInv /\ ModifyConnection => NmInv'
<1> SUFFICES ASSUME NmInv, ModifyConnection PROVE NmInv'
  OBVIOUS
<1>1. /\ nAt.step = "apply" /\ nAt.i <= Len(nPlan.ch) /\ NmSame /\ UNCHANGED nLinks /\ NmSub("up")
      /\ nAt.sub = "modify"
  BY DEF ModifyConnection, NmStep
<1>2. AtTypes' /\ nAt'.step = "apply" /\ nAt'.i = nAt.i /\ nAt'.sub = "up"
  BY <1>1, AtSub DEF NmSame, NmInv, NmSubs
<1>3. PICK u \in NmUuids : u = Cur.uuid /\ u # NmForeign /\ nCon[u].here
  BY <1>1, CurChange DEF NmInv, ApplyInv
<1>4. /\ RightCons(nCon')
      /\ nCon'[u].here
  <2>1. PICK val \in NmValues, auto \in BOOLEAN :
           IF Cur.removed THEN val = Cur.before.val /\ auto = FALSE ELSE val = nPlan.n /\ auto = TRUE
    <3>1. Cur.before.val \in NmValues /\ nPlan.n \in NmValues
      BY <1>1, CurChange, NmAssumption DEF NmInv, PlanTypes, NmCons, NmValues
    <3> QED
      BY <3>1
  <2>2. Written(Cur) = Modified(nCon[u], val, auto)
    BY <1>3, <2>1, Zenon DEF Written
  <2>3. nCon' = [nCon EXCEPT ![u] = Modified(nCon[u], val, auto)]
    BY <1>3, <2>2, Zenon DEF ModifyConnection
  <2>4. u # NmForeign /\ nCon[u].here
    BY <1>3
  <2>5. RightCons(nCon')
    BY <2>3, <2>4, ModifiedRight, ZenonT(60)
  <2>6. nCon'[u].here
    BY <2>3, <2>4, ModifiedRight, ZenonT(60)
  <2> QED
    BY <2>5, <2>6
<1>5. ApplyInv' /\ RecoverInv'
  <2>1. Cur' = Cur
    BY <1>1, <1>2 DEF Cur, NmSame
  <2> QED
    BY <1>2, <1>3, <1>4, <2>1 DEF ApplyInv, RecoverInv
<1> QED
  BY <1>1, <1>2, <1>4, <1>5, InPlace DEF NmInv, LinksInv

LEMMA UpConnectionInv == NmInv /\ UpConnection => NmInv'
<1> SUFFICES ASSUME NmInv, UpConnection PROVE NmInv'
  OBVIOUS
<1>1. /\ nAt.step = "apply" /\ nAt.i <= Len(nPlan.ch) /\ NmSame /\ NextCh /\ nAt.sub = "up"
      /\ TakeUp(Cur, ~Cur.removed)
  BY DEF UpConnection, NmStep
<1>2. AtTypes' /\ nAt'.step = "apply" /\ nAt'.i = nAt.i + 1 /\ nAt'.sub = "begin"
  BY <1>1, AtNext DEF NmSame, NmInv
<1>3. PICK u \in NmUuids : u = Cur.uuid /\ u # NmForeign /\ nCon[u].here
  BY <1>1, CurChange DEF NmInv, ApplyInv
<1>4. /\ RightCons(nCon')
  <2>1. PICK on \in BOOLEAN : on = ~Cur.removed
    OBVIOUS
  <2>2. nCon' = [nCon EXCEPT ![u].on = on]
    BY <1>1, <1>3, <2>1, Zenon DEF TakeUp
  <2> QED
    BY <1>3, <2>2, TakenUp
<1>5. nLinks' \subseteq nDoc.tags \cup nPlan.tags
  BY <1>1, CurHere DEF TakeUp, NmInv, LinksInv
<1>6. ApplyInv' /\ RecoverInv'
  BY <1>2 DEF ApplyInv, RecoverInv
<1> QED
  BY <1>1, <1>2, <1>4, <1>5, <1>6, InPlace

LEMMA PruneNmInv == ASSUME NEW leave PROVE NmInv /\ PruneNm(leave) => NmInv'
<1> SUFFICES ASSUME NmInv, PruneNm(leave) PROVE NmInv'
  OBVIOUS
<1>1. /\ nAt.step = "prune" /\ nAt.i <= Len(nPlan.ch) /\ NmSame /\ NextCh /\ UNCHANGED nLinks
  BY DEF PruneNm, NmStep
<1>2. AtTypes' /\ nAt'.step = "prune" /\ nAt'.sub = "begin"
  BY <1>1, AtNext DEF NmSame, NmInv
<1>3. PICK u \in NmUuids : u = Cur.uuid /\ u # NmForeign
  BY <1>1, CurChange DEF NmInv
<1>4. /\ RightCons(nCon')
  <2>1. CASE Cur.removed /\ nCon[u].here
    <3>1. u \notin DocOwned \cup {NmParent}
      BY <1>1, <1>3, <2>1, CurChange DEF NmInv, PruneInv
    <3>2. nCon' = [nCon EXCEPT ![u] = Deleted(nCon[u], leave)]
      BY <1>3, <2>1 DEF PruneNm
    <3> QED
      BY <1>3, <3>1, <3>2, DeletedRight
  <2>2. CASE ~(Cur.removed /\ nCon[u].here)
    BY <1>3, <2>2 DEF PruneNm, NmInv, ConTypes, HereInv, RightCons
  <2> QED
    BY <2>1, <2>2
<1>5. ApplyInv' /\ RecoverInv'
  BY <1>2 DEF ApplyInv, RecoverInv
<1> QED
  BY <1>1, <1>2, <1>4, <1>5, InPlace DEF NmInv, LinksInv

-------------------------------------------------------------------------------
(* Recovering.                                                                 *)

\* What has been put back stays so when another connection is worked at.
LEMMA PutBackStays ==
    ASSUME NmInv, UNCHANGED <<nNetplan, nPlan>>, nAt.step = "recover", nAt'.i = nAt.i,
           nAt.i <= Len(nPlan.ch),
           \A w \in NmUuids : w # Cur.uuid => nCon'[w] = nCon[w]
    PROVE  Cur' = Cur /\ \A i \in DOMAIN nPlan.ch : i < nAt.i => AsBefore(i)'
<1>1. Cur' = Cur
  BY DEF Cur
<1>2. nAt.i \in DOMAIN nPlan.ch /\ Cur = nPlan.ch[nAt.i] /\ nAt.i \in Nat
  BY CurChange DEF NmInv, AtTypes
<1>3. ASSUME NEW i \in DOMAIN nPlan.ch, i < nAt.i PROVE AsBefore(i)'
  <2>1. nPlan.ch[i].uuid # Cur.uuid /\ nPlan.ch[i].uuid \in NmUuids
    BY <1>2, <1>3, PlanChange DEF NmInv, PlanTypes
  <2>2. AsBefore(i)
    BY <1>3 DEF NmInv, RecoverInv
  <2> QED
    BY <2>1, <2>2 DEF AsBefore, PutBack
<1> QED
  BY <1>1, <1>3

LEMMA RestorePropertiesInv == 
    ASSUME NEW leave, NEW listed \in BOOLEAN PROVE NmInv /\ RestoreProperties(leave, listed) => NmInv'
<1> SUFFICES ASSUME NmInv, RestoreProperties(leave, listed) PROVE NmInv'
  OBVIOUS
<1>1. /\ nAt.step = "recover" /\ nAt.i <= Len(nPlan.ch) /\ NmSame /\ UNCHANGED nLinks /\ NmSub("files")
      /\ listed \/ nNetplan
      /\ nCon' = [nCon EXCEPT ![Cur.uuid] = Restored(Cur, nCon[Cur.uuid], leave, listed)]
  BY DEF RestoreProperties, NmStep
<1>2. AtTypes' /\ nAt'.step = "recover" /\ nAt'.i = nAt.i /\ nAt'.sub = "files"
  BY <1>1, AtSub DEF NmSame, NmInv, NmSubs
<1>3. PICK u \in NmUuids : u = Cur.uuid
  BY <1>1, CurChange DEF NmInv
<1>4. u # NmForeign
  BY <1>1, <1>3, CurChange DEF NmInv
<1>5. RightCons(nCon') /\ (Cur.existed \/ nNetplan \/ ~nCon'[u].here)
  <2>1. CASE Cur.existed
    <3>1. PICK val \in NmValues, auto \in BOOLEAN : val = Cur.before.val /\ auto = Cur.before.auto
      BY <1>1, CurChange DEF NmInv, NmCons
    <3>2. nCon' = [nCon EXCEPT ![u] = Modified(nCon[u], val, auto)]
      BY <1>1, <1>3, <2>1, <3>1 DEF Restored
    <3>3. nCon[u].here
      BY <1>1, <1>3, <2>1, CurHere
    <3>4. RightCons(nCon')
      BY <1>4, <3>2, <3>3, ModifiedRight, ZenonT(60)
    <3> QED
      BY <2>1, <3>4
  <2>2. CASE ~Cur.existed /\ nCon[u].here /\ listed
    <3>1. nCon' = [nCon EXCEPT ![u] = Deleted(nCon[u], leave)]
      BY <1>1, <1>3, <2>2 DEF Restored
    <3>2. u \notin DocOwned \cup {NmParent, NmForeign}
      BY <1>1, <1>3, <1>4, <2>2, CurHere
    <3>3. RightCons(nCon')
      BY <3>1, <3>2, DeletedRight, Zenon
    <3>4. ~nCon'[u].here
      BY <3>1, <3>2, DeletedRight, Zenon
    <3> QED
      BY <3>3, <3>4
  <2>3. CASE ~Cur.existed /\ ~(nCon[u].here /\ listed)
    <3>1. nCon' = nCon
      BY <1>1, <1>3, <2>3 DEF Restored, NmInv, ConTypes
    <3> QED
      BY <1>1, <2>3, <3>1 DEF NmInv, ConTypes, HereInv, RightCons
  <2> QED
    BY <2>1, <2>2, <2>3
<1>6. Cur' = Cur /\ \A i \in DOMAIN nPlan.ch : i < nAt.i => AsBefore(i)'
  <2>1. PICK con : con = Restored(Cur, nCon[Cur.uuid], leave, listed)
    OBVIOUS
  <2>2. nCon' = [nCon EXCEPT ![u] = con]
    BY <1>1, <1>3, <2>1
  <2>3. \A w \in NmUuids : w # u => nCon'[w] = nCon[w]
    BY <2>2 DEF NmInv, ConTypes
  <2> QED
    BY <1>1, <1>2, <1>3, <2>3, PutBackStays DEF NmSame
<1>7. ApplyInv' /\ RecoverInv'
  <2>1. nPlan' = nPlan /\ nNetplan' = nNetplan
    BY <1>1 DEF NmSame
  <2> QED
    BY <1>2, <1>3, <1>5, <1>6, <2>1 DEF ApplyInv, RecoverInv
<1> QED
  BY <1>1, <1>2, <1>5, <1>7, InPlace DEF NmInv, LinksInv

LEMMA RestoreUpInv == NmInv /\ RestoreUp => NmInv'
<1> SUFFICES ASSUME NmInv, RestoreUp PROVE NmInv'
  OBVIOUS
<1>1. /\ nAt.step = "recover" /\ nAt.i <= Len(nPlan.ch) /\ NmSame /\ NmSub("verify") /\ nAt.sub = "up"
      /\ TakeUp(Cur, Cur.before.on)
  BY DEF RestoreUp, NmStep
<1>2. AtTypes' /\ nAt'.step = "recover" /\ nAt'.i = nAt.i /\ nAt'.sub = "verify"
  BY <1>1, AtSub DEF NmSame, NmInv, NmSubs
<1>3. PICK u \in NmUuids : u = Cur.uuid
  BY <1>1, CurChange DEF NmInv
<1>4. u # NmForeign /\ Cur.existed /\ nCon[u].here
  BY <1>1, <1>3, CurChange, CurHere DEF NmInv, RecoverInv
<1>5. PICK on \in BOOLEAN : on = Cur.before.on
  BY <1>1, CurChange DEF NmInv, NmCons
<1>6. nCon' = [nCon EXCEPT ![u].on = on]
  BY <1>1, <1>3, <1>5, Zenon DEF TakeUp
<1>7. RightCons(nCon')
  BY <1>4, <1>6, TakenUp, Zenon
<1>8. nCon'[u].on = on
  BY <1>4, <1>6, TakenUp, Zenon
<1>9. \A w \in NmUuids : w # u => nCon'[w] = nCon[w]
  BY <1>6 DEF NmInv, ConTypes
<1>10. nLinks' \subseteq nDoc.tags \cup nPlan.tags
  BY <1>1, CurHere DEF TakeUp, NmInv, LinksInv
<1>11. Cur' = Cur /\ \A i \in DOMAIN nPlan.ch : i < nAt.i => AsBefore(i)'
  BY <1>1, <1>2, <1>3, <1>9, PutBackStays DEF NmSame
<1>12. ApplyInv' /\ RecoverInv'
  <2>1. nPlan' = nPlan
    BY <1>1 DEF NmSame
  <2> QED
    BY <1>2, <1>3, <1>4, <1>5, <1>8, <1>11, <2>1 DEF ApplyInv, RecoverInv
<1> QED
  BY <1>1, <1>2, <1>7, <1>10, <1>12, InPlace

\* The next connection is not begun before this one is as it was.
LEMMA VerifyRestoredInv == NmInv /\ VerifyRestored => NmInv'
<1> SUFFICES ASSUME NmInv, VerifyRestored PROVE NmInv'
  OBVIOUS
<1>1. /\ nAt.step = "recover" /\ nAt.i <= Len(nPlan.ch) /\ NmSame /\ nAt.sub = "verify"
      /\ UNCHANGED <<nCon, nLinks>>
  BY DEF VerifyRestored, NmStep
<1>2. CASE NmTo("failed")
  BY <1>1, <1>2, Turned DEF NmSame, Making, NmInv, LeftTypes
<1>3. CASE /\ NextCh
           /\ Cur.existed => nCon[Cur.uuid].val = Cur.before.val /\ nCon[Cur.uuid].auto = Cur.before.auto
           /\ nNetplan => SameProfile(nCon[Cur.uuid].file, Cur.before.file)
  <2>1. AtTypes' /\ nAt'.step = "recover" /\ nAt'.i = nAt.i + 1 /\ nAt'.sub = "begin"
    BY <1>1, <1>3, AtNext DEF NmSame, NmInv
  <2>2. nAt.i \in DOMAIN nPlan.ch /\ Cur = nPlan.ch[nAt.i] /\ nAt.i \in Nat
    BY <1>1, CurChange DEF NmInv, AtTypes
  <2>3. PutBack(nCon[Cur.uuid], Cur)
    <3>1. Cur.existed => nCon[Cur.uuid].on = Cur.before.on
      BY <1>1 DEF NmInv, RecoverInv
    <3>2. ~Cur.existed => ~nCon[Cur.uuid].here
      BY <1>1 DEF NmInv, RecoverInv
    <3>3. nNetplan /\ ~Cur.existed => ~nCon[Cur.uuid].file.there
      <4>1. nNetplan /\ ~Cur.existed => ~Cur.before.file.there
        BY <1>1, CurHere DEF ImageOf
      <4>2. PICK f \in NmFiles, g \in NmFiles : f = nCon[Cur.uuid].file /\ g = Cur.before.file
        BY <1>1, CurChange DEF NmInv, ConTypes, NmCons
      <4>3. SameProfile(f, g) => f.there = g.there
        BY DEF SameProfile, NmFiles
      <4> QED
        BY <1>3, <4>1, <4>2, <4>3
    <3> QED
      BY <1>3, <3>1, <3>2, <3>3 DEF PutBack
  <2>4. \A i \in DOMAIN nPlan.ch : i < nAt.i + 1 => AsBefore(i)
    <3>1. \A i \in DOMAIN nPlan.ch : i < nAt.i => AsBefore(i)
      BY <1>1 DEF NmInv, RecoverInv
    <3>2. AsBefore(nAt.i)
      BY <2>2, <2>3 DEF AsBefore
    <3>3. \A i \in DOMAIN nPlan.ch : i < nAt.i + 1 => i < nAt.i \/ i = nAt.i
      BY <2>2, PlanChange DEF NmInv
    <3> QED
      BY <3>1, <3>2, <3>3
  <2>5. \A i : AsBefore(i)' = AsBefore(i)
    BY <1>1, Zenon DEF AsBefore, PutBack, NmSame
  <2>6. ApplyInv' /\ RecoverInv'
    BY <1>1, <2>1, <2>4, <2>5 DEF ApplyInv, RecoverInv, NmSame
  <2>7. RightCons(nCon')
    BY <1>1 DEF NmInv, ConTypes, HereInv, RightCons
  <2> QED
    BY <1>1, <2>1, <2>6, <2>7, InPlace DEF NmInv, LinksInv
<1> QED
  BY <1>2, <1>3 DEF VerifyRestored

\* The file of a connection is put back.
LEMMA FileBack ==
    ASSUME NmInv, nNetplan, NEW u \in NmUuids, u # NmForeign, NEW file \in NmFiles,
           file.there => u \in NmKnown \cup {NmParent},
           NEW con, con = [nCon EXCEPT ![u].file = file]
    PROVE  /\ con \in [NmUuids -> NmCons] /\ HereOf(con) /\ FilesOf(con)
           /\ con[u].file = file /\ con[u].here = nCon[u].here
           /\ \A w \in NmUuids : w # u => con[w] = nCon[w]
<1>1. PICK c \in NmCons : c = nCon[u]
  BY DEF NmInv, ConTypes
<1>2. PICK new \in NmCons : /\ new.file = file /\ new.here = c.here /\ new.on = c.on
                            /\ new = [c EXCEPT !.file = file]
  <2>1. PICK new : new = [here |-> c.here, val |-> c.val, auto |-> c.auto, on |-> c.on, file |-> file]
    OBVIOUS
  <2> QED
    BY <2>1 DEF NmCons
<1>3. con = [nCon EXCEPT ![u] = new]
  BY <1>1, <1>2 DEF NmInv, ConTypes
<1>4. con \in [NmUuids -> NmCons] /\ con[u] = new
  BY <1>3 DEF NmInv, ConTypes
<1>5. \A w \in NmUuids : w # u => con[w] = nCon[w]
  BY <1>3 DEF NmInv, ConTypes
<1>6. \A w \in NmUuids : con[w].here = nCon[w].here /\ con[w].on = nCon[w].on
  BY <1>1, <1>2, <1>4, <1>5
<1>7. HereOf(con)
  BY <1>6, Uuids, DocUuids DEF NmInv, HereInv, HereOf
<1>8. FilesOf(con)
  BY <1>2, <1>4, <1>5, Uuids DEF NmInv, HereInv, FilesOf
<1> QED
  BY <1>1, <1>2, <1>4, <1>5, <1>7, <1>8

LEMMA RestoreKeyfilesInv == NmInv /\ RestoreKeyfiles => NmInv'
<1> SUFFICES ASSUME NmInv, RestoreKeyfiles PROVE NmInv'
  OBVIOUS
<1>1. /\ nAt.step = "recover" /\ nAt.i <= Len(nPlan.ch) /\ NmSame /\ UNCHANGED nLinks /\ nAt.sub = "files"
      /\ NmSub(IF Cur.existed THEN "up" ELSE "verify") /\ nCon' = FilesBack(nCon, Cur)
  BY DEF RestoreKeyfiles, NmStep
<1>2. AtTypes' /\ nAt'.step = "recover" /\ nAt'.i = nAt.i
      /\ nAt'.sub = (IF Cur.existed THEN "up" ELSE "verify")
  <2>1. PICK goal \in NmSubs : goal = (IF Cur.existed THEN "up" ELSE "verify")
    BY DEF NmSubs
  <2>2. NmSub(goal)
    BY <1>1, <2>1
  <2> QED
    BY <1>1, <2>1, <2>2, AtSub DEF NmSame, NmInv
<1>3. PICK u \in NmUuids : u = Cur.uuid
  BY <1>1, CurChange DEF NmInv
<1>4. u # NmForeign /\ (Cur.existed => nCon[u].here) /\ (~Cur.existed => nNetplan \/ ~nCon[u].here)
  BY <1>1, <1>3, CurChange, CurHere DEF NmInv, RecoverInv
<1>5. PICK before \in NmCons : before = Cur.before
  BY <1>1, CurChange DEF NmInv
<1>6. /\ nNetplan /\ Cur.existed => Agrees(before) /\ before.file.there
      /\ nNetplan /\ ~Cur.existed => ~before.file.there
  BY <1>1, <1>5, CurHere DEF ImageOf
<1>7. /\ RightCons(nCon')
      /\ ~Cur.existed => ~nCon'[u].here
      /\ \A i \in DOMAIN nPlan.ch : i < nAt.i => AsBefore(i)'
  <2>1. CASE ~(nNetplan /\ nCon[u].file # before.file)
    <3>1. nCon' = nCon
      BY <1>1, <1>3, <1>5, <2>1 DEF FilesBack
    <3>2. Cur' = Cur /\ \A i \in DOMAIN nPlan.ch : i < nAt.i => AsBefore(i)'
      BY <1>1, <1>2, <3>1, PutBackStays DEF NmSame
    <3>3. ~Cur.existed => ~nCon[u].here
      <4>1. nNetplan /\ ~Cur.existed => ~nCon[u].file.there
        BY <1>6, <2>1
      <4>2. nNetplan => Filed(u, nCon[u])
        BY DEF NmInv, HereInv, AgreeOf
      <4> QED
        BY <1>4, <4>1, <4>2 DEF Filed
    <3> QED
      BY <3>1, <3>2, <3>3 DEF NmInv, ConTypes, HereInv, RightCons
  <2>2. CASE nNetplan /\ nCon[u].file # before.file
    <3>1. PICK con : con = [nCon EXCEPT ![u].file = before.file]
      OBVIOUS
    <3>2. nCon' = Reloaded(con)
      BY <1>1, <1>3, <1>5, <2>2, <3>1, Zenon DEF FilesBack
    <3>3. before.file \in NmFiles /\ (before.file.there => u \in NmKnown \cup {NmParent})
      BY <1>4, <1>6, <2>2 DEF NmCons, NmInv, HereInv, HereOf
    <3>4. /\ con \in [NmUuids -> NmCons] /\ HereOf(con) /\ FilesOf(con)
          /\ con[u].file = before.file /\ con[u].here = nCon[u].here
          /\ \A w \in NmUuids : w # u => con[w] = nCon[w]
      <4>1. PICK file \in NmFiles : file = before.file
        BY <3>3
      <4>2. nNetplan /\ u # NmForeign /\ (file.there => u \in NmKnown \cup {NmParent})
            /\ con = [nCon EXCEPT ![u].file = file]
        BY <1>4, <2>2, <3>1, <3>3, <4>1
      <4>3. con \in [NmUuids -> NmCons] /\ HereOf(con) /\ FilesOf(con)
        BY <4>2, FileBack
      <4>4. con[u].file = file /\ con[u].here = nCon[u].here
        BY <4>2, FileBack
      <4>5. \A w \in NmUuids : w # u => con[w] = nCon[w]
        BY <4>2 DEF NmInv, ConTypes
      <4> QED
        BY <4>1, <4>3, <4>4, <4>5
    <3>5. RightCons(nCon')
      <4>1. con \in [NmUuids -> NmCons] /\ HereOf(con) /\ FilesOf(con) /\ nNetplan
            /\ ConTypes /\ DocTypes
        BY <2>2, <3>4 DEF NmInv
      <4>2. FiledOwn(con)
        <5>1. FiledOwn(nCon)
          BY OwnFiled DEF NmInv, HereInv
        <5>2. u \in {NmParent} \cup DocOwned => before.file.there
          BY <1>1, <1>3, <1>6, <2>2, CurHere
        <5> QED
          BY <3>4, <5>1, <5>2, Uuids, DocUuids DEF FiledOwn, NmInv
      <4> QED
        BY <3>2, <4>1, <4>2, ReloadRight, Zenon
    <3>6. IsReload(con, nCon')
      BY <3>2, <3>4, ReloadedCon
    <3>7. ~Cur.existed => ~nCon'[u].here
      <4>1. ~Cur.existed => ~con[u].file.there
        BY <1>6, <2>2, <3>4
      <4>2. ~con[u].file.there => nCon'[u] = NoCon
        BY <1>4, <2>2, <3>6 DEF IsReload
      <4> QED
        BY <4>1, <4>2, NoConIsACon
    <3>8. ASSUME NEW i \in DOMAIN nPlan.ch, i < nAt.i PROVE AsBefore(i)'
      <4>1. PICK w \in NmUuids : w = nPlan.ch[i].uuid
        BY PlanChange DEF NmInv
      <4>2. w # u
        <5>1. nAt.i \in DOMAIN nPlan.ch /\ Cur = nPlan.ch[nAt.i] /\ i # nAt.i
          BY <1>1, <3>8, CurChange, PlanChange DEF NmInv, AtTypes
        <5> QED
          BY <1>3, <4>1, <5>1 DEF NmInv, PlanTypes
      <4>3. PutBack(nCon[w], nPlan.ch[i]) /\ con[w] = nCon[w]
        BY <1>1, <3>4, <3>8, <4>1, <4>2 DEF NmInv, RecoverInv, AsBefore
      <4>4. nPlan.ch[i].existed => nCon[w].here
        BY <1>1, <4>1, ExistedHere DEF NmInv, HereInv, Uncommitted, Making
      <4>5. nPlan.ch[i].existed =>
              /\ nCon[w].file.there
              /\ nCon[w].val = nCon[w].file.val /\ nCon[w].auto = nCon[w].file.auto
        BY <2>2, <4>1, <4>4, PlanChange DEF NmInv, HereInv, AgreeOf, Agrees, Filed
      <4>6. PutBack(nCon'[w], nPlan.ch[i])
        <5>1. w # NmForeign
          BY <4>1, PlanChange DEF NmInv
        <5>2. CASE nPlan.ch[i].existed
          BY <2>2, <3>6, <4>3, <4>5, <5>1, <5>2 DEF PutBack, IsReload
        <5>3. CASE ~nPlan.ch[i].existed
          <6>1. nCon'[w] = NoCon
            BY <2>2, <3>6, <4>3, <5>1, <5>3 DEF PutBack, IsReload
          <6> QED
            BY <5>3, <6>1, NoConIsACon DEF PutBack
        <5> QED
          BY <5>2, <5>3
      <4>7. nPlan' = nPlan /\ nNetplan' = nNetplan
        BY <1>1 DEF NmSame
      <4> QED
        BY <4>1, <4>6, <4>7 DEF AsBefore, PutBack
    <3> QED
      BY <3>5, <3>7, <3>8
  <2> QED
    BY <2>1, <2>2
<1>8. ApplyInv' /\ RecoverInv'
  <2>1. nPlan' = nPlan /\ Cur' = Cur
    BY <1>1, <1>2 DEF NmSame, Cur
  <2> QED
    BY <1>2, <1>3, <1>7, <2>1 DEF ApplyInv, RecoverInv
<1> QED
  BY <1>1, <1>2, <1>7, <1>8, InPlace DEF NmInv, LinksInv

-------------------------------------------------------------------------------
(* The beginning and the end of a change.                                      *)

LEMMA CreatedNotOwned == NmInv => \A u \in Created : u \notin DocOwned \cup {NmParent}
<1> SUFFICES ASSUME NmInv, NEW u \in Created PROVE u \notin DocOwned \cup {NmParent}
  OBVIOUS
<1>1. PICK i \in DOMAIN nPlan.ch : u = nPlan.ch[i].uuid /\ ~nPlan.ch[i].existed
  BY DEF Created
<1>2. nAt.step \in Making
  BY DEF Created
<1>3. Planned(nPlan.ch[i])
  BY <1>2 DEF NmInv, PlanInv, Uncommitted
<1> QED
  BY <1>1, <1>3 DEF Planned

\* Nothing that a change created is left.
LEMMA NothingLeft ==
    ASSUME NmInv, UNCHANGED <<nNetplan, nDoc>>, nCon' \in [NmUuids -> NmCons],
           \A u \in NmUuids \ Created : nCon'[u] = nCon[u],
           \A u \in NmUuids \cap Created : /\ ~nCon'[u].here /\ ~nCon'[u].on
                                           /\ nNetplan => ~nCon'[u].file.there,
           Created' = {}
    PROVE  HereInv'
<1>1. DocOwned' = DocOwned /\ NmKnown' = Bygone
  BY DEF DocOwned, NmKnown, Bygone
<1>2. \A u \in DocOwned \cup {NmParent} : nCon'[u] = nCon[u]
  BY CreatedNotOwned, DocUuids, Uuids DEF NmInv
<1>3. HereOf(nCon)'
  <2>1. nCon'[NmParent].here /\ \A u \in DocOwned : nCon'[u].here
    BY <1>2 DEF NmInv, HereInv, HereOf
  <2>2. \A u \in NmUuids : nCon'[u].on => nCon'[u].here /\ u # NmForeign
    BY DEF NmInv, HereInv, HereOf
  <2>3. \A u \in NmUuids \ {NmParent, NmForeign} : nCon'[u].here => u \in Bygone
    BY DEF NmInv, HereInv, HereOf, NmKnown
  <2> QED
    BY <1>1, <2>1, <2>2, <2>3 DEF HereOf
<1>4. FilesOf(nCon)'
  <2>1. nNetplan => ~nCon'[NmForeign].file.there
    BY Uuids DEF NmInv, HereInv, FilesOf
  <2>2. nNetplan => \A u \in NmUuids \ {NmParent} : nCon'[u].file.there => u \in Bygone
    BY DEF NmInv, HereInv, FilesOf, NmKnown
  <2> QED
    BY <1>1, <2>1, <2>2 DEF FilesOf
<1>5. AgreeOf(nCon)'
  BY DEF NmInv, HereInv, AgreeOf, Agrees, Filed
<1> QED
  BY <1>3, <1>4, <1>5 DEF HereInv

LEMMA NoPlan ==
    /\ NoNmPlan \in [n : 0 .. NmChanges, tags : SUBSET NmTags, owned : [NmTags -> 0 .. NmChanges],
                     ch : Seq(NmChs)]
    /\ NoNmPlan.tags = {} /\ NoNmPlan.ch = <<>>
<1>1. 0 \in 0 .. NmChanges
  BY NmAssumption
<1>2. [t \in NmTags |-> 0] \in [NmTags -> 0 .. NmChanges]
  BY <1>1
<1>3. <<>> \in Seq(NmChs)
  OBVIOUS
<1>4. PICK owned \in [NmTags -> 0 .. NmChanges], ch \in Seq(NmChs), n \in 0 .. NmChanges :
        owned = [t \in NmTags |-> 0] /\ ch = <<>> /\ n = 0
  BY <1>1, <1>2, <1>3, Zenon
<1>5. NoNmPlan = [n |-> n, tags |-> {}, owned |-> owned, ch |-> ch]
  BY <1>4, Zenon DEF NoNmPlan
<1>6. NoNmPlan.tags = {} /\ NoNmPlan.ch = ch
  BY <1>5
<1>7. NoNmPlan \in [n : 0 .. NmChanges, tags : SUBSET NmTags, owned : [NmTags -> 0 .. NmChanges],
                    ch : Seq(NmChs)]
  BY <1>5
<1> QED
  BY <1>4, <1>6, <1>7

LEMMA AtIdle ==
    /\ NmIdle \in [step : NmSteps, i : Nat, sub : NmSubs]
    /\ NmIdle.step = "idle" /\ NmIdle.i = 1 /\ NmIdle.sub = "begin"
<1>1. PICK idle \in NmSteps, begin \in NmSubs : idle = "idle" /\ begin = "begin"
  BY DEF NmSteps, NmSubs
<1>2. NmIdle = [step |-> idle, i |-> 1, sub |-> begin]
  BY <1>1 DEF NmIdle
<1> QED
  BY <1>1, <1>2

\* At rest there is no plan.
LEMMA AtRestAgain ==
    ASSUME NmInv, nPlan' = NoNmPlan, nAt' = NmIdle, UNCHANGED nNetplan, DocTypes', LeftTypes',
           nCon' \in [NmUuids -> NmCons], HereInv', nLinks' \subseteq NmTags,
           nLinks' \subseteq nDoc'.tags \cup LostTags'
    PROVE  NmInv'
<1>1. nAt'.step = "idle" /\ nAt'.i = 1 /\ nAt'.sub = "begin"
  BY AtIdle
<1>2. ConTypes'
  BY DEF NmInv, ConTypes
<1>3. PlanTypes'
  BY NoPlan DEF PlanTypes
<1>4. AtTypes'
  BY <1>1, AtIdle, NoPlan DEF AtTypes
<1>5. PlanInv' /\ PruneInv' /\ ImageInv'
  BY <1>1 DEF PlanInv, PruneInv, ImageInv, Uncommitted, Making
<1>6. LinksInv'
  BY <1>1 DEF LinksInv
<1>7. SettledInv' /\ ApplyInv' /\ AppliedInv' /\ RecoverInv'
  BY <1>1 DEF SettledInv, ApplyInv, AppliedInv, RecoverInv
<1> QED
  BY <1>2, <1>3, <1>4, <1>5, <1>6, <1>7 DEF NmInv

LEMMA AtRest ==
    ASSUME NmInv, nPlan' = NoNmPlan, nAt' = NmIdle, UNCHANGED <<nNetplan, nDoc, nLeft>>,
           nCon' \in [NmUuids -> NmCons], HereInv', nLinks' \subseteq nDoc.tags
    PROVE  NmInv'
<1>1. LeftTypes' /\ nLinks' \subseteq NmTags
  BY DEF NmInv, LeftTypes, DocTypes
<1>2. DocOwned' = DocOwned /\ NmSpent' = NmSpent /\ Bygone' = Bygone /\ LostTags' = LostTags
  BY DEF DocOwned, NmSpent, Bygone, LostTags
<1>3. DocTypes'
  BY <1>2 DEF NmInv, DocTypes
<1> QED
  BY <1>1, <1>3, AtRestAgain

LEMMA CheckPlanInv == NmInv /\ CheckPlan => NmInv'
<1> SUFFICES ASSUME NmInv, CheckPlan PROVE NmInv'
  OBVIOUS
<1>1. nAt.step = "staged" /\ UNCHANGED <<nCon, nNetplan, nLinks, nDoc, nLeft>>
  BY DEF CheckPlan
<1>2. Created = {} /\ nLinks \subseteq nDoc.tags
  BY <1>1 DEF Created, Making, NmInv, LinksInv
<1>3. CASE nPlan' = NoNmPlan /\ nAt' = NmIdle
  <2>1. HereInv'
    <3>1. Created' = {}
      BY <1>3, AtIdle DEF Created, Making
    <3> QED
      BY <1>1, <1>2, <3>1, StillRight DEF NmInv, HereInv
  <2> QED
    BY <1>1, <1>2, <1>3, <2>1, AtRest DEF NmInv, ConTypes
<1>4. CASE /\ nAt' = [nAt EXCEPT !.step = "settle"] /\ UNCHANGED nPlan
           /\ \A i \in DOMAIN nPlan.ch : Unchanged(nPlan.ch[i])
  <2>1. /\ nAt' \in [step : NmSteps, i : Nat, sub : NmSubs]
        /\ nAt'.step = "settle" /\ nAt'.i = nAt.i /\ nAt'.sub = nAt.sub
    <3>1. PICK settle \in NmSteps : settle = "settle"
      BY DEF NmSteps
    <3>2. nAt' = [step |-> settle, i |-> nAt.i, sub |-> nAt.sub]
      BY <1>4, <3>1 DEF NmInv, AtTypes
    <3>3. nAt.i \in Nat /\ nAt.sub \in NmSubs
      BY DEF NmInv, AtTypes
    <3> QED
      BY <3>1, <3>2, <3>3
  <2>2. AtTypes'
    BY <1>1, <1>4, <2>1 DEF NmInv, AtTypes
  <2>3. DocTypes' /\ PlanTypes' /\ PlanInv' /\ PruneInv' /\ ImageInv'
    BY <1>1, <1>4, <2>1, PlanStays DEF Uncommitted, Making
  <2>4. HereInv'
    BY <1>1, <1>2, StillRight DEF NmInv, HereInv
  <2>5. ConTypes' /\ LeftTypes' /\ LinksInv'
    BY <1>1, <1>2, <1>4, <2>1 DEF NmInv, ConTypes, LeftTypes, LinksInv
  <2>6. SettledInv'
    BY <1>1, <1>4 DEF SettledInv, Unchanged
  <2>7. ApplyInv' /\ AppliedInv' /\ RecoverInv'
    BY <2>1 DEF ApplyInv, AppliedInv, RecoverInv
  <2> QED
    BY <2>2, <2>3, <2>4, <2>5, <2>6, <2>7 DEF NmInv
<1> QED
  BY <1>3, <1>4 DEF CheckPlan

LEMMA PrunedInv == NmInv /\ Pruned => NmInv'
<1> SUFFICES ASSUME NmInv, Pruned PROVE NmInv'
  OBVIOUS
<1>1. /\ nAt.step = "prune" /\ UNCHANGED <<nCon, nNetplan, nLinks, nDoc, nLeft>>
      /\ nPlan' = NoNmPlan /\ nAt' = NmIdle
  BY DEF Pruned
<1>2. Created = {} /\ nLinks \subseteq nDoc.tags
  BY <1>1 DEF Created, Making, NmInv, LinksInv
<1>3. HereInv'
  BY <1>1, <1>2, StillRight DEF NmInv, HereInv
<1> QED
  BY <1>1, <1>2, <1>3, AtRest DEF NmInv, ConTypes

\* When a recovery ends, nothing that the change created is there.
LEMMA RecoveredNmInv == NmInv /\ RecoveredNm => NmInv'
<1> SUFFICES ASSUME NmInv, RecoveredNm PROVE NmInv'
  OBVIOUS
<1>1. /\ nAt.step = "relinks" /\ UNCHANGED <<nCon, nNetplan, nLinks, nDoc, nLeft>>
      /\ nPlan' = NoNmPlan /\ nAt' = NmIdle
  BY DEF RecoveredNm
<1>2. nLinks \subseteq nDoc.tags /\ \A i \in DOMAIN nPlan.ch : AsBefore(i)
  BY <1>1 DEF NmInv, LinksInv, RecoverInv
<1>3. \A u \in NmUuids \cap Created : ~nCon[u].here /\ (nNetplan => ~nCon[u].file.there)
  BY <1>2 DEF Created, AsBefore, PutBack
<1>4. \A u \in NmUuids \cap Created : ~nCon[u].on
  BY <1>3 DEF NmInv, HereInv, HereOf
<1>5. Created' = {}
  BY <1>1, AtIdle DEF Created, Making
<1>6. HereInv'
  BY <1>1, <1>3, <1>4, <1>5, NothingLeft DEF NmInv, ConTypes
<1> QED
  BY <1>1, <1>2, <1>6, AtRest DEF NmInv, ConTypes

\* What could be discarded is gone, and everything else is as it was.
LEMMA DiscardedRight ==
    ASSUME NmInv, nAt.step = "failed", NEW k \in 1 .. Len(nPlan.ch) + 1, NEW half, NEW leave,
           NEW con, con = Discarded(k, half, leave)
    PROVE  /\ RightCons(con)
           /\ k = Len(nPlan.ch) + 1 => \A u \in NmUuids \cap Created : con[u] = NoCon
<1>1. /\ CreatedBefore(k) \subseteq Created /\ CreatedBefore(k + 1) \subseteq Created
      /\ k = Len(nPlan.ch) + 1 => CreatedBefore(k) = Created
  <2>1. CreatedBefore(k) \subseteq Created /\ CreatedBefore(k + 1) \subseteq Created
    BY DEF CreatedBefore, Created, Making
  <2>2. ASSUME k = Len(nPlan.ch) + 1 PROVE Created \subseteq CreatedBefore(k)
    <3>1. Len(nPlan.ch) \in Nat
      BY DEF NmInv, PlanTypes
    <3>2. \A j \in DOMAIN nPlan.ch : j < k
      BY <2>2, <3>1, PlanChange DEF NmInv
    <3> QED
      BY <3>2 DEF CreatedBefore, Created
  <2> QED
    BY <2>1, <2>2
<1>2. \A u \in Created : u \notin DocOwned \cup {NmParent}
  BY CreatedNotOwned
<1>3. con = [u \in NmUuids |-> IF u \in CreatedBefore(k) THEN NoCon
                              ELSE IF half /\ u \in CreatedBefore(k + 1) THEN Deleted(nCon[u], leave)
                              ELSE nCon[u]]
  BY DEF Discarded
<1>4. ASSUME NEW u \in NmUuids
      PROVE  /\ con[u] \in NmCons
             /\ \/ con[u] = nCon[u]
                \/ /\ u \in Created /\ ~con[u].here /\ ~con[u].on
                   /\ con[u].file.there => nNetplan /\ nCon[u].file.there
  <2>1. nCon[u] \in NmCons
    BY DEF NmInv, ConTypes
  <2>2. CASE u \in CreatedBefore(k)
    BY <1>1, <1>3, <2>2, NoConIsACon
  <2>3. CASE u \notin CreatedBefore(k) /\ half /\ u \in CreatedBefore(k + 1)
    <3>1. con[u] = Deleted(nCon[u], leave)
      BY <1>3, <2>3
    <3>2. PICK c \in NmCons : c = nCon[u]
      BY <2>1
    <3>4. PICK d : d = Deleted(c, leave)
      OBVIOUS
    <3>3. /\ d \in NmCons /\ ~d.here /\ ~d.on
          /\ d.file.there => nNetplan /\ c.file.there
      BY <3>4, DeletedCon
    <3> QED
      BY <1>1, <2>3, <3>1, <3>2, <3>3, <3>4
  <2>4. CASE u \notin CreatedBefore(k) /\ ~(half /\ u \in CreatedBefore(k + 1))
    BY <1>3, <2>1, <2>4
  <2> QED
    BY <2>2, <2>3, <2>4
<1>5. con \in [NmUuids -> NmCons]
  BY <1>3, <1>4
<1>6. \A u \in {NmParent} \cup DocOwned : con[u] = nCon[u]
  BY <1>2, <1>4, Uuids, DocUuids DEF NmInv
<1>7. HereOf(con)
  <2>1. con[NmParent].here /\ \A u \in DocOwned : con[u].here
    BY <1>6 DEF NmInv, HereInv, HereOf
  <2>2. \A u \in NmUuids : con[u].on => con[u].here /\ u # NmForeign
    BY <1>4 DEF NmInv, HereInv, HereOf
  <2>3. \A u \in NmUuids \ {NmParent, NmForeign} : con[u].here => u \in NmKnown
    BY <1>4 DEF NmInv, HereInv, HereOf
  <2> QED
    BY <2>1, <2>2, <2>3 DEF HereOf
<1>8. FilesOf(con)
  <2>1. \A u \in NmUuids : con[u].file.there => nCon[u].file.there
    BY <1>4
  <2> QED
    BY <2>1, Uuids DEF NmInv, HereInv, FilesOf
<1>9. AgreeOf(con)
  BY <1>4 DEF NmInv, HereInv, AgreeOf, Agrees, Filed
<1> QED
  BY <1>1, <1>3, <1>5, <1>7, <1>8, <1>9 DEF RightCons

\* The operator gives a change up: what is left of it is known to be.
LEMMA AcceptCurrentInv ==
    ASSUME NEW k \in 1 .. Len(nPlan.ch) + 1, NEW half, NEW leave, NEW kept, NEW reload \in BOOLEAN
    PROVE  NmInv /\ AcceptCurrent(k, half, leave, kept, reload) => NmInv'
<1> SUFFICES ASSUME NmInv, AcceptCurrent(k, half, leave, kept, reload) PROVE NmInv'
  OBVIOUS
<1>1. PICK fails \in BOOLEAN : fails = (k <= Len(nPlan.ch) \/ kept # {})
  OBVIOUS
<1>2. PICK con : con = Discarded(k, half, leave)
  OBVIOUS
<1>3. /\ nAt.step = "failed" /\ (fails => nLeft.faults > 0) /\ (reload => nNetplan)
      /\ kept \subseteq nLinks \cap (nPlan.tags \ nDoc.tags)
      /\ nCon' = (IF reload THEN Reloaded(con) ELSE con)
      /\ nLinks' = (nLinks \ (nPlan.tags \ nDoc.tags)) \cup kept
      /\ nDoc' = [nDoc EXCEPT !.lost = IF fails THEN @ \cup NewOwned ELSE @]
      /\ nLeft' = [nLeft EXCEPT !.faults = IF fails THEN @ - 1 ELSE @]
      /\ nPlan' = NoNmPlan /\ nAt' = NmIdle /\ UNCHANGED nNetplan
  BY <1>1, <1>2, Zenon DEF AcceptCurrent
<1>4. RightCons(con)
  BY <1>2, <1>3, DiscardedRight
<1>5. ~fails => kept = {} /\ \A u \in NmUuids \cap Created : con[u] = NoCon
  <2>1. Len(nPlan.ch) \in Nat
    BY DEF NmInv, PlanTypes
  <2>2. ~fails => ~(k <= Len(nPlan.ch)) /\ kept = {}
    BY <1>1, Zenon
  <2>3. ~(k <= Len(nPlan.ch)) => k = Len(nPlan.ch) + 1
    BY <2>1
  <2> QED
    BY <1>2, <1>3, <2>2, <2>3, DiscardedRight
<1>6. /\ RightCons(nCon')
      /\ ~fails => \A u \in NmUuids \cap Created : /\ ~nCon'[u].here /\ ~nCon'[u].on
                                                   /\ ~nCon'[u].file.there
  <2>1. CASE ~reload
    BY <1>3, <1>4, <1>5, <2>1, NoConIsACon
  <2>2. CASE reload
    <3>1. /\ con \in [NmUuids -> NmCons] /\ HereOf(con) /\ FilesOf(con) /\ AgreeOf(con)
          /\ ConTypes /\ DocTypes
      BY <1>4 DEF NmInv, RightCons
    <3>2. FiledOwn(con)
      BY <3>1, OwnFiled
    <3>3. nCon' = Reloaded(con)
      BY <1>3, <2>2
    <3>4. RightCons(nCon')
      BY <3>1, <3>2, <3>3, ReloadRight, Zenon
    <3>5. IsReload(con, nCon')
      BY <3>1, <3>3, ReloadedCon
    <3>6. ASSUME ~fails, NEW u \in NmUuids \cap Created
          PROVE  nCon'[u] = NoCon
      BY <1>5, <3>5, <3>6, NoConIsACon DEF IsReload, NmInv, ConTypes
    <3> QED
      BY <3>4, <3>6, NoConIsACon
  <2> QED
    BY <2>1, <2>2
<1>7. PICK lost : lost = (IF fails THEN nDoc.lost \cup NewOwned ELSE nDoc.lost)
  OBVIOUS
<1>8. /\ nPlan.tags \in SUBSET NmTags
      /\ \A t \in nPlan.tags : nPlan.owned[t] \in 1 .. NmChanges /\ nPlan.owned[t] <= NmSpent
      /\ \A i \in DOMAIN nPlan.ch : Planned(nPlan.ch[i])
  BY <1>3, NmAssumption DEF NmInv, PlanTypes, PlanInv, Uncommitted, Making, NmSpent, LeftTypes
<1>9. NewOwned \subseteq NmUuids /\ \A u \in NewOwned : u[2] <= NmSpent
  <2>1. PICK tags \in SUBSET NmTags : tags = nPlan.tags \ nDoc.tags
    BY <1>8
  <2>2. Owned(nPlan.owned, tags) \subseteq NmUuids
    BY <1>8, <2>1, OwnedUuids
  <2>3. \A u \in Owned(nPlan.owned, tags) : u[2] <= NmSpent
    BY <1>8, <2>1 DEF Owned
  <2> QED
    BY <2>1, <2>2, <2>3 DEF NewOwned
<1>10. Created \subseteq NewOwned
  BY <1>8 DEF Created, Planned, PlanOwned, NewOwned, Owned
<1>11. kept \subseteq {u[1] : u \in NewOwned}
  <2>1. \A t \in nPlan.tags \ nDoc.tags : t \in {u[1] : u \in NewOwned}
    <3> SUFFICES ASSUME NEW t \in nPlan.tags \ nDoc.tags PROVE t \in {u[1] : u \in NewOwned}
      OBVIOUS
    <3>1. <<t, nPlan.owned[t]>> \in NewOwned
      BY DEF NewOwned, Owned
    <3>2. <<t, nPlan.owned[t]>>[1] = t
      OBVIOUS
    <3> QED
      BY <3>1, <3>2
  <2> QED
    BY <1>3, <2>1
<1>12. /\ nDoc' \in [tags : SUBSET NmTags, owned : [NmTags -> 0 .. NmChanges],
                     ever : SUBSET NmUuids, lost : SUBSET NmUuids]
       /\ nDoc'.tags = nDoc.tags /\ nDoc'.owned = nDoc.owned /\ nDoc'.ever = nDoc.ever
       /\ nDoc'.lost = lost
  <2>1. nDoc' = [tags |-> nDoc.tags, owned |-> nDoc.owned, ever |-> nDoc.ever, lost |-> lost]
    BY <1>3, <1>7 DEF NmInv, DocTypes
  <2>2. lost \in SUBSET NmUuids
    BY <1>7, <1>9 DEF NmInv, DocTypes
  <2> QED
    BY <2>1, <2>2 DEF NmInv, DocTypes
<1>13. LeftTypes' /\ nLeft'.changes = nLeft.changes
  <2>1. CASE fails
    <3>1. nLeft.faults > 0 /\ nLeft' = [nLeft EXCEPT !.faults = @ - 1]
      BY <1>3, <2>1
    <3> QED
      BY <3>1, FaultsStay DEF NmInv
  <2>2. CASE ~fails
    BY <1>3, <2>2 DEF NmInv, LeftTypes
  <2> QED
    BY <2>1, <2>2
<1>14. DocOwned' = DocOwned /\ NmSpent' = NmSpent /\ Bygone' = nDoc.ever \cup lost
       /\ LostTags' = {u[1] : u \in lost}
  BY <1>12, <1>13 DEF DocOwned, NmSpent, Bygone, LostTags
<1>15. DocTypes'
  <2>1. \A u \in nDoc.ever \cup lost : u[2] <= NmSpent
    BY <1>7, <1>9 DEF NmInv, DocTypes, Bygone
  <2> QED
    BY <1>12, <1>14, <2>1 DEF NmInv, DocTypes
<1>16. nLinks' \subseteq NmTags /\ nLinks' \subseteq nDoc'.tags \cup LostTags'
  <2>1. nLinks \subseteq NmTags /\ nLinks \subseteq nDoc.tags \cup nPlan.tags
    BY <1>3 DEF NmInv, ConTypes, LinksInv
  <2>2. kept \subseteq LostTags'
    BY <1>5, <1>7, <1>11, <1>14
  <2> QED
    BY <1>3, <1>12, <2>1, <2>2
<1>17. HereInv'
  <2>1. NmKnown' = nDoc.ever \cup lost
    <3>1. Created' = {}
      BY <1>3, AtIdle DEF Created, Making
    <3> QED
      BY <1>14, <3>1 DEF NmKnown
  <2>2. \A u \in NmKnown : u \in NmKnown' \/ (~fails /\ u \in Created)
    BY <1>7, <1>10, <2>1 DEF NmKnown, Bygone
  <2>3. HereOf(nCon)'
    BY <1>6, <1>14, <2>2 DEF RightCons, HereOf
  <2>4. FilesOf(nCon)'
    BY <1>3, <1>6, <2>2 DEF RightCons, FilesOf
  <2>5. AgreeOf(nCon)'
    BY <1>3, <1>6 DEF RightCons, AgreeOf
  <2> QED
    BY <2>3, <2>4, <2>5 DEF HereInv
<1>18. nCon' \in [NmUuids -> NmCons]
  BY <1>6 DEF RightCons
<1>19. nPlan' = NoNmPlan /\ nAt' = NmIdle /\ UNCHANGED nNetplan
  BY <1>3
<1> QED
  BY <1>13, <1>15, <1>16, <1>17, <1>18, <1>19, AtRestAgain

\* A job that dies while it discards leaves the journal.
LEMMA AcceptDiesInv ==
    ASSUME NEW k \in 1 .. Len(nPlan.ch) + 1, NEW half, NEW leave
    PROVE  NmInv /\ AcceptDies(k, half, leave) => NmInv'
<1> SUFFICES ASSUME NmInv, AcceptDies(k, half, leave) PROVE NmInv'
  OBVIOUS
<1>1. /\ nAt.step = "failed" /\ nCon' = Discarded(k, half, leave) /\ NmTo("recover")
      /\ nLeft.faults > 0 /\ nLeft' = [nLeft EXCEPT !.faults = @ - 1]
      /\ UNCHANGED <<nNetplan, nLinks, nDoc, nPlan>>
  BY DEF AcceptDies
<1>2. RightCons(nCon')
  BY <1>1, DiscardedRight
<1>3. LeftTypes' /\ nLeft'.changes = nLeft.changes
  BY <1>1, FaultsStay DEF NmInv
<1>4. /\ nAt' \in [step : NmSteps, i : Nat, sub : NmSubs]
      /\ nAt'.step = "recover" /\ nAt'.i = 1 /\ nAt'.sub = "begin"
  BY <1>1, Started DEF NmSteps
<1>5. DocTypes' /\ PlanTypes' /\ PlanInv' /\ PruneInv' /\ ImageInv'
  BY <1>1, <1>3, <1>4, PlanStays DEF Making, Uncommitted
<1>6. ConTypes'
  BY <1>1, <1>2 DEF NmInv, ConTypes, RightCons
<1>7. AtTypes'
  <2>1. Len(nPlan.ch) \in Nat
    BY DEF NmInv, PlanTypes
  <2> QED
    BY <1>1, <1>4, <2>1 DEF AtTypes
<1>8. HereInv'
  <2>1. Created \subseteq Created'
    BY <1>1, <1>4 DEF Created, Making
  <2> QED
    BY <1>1, <1>2, <2>1, StillRight DEF RightCons
<1>9. LinksInv'
  BY <1>1, <1>4 DEF NmInv, LinksInv
<1>10. SettledInv' /\ ApplyInv' /\ AppliedInv'
  BY <1>4 DEF SettledInv, ApplyInv, AppliedInv
<1>11. RecoverInv'
  <2>1. \A i \in DOMAIN nPlan.ch : ~(i < 1)
    BY PlanChange DEF NmInv
  <2> QED
    BY <1>1, <1>4, <2>1 DEF RecoverInv
<1> QED
  BY <1>3, <1>5, <1>6, <1>7, <1>8, <1>9, <1>10, <1>11 DEF NmInv

\* The commit: the document owns what the plan named, and everything the change created.
LEMMA KeepNmInv == NmInv /\ KeepNm => NmInv'
<1> SUFFICES ASSUME NmInv, KeepNm PROVE NmInv'
  OBVIOUS
<1>1. /\ nAt.step = "applied" /\ UNCHANGED <<nCon, nNetplan, nLinks, nPlan, nLeft>> /\ NmTo("prune")
      /\ nDoc' = [nDoc EXCEPT !.tags = nPlan.tags, !.owned = nPlan.owned, !.ever = @ \cup PlanOwned]
  BY DEF KeepNm, PlanOwned
<1>2. /\ nAt' \in [step : NmSteps, i : Nat, sub : NmSubs]
      /\ nAt'.step = "prune" /\ nAt'.i = 1 /\ nAt'.sub = "begin"
  BY <1>1, Started DEF NmSteps
<1>3. /\ nPlan.tags \in SUBSET NmTags /\ nPlan.owned \in [NmTags -> 0 .. NmChanges]
      /\ \A t \in nPlan.tags : nPlan.owned[t] \in 1 .. NmChanges /\ nPlan.owned[t] <= NmSpent
  BY <1>1, NmAssumption DEF NmInv, PlanTypes, PlanInv, Uncommitted, Making, NmSpent, LeftTypes
<1>4. /\ PlanOwned \subseteq NmUuids \ {NmParent, NmForeign}
      /\ \A u \in PlanOwned : u[2] <= NmSpent
  <2>1. PlanOwned \subseteq NmUuids \ {NmParent, NmForeign}
    BY <1>3, OwnedUuids DEF PlanOwned
  <2>2. \A u \in PlanOwned : u[2] <= NmSpent
    BY <1>3 DEF PlanOwned, Owned
  <2> QED
    BY <2>1, <2>2
<1>5. PICK ever \in SUBSET NmUuids : ever = nDoc.ever \cup PlanOwned
  BY <1>4 DEF NmInv, DocTypes
<1>6. /\ nDoc' \in [tags : SUBSET NmTags, owned : [NmTags -> 0 .. NmChanges],
                    ever : SUBSET NmUuids, lost : SUBSET NmUuids]
      /\ nDoc'.tags = nPlan.tags /\ nDoc'.owned = nPlan.owned /\ nDoc'.ever = ever
      /\ nDoc'.lost = nDoc.lost
  <2>1. nDoc' = [tags |-> nPlan.tags, owned |-> nPlan.owned, ever |-> ever, lost |-> nDoc.lost]
    BY <1>1, <1>5 DEF NmInv, DocTypes
  <2>2. nDoc.lost \in SUBSET NmUuids
    BY DEF NmInv, DocTypes
  <2> QED
    BY <1>3, <2>1, <2>2
<1>7. DocOwned' = PlanOwned /\ NmSpent' = NmSpent
  BY <1>1, <1>6 DEF DocOwned, PlanOwned, NmSpent
<1>8. DocTypes'
  <2>1. Bygone' = Bygone \cup PlanOwned
    BY <1>5, <1>6 DEF Bygone
  <2>2. \A u \in Bygone' : u[2] <= NmSpent
    BY <1>4, <2>1 DEF NmInv, DocTypes
  <2> QED
    BY <1>3, <1>5, <1>6, <1>7, <2>2 DEF DocTypes
<1>9. PlanTypes' /\ ConTypes' /\ LeftTypes'
  BY <1>1 DEF NmInv, PlanTypes, ConTypes, LeftTypes
<1>10. AtTypes'
  <2>1. Len(nPlan.ch) \in Nat
    BY DEF NmInv, PlanTypes
  <2> QED
    BY <1>1, <1>2, <2>1 DEF AtTypes
<1>11. \A i \in DOMAIN nPlan.ch : Planned(nPlan.ch[i])
  BY <1>1 DEF NmInv, PlanInv, Uncommitted, Making
<1>12. PlanInv' /\ ImageInv'
  BY <1>2 DEF PlanInv, ImageInv, Uncommitted, Making
<1>13. PruneInv'
  BY <1>1, <1>7, <1>11 DEF PruneInv, Planned
<1>14. HereInv'
  <2>1. NmKnown \subseteq NmKnown'
    <3>1. Created \subseteq PlanOwned
      BY <1>11 DEF Created, Planned
    <3> QED
      BY <1>5, <1>6, <3>1 DEF NmKnown, Bygone
  <2>2. \A u \in PlanOwned : nCon[u].here
    BY <1>1 DEF NmInv, AppliedInv
  <2>3. HereOf(nCon)'
    BY <1>1, <1>7, <2>1, <2>2 DEF NmInv, HereInv, HereOf
  <2>4. FilesOf(nCon)' /\ AgreeOf(nCon)'
    BY <1>1, <2>1 DEF NmInv, HereInv, FilesOf, AgreeOf
  <2> QED
    BY <2>3, <2>4 DEF HereInv
<1>15. LinksInv'
  BY <1>1, <1>2, <1>6 DEF NmInv, LinksInv
<1>16. SettledInv' /\ ApplyInv' /\ AppliedInv' /\ RecoverInv'
  BY <1>2 DEF SettledInv, ApplyInv, AppliedInv, RecoverInv
<1> QED
  BY <1>8, <1>9, <1>10, <1>12, <1>13, <1>14, <1>15, <1>16 DEF NmInv

\* The images are taken again: what the files say is what the plan recorded.
LEMMA SettleNmFilesInv == NmInv /\ SettleNmFiles => NmInv'
<1> SUFFICES ASSUME NmInv, SettleNmFiles PROVE NmInv'
  OBVIOUS
<1>1. /\ nAt.step = "settle" /\ UNCHANGED <<nNetplan, nLinks, nDoc, nLeft>> /\ NmTo("apply")
      /\ nCon' = Reloaded(nCon)
      /\ nPlan' = [nPlan EXCEPT !.ch = [i \in DOMAIN nPlan.ch |->
                    [nPlan.ch[i] EXCEPT !.before.file = nCon[nPlan.ch[i].uuid].file]]]
  BY DEF SettleNmFiles
<1>2. /\ nAt' \in [step : NmSteps, i : Nat, sub : NmSubs]
      /\ nAt'.step = "apply" /\ nAt'.i = 1 /\ nAt'.sub = "begin"
  BY <1>1, Started DEF NmSteps
<1>3. RightCons(nCon')
  <2>1. nCon \in [NmUuids -> NmCons] /\ HereOf(nCon) /\ FilesOf(nCon) /\ AgreeOf(nCon)
        /\ ConTypes /\ DocTypes
    BY DEF NmInv, ConTypes, HereInv
  <2>2. FiledOwn(nCon)
    BY <2>1, OwnFiled
  <2> QED
    BY <1>1, <2>1, <2>2, ReloadRight, Zenon
<1>4. PICK ch \in Seq(NmChs) :
        /\ DOMAIN ch = DOMAIN nPlan.ch /\ Len(ch) = Len(nPlan.ch)
        /\ \A i \in DOMAIN nPlan.ch :
              /\ ch[i].uuid = nPlan.ch[i].uuid /\ ch[i].existed = nPlan.ch[i].existed
              /\ ch[i].removed = nPlan.ch[i].removed
              /\ ch[i].before.here = nPlan.ch[i].before.here
              /\ ch[i].before.val = nPlan.ch[i].before.val
              /\ ch[i].before.auto = nPlan.ch[i].before.auto
              /\ ch[i].before.file = nCon[nPlan.ch[i].uuid].file
        /\ nPlan' = [nPlan EXCEPT !.ch = ch]
  <2>1. PICK ch : ch = [i \in DOMAIN nPlan.ch |->
                          [nPlan.ch[i] EXCEPT !.before.file = nCon[nPlan.ch[i].uuid].file]]
    OBVIOUS
  <2>2. ASSUME NEW i \in DOMAIN nPlan.ch
        PROVE  /\ ch[i] \in NmChs
               /\ ch[i].uuid = nPlan.ch[i].uuid /\ ch[i].existed = nPlan.ch[i].existed
               /\ ch[i].removed = nPlan.ch[i].removed
               /\ ch[i].before.here = nPlan.ch[i].before.here
               /\ ch[i].before.val = nPlan.ch[i].before.val
               /\ ch[i].before.auto = nPlan.ch[i].before.auto
               /\ ch[i].before.file = nCon[nPlan.ch[i].uuid].file
    <3>1. PICK c \in NmChs, b \in NmCons : c = nPlan.ch[i] /\ b = c.before
      BY PlanChange DEF NmInv
    <3>2. PICK f \in NmFiles : f = nCon[nPlan.ch[i].uuid].file
      BY PlanChange DEF NmInv, ConTypes, NmCons
    <3>3. PICK new : new = [here |-> b.here, val |-> b.val, auto |-> b.auto, on |-> b.on, file |-> f]
      OBVIOUS
    <3>4. /\ new \in NmCons /\ new.here = b.here /\ new.val = b.val /\ new.auto = b.auto
          /\ new.file = f /\ new = [b EXCEPT !.file = f]
      BY <3>3 DEF NmCons
    <3>5. ch[i] = [c EXCEPT !.before.file = f]
      BY <2>1, <3>1, <3>2
    <3>6. ch[i] = [uuid |-> c.uuid, existed |-> c.existed, removed |-> c.removed, before |-> new]
      BY <3>1, <3>4, <3>5 DEF NmChs
    <3>7. c.uuid \in NmUuids \ {NmForeign} /\ c.existed \in BOOLEAN /\ c.removed \in BOOLEAN
      BY DEF NmChs
    <3>8. ch[i] \in NmChs
      BY <3>4, <3>6, <3>7 DEF NmChs
    <3>9. ch[i].uuid = c.uuid /\ ch[i].existed = c.existed /\ ch[i].removed = c.removed
          /\ ch[i].before = new
      BY <3>6
    <3> QED
      BY <3>1, <3>2, <3>4, <3>8, <3>9
  <2>3. nPlan.ch \in Seq(NmChs)
    BY DEF NmInv, PlanTypes
  <2>4. ch \in Seq(NmChs) /\ DOMAIN ch = DOMAIN nPlan.ch /\ Len(ch) = Len(nPlan.ch)
    <3>1. DOMAIN nPlan.ch = 1 .. Len(nPlan.ch) /\ Len(nPlan.ch) \in Nat
      BY <2>3
    <3>2. ch \in [1 .. Len(nPlan.ch) -> NmChs]
      BY <2>1, <2>2, <3>1
    <3> QED
      BY <3>1, <3>2
  <2>5. nPlan' = [nPlan EXCEPT !.ch = ch]
    BY <1>1, <2>1, Zenon
  <2> QED
    BY <2>2, <2>4, <2>5
<1>5. /\ nPlan' \in [n : 0 .. NmChanges, tags : SUBSET NmTags, owned : [NmTags -> 0 .. NmChanges],
                     ch : Seq(NmChs)]
      /\ nPlan'.tags = nPlan.tags /\ nPlan'.owned = nPlan.owned /\ nPlan'.ch = ch
  BY <1>4 DEF NmInv, PlanTypes
<1>6. PlanTypes'
  <2>1. \A i, j \in DOMAIN ch : ch[i].uuid = ch[j].uuid => i = j
    BY <1>4 DEF NmInv, PlanTypes
  <2> QED
    BY <1>5, <2>1 DEF PlanTypes
<1>7. ConTypes' /\ LeftTypes'
  BY <1>1, <1>3 DEF NmInv, ConTypes, LeftTypes, RightCons
<1>8. AtTypes'
  <2>1. Len(nPlan'.ch) \in Nat
    BY <1>5
  <2> QED
    BY <1>2, <2>1 DEF AtTypes
<1>9. DocOwned' = DocOwned /\ NmSpent' = NmSpent /\ PlanOwned' = PlanOwned /\ Bygone' = Bygone
  BY <1>1, <1>5 DEF DocOwned, NmSpent, PlanOwned, Bygone
<1>10. DocTypes'
  BY <1>1, <1>9 DEF NmInv, DocTypes
<1>11. PlanInv'
  <2>1. (\A t \in nPlan.tags : nPlan.owned[t] \in 1 .. NmSpent)
        /\ \A i \in DOMAIN nPlan.ch : Planned(nPlan.ch[i])
    BY <1>1 DEF NmInv, PlanInv, Uncommitted
  <2>2. \A i \in DOMAIN ch : Planned(ch[i])
    BY <1>4, <2>1 DEF Planned
  <2>3. \A c : Planned(c)' = Planned(c)
    BY <1>1, <1>5, <1>9, Zenon DEF Planned
  <2> QED
    BY <1>5, <1>9, <2>1, <2>2, <2>3 DEF PlanInv
<1>12. PruneInv'
  BY <1>2 DEF PruneInv
<1>13. HereInv'
  <2>1. Created = {}
    BY <1>1 DEF Created, Making
  <2> QED
    BY <1>1, <1>3, <2>1, StillRight DEF RightCons
<1>14. LinksInv'
  BY <1>1, <1>2, <1>5 DEF NmInv, LinksInv
<1>15. ImageInv'
  <2>1. ASSUME NEW i \in DOMAIN nPlan.ch PROVE ImageOf(ch[i])'
    <3>1. PICK u \in NmUuids : u = nPlan.ch[i].uuid /\ u # NmForeign
      BY PlanChange DEF NmInv
    <3>2. ImageOf(nPlan.ch[i]) /\ Planned(nPlan.ch[i])
      BY <1>1 DEF NmInv, ImageInv, PlanInv, Uncommitted
    <3>3. nPlan.ch[i].existed => /\ nCon[u].here /\ nCon[u].val = nPlan.ch[i].before.val
                                 /\ nCon[u].auto = nPlan.ch[i].before.auto
      BY <1>1, <3>1, ExistedHere DEF NmInv, SettledInv, HereInv, Uncommitted
    <3>4. nNetplan => Agrees(nCon[u]) /\ (nCon[u].here => nCon[u].file.there)
      BY <3>1 DEF NmInv, HereInv, AgreeOf, Filed
    <3>5. nNetplan /\ ~nPlan.ch[i].existed => ~nCon[u].file.there
      <4>1. Created = {}
        BY <1>1 DEF Created, Making
      <4> QED
        BY <3>1, <3>2, <4>1 DEF Planned, NmInv, HereInv, FilesOf, NmKnown
    <3>6. nPlan.ch[i].existed => ch[i].before.here
      BY <1>4, <3>2 DEF ImageOf
    <3>7. nNetplan /\ nPlan.ch[i].existed => Agrees(ch[i].before) /\ ch[i].before.file.there
      BY <1>4, <3>1, <3>3, <3>4 DEF Agrees
    <3> QED
      BY <1>1, <1>4, <3>1, <3>5, <3>6, <3>7 DEF ImageOf
  <2> QED
    BY <1>4, <1>5, <2>1 DEF ImageInv
<1>16. SettledInv' /\ ApplyInv' /\ AppliedInv' /\ RecoverInv'
  BY <1>2 DEF SettledInv, ApplyInv, AppliedInv, RecoverInv
<1> QED
  BY <1>6, <1>7, <1>8, <1>10, <1>11, <1>12, <1>13, <1>14, <1>15, <1>16 DEF NmInv

-------------------------------------------------------------------------------
(* What others do.                                                             *)

\* The job is where it was.
LEMMA Elsewhere ==
    ASSUME NmInv, UNCHANGED <<nNetplan, nDoc, nPlan, nAt>>, nLinks' \subseteq nLinks,
           LeftTypes', nLeft'.changes = nLeft.changes, RightCons(nCon'),
           SettledInv', ApplyInv', AppliedInv', RecoverInv'
    PROVE  NmInv'
<1>1. DocTypes' /\ PlanTypes' /\ PlanInv' /\ PruneInv' /\ ImageInv'
  BY PlanStays
<1>2. ConTypes' /\ AtTypes'
  BY DEF NmInv, ConTypes, AtTypes, RightCons
<1>3. HereInv'
  <2>1. Created' = Created
    BY DEF Created
  <2> QED
    BY <2>1, StillRight DEF RightCons
<1>4. LinksInv'
  BY DEF NmInv, LinksInv, LostTags
<1> QED
  BY <1>1, <1>2, <1>3, <1>4 DEF NmInv

LEMMA LinkGoesInv == ASSUME NEW t PROVE NmInv /\ LinkGoes(t) => NmInv'
<1> SUFFICES ASSUME NmInv, LinkGoes(t) PROVE NmInv'
  OBVIOUS
<1>1. UNCHANGED <<nCon, nNetplan, nDoc, nPlan, nAt, nLeft>> /\ nLinks' \subseteq nLinks
  BY DEF LinkGoes, NmSame
<1>2. SettledInv' /\ ApplyInv'
  BY <1>1 DEF NmInv, SettledInv, ApplyInv, Cur
<1>3. AppliedInv'
  BY <1>1 DEF NmInv, AppliedInv, PlanOwned
<1>4. RecoverInv'
  <2>1. Cur' = Cur /\ \A i : AsBefore(i)' = AsBefore(i)
    BY <1>1, Zenon DEF Cur, AsBefore, PutBack
  <2> QED
    BY <1>1, <2>1 DEF NmInv, RecoverInv
<1>5. RightCons(nCon') /\ LeftTypes'
  BY <1>1 DEF NmInv, ConTypes, HereInv, RightCons, LeftTypes
<1> QED
  BY <1>1, <1>2, <1>3, <1>4, <1>5, Elsewhere

\* A plugin that saves a file says nothing else in it.
LEMMA SavedSame ==
    ASSUME NEW f \in NmFiles, NEW g, NEW h, h = [f EXCEPT !.saved = TRUE]
    PROVE  SameProfile(h, g) = SameProfile(f, g)
<1>1. [h EXCEPT !.saved = FALSE] = [f EXCEPT !.saved = FALSE]
  BY DEF NmFiles
<1> QED
  BY <1>1, Zenon DEF SameProfile

LEMMA ReSaveInv == ASSUME NEW u \in NmUuids PROVE NmInv /\ ReSave(u) => NmInv'
<1> SUFFICES ASSUME NmInv, ReSave(u) PROVE NmInv'
  OBVIOUS
<1>1. /\ nNetplan /\ nCon[u].file.there /\ nCon' = [nCon EXCEPT ![u].file.saved = TRUE]
      /\ UNCHANGED <<nNetplan, nLinks, nDoc, nPlan, nAt, nLeft>>
  BY DEF ReSave, NmSame
<1>2. PICK c \in NmCons, f \in NmFiles : c = nCon[u] /\ f = c.file
  BY DEF NmInv, ConTypes, NmCons
<1>3. PICK yes \in BOOLEAN : yes = TRUE
  OBVIOUS
<1>4. PICK h \in NmFiles : /\ h.there = f.there /\ h.val = f.val /\ h.auto = f.auto
                           /\ h = [f EXCEPT !.saved = TRUE]
  <2>1. PICK h : h = [there |-> f.there, val |-> f.val, auto |-> f.auto, moved |-> f.moved,
                      saved |-> yes]
    OBVIOUS
  <2> QED
    BY <1>3, <2>1 DEF NmFiles
<1>5. PICK con \in NmCons : /\ con.here = c.here /\ con.val = c.val /\ con.auto = c.auto
                            /\ con.on = c.on /\ con.file = h /\ con = [c EXCEPT !.file = h]
  <2>1. PICK con : con = [here |-> c.here, val |-> c.val, auto |-> c.auto, on |-> c.on, file |-> h]
    OBVIOUS
  <2> QED
    BY <2>1 DEF NmCons
<1>6. nCon' = [nCon EXCEPT ![u] = con]
  <2>1. [nCon EXCEPT ![u].file.saved = TRUE] = [nCon EXCEPT ![u] = [c EXCEPT !.file = h]]
    BY <1>2, <1>4 DEF NmInv, ConTypes
  <2> QED
    BY <1>1, <1>5, <2>1
<1>7. Fits(u, con)
  <2>1. u # NmForeign /\ u \in NmKnown \cup {NmParent}
    BY <1>1 DEF NmInv, HereInv, FilesOf
  <2>2. Agrees(c)
    BY <1>1, <1>2 DEF NmInv, HereInv, AgreeOf
  <2>3. Agrees(con)
    BY <1>2, <1>4, <1>5, <2>2 DEF Agrees
  <2>4. u \in {NmParent} \cup DocOwned => con.here
    BY <1>2, <1>5 DEF NmInv, HereInv, HereOf
  <2>5. con.on => con.here
    BY <1>2, <1>5 DEF NmInv, HereInv, HereOf
  <2>6. con.file.there
    BY <1>1, <1>2, <1>4, <1>5
  <2> QED
    BY <2>1, <2>3, <2>4, <2>5, <2>6 DEF Fits, Filed
<1>8. RightCons(nCon') /\ nCon'[u] = con
  BY <1>6, <1>7, OneCon
<1>9. \A w \in NmUuids : w # u => nCon'[w] = nCon[w]
  BY <1>6 DEF NmInv, ConTypes
<1>10. \A w \in NmUuids : /\ nCon'[w].here = nCon[w].here /\ nCon'[w].val = nCon[w].val
                          /\ nCon'[w].auto = nCon[w].auto /\ nCon'[w].on = nCon[w].on
                          /\ nCon'[w].file.there = nCon[w].file.there
  <2>1. SUFFICES ASSUME NEW w \in NmUuids
                 PROVE  /\ nCon'[w].here = nCon[w].here /\ nCon'[w].val = nCon[w].val
                        /\ nCon'[w].auto = nCon[w].auto /\ nCon'[w].on = nCon[w].on
                        /\ nCon'[w].file.there = nCon[w].file.there
    OBVIOUS
  <2>2. CASE w = u
    <3>1. /\ con.here = c.here /\ con.val = c.val /\ con.auto = c.auto /\ con.on = c.on
          /\ con.file.there = c.file.there
      BY <1>2, <1>4, <1>5
    <3>2. nCon'[w] = con /\ nCon[w] = c
      BY <1>2, <1>8, <2>2
    <3> QED
      BY <3>1, <3>2, Zenon
  <2>3. CASE w # u
    BY <1>9, <2>3, Zenon
  <2> QED
    BY <2>2, <2>3
<1>11. \A w \in NmUuids : \A g : SameProfile(nCon'[w].file, g) = SameProfile(nCon[w].file, g)
  <2>1. \A g : SameProfile(h, g) = SameProfile(f, g)
    BY <1>4, SavedSame
  <2>2. \A g : SameProfile(nCon'[u].file, g) = SameProfile(nCon[u].file, g)
    BY <1>2, <1>5, <1>8, <2>1, Zenon
  <2> QED
    BY <1>9, <2>2, Zenon
<1>12. \A i \in DOMAIN nPlan.ch : AsBefore(i) => AsBefore(i)'
  <2>1. SUFFICES ASSUME NEW i \in DOMAIN nPlan.ch, AsBefore(i) PROVE AsBefore(i)'
    OBVIOUS
  <2>2. PICK w \in NmUuids : w = nPlan.ch[i].uuid
    BY PlanChange DEF NmInv
  <2>3. PutBack(nCon'[w], nPlan.ch[i])
    BY <1>10, <1>11, <2>1, <2>2 DEF AsBefore, PutBack
  <2> QED
    BY <1>1, <2>2, <2>3 DEF AsBefore, PutBack
<1>13. SettledInv'
  BY <1>1, <1>10, PlanChange DEF NmInv, SettledInv
<1>14. nAt.i <= Len(nPlan.ch) => Cur.uuid \in NmUuids
  BY CurChange DEF NmInv
<1>15. Cur' = Cur
  BY <1>1 DEF Cur
<1>16. ApplyInv'
  BY <1>1, <1>10, <1>14, <1>15 DEF NmInv, ApplyInv, AtTypes
<1>17. AppliedInv'
  <2>1. nAt.step = "applied" => PlanOwned \subseteq NmUuids
    <3>1. nAt.step = "applied" => \A t \in nPlan.tags : nPlan.owned[t] \in 1 .. NmChanges
      BY NmAssumption DEF NmInv, PlanInv, Uncommitted, Making, NmSpent, LeftTypes
    <3> QED
      BY <3>1, OwnedUuids DEF PlanOwned, NmInv, PlanTypes
  <2>2. PlanOwned' = PlanOwned
    BY <1>1 DEF PlanOwned
  <2> QED
    BY <1>1, <1>10, <2>1, <2>2 DEF NmInv, AppliedInv
<1>18. RecoverInv'
  BY <1>1, <1>10, <1>12, <1>14, <1>15 DEF NmInv, RecoverInv, AtTypes
<1> QED
  BY <1>1, <1>8, <1>13, <1>16, <1>17, <1>18, Elsewhere DEF NmInv, LeftTypes

\* While nothing is being applied, others may edit the connection of the port ...
LEMMA EditsStay ==
    ASSUME LeftTypes, nLeft.edits > 0, nLeft' = [nLeft EXCEPT !.edits = @ - 1]
    PROVE  LeftTypes' /\ nLeft'.changes = nLeft.changes
BY NmAssumption DEF LeftTypes

LEMMA EditParentInv == NmInv /\ EditParent => NmInv'
<1> SUFFICES ASSUME NmInv, EditParent PROVE NmInv'
  OBVIOUS
<1>1. /\ nAt.step \in {"idle", "staged"} /\ UNCHANGED <<nNetplan, nLinks, nDoc, nPlan, nAt>>
      /\ nCon' = [nCon EXCEPT ![NmParent] = Modified(nCon[NmParent], NmEdited, TRUE)]
      /\ nLeft.edits > 0 /\ nLeft' = [nLeft EXCEPT !.edits = @ - 1]
  BY DEF EditParent
<1>2. PICK val \in NmValues, auto \in BOOLEAN : val = NmEdited /\ auto = TRUE
  <2>1. NmEdited \in NmValues
    BY NmAssumption DEF NmValues, NmEdited
  <2> QED
    BY <2>1, Zenon
<1>3. PICK u \in NmUuids : u = NmParent
  BY Uuids
<1>4. nCon' = [nCon EXCEPT ![u] = Modified(nCon[u], val, auto)]
  BY <1>1, <1>2, <1>3, Zenon
<1>5. u # NmForeign /\ nCon[u].here
  BY <1>3, Uuids DEF NmInv, HereInv, HereOf
<1>6. RightCons(nCon')
  BY <1>4, <1>5, ModifiedRight, ZenonT(60)
<1>7. LeftTypes' /\ nLeft'.changes = nLeft.changes
  BY <1>1, EditsStay DEF NmInv
<1>8. SettledInv' /\ ApplyInv' /\ AppliedInv' /\ RecoverInv'
  BY <1>1 DEF SettledInv, ApplyInv, AppliedInv, RecoverInv
<1>9. UNCHANGED <<nNetplan, nDoc, nPlan, nAt>> /\ nLinks' \subseteq nLinks
  BY <1>1
<1> QED
  BY <1>6, <1>7, <1>8, <1>9, Elsewhere

\* ... and add or remove one that competes with it.
LEMMA EditForeignInv == NmInv /\ EditForeign => NmInv'
<1> SUFFICES ASSUME NmInv, EditForeign PROVE NmInv'
  OBVIOUS
<1>1. /\ nAt.step \in {"idle", "staged"} /\ UNCHANGED <<nNetplan, nLinks, nDoc, nPlan, nAt>>
      /\ nCon' = [nCon EXCEPT ![NmForeign].here = ~@]
      /\ nLeft.edits > 0 /\ nLeft' = [nLeft EXCEPT !.edits = @ - 1]
  BY DEF EditForeign
<1>2. PICK c \in NmCons : c = nCon[NmForeign]
  BY Uuids DEF NmInv, ConTypes
<1>3. PICK here \in BOOLEAN : here = ~c.here
  OBVIOUS
<1>4. PICK con \in NmCons : /\ con.on = c.on /\ con.file = c.file /\ con = [c EXCEPT !.here = here]
  <2>1. PICK con : con = [here |-> here, val |-> c.val, auto |-> c.auto, on |-> c.on, file |-> c.file]
    OBVIOUS
  <2> QED
    BY <2>1 DEF NmCons
<1>5. nCon' = [nCon EXCEPT ![NmForeign] = con]
  BY <1>1, <1>2, <1>3, <1>4, Uuids DEF NmInv, ConTypes
<1>6. Fits(NmForeign, con)
  <2>1. ~con.on /\ (nNetplan => ~con.file.there)
    BY <1>2, <1>4, Uuids DEF NmInv, HereInv, HereOf, FilesOf
  <2>2. NmForeign \notin {NmParent} \cup DocOwned
    BY Uuids, DocUuids DEF NmInv
  <2> QED
    BY <2>1, <2>2 DEF Fits, Agrees, Filed
<1>7. RightCons(nCon')
  BY <1>5, <1>6, Uuids, OneCon
<1>8. LeftTypes' /\ nLeft'.changes = nLeft.changes
  BY <1>1, EditsStay DEF NmInv
<1>9. SettledInv' /\ ApplyInv' /\ AppliedInv' /\ RecoverInv'
  BY <1>1 DEF SettledInv, ApplyInv, AppliedInv, RecoverInv
<1>10. UNCHANGED <<nNetplan, nDoc, nPlan, nAt>> /\ nLinks' \subseteq nLinks
  BY <1>1
<1> QED
  BY <1>7, <1>8, <1>9, <1>10, Elsewhere

-------------------------------------------------------------------------------
(* Planning.                                                                   *)

\* A set is listed without repetition.
LEMMA SeqOfSet ==
    ASSUME NEW S, IsFiniteSet(S), NEW s, s = SetToSeq(S)
    PROVE  s \in Seq(S) /\ \A i, j \in DOMAIN s : s[i] = s[j] => i = j
<1>1. PICK n \in Nat : n = Cardinality(S) /\ ExistsBijection(1 .. n, S)
  BY FS_CardinalityType
<1>2. \E f \in [1 .. n -> S] : IsInjective(f)
  BY <1>1 DEF ExistsBijection, Bijection, Injection
<1>3. s \in [1 .. n -> S] /\ IsInjective(s)
  BY <1>1, <1>2, Zenon DEF SetToSeq
<1>4. s \in Seq(S)
  BY <1>3
<1> QED
  BY <1>3, <1>4 DEF IsInjective

LEMMA ListedTags ==
    ASSUME NmInv, NEW tags \in SUBSET NmTags, NEW l, l = Listed(tags)
    PROVE  l \in Seq(tags \cup nDoc.tags) /\ \A i, j \in DOMAIN l : l[i] = l[j] => i = j
<1>1. PICK s, r : s = SetToSeq(tags) /\ r = SetToSeq(nDoc.tags \ tags)
  OBVIOUS
<1>2. IsFiniteSet(tags) /\ IsFiniteSet(nDoc.tags \ tags)
  <2>1. nDoc.tags \ tags \subseteq NmTags
    BY DEF NmInv, DocTypes
  <2> QED
    BY <2>1, FS_Subset, NmAssumption
<1>3. s \in Seq(tags) /\ \A i, j \in DOMAIN s : s[i] = s[j] => i = j
  BY <1>1, <1>2, SeqOfSet
<1>4. r \in Seq(nDoc.tags \ tags) /\ \A i, j \in DOMAIN r : r[i] = r[j] => i = j
  BY <1>1, <1>2, SeqOfSet
<1>5. l = s \o r
  BY <1>1 DEF Listed
<1>6. l \in Seq(tags \cup nDoc.tags)
  BY <1>3, <1>4, <1>5
<1>7. \A i \in DOMAIN l : \/ i \in DOMAIN s /\ l[i] = s[i] /\ l[i] \in tags
                          \/ i - Len(s) \in DOMAIN r /\ l[i] = r[i - Len(s)] /\ l[i] \notin tags
  BY <1>3, <1>4, <1>5
<1>8. \A i, j \in DOMAIN l : l[i] = l[j] => i = j
  <2> SUFFICES ASSUME NEW i \in DOMAIN l, NEW j \in DOMAIN l, l[i] = l[j] PROVE i = j
    OBVIOUS
  <2>1. i \in Int /\ j \in Int /\ Len(s) \in Int
    BY <1>3, <1>6
  <2>2. CASE l[i] \in tags
    BY <1>3, <1>7, <2>2
  <2>3. CASE l[i] \notin tags
    <3>1. i - Len(s) = j - Len(s)
      BY <1>4, <1>7, <2>3
    <3> QED
      BY <2>1, <3>1
  <2> QED
    BY <2>2, <2>3
<1> QED
  BY <1>6, <1>8

\* The name of the connection of a VLAN: the document's, or the next change's.
IdOf(t) == <<t, IF t \in nDoc.tags THEN nDoc.owned[t] ELSE NmSpent + 1>>

LEMMA IdsOf ==
    ASSUME NmInv, nLeft.changes > 0, NEW t \in NmTags
    PROVE  /\ IdOf(t) \in NmUuids \ {NmParent, NmForeign} /\ IdOf(t)[1] = t
           /\ IdOf(t)[2] \in 1 .. NmSpent + 1
           /\ t \in nDoc.tags => IdOf(t) \in DocOwned
           /\ t \notin nDoc.tags => IdOf(t) \notin DocOwned /\ IdOf(t) \notin Bygone
<1>1. NmSpent \in Nat /\ NmSpent + 1 \in 1 .. NmChanges
  BY NmAssumption DEF NmInv, LeftTypes, NmSpent
<1>2. CASE t \in nDoc.tags
  <2>1. PICK n \in 1 .. NmChanges : n = nDoc.owned[t] /\ IdOf(t) = <<t, n>>
    BY <1>2 DEF NmInv, DocTypes, IdOf
  <2>2. <<t, n>> \in DocOwned
    BY <1>2, <2>1 DEF DocOwned, Owned
  <2>3. n <= NmSpent
    <3>1. <<t, n>>[2] <= NmSpent
      BY <2>2 DEF NmInv, DocTypes, Bygone
    <3> QED
      BY <3>1
  <2> QED
    BY <1>1, <1>2, <2>1, <2>2, <2>3, Uuids
<1>3. CASE t \notin nDoc.tags
  <2>1. PICK n \in 1 .. NmChanges : n = NmSpent + 1 /\ IdOf(t) = <<t, n>>
    BY <1>1, <1>3 DEF IdOf
  <2>2. <<t, n>> \notin Bygone
    <3>1. ~(<<t, n>>[2] <= NmSpent)
      BY <1>1, <2>1
    <3> QED
      BY <3>1, Zenon DEF NmInv, DocTypes
  <2>3. <<t, n>> \notin DocOwned
    BY <2>2 DEF NmInv, DocTypes, Bygone
  <2> QED
    BY <1>1, <1>3, <2>1, <2>2, <2>3, Uuids
<1> QED
  BY <1>2, <1>3

\* One change of the plan.
LEMMA ChangeOf ==
    ASSUME NmInv, NEW u \in NmUuids \ {NmForeign}, NEW existed \in BOOLEAN, NEW removed \in BOOLEAN,
           NEW c
    PROVE  c = NmChangeOf(u, existed, removed) =>
           /\ c \in NmChs /\ c.uuid = u /\ c.existed = existed /\ c.removed = removed
           /\ c.before = nCon[u]
<1>1. PICK con \in NmCons : con = nCon[u]
  BY DEF NmInv, ConTypes
<1> QED
  BY <1>1 DEF NmChangeOf, NmChs

\* The changes of the port, and of a VLAN.
PortChange == NmChangeOf(NmParent, TRUE, FALSE)
VlanChange(t, tags) == NmChangeOf(IdOf(t), t \in nDoc.tags, t \notin tags)

LEMMA PortChangeOf ==
    ASSUME NmInv, NEW c
    PROVE  c = PortChange =>
           /\ c \in NmChs /\ c.uuid = NmParent /\ c.existed = TRUE /\ c.removed = FALSE
           /\ c.before = nCon[NmParent]
<1>1. PICK yes \in BOOLEAN, no \in BOOLEAN : yes = TRUE /\ no = FALSE
  OBVIOUS
<1>2. PICK u \in NmUuids \ {NmForeign} : u = NmParent
  BY Uuids
<1>3. c = NmChangeOf(u, yes, no) =>
           /\ c \in NmChs /\ c.uuid = u /\ c.existed = yes /\ c.removed = no
           /\ c.before = nCon[u]
  BY ChangeOf
<1>4. (c = PortChange) = (c = NmChangeOf(u, yes, no))
  BY <1>1, <1>2, Zenon DEF PortChange
<1> QED
  BY <1>1, <1>2, <1>3, <1>4, Zenon

LEMMA VlanChangeOf ==
    ASSUME NmInv, nLeft.changes > 0, NEW tags, NEW t \in NmTags, NEW c
    PROVE  c = VlanChange(t, tags) =>
           /\ c \in NmChs /\ c.uuid = IdOf(t)
           /\ c.existed = (t \in nDoc.tags) /\ c.removed = (t \notin tags)
           /\ c.before = nCon[IdOf(t)]
<1>1. PICK existed \in BOOLEAN, removed \in BOOLEAN :
        existed = (t \in nDoc.tags) /\ removed = (t \notin tags)
  <2>1. (t \in nDoc.tags) \in BOOLEAN /\ (t \notin tags) \in BOOLEAN
    OBVIOUS
  <2> QED
    BY <2>1, Zenon
<1>2. PICK u \in NmUuids \ {NmForeign} : u = IdOf(t)
  BY IdsOf
<1>3. c = NmChangeOf(u, existed, removed) =>
           /\ c \in NmChs /\ c.uuid = u /\ c.existed = existed /\ c.removed = removed
           /\ c.before = nCon[u]
  BY ChangeOf
<1>4. (c = VlanChange(t, tags)) = (c = NmChangeOf(u, existed, removed))
  BY <1>1, <1>2, Zenon DEF VlanChange
<1> QED
  BY <1>1, <1>2, <1>3, <1>4, Zenon

\* What a plan names and records: the port, then every VLAN of the two documents.
LEMMA PlanOf ==
    ASSUME NmInv, nLeft.changes > 0, NEW tags \in SUBSET NmTags, NEW p, p = NmPlanOf(tags)
    PROVE  /\ p \in [n : 0 .. NmChanges, tags : SUBSET NmTags, owned : [NmTags -> 0 .. NmChanges],
                     ch : Seq(NmChs)]
           /\ p.tags = tags
           /\ \A t \in tags : <<t, p.owned[t]>> = IdOf(t)
           /\ \A i, j \in DOMAIN p.ch : p.ch[i].uuid = p.ch[j].uuid => i = j
           /\ \A i \in DOMAIN p.ch :
                 p.ch[i] = PortChange \/ \E t \in tags \cup nDoc.tags : p.ch[i] = VlanChange(t, tags)
<1>1. PICK n \in 1 .. NmChanges : n = NmSpent + 1
  BY NmAssumption DEF NmInv, LeftTypes, NmSpent
<1>2. PICK owned : owned = [t \in NmTags |-> IF t \notin tags THEN 0
                                            ELSE IF t \in nDoc.tags THEN nDoc.owned[t] ELSE n]
  OBVIOUS
<1>3. owned \in [NmTags -> 0 .. NmChanges]
  BY <1>1, <1>2, NmAssumption DEF NmInv, DocTypes
<1>4. PICK l : l = Listed(tags)
  OBVIOUS
<1>5. l \in Seq(tags \cup nDoc.tags) /\ \A i, j \in DOMAIN l : l[i] = l[j] => i = j
  BY <1>4, ListedTags
<1>6. PICK vlans : vlans = [i \in DOMAIN l |-> VlanChange(l[i], tags)]
  OBVIOUS
<1>7. p = [n |-> n, tags |-> tags, owned |-> owned,
           ch |-> <<NmChangeOf(NmParent, TRUE, FALSE)>> \o vlans]
  <2>1. \A t \in tags \cup nDoc.tags :
           <<t, IF t \in tags THEN owned[t] ELSE nDoc.owned[t]>> = IdOf(t)
    BY <1>1, <1>2 DEF IdOf, NmInv, DocTypes
  <2>2. vlans = [i \in DOMAIN l |->
                   NmChangeOf(<<l[i], IF l[i] \in tags THEN owned[l[i]] ELSE nDoc.owned[l[i]]>>,
                              l[i] \in nDoc.tags, l[i] \notin tags)]
    <3>1. \A i \in DOMAIN l :
             <<l[i], IF l[i] \in tags THEN owned[l[i]] ELSE nDoc.owned[l[i]]>> = IdOf(l[i])
      <4>1. \A i \in DOMAIN l : l[i] \in tags \cup nDoc.tags
        BY <1>5
      <4> QED
        BY <2>1, <4>1
    <3> QED
      BY <1>6, <3>1, Zenon DEF VlanChange
  <2> QED
    BY <1>1, <1>2, <1>4, <2>2, Zenon DEF NmPlanOf, NmSpent
<1>8. PICK first : first = PortChange
  OBVIOUS
<1>9. first \in NmChs /\ first.uuid = NmParent
  BY <1>8, PortChangeOf
<1>10. \A i \in DOMAIN l : vlans[i] \in NmChs /\ vlans[i].uuid = IdOf(l[i]) /\ l[i] \in NmTags
  <2> SUFFICES ASSUME NEW i \in DOMAIN l
               PROVE  vlans[i] \in NmChs /\ vlans[i].uuid = IdOf(l[i]) /\ l[i] \in NmTags
    OBVIOUS
  <2>1. l[i] \in NmTags
    BY <1>5 DEF NmInv, DocTypes
  <2>2. vlans[i] = VlanChange(l[i], tags)
    BY <1>6
  <2> QED
    BY <2>1, <2>2, VlanChangeOf
<1>11. DOMAIN vlans = 1 .. Len(l) /\ Len(l) \in Nat
  BY <1>5, <1>6
<1>12. vlans \in Seq(NmChs) /\ Len(vlans) = Len(l)
  <2>1. PICK k \in Nat : k = Len(l)
    BY <1>11
  <2>2. vlans = [i \in DOMAIN l |-> vlans[i]]
    BY <1>6, Zenon
  <2>3. vlans \in [1 .. k -> NmChs]
    BY <1>10, <1>11, <2>1, <2>2
  <2> QED
    BY <2>1, <2>3
<1>13. PICK ch : ch = <<first>> \o vlans
  OBVIOUS
<1>14. ch \in Seq(NmChs)
  <2>1. <<first>> \in Seq(NmChs)
    BY <1>9
  <2> QED
    <3>1. PICK one \in Seq(NmChs) : one = <<first>>
      BY <2>1
    <3>2. one \o vlans \in Seq(NmChs)
      BY <1>12
    <3> QED
      BY <1>13, <3>1, <3>2, Zenon
<1>15. \A i \in DOMAIN ch : \/ i = 1 /\ ch[i] = first
                            \/ i # 1 /\ i - 1 \in DOMAIN l /\ ch[i] = vlans[i - 1]
  BY <1>5, <1>9, <1>12, <1>13
<1>16. \A i, j \in DOMAIN ch : ch[i].uuid = ch[j].uuid => i = j
  <2> SUFFICES ASSUME NEW i \in DOMAIN ch, NEW j \in DOMAIN ch, ch[i].uuid = ch[j].uuid PROVE i = j
    OBVIOUS
  <2>1. i \in Int /\ j \in Int
    BY <1>14
  <2>2. \A k \in DOMAIN l : vlans[k].uuid # NmParent /\ vlans[k].uuid[1] = l[k]
    BY <1>10, IdsOf
  <2>3. CASE i = 1 \/ j = 1
    <3>1. ch[i].uuid = NmParent \/ ch[j].uuid = NmParent
      BY <1>9, <1>15, <2>2, <2>3
    <3>2. ch[i].uuid = NmParent /\ ch[j].uuid = NmParent
      BY <3>1
    <3>3. \A k \in DOMAIN ch : ch[k].uuid = NmParent => k = 1
      BY <1>15, <2>2
    <3> QED
      BY <3>2, <3>3
  <2>4. CASE i # 1 /\ j # 1
    <3>1. i - 1 \in DOMAIN l /\ j - 1 \in DOMAIN l /\ ch[i] = vlans[i - 1] /\ ch[j] = vlans[j - 1]
      BY <1>15, <2>4
    <3>2. l[i - 1] = l[j - 1]
      BY <2>2, <3>1
    <3>3. i - 1 = j - 1
      BY <1>5, <3>1, <3>2
    <3> QED
      BY <2>1, <3>3
  <2> QED
    BY <2>3, <2>4
<1>17. \A i \in DOMAIN ch :
          ch[i] = PortChange \/ \E t \in tags \cup nDoc.tags : ch[i] = VlanChange(t, tags)
  <2> SUFFICES ASSUME NEW i \in DOMAIN ch, ch[i] # first
               PROVE  \E t \in tags \cup nDoc.tags : ch[i] = VlanChange(t, tags)
    BY <1>8, Zenon
  <2>1. PICK k \in DOMAIN l : ch[i] = vlans[k]
    BY <1>15
  <2>2. l[k] \in tags \cup nDoc.tags
    BY <1>5
  <2>3. ch[i] = VlanChange(l[k], tags)
    BY <1>6, <2>1
  <2> QED
    BY <2>2, <2>3
<1>18. p = [n |-> n, tags |-> tags, owned |-> owned, ch |-> ch]
  BY <1>7, <1>8, <1>13, Zenon DEF PortChange
<1>19. \A t \in tags : <<t, p.owned[t]>> = IdOf(t)
  <2>1. p.owned = owned
    BY <1>18
  <2> QED
    BY <1>1, <1>2, <2>1 DEF IdOf
<1>20. p \in [n : 0 .. NmChanges, tags : SUBSET NmTags, owned : [NmTags -> 0 .. NmChanges],
              ch : Seq(NmChs)]
  BY <1>1, <1>3, <1>14, <1>18
<1>21. p.tags = tags /\ p.ch = ch
  BY <1>18
<1> QED
  BY <1>16, <1>17, <1>19, <1>20, <1>21, Zenon

\* A candidate that is staged: its plan names what it creates, and records what is there.
LEMMA PlanNmInv == ASSUME NEW tags \in SUBSET NmTags PROVE NmInv /\ PlanNm(tags) => NmInv'
<1> SUFFICES ASSUME NmInv, PlanNm(tags) PROVE NmInv'
  OBVIOUS
<1>1. /\ nAt.step = "idle" /\ nLeft.changes > 0 /\ nLinks \subseteq nDoc.tags
      /\ nLeft' = [nLeft EXCEPT !.changes = @ - 1]
      /\ UNCHANGED <<nCon, nNetplan, nLinks, nDoc>>
  BY DEF PlanNm
<1>2. PICK goal \in NmSteps : goal = "staged"
  BY DEF NmSteps
<1>3. /\ nAt' \in [step : NmSteps, i : Nat, sub : NmSubs]
      /\ nAt'.step = "staged" /\ nAt'.i = 1 /\ nAt'.sub = "begin"
  <2>1. NmTo(goal)
    BY <1>2, Zenon DEF PlanNm, NmTo
  <2> QED
    BY <1>2, <2>1, Started
<1>4. /\ nPlan' \in [n : 0 .. NmChanges, tags : SUBSET NmTags, owned : [NmTags -> 0 .. NmChanges],
                     ch : Seq(NmChs)]
      /\ nPlan'.tags = tags
      /\ \A t \in tags : <<t, nPlan'.owned[t]>> = IdOf(t)
      /\ \A i, j \in DOMAIN nPlan'.ch : nPlan'.ch[i].uuid = nPlan'.ch[j].uuid => i = j
      /\ \A i \in DOMAIN nPlan'.ch :
            \/ nPlan'.ch[i] = PortChange
            \/ \E t \in tags \cup nDoc.tags : nPlan'.ch[i] = VlanChange(t, tags)
  <2>1. PICK p : p = NmPlanOf(tags)
    OBVIOUS
  <2>2. p \in [n : 0 .. NmChanges, tags : SUBSET NmTags, owned : [NmTags -> 0 .. NmChanges],
               ch : Seq(NmChs)]
    BY <1>1, <2>1, PlanOf, Zenon
  <2>3. p.tags = tags
    BY <1>1, <2>1, PlanOf, Zenon
  <2>7. \A t \in tags : <<t, p.owned[t]>> = IdOf(t)
    BY <1>1, <2>1, PlanOf
  <2>4. \A i, j \in DOMAIN p.ch : p.ch[i].uuid = p.ch[j].uuid => i = j
    BY <1>1, <2>1, PlanOf, Zenon
  <2>5. \A i \in DOMAIN p.ch :
            p.ch[i] = PortChange \/ \E t \in tags \cup nDoc.tags : p.ch[i] = VlanChange(t, tags)
    BY <1>1, <2>1, PlanOf
  <2>6. nPlan' = p
    BY <2>1, Zenon DEF PlanNm
  <2> QED
    BY <2>2, <2>3, <2>4, <2>5, <2>6, <2>7, Zenon
<1>5. LeftTypes' /\ NmSpent' = NmSpent + 1 /\ NmSpent \in Nat
  BY <1>1, NmAssumption DEF NmInv, LeftTypes, NmSpent
<1>6. DocOwned' = DocOwned /\ Bygone' = Bygone
  BY <1>1 DEF DocOwned, Bygone
<1>7. DocTypes'
  <2>1. \A u \in Bygone : u[2] <= NmSpent + 1
    <3> SUFFICES ASSUME NEW u \in Bygone PROVE u[2] <= NmSpent + 1
      OBVIOUS
    <3>1. u \in NmUuids /\ u[2] <= NmSpent
      BY DEF NmInv, DocTypes, Bygone
    <3>2. u[2] \in Int
      BY <3>1, NmAssumption DEF NmUuids
    <3> QED
      BY <1>5, <3>1, <3>2
  <2> QED
    BY <1>1, <1>5, <1>6, <2>1 DEF NmInv, DocTypes
<1>8. PlanTypes' /\ ConTypes'
  BY <1>1, <1>4 DEF NmInv, PlanTypes, ConTypes
<1>9. AtTypes'
  <2>1. Len(nPlan'.ch) \in Nat
    BY <1>4
  <2> QED
    BY <1>3, <2>1 DEF AtTypes
<1>10. \A t \in tags : nPlan'.owned[t] \in 1 .. NmSpent + 1
  <2> SUFFICES ASSUME NEW t \in tags PROVE nPlan'.owned[t] \in 1 .. NmSpent + 1
    OBVIOUS
  <2>1. IdOf(t)[2] \in 1 .. NmSpent + 1
    BY <1>1, IdsOf
  <2>2. PICK n : n = nPlan'.owned[t]
    OBVIOUS
  <2>3. <<t, n>> = IdOf(t)
    BY <1>4, <2>2, Zenon
  <2>4. <<t, n>>[2] = n
    OBVIOUS
  <2> QED
    BY <2>1, <2>2, <2>3, <2>4, Zenon
<1>11. \A c \in NmChs : c.uuid = NmParent /\ c.existed = TRUE /\ c.removed = FALSE /\ c.before = nCon[NmParent] =>
           Planned(c)' /\ ImageOf(c)'
  <2> SUFFICES ASSUME NEW c \in NmChs, c.uuid = NmParent, c.existed = TRUE, c.removed = FALSE,
                      c.before = nCon[NmParent]
               PROVE  Planned(c)' /\ ImageOf(c)'
    OBVIOUS
  <2>1. Planned(c)'
    BY DEF Planned
  <2>2. ImageOf(c)'
    BY <1>1, Uuids DEF ImageOf, NmInv, HereInv, HereOf, AgreeOf, Agrees, Filed
  <2> QED
    BY <2>1, <2>2
<1>12. ASSUME NEW t \in tags \cup nDoc.tags, NEW c \in NmChs,
              c.uuid = IdOf(t), c.existed = (t \in nDoc.tags), c.removed = (t \notin tags),
              c.before = nCon[c.uuid]
       PROVE  Planned(c)' /\ ImageOf(c)'
  <2>1. t \in NmTags
    BY DEF NmInv, DocTypes
  <2>2. PICK u \in NmUuids \ {NmParent, NmForeign} : u = IdOf(t)
    BY <1>1, <2>1, IdsOf
  <2>3. /\ u[1] = t /\ (t \in nDoc.tags => u \in DocOwned)
        /\ t \notin nDoc.tags => u \notin DocOwned /\ u \notin Bygone
    BY <1>1, <2>1, <2>2, IdsOf
  <2>4. t \in tags => u \in PlanOwned'
    BY <1>4, <2>2 DEF PlanOwned, Owned
  <2>5. t \notin tags => u \notin PlanOwned'
    BY <1>4, <2>3 DEF PlanOwned, Owned
  <2>6. /\ c.uuid = u /\ (c.existed <=> t \in nDoc.tags) /\ (c.removed <=> t \notin tags)
        /\ c.existed \in BOOLEAN
    BY <1>12, <2>2 DEF NmChs
  <2>7. Planned(c)'
    <3>1. c.existed = (c.uuid \in {NmParent} \cup DocOwned')
      BY <1>6, <2>2, <2>3, <2>6
    <3>2. ~c.existed => c.uuid \in PlanOwned' /\ c.uuid \notin Bygone'
                        /\ c.uuid[1] \in nPlan'.tags \ nDoc'.tags
      BY <1>1, <1>4, <1>6, <2>3, <2>4, <2>6
    <3>3. c.existed /\ c.uuid # NmParent => c.uuid[1] \in nDoc'.tags
      BY <1>1, <2>3, <2>6
    <3>4. c.removed => c.existed /\ c.uuid \notin PlanOwned' \cup {NmParent}
      BY <2>2, <2>5, <2>6
    <3> QED
      BY <3>1, <3>2, <3>3, <3>4 DEF Planned
  <2>8. ImageOf(c)'
    <3>1. c.before = nCon[u]
      BY <1>12, <2>2
    <3>2. u \in DocOwned => nCon[u].here
      BY DEF NmInv, HereInv, HereOf
    <3>3. nNetplan => Agrees(nCon[u]) /\ (nCon[u].here => nCon[u].file.there)
      BY <2>2 DEF NmInv, HereInv, AgreeOf, Filed
    <3>4. nNetplan /\ u \notin Bygone => ~nCon[u].file.there
      BY <1>1 DEF NmInv, HereInv, FilesOf, NmKnown, Created, Making
    <3>5. Agrees(c.before)' = Agrees(nCon[u])
      BY <3>1, Zenon DEF Agrees
    <3> QED
      BY <1>1, <2>3, <2>6, <3>1, <3>2, <3>3, <3>4, <3>5 DEF ImageOf
  <2> QED
    BY <2>7, <2>8
<1>13. \A i \in DOMAIN nPlan'.ch : Planned(nPlan.ch[i])' /\ ImageOf(nPlan.ch[i])'
  <2> SUFFICES ASSUME NEW i \in DOMAIN nPlan'.ch
               PROVE  Planned(nPlan.ch[i])' /\ ImageOf(nPlan.ch[i])'
    OBVIOUS
  <2>1. PICK c \in NmChs : c = nPlan'.ch[i]
    BY <1>4
  <2>2. CASE c = PortChange
    <3>1. c.uuid = NmParent /\ c.existed = TRUE /\ c.removed = FALSE /\ c.before = nCon[NmParent]
      BY <2>2, PortChangeOf, Zenon
    <3>2. Planned(c)' /\ ImageOf(c)'
      BY <1>11, <3>1, Zenon
    <3> QED
      BY <2>1, <3>2, Zenon
  <2>3. ASSUME NEW t \in tags \cup nDoc.tags, c = VlanChange(t, tags)
        PROVE  Planned(nPlan.ch[i])' /\ ImageOf(nPlan.ch[i])'
    <3>1. t \in NmTags
      BY DEF NmInv, DocTypes
    <3>2. c.uuid = IdOf(t) /\ c.before = nCon[IdOf(t)]
      BY <1>1, <2>3, <3>1, VlanChangeOf, ZenonT(60)
    <3>3. c.existed = (t \in nDoc.tags)
      BY <1>1, <2>3, <3>1, VlanChangeOf, ZenonT(60)
    <3>4. c.removed = (t \notin tags)
      BY <1>1, <2>3, <3>1, VlanChangeOf, ZenonT(60)
    <3>5. Planned(c)' /\ ImageOf(c)'
      BY <1>12, <3>2, <3>3, <3>4, Zenon
    <3> QED
      BY <2>1, <3>5, Zenon
  <2> QED
    BY <1>4, <2>1, <2>2, <2>3, Zenon
<1>14. PlanInv'
  BY <1>4, <1>5, <1>10, <1>13 DEF PlanInv
<1>15. ImageInv'
  BY <1>13 DEF ImageInv
<1>16. LinksInv'
  BY <1>1, <1>3 DEF LinksInv
<1>17. HereInv'
  <2>1. Created = {}
    BY <1>1 DEF Created, Making
  <2> QED
    BY <1>1, <2>1, StillRight DEF NmInv, HereInv
<1>18. PruneInv' /\ SettledInv'
  BY <1>3 DEF PruneInv, SettledInv
<1>19. ApplyInv' /\ AppliedInv' /\ RecoverInv'
  BY <1>3 DEF ApplyInv, AppliedInv, RecoverInv
<1> QED
  BY <1>5, <1>7, <1>8, <1>9, <1>14, <1>15, <1>16, <1>17, <1>18, <1>19 DEF NmInv

-------------------------------------------------------------------------------
(* The invariant holds, and what follows from it.                              *)

LEMMA NmStutter == NmInv /\ UNCHANGED nmVars => NmInv'
<1> SUFFICES ASSUME NmInv, UNCHANGED nmVars PROVE NmInv'
  OBVIOUS
<1>1. UNCHANGED <<nCon, nNetplan, nLinks, nDoc, nPlan, nAt, nLeft>>
  BY DEF nmVars
<1>2. SettledInv' /\ ApplyInv'
  BY <1>1 DEF NmInv, SettledInv, ApplyInv, Cur
<1>3. AppliedInv'
  BY <1>1 DEF NmInv, AppliedInv, PlanOwned
<1>4. RecoverInv'
  <2>1. Cur' = Cur /\ \A i : AsBefore(i)' = AsBefore(i)
    BY <1>1, Zenon DEF Cur, AsBefore, PutBack
  <2> QED
    BY <1>1, <2>1 DEF NmInv, RecoverInv
<1>5. RightCons(nCon') /\ LeftTypes'
  BY <1>1 DEF NmInv, ConTypes, HereInv, RightCons, LeftTypes
<1> QED
  BY <1>1, <1>2, <1>3, <1>4, <1>5, Elsewhere

LEMMA NmStarts == NmInit => NmInv
<1> SUFFICES ASSUME NmInit PROVE NmInv
  OBVIOUS
<1>1. PICK yes \in BOOLEAN, no \in BOOLEAN : yes = TRUE /\ no = FALSE
  OBVIOUS
<1>2. 0 \in NmValues /\ 0 \in 0 .. NmChanges
  BY NmAssumption DEF NmValues
<1>3. PICK file : file = [there |-> yes, val |-> 0, auto |-> yes, moved |-> no, saved |-> no]
  OBVIOUS
<1>4. [NoFile EXCEPT !.there = TRUE, !.auto = TRUE] = file
  <2>1. PICK f : f = [there |-> no, val |-> 0, auto |-> no, moved |-> no, saved |-> no]
    OBVIOUS
  <2>2. [f EXCEPT !.there = yes, !.auto = yes] = file
    <3>1. f \in NmFiles
      BY <1>2, <2>1 DEF NmFiles
    <3>2. PICK g : g = [f EXCEPT !.there = yes, !.auto = yes]
      OBVIOUS
    <3>3. g = [there |-> yes, val |-> f.val, auto |-> yes, moved |-> f.moved, saved |-> f.saved]
      BY <3>1, <3>2 DEF NmFiles
    <3>4. f.val = 0 /\ f.moved = no /\ f.saved = no
      BY <2>1
    <3> QED
      BY <1>3, <3>2, <3>3, <3>4, Zenon
  <2>3. f = NoFile
    BY <1>1, <2>1, Zenon DEF NoFile
  <2> QED
    BY <1>1, <2>2, <2>3, Zenon
<1>5. file \in NmFiles /\ file.val = 0 /\ file.auto /\ file.there
  BY <1>1, <1>2, <1>3 DEF NmFiles
<1>6. PICK con : con = [here |-> yes, val |-> 0, auto |-> yes, on |-> yes, file |-> file]
  OBVIOUS
<1>7. con \in NmCons /\ con.here /\ con.val = 0 /\ con.auto /\ con.file = file
  BY <1>1, <1>2, <1>5, <1>6 DEF NmCons
<1>8. PICK none : none = NoCon
  OBVIOUS
<1>9. none \in NmCons /\ ~none.here /\ ~none.on /\ ~none.file.there
  BY <1>8, NoConIsACon
<1>10. nCon = [u \in NmUuids |-> IF u # NmParent THEN none ELSE con]
  BY <1>1, <1>4, <1>6, <1>8, Zenon DEF NmInit
<1>11. /\ nCon \in [NmUuids -> NmCons] /\ nCon[NmParent] = con
       /\ \A u \in NmUuids : u # NmParent => nCon[u] = none
  BY <1>7, <1>9, <1>10, Uuids
<1>12. /\ nNetplan \in BOOLEAN /\ nLinks = {} /\ nPlan = NoNmPlan /\ nAt = NmIdle
       /\ nDoc = [tags |-> {}, owned |-> [t \in NmTags |-> 0], ever |-> {}, lost |-> {}]
       /\ nLeft = [changes |-> NmChanges, edits |-> NmEdits, faults |-> NmFaults]
  BY DEF NmInit
<1>13. nAt.step = "idle" /\ nAt.i = 1 /\ nAt.sub = "begin"
  BY <1>12, AtIdle
<1>14. ConTypes /\ LeftTypes
  BY <1>11, <1>12, NmAssumption DEF ConTypes, LeftTypes
<1>15. PICK owned \in [NmTags -> 0 .. NmChanges] : owned = [t \in NmTags |-> 0]
  BY <1>2
<1>16. nDoc = [tags |-> {}, owned |-> owned, ever |-> {}, lost |-> {}]
  BY <1>12, <1>15, Zenon
<1>17. nDoc.tags = {} /\ nDoc.ever = {} /\ Bygone = {}
  BY <1>16 DEF Bygone
<1>18. DocOwned = {}
  BY <1>17 DEF DocOwned, Owned
<1>19. DocTypes
  BY <1>16, <1>17, <1>18 DEF DocTypes
<1>20. PlanTypes
  BY <1>12, NoPlan DEF PlanTypes
<1>21. AtTypes
  BY <1>12, <1>13, AtIdle, NoPlan DEF AtTypes
<1>22. PlanInv /\ PruneInv /\ ImageInv
  BY <1>13 DEF PlanInv, PruneInv, ImageInv, Uncommitted, Making
<1>23. LinksInv
  BY <1>12, <1>13 DEF LinksInv
<1>24. SettledInv /\ ApplyInv /\ AppliedInv /\ RecoverInv
  BY <1>13 DEF SettledInv, ApplyInv, AppliedInv, RecoverInv
<1>25. HereInv
  <2>1. HereOf(nCon)
    BY <1>7, <1>9, <1>11, <1>18, Uuids DEF HereOf
  <2>2. FilesOf(nCon)
    BY <1>9, <1>11, Uuids DEF FilesOf
  <2>3. Agrees(con) /\ Agrees(none)
    BY <1>1, <1>5, <1>6, <1>7, <1>9 DEF Agrees
  <2>4. AgreeOf(nCon)
    BY <1>5, <1>7, <1>9, <1>11, <2>3 DEF AgreeOf, Filed
  <2> QED
    BY <2>1, <2>2, <2>4 DEF HereInv
<1> QED
  BY <1>14, <1>19, <1>20, <1>21, <1>22, <1>23, <1>24, <1>25 DEF NmInv

LEMMA NmJobInv == NmInv /\ NmJob => NmInv'
<1> SUFFICES ASSUME NmInv, NmJob PROVE NmInv'
  OBVIOUS
<1>1. CASE CheckPlan \/ SettleNmFiles \/ AddConnection \/ ModifyConnection \/ UpConnection \/ RemoveLinks
  BY <1>1, CheckPlanInv, SettleNmFilesInv, AddConnectionInv, ModifyConnectionInv, UpConnectionInv,
     RemoveLinksInv, Zenon
<1>2. CASE VerifyNm \/ ExpireNm \/ Pruned \/ RestoreKeyfiles \/ RestoreUp \/ VerifyRestored
  BY <1>2, VerifyNmInv, ExpireNmInv, PrunedInv, RestoreKeyfilesInv, RestoreUpInv, VerifyRestoredInv,
     Zenon
<1>3. CASE RestoreLinks \/ RecoveredNm \/ RecoverAgainNm
  BY <1>3, RestoreLinksInv, RecoveredNmInv, RecoverAgainNmInv, Zenon
<1>4. ASSUME NEW leave \in BOOLEAN,
             PruneNm(leave) \/ \E listed \in BOOLEAN : RestoreProperties(leave, listed)
      PROVE  NmInv'
  BY <1>4, PruneNmInv, RestorePropertiesInv, Zenon
<1> QED
  BY <1>1, <1>2, <1>3, <1>4, Zenon DEF NmJob

LEMMA NmNextInv == NmInv /\ [NmNext]_nmVars => NmInv'
<1> SUFFICES ASSUME NmInv, [NmNext]_nmVars PROVE NmInv'
  OBVIOUS
<1>1. CASE \E tags \in SUBSET NmTags : PlanNm(tags)
  BY <1>1, PlanNmInv, Zenon
<1>2. CASE NmJob
  BY <1>2, NmJobInv, Zenon
<1>3. CASE KeepNm \/ NmCommandFails \/ PruneFails \/ RecoveryFails \/ NmJobDies
  BY <1>3, KeepNmInv, NmCommandFailsInv, PruneFailsInv, RecoveryFailsInv, NmJobDiesInv, Zenon
<1>4. CASE EditParent \/ EditForeign
  BY <1>4, EditParentInv, EditForeignInv, Zenon
<1>5. CASE \E u \in NmUuids : ReSave(u)
  BY <1>5, ReSaveInv, Zenon
<1>6. CASE \E t \in NmTags : LinkGoes(t)
  BY <1>6, LinkGoesInv, Zenon
<1>7. ASSUME NEW k \in 1 .. Len(nPlan.ch) + 1, NEW half \in BOOLEAN, NEW leave \in BOOLEAN,
             \/ AcceptDies(k, half, leave)
             \/ \E kept \in SUBSET NmTags, reload \in BOOLEAN :
                   AcceptCurrent(k, half, leave, kept, reload)
      PROVE  NmInv'
  BY <1>7, AcceptDiesInv, AcceptCurrentInv, Zenon
<1>8. CASE UNCHANGED nmVars
  BY <1>8, NmStutter, Zenon
<1> QED
  BY <1>1, <1>2, <1>3, <1>4, <1>5, <1>6, <1>7, <1>8, Zenon DEF NmNext

\* The inductive invariant of the connections of NetworkManager holds, for any number of VLANs,
\* changes, edits by others, failing commands and deaths of a job (nm.rs, mod.rs, engine.rs).
THEOREM NmInvHolds == NmSafe => []NmInv
<1> QED
  BY NmStarts, NmNextInv, PTL DEF NmSafe

\* The values of the variables.
LEMMA NmTypes == NmInv => NmTypeOK
<1> SUFFICES ASSUME NmInv PROVE NmTypeOK
  OBVIOUS
<1>1. \A u \in NmUuids : nCon[u].val \in NmValues /\ nCon[u].file.val \in NmValues
  <2> SUFFICES ASSUME NEW u \in NmUuids PROVE nCon[u].val \in NmValues /\ nCon[u].file.val \in NmValues
    OBVIOUS
  <2>1. PICK c \in NmCons : c = nCon[u]
    BY DEF NmInv, ConTypes
  <2>2. c.val \in NmValues /\ c.file \in NmFiles
    BY DEF NmCons
  <2> QED
    BY <2>1, <2>2 DEF NmFiles
<1>2. DOMAIN nCon = NmUuids /\ nNetplan \in BOOLEAN /\ nLinks \subseteq NmTags
  BY DEF NmInv, ConTypes
<1>3. nDoc.tags \subseteq NmTags /\ nDoc.owned \in [NmTags -> 0 .. NmChanges]
  BY DEF NmInv, DocTypes
<1>4. nAt.step \in NmSteps /\ nAt.i \in 1 .. Len(nPlan.ch) + 1
  <2>1. Len(nPlan.ch) \in Nat
    BY DEF NmInv, PlanTypes
  <2> QED
    BY <2>1 DEF NmInv, AtTypes
<1>5. nLeft \in [changes : 0 .. NmChanges, edits : 0 .. NmEdits, faults : 0 .. NmFaults]
  BY DEF NmInv, LeftTypes
<1> QED
  BY <1>1, <1>2, <1>3, <1>4, <1>5 DEF NmTypeOK, NmSteps

\* What the two documents own is there.
LEMMA NmOwned == NmInv => CommittedNeverDeleted
BY DEF NmInv, HereInv, HereOf, CommittedNeverDeleted, DocOwned

\* At rest, what is there is or was the document's, or the operator's.
LEMMA NmAtRest == NmInv => OwnNeverInTheWay
BY DEF NmInv, HereInv, HereOf, LinksInv, OwnNeverInTheWay, NmKnown, Bygone, LostTags, Created, Making

\* What counts as the same profile was not moved.
LEMMA SameMoved ==
    ASSUME NEW f \in NmFiles, NEW g \in NmFiles, SameProfile(f, g)
    PROVE  f.moved = g.moved
<1>1. [f EXCEPT !.saved = FALSE] = [g EXCEPT !.saved = FALSE]
  BY Zenon DEF SameProfile
<1>2. [f EXCEPT !.saved = FALSE].moved = f.moved /\ [g EXCEPT !.saved = FALSE].moved = g.moved
  BY DEF NmFiles
<1> QED
  BY <1>1, <1>2, Zenon

\* When a recovery ends, what the plan recorded is as it was.
LEMMA NmPutsBack ==
    NmInv /\ [NmNext]_nmVars /\ nAt.step = "relinks" /\ nAt'.step = "idle" =>
       \A i \in DOMAIN nPlan.ch :
          LET c == nPlan.ch[i]
          IN IF ~c.existed THEN ~nCon[c.uuid].here
             ELSE nCon[c.uuid] = [c.before EXCEPT !.file = nCon[c.uuid].file]
                  /\ (nNetplan => nCon[c.uuid].file.moved = c.before.file.moved)
<1> SUFFICES ASSUME NmInv, nAt.step = "relinks", NEW i \in DOMAIN nPlan.ch, NEW c, c = nPlan.ch[i]
             PROVE  IF ~c.existed THEN ~nCon[c.uuid].here
                    ELSE nCon[c.uuid] = [c.before EXCEPT !.file = nCon[c.uuid].file]
                         /\ (nNetplan => nCon[c.uuid].file.moved = c.before.file.moved)
  BY Zenon
<1>1. PutBack(nCon[c.uuid], c)
  BY DEF NmInv, RecoverInv, AsBefore
<1>2. c.uuid \in NmUuids /\ c.before \in NmCons /\ c.before.file \in NmFiles /\ c.existed \in BOOLEAN
  BY PlanChange DEF NmInv
<1>3. PICK con \in NmCons : con = nCon[c.uuid]
  BY <1>2 DEF NmInv, ConTypes
<1>4. CASE ~c.existed
  BY <1>1, <1>4 DEF PutBack
<1>5. CASE c.existed
  <2>1. con.val = c.before.val /\ con.auto = c.before.auto /\ con.on = c.before.on
    BY <1>1, <1>3, <1>5 DEF PutBack
  <2>2. con.here /\ c.before.here
    <3>1. nAt.step \in Uncommitted
      BY DEF Uncommitted, Making
    <3>2. c.before.here
      BY <1>5, <3>1 DEF NmInv, ImageInv, ImageOf
    <3>3. con.here
      BY <1>3, <1>5, <3>1, ExistedHere DEF NmInv, HereInv
    <3> QED
      BY <3>2, <3>3
  <2>3. con.here = c.before.here
    BY <1>2, <2>2 DEF NmCons
  <2>4. con = [c.before EXCEPT !.file = con.file]
    BY <1>2, <2>1, <2>3 DEF NmCons
  <2>5. nNetplan => con.file.moved = c.before.file.moved
    <3>1. con.file \in NmFiles
      BY DEF NmCons
    <3>2. nNetplan => SameProfile(con.file, c.before.file)
      BY <1>1, <1>3, <1>5, Zenon DEF PutBack
    <3> QED
      BY <1>2, <3>1, <3>2, SameMoved
  <2> QED
    BY <1>3, <1>5, <2>4, <2>5, Zenon
<1> QED
  BY <1>2, <1>4, <1>5

\* However commands fail and jobs die, and whatever NetworkManager moves, re-saves or brings
\* back: no connection of the committed document is deleted, what a change created is not in
\* the way of the next, and a recovery that reports success has put back what the journal
\* recorded.
THEOREM NmKeepsItsWord == NmSafe => NmPromises
<1>1. NmSafe => []NmTypeOK /\ []CommittedNeverDeleted /\ []OwnNeverInTheWay
  BY NmInvHolds, NmTypes, NmOwned, NmAtRest, PTL
<1>2. NmInv /\ [NmNext]_nmVars =>
        [nAt.step = "relinks" /\ nAt'.step = "idle" =>
           \A i \in DOMAIN nPlan.ch :
             LET c == nPlan.ch[i]
             IN IF ~c.existed THEN ~nCon[c.uuid].here
                ELSE nCon[c.uuid] = [c.before EXCEPT !.file = nCon[c.uuid].file]
                     /\ (nNetplan => nCon[c.uuid].file.moved = c.before.file.moved)]_nmVars
  BY NmPutsBack
<1>3. NmSafe => RestoredAsBefore
  BY <1>2, NmInvHolds, PTL DEF NmSafe, RestoredAsBefore
<1> QED
  BY <1>1, <1>3, Zenon DEF NmPromises
====
