------------------------------ MODULE StateStore ------------------------------
(***************************************************************************)
(* The durable desired state: state.json, state.prev.json and the          *)
(* state.pending marker (persist.rs), the transactions of the state actor  *)
(* over them (lib.rs), and the network engine's compare-and-swap of the    *)
(* same envelope from another process (network_authority.rs).  Both        *)
(* processes may die at every step, and every file operation may fail with *)
(* or without its effect.                                                  *)
(***************************************************************************)
EXTENDS Naturals

CONSTANTS
    MaxTxn,            \* bound on actor transactions that change the document
    MaxJobs,           \* bound on network decisions attempted
    FaultsPerTurn,     \* bound on file operations that fail in one actor turn
    UnlockedOverlap    \* may a network job run while control writes unlocked?

ASSUME StoreAssumption ==
    /\ MaxTxn \in Nat
    /\ MaxJobs \in Nat
    /\ FaultsPerTurn \in Nat
    /\ UnlockedOverlap \in BOOLEAN

VARIABLES
    json,       \* state.json
    prev,       \* state.prev.json
    marker,     \* is state.pending "present" or "absent"?
    lock,       \* holder of the decision lock (flock on state.lock)
    cpc,        \* control point of the control process
    jpc,        \* control point of the network job in privd
    state,      \* Actor::state, the envelope the actor holds
    read,       \* the envelope the network job has read
    turn,       \* what the actor is doing in this turn
    cand,       \* `next`: the actor's candidate
    base,       \* Journal::base: the decision the network job started from
    call,       \* the authority call the network job is in: "load" or "commit"
    faults,     \* file operations that failed since a turn or a call began
    txn,        \* transactions numbered so far
    jobs,       \* network decisions numbered so far
    acked,      \* history: publications whose writer was told they succeeded
    refused     \* history: transactions whose client was told they failed

disk == <<json, prev, marker>>
ghost == <<acked, refused>>
actor == <<cpc, state, turn, cand>>
job == <<jpc, read, base, call>>
vars == <<json, prev, marker, lock, cpc, jpc, state, read, turn, cand, base, call,
          faults, txn, jobs, acked, refused>>

JobStates == {"none", "unknown", "running", "parked"}
Envelope == [rev : Nat, doc : Nat, docrev : Nat, net : Nat, netrev : Nat,
             job : JobStates]
Turns == {"query", "submit", "lifecycle", "follow", "complete", "runtime",
          "effect", "effectjob"}
LoadPoints == {"load", "unmark", "read"}
StagePoints == {"reserve", "stage_prev", "stage_marker", "stage_next"}
RestorePoints == {"release", "rb_write", "rb_unmark"}
ControlPoints == {"down", "startwrite", "idle", "decide", "apply", "accept", "commit",
                  "text", "effect", "effect_failed", "settle"}
                 \cup LoadPoints \cup StagePoints \cup RestorePoints
PrivdPoints == {"idle", "ready", "compare", "publish"} \cup LoadPoints

TypeOK ==
    /\ json \in Envelope /\ prev \in Envelope /\ cand \in Envelope /\ base \in Envelope
    /\ marker \in {"present", "absent"} /\ call \in {"load", "commit"}
    /\ lock \in {"none", "control", "privd"}
    /\ cpc \in ControlPoints /\ jpc \in PrivdPoints
    /\ state \in Envelope /\ read \in Envelope
    /\ turn \in Turns
    /\ faults \in Nat
    /\ txn \in Nat /\ jobs \in Nat
    /\ acked \subseteq [rev : Nat, doc : Nat, net : Nat]
    /\ refused \subseteq Nat

First == [rev |-> 0, doc |-> 0, docrev |-> 0, net |-> 0, netrev |-> 0, job |-> "none"]

\* The root import has written the first envelope; control has not started.
Init ==
    /\ json = First /\ prev = First /\ marker = "absent"
    /\ lock = "none"
    /\ cpc = "down" /\ jpc = "idle"
    /\ state = First /\ read = First
    /\ turn = "query" /\ cand = First /\ base = First /\ call = "load"
    /\ faults = 0 /\ txn = 0 /\ jobs = 0
    /\ acked = {} /\ refused = {}

-------------------------------------------------------------------------------
(* File operations.  `atomic` renames a synced temporary file and then syncs *)
(* the directory, so an error may leave the old file or the new one.         *)

Outcomes == IF faults < FaultsPerTurn THEN {"ok", "lost", "late"} ELSE {"ok"}
Count(r) == faults' = IF r = "ok" THEN faults ELSE faults + 1
Stored(r, old, new) == IF r = "lost" THEN old ELSE new

\* `initialize` and `publish` replace state.json.
WriteJson(r, e) == json' = Stored(r, json, e) /\ Count(r)

\* `remove_pending`: unlink the marker, then sync the directory.
RemovePending(r) == marker' = Stored(r, marker, "absent") /\ Count(r)

Unlock(p) == lock' = IF lock = p THEN "none" ELSE lock

\* What the next load finds: a marker means the writer did not commit.
Marked == marker = "present"
Durable == IF Marked THEN prev ELSE json

\* StateFile::check, without the document's own validation.
Check(e) == e.docrev <= e.rev /\ e.netrev <= e.rev

\* The envelope with another plugin job.
WithJob(e, j) == [e EXCEPT !.job = j]

Content(e) == [rev |-> e.rev, doc |-> e.doc, net |-> e.net]

-------------------------------------------------------------------------------
(* Loading, by either process: roll back a marker, then read.  The actor's   *)
(* `refresh` and the authority's `read` do this under the decision lock;     *)
(* `StateHandle::start` does it without.                                     *)

\* The actor writes back what it read earlier, without the lock, while it starts
\* and when it releases the reservation of a plugin job that was refused.
ControlUnlocked ==
    /\ lock # "control"
    /\ \/ cpc \in LoadPoints \cup {"startwrite", "effect_failed"}
       \/ cpc = "effect" /\ turn = "effectjob"

\* A network decision comes from a Keep the actor itself sent.  It can overlap an
\* unlocked write only if that Keep outlives its caller: control died waiting for
\* it, or the request timed out.  UnlockedOverlap says whether that happens.
Quiet == UnlockedOverlap \/ ~ControlUnlocked

\* An error of the load ends the turn, and a start with its process.
LoadFails ==
    /\ cpc' = IF lock = "control" THEN "idle" ELSE "down"
    /\ Unlock("control")
    /\ turn' = "query" /\ cand' = First

\* `Persistence::load`: with a marker, state.json is the previous envelope again.
LoadRecover ==
    /\ cpc = "load"
    /\ \/ ~Marked /\ cpc' = "read" /\ UNCHANGED <<json, lock, turn, cand, faults>>
       \/ /\ Marked
          /\ \E r \in Outcomes :
               /\ WriteJson(r, prev)
               /\ IF r = "ok" THEN cpc' = "unmark" /\ UNCHANGED <<lock, turn, cand>>
                  ELSE LoadFails
    /\ UNCHANGED <<prev, marker, state, job, txn, jobs, ghost>>

\* Defect: recovery restores the file and forgets the marker.
LoadUnmarkForgets ==
    /\ cpc = "unmark"
    /\ cpc' = "read"
    /\ UNCHANGED <<disk, lock, turn, cand, faults, state, job, txn, jobs, ghost>>

LoadUnmark ==
    /\ cpc = "unmark"
    /\ \E r \in Outcomes :
         /\ RemovePending(r)
         /\ IF r = "ok" THEN cpc' = "read" /\ UNCHANGED <<lock, turn, cand>>
            ELSE LoadFails
    /\ UNCHANGED <<json, prev, state, job, txn, jobs, ghost>>

\* The end of a job's call: the lock is dropped and the locals are gone.
EndJob == /\ jpc' = "idle"
          /\ Unlock("privd")
          /\ read' = First /\ base' = First /\ call' = "load"

\* `StateAuthority::recover`: the same, by the other process.
JobRecover ==
    /\ jpc = "load"
    /\ \/ ~Marked /\ jpc' = "read" /\ UNCHANGED <<json, lock, read, base, call, faults>>
       \/ /\ Marked
          /\ \E r \in Outcomes :
               /\ WriteJson(r, prev)
               /\ IF r = "ok" THEN jpc' = "unmark" /\ UNCHANGED <<lock, read, base, call>>
                  ELSE EndJob
    /\ UNCHANGED <<prev, marker, actor, txn, jobs, ghost>>

JobUnmark ==
    /\ jpc = "unmark"
    /\ \E r \in Outcomes :
         /\ RemovePending(r)
         /\ IF r = "ok" THEN jpc' = "read" /\ UNCHANGED <<lock, read, base, call>>
            ELSE EndJob
    /\ UNCHANGED <<json, prev, actor, txn, jobs, ghost>>

-------------------------------------------------------------------------------
(* Control: start, and the actor's turns.                                    *)

\* StateHandle::start opens the store without taking the decision lock.
Start ==
    /\ cpc = "down"
    /\ UnlockedOverlap \/ lock # "privd"
    /\ cpc' = "load"
    /\ faults' = 0
    /\ UNCHANGED <<disk, lock, state, turn, cand, txn, jobs, ghost, job>>

\* `migrate_runtime` then `initialize`: the loaded envelope is written back.
StartWrite ==
    /\ cpc = "startwrite"
    /\ \E r \in Outcomes :
         /\ WriteJson(r, state)
         /\ cpc' = IF r = "ok" THEN "idle" ELSE "down"
    /\ UNCHANGED <<prev, marker, lock, state, turn, cand, txn, jobs, ghost, job>>

\* `refresh` blocks on the lock; everything the actor decides follows it.
Refresh ==
    /\ cpc = "idle" /\ lock = "none"
    /\ lock' = "control"
    /\ cpc' = "load"
    /\ faults' = 0
    /\ UNCHANGED <<disk, state, turn, cand, txn, jobs, ghost, job>>

\* Defect: the actor goes on with the envelope it held before.
ControlReadCached ==
    /\ cpc = "read"
    /\ state' = IF lock = "control" THEN state ELSE json
    /\ cpc' = IF lock # "control" THEN "startwrite"
              ELSE IF turn \in {"effect", "effectjob"} THEN "settle" ELSE "decide"
    /\ UNCHANGED <<disk, lock, turn, cand, faults, txn, jobs, ghost, job>>

\* The actor adopts what it read; a turn that waited for its effect settles it.
ControlRead ==
    /\ cpc = "read"
    /\ state' = json
    /\ cpc' = IF lock # "control" THEN "startwrite"
              ELSE IF turn \in {"effect", "effectjob"} THEN "settle" ELSE "decide"
    /\ UNCHANGED <<disk, lock, turn, cand, faults, txn, jobs, ghost, job>>

\* The end of a turn: the lock is dropped and the locals are gone.
EndTurn == /\ cpc' = "idle"
           /\ Unlock("control")
           /\ turn' = "query" /\ cand' = First

\* The client of a turn that fails is told so.
Refuse == refused' = refused \cup (IF cand.doc = state.doc THEN {} ELSE {cand.doc})

\* Snapshots, queries, replay, boot, finish; and every submission refused by a
\* guard, the revision check, the reducer, validation, confirmation or preflight.
Return ==
    /\ cpc = "decide"
    /\ EndTurn
    /\ UNCHANGED <<disk, state, faults, txn, jobs, ghost, job>>

\* Defect: the candidate keeps its predecessor's revision.
NextDocumentSameRevision(m, t, j) ==
    [rev |-> m.rev, doc |-> t, docrev |-> m.rev,
     net |-> m.net, netrev |-> m.netrev, job |-> j]

\* `next` of a turn that changes the document: the next revision, for it and for
\* the domains of its plan.
NextDocument(m, t, j) ==
    [rev |-> m.rev + 1, doc |-> t, docrev |-> m.rev + 1,
     net |-> m.net, netrev |-> m.netrev, job |-> j]

\* The actor takes `e` as its candidate for a turn of kind `t`.
Decide(t, e, l) ==
    /\ cpc = "decide"
    /\ turn' = t /\ cand' = e
    /\ cpc' = l
    /\ UNCHANGED <<disk, lock, state, faults, jobs, ghost, job>>

\* An ordinary durable submission.
Submit ==
    /\ txn < MaxTxn /\ txn' = txn + 1
    /\ Decide("submit", NextDocument(state, txn + 1, state.job), "stage_prev")

\* A plugin lifecycle command: the plugin guard refuses it while a job exists,
\* and `prepare` puts the reservation into the candidate.
SubmitLifecycle ==
    /\ state.job = "none"
    /\ txn < MaxTxn /\ txn' = txn + 1
    /\ Decide("lifecycle", NextDocument(state, txn + 1, "unknown"), "reserve")

\* A submission with no changed path: an effect only, without or with a job.
SubmitEffect ==
    /\ cpc = "decide"
    /\ turn' = "effect"
    /\ cpc' = "effect" /\ Unlock("control")
    /\ UNCHANGED <<disk, state, cand, faults, txn, jobs, ghost, job>>

SubmitEffectJob ==
    /\ state.job = "none"
    /\ Decide("effectjob", WithJob(state, "unknown"), "reserve")
    /\ UNCHANGED txn

\* `follow`: a followed domain changed (stage and commit), or only its text.
Follow ==
    /\ txn < MaxTxn /\ txn' = txn + 1
    /\ Decide("follow", NextDocument(state, txn + 1, state.job), "stage_prev")

FollowText ==
    /\ Decide("follow", state, "text")
    /\ UNCHANGED txn

\* `complete`: a job's outcome, which restores the previous plugin intent (a new
\* revision) or leaves the document as it is; or a report of the plugin runtime,
\* which leaves document and job.
Complete ==
    \/ state.job # "none" /\ Decide("complete", state, "stage_prev") /\ UNCHANGED txn
    \/ /\ state.job # "none" /\ txn < MaxTxn /\ txn' = txn + 1
       /\ Decide("complete", NextDocument(state, txn + 1, state.job), "stage_prev")
    \/ Decide("runtime", state, "stage_prev") /\ UNCHANGED txn

\* `reserve`: the reservation is durable before any privileged effect.
Reserve ==
    LET reserved == WithJob(state, "unknown") IN
    /\ cpc = "reserve"
    /\ \E r \in Outcomes :
         /\ WriteJson(r, reserved)
         /\ IF r # "ok"
            THEN EndTurn /\ Refuse /\ UNCHANGED state
            ELSE /\ state' = reserved
                 /\ IF turn = "effectjob"
                    THEN cpc' = "effect" /\ Unlock("control")
                    ELSE cpc' = "stage_prev" /\ UNCHANGED lock
                 /\ UNCHANGED <<turn, cand, refused>>
    /\ UNCHANGED <<prev, marker, txn, jobs, acked, job>>

\* Defect: the marker is staged over an older previous envelope.
StagePrevSkipped ==
    /\ cpc = "stage_prev"
    /\ cpc' = "stage_marker"
    /\ UNCHANGED <<disk, lock, state, turn, cand, faults, txn, jobs, ghost, job>>

\* `stage`: the previous envelope, the marker, then the candidate.  A failure
\* goes to `rollback` without releasing a reservation.
StagePrev ==
    /\ cpc = "stage_prev"
    /\ \E r \in Outcomes :
         /\ prev' = Stored(r, prev, state) /\ Count(r)
         /\ cpc' = IF r = "ok" THEN "stage_marker" ELSE "rb_write"
    /\ UNCHANGED <<json, marker, lock, state, turn, cand, txn, jobs, ghost, job>>

StageMarker ==
    /\ cpc = "stage_marker"
    /\ \E r \in Outcomes :
         /\ marker' = Stored(r, marker, "present") /\ Count(r)
         /\ cpc' = IF r = "ok" THEN "stage_next" ELSE "rb_write"
    /\ UNCHANGED <<json, prev, lock, state, turn, cand, txn, jobs, ghost, job>>

StageNext ==
    /\ cpc = "stage_next"
    /\ \E r \in Outcomes :
         /\ WriteJson(r, cand)
         /\ cpc' = IF r # "ok" THEN "rb_write"
                            ELSE IF turn = "follow" THEN "commit" ELSE "apply"
    /\ UNCHANGED <<prev, marker, lock, state, turn, cand, txn, jobs, ghost, job>>

\* `apply_command` under the lock: rendering, the domains and the follower.
Apply ==
    /\ cpc = "apply"
    /\ \/ cpc' = "accept"
       \/ cpc' = "release"
    /\ UNCHANGED <<disk, lock, state, turn, cand, faults, txn, jobs, ghost, job>>

\* The candidate is written again with what became of the plugin job.
SaveJob(js) ==
    /\ \E j \in js, r \in Outcomes :
         /\ cand' = WithJob(cand, j)
         /\ WriteJson(r, cand')
         /\ cpc' = IF r = "ok" THEN "commit" ELSE "release"
    /\ UNCHANGED <<lock, turn, refused>>

\* `accepted` names the job privd started, or finds that none was needed; its
\* error is returned at once, with the marker still on disk.  `completed` retires
\* or parks the job, or keeps it for a report of the runtime.  Other turns have no
\* metadata.
Accept ==
    /\ cpc = "accept"
    /\ \/ turn = "lifecycle" /\ SaveJob({"running", "none"})
       \/ turn = "lifecycle" /\ EndTurn /\ Refuse /\ UNCHANGED <<json, faults>>
       \/ turn = "complete" /\ SaveJob({"parked", "none"})
       \/ turn = "runtime" /\ SaveJob({cand.job})
       \/ /\ turn = "complete" /\ cpc' = "release"
          /\ UNCHANGED <<json, lock, turn, cand, faults, refused>>
       \/ /\ turn \notin {"lifecycle", "complete", "runtime"} /\ cpc' = "commit"
          /\ UNCHANGED <<json, lock, turn, cand, faults, refused>>
    /\ UNCHANGED <<prev, marker, state, txn, jobs, acked, job>>

\* `commit`: removing the marker publishes the candidate.  `follow` rolls back a
\* failure itself, the others through `restore`.  A manifest that cannot be
\* written fails here without touching the marker.
Commit ==
    /\ cpc = "commit"
    /\ \E r \in Outcomes :
         /\ RemovePending(r)
         /\ IF r = "ok"
            THEN /\ state' = cand /\ EndTurn
                 /\ acked' = acked \cup {Content(cand)}
            ELSE /\ cpc' = IF turn = "follow" THEN "rb_write" ELSE "release"
                 /\ UNCHANGED <<lock, state, turn, cand, acked>>
    /\ UNCHANGED <<json, prev, txn, jobs, refused, job>>

\* `restore`, first part: a known failure releases the reservation, an uncertain
\* one keeps it.  An error of this write abandons the rest of `restore`.
Release ==
    LET released == WithJob(state, "none") IN
    /\ cpc = "release"
    /\ \/ /\ state.job = "unknown"
          /\ \E r \in Outcomes :
               /\ WriteJson(r, released)
               /\ IF r = "ok"
                  THEN /\ state' = released /\ cpc' = "rb_write"
                       /\ UNCHANGED <<lock, turn, cand, refused>>
                  ELSE EndTurn /\ Refuse /\ UNCHANGED state
       \/ cpc' = "rb_write" /\ UNCHANGED <<json, lock, state, turn, cand, faults, refused>>
    /\ UNCHANGED <<prev, marker, txn, jobs, acked, job>>

\* Defect: the rollback removes the marker and leaves the candidate.
RollbackWriteSkipped ==
    /\ cpc = "rb_write"
    /\ cpc' = "rb_unmark"
    /\ UNCHANGED <<disk, lock, state, turn, cand, faults, txn, jobs, ghost, job>>

\* `Persistence::rollback`: the previous envelope, then the marker.
RollbackWrite ==
    /\ cpc = "rb_write"
    /\ \E r \in Outcomes :
         /\ WriteJson(r, state)
         /\ IF r = "ok"
            THEN cpc' = "rb_unmark" /\ UNCHANGED <<lock, turn, cand, refused>>
            ELSE EndTurn /\ Refuse
    /\ UNCHANGED <<prev, marker, state, txn, jobs, acked, job>>

RollbackUnmark ==
    /\ cpc = "rb_unmark"
    /\ \E r \in Outcomes : RemovePending(r)
    /\ EndTurn /\ Refuse
    /\ UNCHANGED <<json, prev, state, txn, jobs, acked, job>>

SaveText ==
    /\ cpc = "text"
    /\ \E r \in Outcomes : WriteJson(r, cand)
    /\ EndTurn
    /\ UNCHANGED <<prev, marker, state, txn, jobs, ghost, job>>

\* An effect runs without the lock.  Its success is settled in a new locked
\* section, its failure releases the reservation where it stands.
EffectDone ==
    /\ cpc = "effect" /\ lock = "none"
    /\ lock' = "control"
    /\ cpc' = "load"
    /\ faults' = 0
    /\ UNCHANGED <<disk, state, turn, cand, txn, jobs, ghost, job>>

EffectFailed ==
    /\ cpc = "effect"
    /\ IF turn = "effectjob"
       THEN cpc' = "effect_failed" /\ UNCHANGED <<lock, turn, cand>>
       ELSE EndTurn
    /\ UNCHANGED <<disk, state, faults, txn, jobs, ghost, job>>

EffectRelease ==
    LET released == WithJob(state, "none") IN
    /\ cpc = "effect_failed"
    /\ \/ \E r \in Outcomes :
            /\ WriteJson(r, released)
            /\ IF r = "ok" THEN state' = released ELSE UNCHANGED state
       \/ UNCHANGED <<json, state, faults>>
    /\ EndTurn
    /\ UNCHANGED <<prev, marker, txn, jobs, ghost, job>>

\* Metadata of an accepted effect: the job privd started, or none.
Settle ==
    /\ cpc = "settle"
    /\ \/ UNCHANGED <<json, state, faults>>
       \/ /\ turn = "effectjob"
          /\ \E j \in {"running", "none"}, r \in Outcomes :
               LET settled == WithJob(state, j) IN
               /\ WriteJson(r, settled)
               /\ IF r = "ok" THEN state' = settled ELSE UNCHANGED state
    /\ EndTurn
    /\ UNCHANGED <<prev, marker, txn, jobs, ghost, job>>

\* The process dies: its lock and its memory are gone, the disk stays.
CrashControl ==
    /\ cpc # "down"
    /\ cpc' = "down" /\ Unlock("control")
    /\ turn' = "query" /\ cand' = First
    /\ state' = First
    /\ UNCHANGED <<disk, faults, txn, jobs, ghost, job>>

-------------------------------------------------------------------------------
(* The network engine's job, in privd's process.                             *)

\* `Authority::load` never waits: with the lock taken it is refused.
JobLoad ==
    /\ jpc = "idle" /\ lock = "none" /\ Quiet
    /\ jobs < MaxJobs
    /\ lock' = "privd" /\ call' = "load"
    /\ jpc' = "load"
    /\ faults' = 0
    /\ UNCHANGED <<actor, disk, read, base, txn, jobs, ghost>>

\* `compare_and_commit` takes the lock again, waiting for it.
JobCommit ==
    /\ jpc = "ready" /\ lock = "none" /\ Quiet
    /\ lock' = "privd" /\ call' = "commit"
    /\ jpc' = "load"
    /\ faults' = 0
    /\ UNCHANGED <<actor, disk, read, base, txn, jobs, ghost>>

JobRead ==
    /\ jpc = "read"
    /\ read' = json
    /\ IF call = "commit"
       THEN jpc' = "compare" /\ UNCHANGED <<lock, base>>
       ELSE jpc' = "ready" /\ Unlock("privd") /\ base' = json
    /\ UNCHANGED <<actor, disk, call, faults, txn, jobs, ghost>>

\* `StateAuthority::decision`.
Decision(e) == [rev |-> e.rev, net |-> e.net, netrev |-> e.netrev]

\* What `compare_and_commit` publishes: the network section with its job and
\* metadata, under the next revision; the other domains as they are now.
Replacement(m, n) ==
    [rev |-> base.rev + 1, doc |-> m.doc, docrev |-> m.docrev,
     net |-> n, netrev |-> base.rev + 1, job |-> m.job]

JobCompare ==
    /\ jpc = "compare"
    /\ IF Decision(read) = Decision(base)
       THEN jpc' = "publish" /\ UNCHANGED <<lock, read, base, call>>
       ELSE EndJob
    /\ UNCHANGED <<actor, disk, faults, txn, jobs, ghost>>

JobPublish ==
    /\ jpc = "publish"
    /\ jobs' = jobs + 1
    /\ \E r \in Outcomes :
         /\ WriteJson(r, Replacement(read, jobs + 1))
         /\ acked' = acked \cup
              (IF r = "ok" THEN {Content(Replacement(read, jobs + 1))} ELSE {})
    /\ EndJob
    /\ UNCHANGED <<actor, prev, marker, txn, refused>>

\* The operator reverts, the window expires, or the process dies.
JobEnds ==
    /\ jpc # "idle"
    /\ EndJob
    /\ UNCHANGED <<actor, disk, faults, txn, jobs, ghost>>

-------------------------------------------------------------------------------
ControlNext ==
    \/ Start \/ StartWrite \/ Refresh \/ LoadRecover \/ LoadUnmark \/ ControlRead \/ Return
    \/ Submit \/ SubmitLifecycle \/ SubmitEffect \/ SubmitEffectJob
    \/ Follow \/ FollowText \/ Complete
    \/ Reserve \/ StagePrev \/ StageMarker \/ StageNext \/ Apply \/ Accept \/ Commit
    \/ Release \/ RollbackWrite \/ RollbackUnmark \/ SaveText
    \/ EffectDone \/ EffectFailed \/ EffectRelease \/ Settle
    \/ CrashControl

JobNext == JobLoad \/ JobCommit \/ JobRecover \/ JobUnmark \/ JobRead \/ JobCompare \/ JobPublish \/ JobEnds

Next == ControlNext \/ JobNext

Spec == Init /\ [][Next]_vars

-------------------------------------------------------------------------------
(* Properties.                                                               *)

\* Every file a later start may load passes `StateFile::check`; one that did not
\* would keep control from starting at all (persist.rs `load`, lib.rs `start`).
AlwaysLoadable == Check(json) /\ Check(prev)

\* e is not behind anything that was acknowledged.
Covers(e) == \A a \in acked : a.rev <= e.rev /\ (a.rev = e.rev => a = Content(e))

\* A publication its writer was told about is never undone: no crash, failed
\* write, rollback or competing writer takes the store behind it or puts another
\* document under its revision (lib.rs `submit`, network_authority.rs).
AckedSurvives == Covers(Durable)

\* A revision identifies one document: clients compare and swap on it, and the
\* decoder orders configurations by it.
RevisionNamesOneDocument == \A a, b \in acked : a.rev = b.rev => a = b

\* A transaction whose client was told that it failed is not what the next turn
\* of anybody loads (lib.rs `restore`, `finish`).
RefusedNotPublished == lock = "none" => Durable.doc \notin refused

\* What was published stays: every start can load it, nothing takes it back and
\* its revision is its own.
PublishedStays == AlwaysLoadable /\ AckedSurvives /\ RevisionNamesOneDocument

\* A kept network decision is replaced only by a later one: ordinary writes,
\* imports and completions carry it along (network_authority.rs, lib.rs).
KeptDecisionStays == [][Durable'.netrev >= Durable.netrev]_vars

\* A privileged plugin job is started only under a durable reservation: whoever
\* loads the state after a crash finds it and refuses a second job
\* (lib.rs `reserve`, domains/plugins.rs).
ReservedBeforeEffect ==
    \/ cpc \in {"apply", "accept"} /\ turn = "lifecycle"
    \/ cpc = "effect" /\ turn = "effectjob"
    => Durable.job = "unknown"

\* What a transaction's outcome says of the disk: a refusal leaves nothing, and an
\* effect outside the store has its record first (lib.rs `finish`, `reserve`).
OutcomesAreTrue == RefusedNotPublished /\ ReservedBeforeEffect

\* What a reader can load: while the actor undoes a commit that reported an
\* error, nobody can load at all, and the store still stands for the old state.
Published == IF lock = "control" /\ cpc \in {"release", "rb_write"}
             THEN state ELSE Durable

Log == INSTANCE DesiredLog WITH pub <- Published

\* The store is one forward-moving log: every published change is the next
\* revision of exactly one writer, or plugin metadata under the same revision.
RefinesLog == Log!Spec

-------------------------------------------------------------------------------
(* The inductive invariant behind the theorems of StateStoreProofs.          *)

\* Control points reached only with the decision lock.
Held == {"decide", "text", "settle", "apply", "accept", "commit"}
        \cup StagePoints \cup RestorePoints

\* The lock is held exactly by whoever is inside a locked section, and a network
\* job never holds it while control writes unlocked.
LockInv ==
    /\ lock = "control" => cpc \in Held \cup LoadPoints
    /\ cpc \in Held => lock = "control"
    /\ lock = "privd" <=> jpc \in LoadPoints \cup {"compare", "publish"}
    /\ ControlUnlocked => lock = "none"

Same(e, f) == /\ e.rev = f.rev /\ e.doc = f.doc /\ e.docrev = f.docrev
              /\ e.net = f.net /\ e.netrev = f.netrev

\* A candidate succeeds the envelope it was made from, or differs in metadata.
Succeeds(e, f) == \/ Same(e, f)
                  \/ /\ e.rev = f.rev + 1 /\ e.docrev = f.rev + 1
                     /\ e.net = f.net /\ e.netrev = f.netrev

\* What is on disk at each control point, relative to what the processes hold.
DiskInv ==
    /\ "unmark" \in {cpc, jpc} => json = prev
    /\ "read" \in {cpc, jpc} => ~Marked
    /\ cpc \in {"startwrite", "effect_failed", "decide", "text", "settle", "reserve",
                "stage_prev", "stage_marker"} => ~Marked /\ json = state
    /\ cpc = "effect" /\ turn = "effectjob" => ~Marked /\ json = state
    /\ cpc \in {"stage_marker", "release"} => prev = state
    /\ cpc \in {"stage_next", "apply", "accept", "commit"} => Marked /\ prev = state
    /\ cpc \in {"rb_write", "rb_unmark"} /\ Marked => Same(prev, state)
    /\ cpc \in {"release", "rb_write"} /\ ~Marked => Same(json, state) \/ json = cand
    /\ cpc \in {"apply", "accept", "commit"} => json = cand
    /\ cpc = "rb_unmark" => json = state
    /\ cpc = "text" => cand = state
    /\ cpc \in {"apply", "accept", "commit", "release", "rb_write"} \cup StagePoints
         => Succeeds(cand, state)
    /\ jpc \in {"compare", "publish"} => ~Marked /\ read = json
    /\ jpc = "publish" => Decision(read) = Decision(base)

\* The envelope the actor works from is not behind, and passes the check.
HeldInv == cpc \in Held => Covers(state) /\ Check(state)

Inv == /\ TypeOK /\ LockInv /\ DiskInv /\ HeldInv
       /\ AlwaysLoadable /\ AckedSurvives /\ RevisionNamesOneDocument

-------------------------------------------------------------------------------
(* Liveness.  Control is restarted (Restart=always) and its observers load the *)
(* state every 250 ms, so Start and Refresh recur; a started turn goes on; and *)
(* neither crashes nor file errors prevent a recovery for ever.                *)

TurnStep == \/ StartWrite \/ ControlRead \/ Return \/ Reserve \/ StagePrev \/ StageMarker
            \/ StageNext \/ Apply \/ Accept \/ Commit \/ Release \/ RollbackWrite
            \/ RollbackUnmark \/ SaveText \/ EffectFailed \/ EffectRelease \/ Settle

RecoverOk == LoadRecover /\ cpc' \in {"unmark", "read"}
UnmarkOk == LoadUnmark /\ cpc' = "read"

Fairness == /\ SF_vars(Start) /\ SF_vars(Refresh) /\ WF_vars(TurnStep)
            /\ SF_vars(RecoverOk) /\ SF_vars(UnmarkOk)
            /\ WF_vars(JobEnds)

FairSpec == Spec /\ Fairness

\* A marker never stays: its transaction commits or is rolled back, by the actor
\* that wrote it or by whoever loads the state after it died.
MarkerCleared == Marked ~> ~Marked
===============================================================================
