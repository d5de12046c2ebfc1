---------------------------- MODULE PluginJobsProofs ----------------------------
(***************************************************************************)
(* Proofs about plugins. PluginJobs, for any number of operations, lost    *)
(* polls and troubles: a named job is recorded until its unit has ended,   *)
(* clients are told what the unit found and are told it once, and at rest  *)
(* the accepted intent is what is on the host (the invariant Inv of        *)
(* PluginJobs, which every action keeps; one lemma per action).            *)
(* PluginRuntime, for any queue, requests and faults: a hook that runs as  *)
(* root runs once for the activation that was granted it (PrInv: a granted *)
(* hook is pending, or used up and about to run, or has run).              *)
(***************************************************************************)
EXTENDS PluginJobs, PluginRuntime, SequenceTheorems, TLAPS

\* A recorded job is one of the operations.
LEMMA RecordedOp ==
  ASSUME TypeOK, RecordInv, job # NoJob
  PROVE  job.op \in Ops
BY JobsAssumption DEF TypeOK, ActorType, DurableType, RecordInv, Ops

\* A command is accepted and its job reserved.
LEMMA SubmitStep ==
  ASSUME TypeOK, Inv, Submit
  PROVE  TypeOK' /\ Inv'
<1>1. RootType' /\ ObserverType' /\ GhostType' /\ ObserverInv'
  BY DEF TypeOK, Inv, RootType, ObserverType, GhostType, ObserverInv, Unharmed,
     Submit, root, observer, ghosts
<1>2. DurableType'
  BY JobsAssumption DEF TypeOK, DurableType, ActorType, PendingJob, Submit
<1>3. ActorType'
  BY JobsAssumption DEF TypeOK, ActorType, Submit
<1>4. RecordInv'
  BY JobsAssumption DEF Inv, TypeOK, ActorType, Ops, NoJob, RecordInv, UnitInv,
     Submit, root
<1>5. UnitInv'
  BY DEF Inv, TypeOK, ActorType, Ops, UnitInv, Unharmed, Submit, root, ghosts
<1>6. ToldInv'
  BY DEF Inv, TypeOK, ActorType, ToldInv, UnitInv, Unharmed, Submit, root, ghosts
<1>7. HostInv'
  <2>1. /\ ops + 1 \in Ops /\ job = NoJob /\ job.op = 0
        /\ job' # NoJob /\ job'.op = ops + 1 /\ job'.prev = reg
    BY JobsAssumption DEF TypeOK, ActorType, Ops, NoJob, Submit, Free
  <2>2. unit[ops + 1] = "none" /\ ended[ops + 1] = "none"
    BY <2>1 DEF TypeOK, ActorType, RootType, Inv, UnitInv, Ops
  <2>3. Clean => /\ \A n \in Ops : ~Alive(n)
                 /\ host.ver = reg \/ host.broken
    BY <2>1 DEF Inv, HostInv, Ops
  <2>4. Clean' = Clean /\ \A n \in Ops : Alive(n)' = Alive(n)
    BY DEF Clean, Alive, Submit, root, ghosts
  <2>. QED
    BY <2>1, <2>2, <2>3, <2>4 DEF HostInv, Submit, root
<1>. QED
  BY <1>1, <1>2, <1>3, <1>4, <1>5, <1>6, <1>7 DEF TypeOK, Inv

\* A reservation is released before privd was asked.
LEMMA RefusedStep ==
  ASSUME TypeOK, Inv, Refused
  PROVE  TypeOK' /\ Inv'
<1>1. RootType' /\ ObserverType' /\ UnitInv' /\ ObserverInv'
  BY DEF TypeOK, Inv, RootType, ObserverType, UnitInv, ObserverInv, Unharmed,
     Refused, root, observer
<1>2. DurableType'
  BY DEF Inv, TypeOK, DurableType, PendingJob, NoJob, RecordInv, Refused, Release
<1>3. ActorType'
  BY DEF TypeOK, ActorType, Refused
<1>4. GhostType'
  <2>1. job.op \in Ops
    BY RecordedOp DEF Inv, RecordInv, Refused
  <2>2. stray' \subseteq Ops
    BY <2>1, Zenon DEF TypeOK, GhostType, Refused, Release, Dropped
  <2>3. waived' \subseteq Ops /\ harmed' \in BOOLEAN /\ troubles' \in 0 .. MaxTroubles
    BY JobsAssumption DEF TypeOK, GhostType, Refused, Trouble
  <2>. QED
    BY <2>2, <2>3 DEF GhostType
<1>5. RecordInv'
  BY DEF NoJob, RecordInv, Refused, Release
<1>6. ToldInv'
  BY DEF Inv, Ops, NoJob, ToldInv, Unharmed, Refused, Release, root
<1>7. HostInv'
  BY DEF Inv, HostInv, RecordInv, Clean, Alive, Active, Refused, Release, Dropped,
     root
<1>. QED
  BY <1>1, <1>2, <1>3, <1>4, <1>5, <1>6, <1>7 DEF TypeOK, Inv

\* A reservation is released after its unit was started.
LEMMA AcceptFailsStep ==
  ASSUME TypeOK, Inv, AcceptFails
  PROVE  TypeOK' /\ Inv'
<1>1. RootType' /\ ObserverType' /\ UnitInv' /\ ObserverInv'
  BY DEF TypeOK, Inv, RootType, ObserverType, UnitInv, ObserverInv, Unharmed,
     AcceptFails, root, observer
<1>2. DurableType'
  BY DEF Inv, TypeOK, DurableType, PendingJob, NoJob, RecordInv, AcceptFails,
     Release
<1>3. ActorType'
  BY DEF TypeOK, ActorType, AcceptFails
<1>4. GhostType'
  <2>1. job.op \in Ops
    BY RecordedOp DEF Inv, RecordInv, AcceptFails
  <2>2. stray' \subseteq Ops
    BY <2>1, Zenon DEF TypeOK, GhostType, AcceptFails, Release, Dropped
  <2>3. waived' \subseteq Ops /\ harmed' \in BOOLEAN /\ troubles' \in 0 .. MaxTroubles
    BY JobsAssumption DEF TypeOK, GhostType, AcceptFails, Trouble
  <2>. QED
    BY <2>2, <2>3 DEF GhostType
<1>5. RecordInv'
  BY DEF NoJob, RecordInv, AcceptFails, Release
<1>6. ToldInv'
  BY DEF Inv, Ops, NoJob, ToldInv, Unharmed, AcceptFails, Release, root
<1>7. HostInv'
  BY DEF Inv, HostInv, RecordInv, Clean, Active, Began, AcceptFails, Release,
     Dropped
<1>. QED
  BY <1>1, <1>2, <1>3, <1>4, <1>5, <1>6, <1>7 DEF TypeOK, Inv

\* The acknowledgement is lost.
LEMMA RequestLateStep ==
  ASSUME TypeOK, Inv, Request(TRUE)
  PROVE  TypeOK' /\ Inv'
<1>1. DurableType' /\ ObserverType'
  BY DEF TypeOK, DurableType, ObserverType, Request, durable, observer
<1>2. ActorType'
  BY DEF TypeOK, ActorType, Request
<1>3. RootType'
  BY DEF Inv, TypeOK, DurableType, RootType, Ops, PendingJob, UnitStates, RecordInv,
     Request
<1>4. GhostType'
  BY JobsAssumption DEF TypeOK, GhostType, Request, Trouble, ghosts
<1>5. RecordInv'
  BY DEF Inv, RecordInv, Request, durable
<1>6. UnitInv'
  BY DEF Inv, TypeOK, ActorType, UnitInv, RecordInv, Unharmed, Request, ghosts
<1>7. ObserverInv'
  BY DEF Inv, ObserverInv, RecordInv, Unharmed, Began, Active, Request, observer,
     ghosts
<1>8. ToldInv'
  BY DEF Inv, ToldInv, RecordInv, Unharmed, Request, durable, ghosts
<1>9. HostInv'
  BY DEF Inv, HostInv, RecordInv, Clean, Alive, Request, durable, ghosts
<1>. QED
  BY <1>1, <1>2, <1>3, <1>4, <1>5, <1>6, <1>7, <1>8, <1>9 DEF TypeOK, Inv

\* The unit is started and acknowledged.
LEMMA RequestAnsweredStep ==
  ASSUME TypeOK, Inv, Request(FALSE)
  PROVE  TypeOK' /\ Inv'
<1>1. DurableType' /\ ObserverType'
  BY DEF TypeOK, DurableType, ObserverType, Request, durable, observer
<1>2. ActorType'
  BY DEF TypeOK, ActorType, Request
<1>3. RootType'
  BY DEF Inv, TypeOK, DurableType, RootType, Ops, PendingJob, UnitStates, RecordInv,
     Active, Request
<1>4. GhostType'
  BY DEF TypeOK, GhostType, Request, NoTrouble, ghosts
<1>5. RecordInv'
  BY DEF Inv, TypeOK, DurableType, RootType, Ops, PendingJob, RecordInv, Began,
     Active, Request, durable
<1>6. UnitInv'
  BY DEF Inv, TypeOK, ActorType, UnitInv, RecordInv, Unharmed, Request, ghosts
<1>7. ObserverInv'
  BY DEF Inv, ObserverInv, RecordInv, Unharmed, Began, Active, Request, observer,
     ghosts
<1>8. ToldInv'
  BY DEF Inv, ToldInv, RecordInv, Unharmed, Request, durable, ghosts
<1>9. HostInv'
  BY DEF Inv, HostInv, RecordInv, Clean, Alive, Request, durable, ghosts
<1>. QED
  BY <1>1, <1>2, <1>3, <1>4, <1>5, <1>6, <1>7, <1>8, <1>9 DEF TypeOK, Inv

\* The unit's name and the new intent become durable.
LEMMA AcceptStep ==
  ASSUME TypeOK, Inv, Accept
  PROVE  TypeOK' /\ Inv'
<1>1. RootType' /\ ObserverType' /\ GhostType' /\ UnitInv' /\ ObserverInv'
  BY DEF TypeOK, Inv, RootType, ObserverType, GhostType, UnitInv, ObserverInv,
     Unharmed, Accept, root, observer, ghosts
<1>2. DurableType'
  BY DEF TypeOK, DurableType, PendingJob, Accept
<1>3. ActorType'
  BY DEF TypeOK, ActorType, Accept
<1>4. RecordInv'
  BY DEF Inv, RecordInv, Accept, root
<1>5. ToldInv'
  BY DEF Inv, ToldInv, Unharmed, Accept, root, ghosts
<1>6. HostInv'
  BY DEF Inv, NoJob, HostInv, RecordInv, Clean, Alive, Accept, root, ghosts
<1>. QED
  BY <1>1, <1>2, <1>3, <1>4, <1>5, <1>6 DEF TypeOK, Inv

\* The operator cancels the job.
LEMMA CancelStep ==
  ASSUME TypeOK, Inv, Cancel
  PROVE  TypeOK' /\ Inv'
<1>1. ActorType' /\ ObserverType'
  BY DEF TypeOK, ActorType, ObserverType, Cancel, observer
<1>2. DurableType'
  BY DEF TypeOK, DurableType, PendingJob, Cancel
<1>3. RootType'
  BY DEF TypeOK, DurableType, RootType, Ops, PendingJob, Cancel
<1>4. GhostType'
  BY DEF Inv, TypeOK, DurableType, GhostType, Ops, PendingJob, RecordInv, Cancel
<1>5. RecordInv'
  BY DEF Inv, RecordInv, Cancel
<1>6. UnitInv'
  BY DEF Inv, UnitInv, Unharmed, Cancel
<1>7. ObserverInv'
  BY DEF Inv, ObserverInv, Unharmed, Cancel, observer
<1>8. ToldInv'
  BY DEF Inv, ToldInv, Unharmed, Cancel
<1>9. HostInv'
  BY DEF Inv, NoJob, HostInv, Clean, Alive, Cancel
<1>. QED
  BY <1>1, <1>2, <1>3, <1>4, <1>5, <1>6, <1>7, <1>8, <1>9 DEF TypeOK, Inv

\* The observer looks at the record.
LEMMA LookStep ==
  ASSUME TypeOK, Inv, Look
  PROVE  TypeOK' /\ Inv'
<1>1. DurableType' /\ ActorType' /\ RootType' /\ GhostType' /\ RecordInv' /\ UnitInv' /\
     ToldInv' /\ HostInv'
  BY DEF TypeOK, Inv, DurableType, ActorType, RootType, GhostType, RecordInv,
     UnitInv, ToldInv, HostInv, Unharmed, Clean, Alive, Look, durable, root, ghosts
<1>2. ObserverType'
  <2>1. snap' \in PendingJob /\ asked' \in 0 .. MaxOps
    BY DEF TypeOK, DurableType, ObserverType, Look
  <2>2. lost' \in 0 .. LostPolls
    BY JobsAssumption DEF TypeOK, ObserverType, Look
  <2>3. pc' \in {"look", "file", "unit", "tell"} /\ out' \in Outcomes
    BY DEF TypeOK, ObserverType, Outcomes, Look
  <2>4. first' \in BOOLEAN
    BY DEF TypeOK, ObserverType, Look
  <2>. QED
    BY <2>1, <2>2, <2>3, <2>4 DEF ObserverType
<1>3. ObserverInv'
  BY DEF Inv, ObserverInv, RecordInv, Look, root
<1>. QED
  BY <1>1, <1>2, <1>3 DEF TypeOK, Inv

\* privd looks for the result file.
LEMMA StatusFileStep ==
  ASSUME TypeOK, Inv, StatusFile
  PROVE  TypeOK' /\ Inv'
<1>1. DurableType' /\ ActorType' /\ GhostType' /\ RecordInv'
  BY DEF TypeOK, Inv, DurableType, ActorType, GhostType, RecordInv, StatusFile,
     durable, ghosts
<1>2. RootType'
  <2>1. snap.id \in Ops
    BY DEF TypeOK, ObserverType, PendingJob, Ops, Inv, ObserverInv, StatusFile
  <2>. QED
    BY <2>1 DEF TypeOK, RootType, StatusFile, Answered
<1>3. ObserverType'
  <2>1. snap' \in PendingJob /\ snap.id \in Ops
    BY JobsAssumption DEF TypeOK, ObserverType, Inv, ObserverInv, PendingJob, Ops, StatusFile
  <2>2. asked' \in 0 .. MaxOps
    BY <2>1, JobsAssumption DEF TypeOK, ObserverType, Ops, StatusFile, Answered
  <2>3. lost' \in 0 .. LostPolls
    BY JobsAssumption DEF TypeOK, ObserverType, StatusFile, Answered
  <2>4. out' \in Outcomes
    BY <2>1 DEF TypeOK, ObserverType, RootType, Outcomes, StatusFile, Answered, Conclude
  <2>5. pc' \in {"look", "file", "unit", "tell"}
    BY DEF TypeOK, ObserverType, StatusFile, Answered
  <2>6. first' \in BOOLEAN
    BY DEF TypeOK, ObserverType, StatusFile, Answered
  <2>. QED
    BY <2>1, <2>2, <2>3, <2>4, <2>5, <2>6 DEF ObserverType
<1>4. UnitInv'
  BY DEF Inv, UnitInv, Unharmed, StatusFile, Answered, ghosts
<1>5. ObserverInv'
  BY DEF Inv, TypeOK, RootType, ObserverType, Ops, PendingJob, ObserverInv, UnitInv,
     StatusFile, Answered, Conclude
<1>6. ToldInv'
  BY DEF Inv, ToldInv, Unharmed, StatusFile, Answered, durable, ghosts
<1>7. HostInv'
  BY DEF Inv, HostInv, Clean, Alive, StatusFile, Answered, durable, ghosts
<1>. QED
  BY <1>1, <1>2, <1>3, <1>4, <1>5, <1>6, <1>7 DEF TypeOK, Inv

\* privd asks systemd.
LEMMA StatusUnitStep ==
  ASSUME TypeOK, Inv, StatusUnit
  PROVE  TypeOK' /\ Inv'
<1>1. DurableType' /\ ActorType' /\ GhostType' /\ RecordInv'
  BY DEF TypeOK, Inv, DurableType, ActorType, GhostType, RecordInv, StatusUnit,
     durable, ghosts
<1>2. RootType'
  <2>1. snap.id \in Ops
    BY DEF TypeOK, ObserverType, PendingJob, Ops, Inv, ObserverInv, StatusUnit
  <2>. QED
    BY <2>1 DEF TypeOK, RootType, StatusUnit, Answered
<1>3. ObserverType'
  <2>1. snap' \in PendingJob /\ snap.id \in Ops
    BY JobsAssumption DEF TypeOK, ObserverType, Inv, ObserverInv, PendingJob, Ops, StatusUnit
  <2>2. asked' \in 0 .. MaxOps
    BY <2>1, JobsAssumption DEF TypeOK, ObserverType, Ops, StatusUnit, Answered
  <2>3. lost' \in 0 .. LostPolls
    BY JobsAssumption DEF TypeOK, ObserverType, StatusUnit, Answered
  <2>4. out' \in Outcomes
    BY <2>1 DEF TypeOK, ObserverType, RootType, Outcomes, StatusUnit, Answered, Conclude, UnitAnswer
  <2>5. pc' \in {"look", "file", "unit", "tell"}
    BY DEF TypeOK, ObserverType, StatusUnit, Answered
  <2>6. first' \in BOOLEAN
    BY DEF TypeOK, ObserverType, StatusUnit, Answered
  <2>. QED
    BY <2>1, <2>2, <2>3, <2>4, <2>5, <2>6 DEF ObserverType
<1>4. UnitInv'
  <2>1. \A m \in Ops : Unharmed(m)' => Unharmed(m)
    BY DEF Unharmed, StatusUnit, Answered, ghosts
  <2>. QED
    BY <2>1 DEF Inv, UnitInv, StatusUnit
<1>5. ObserverInv'
  BY DEF Inv, TypeOK, RootType, ObserverType, Ops, PendingJob, ObserverInv, UnitInv,
     Unharmed, Began, StatusUnit, Answered, Conclude, UnitAnswer, ghosts
<1>6. ToldInv'
  <2>1. \A m \in Ops : Unharmed(m)' => Unharmed(m)
    BY DEF Unharmed, StatusUnit, Answered, ghosts
  <2>. QED
    BY <2>1 DEF Inv, ToldInv, StatusUnit, durable
<1>7. HostInv'
  BY DEF Inv, HostInv, Clean, Alive, StatusUnit, Answered, durable, ghosts
<1>. QED
  BY <1>1, <1>2, <1>3, <1>4, <1>5, <1>6, <1>7 DEF TypeOK, Inv

\* privd cannot be asked.
LEMMA StatusFailsStep ==
  ASSUME TypeOK, Inv, StatusFails
  PROVE  TypeOK' /\ Inv'
<1>1. DurableType' /\ ActorType' /\ RootType' /\ RecordInv' /\ UnitInv' /\ ToldInv' /\
     HostInv'
  BY DEF TypeOK, Inv, DurableType, ActorType, RootType, RecordInv, UnitInv, ToldInv,
     HostInv, Unharmed, Clean, Alive, StatusFails, durable, root, ghosts
<1>2. ObserverType'
  BY DEF TypeOK, ObserverType, StatusFails
<1>3. GhostType'
  BY JobsAssumption DEF TypeOK, GhostType, StatusFails, Trouble, ghosts
<1>4. ObserverInv'
  BY DEF ObserverInv, StatusFails
<1>. QED
  BY <1>1, <1>2, <1>3, <1>4 DEF TypeOK, Inv

\* The actor takes an outcome: a stale one changes nothing, an unknown one parks
\* the job, and any other settles it.
LEMMA TellStep ==
  ASSUME TypeOK, Inv, Tell
  PROVE  TypeOK' /\ Inv'
<1>1. ActorType' /\ RootType' /\ UnitInv' /\ ObserverType' /\ ObserverInv'
  BY DEF TypeOK, ActorType, RootType, ObserverType, Inv, UnitInv, Unharmed, ObserverInv,
     Tell, root
<1>2. CASE ~ForThisJob(snap.inv)
  <2>1. UNCHANGED <<durable, stray>>
    BY <1>2 DEF Tell
  <2>2. DurableType' /\ GhostType'
    BY <2>1 DEF TypeOK, DurableType, GhostType, Tell, durable
  <2>3. RecordInv' /\ ToldInv' /\ HostInv'
    BY <2>1 DEF Inv, RecordInv, ToldInv, HostInv, Unharmed, Clean, Alive, Tell, durable, root
  <2>. QED
    BY <1>1, <2>2, <2>3 DEF TypeOK, Inv
<1>3. CASE ForThisJob(snap.inv)
  <2>1. Complete(out) /\ job # NoJob /\ snap.id = job.id /\ pc = "tell" /\ actor = "idle"
    BY <1>3 DEF Tell, ForThisJob
  <2>2. /\ job.op \in Ops /\ out \in {"ok", "err", "unknown"}
        /\ job.op \in Nat /\ job.op # 0 /\ job.id \in Nat
    BY <2>1, RecordedOp DEF TypeOK, ObserverType, DurableType, PendingJob, Outcomes, Inv,
       ObserverInv, Ops
  <2>3. job.id # 0 => /\ job.id = job.op /\ unit[job.op] = "gone"
                      /\ out = "ok" => ended[job.op] = "good"
                      /\ out = "err" /\ Unharmed(job.op) => ended[job.op] = "bad"
    BY <2>1 DEF Inv, RecordInv, ObserverInv
  <2>4. job.id = 0 => out # "ok" /\ reg = job.prev
    BY <2>1 DEF Inv, RecordInv, ObserverInv
  <2>5. \A n \in Ops : results'[n] = IF n = job.id THEN IF out = "unknown" THEN "inv" ELSE out
                                     ELSE results[n]
    BY <2>1 DEF Complete
  <2>6. results' \in [Ops -> {"none", "ok", "err", "inv"}]
    BY <2>1, <2>2 DEF TypeOK, DurableType, Complete
  <2>7. reg' = (IF out = "err" THEN job.prev ELSE reg) /\ reg' \in 0 .. MaxOps
    BY <2>1 DEF TypeOK, DurableType, PendingJob, Complete
  <2>8. UNCHANGED <<up, actor, ops, unit, stop, file, host, ended, waived, harmed, troubles>>
    BY DEF Tell, root
  <2>9. CASE out = "unknown"
    <3>1. /\ job' = [job EXCEPT !.inv = TRUE] /\ stray' = stray /\ reg' = reg
      BY <2>1, <2>7, <2>9 DEF Complete
    <3>2. /\ job' \in PendingJob /\ job'.id = job.id /\ job'.op = job.op /\ job'.prev = job.prev
          /\ job' # NoJob
      BY <2>2, <3>1 DEF TypeOK, DurableType, PendingJob, NoJob
    <3>3. DurableType' /\ GhostType'
      BY <2>6, <2>7, <2>8, <3>1, <3>2 DEF TypeOK, DurableType, GhostType
    <3>4. RecordInv'
      BY <2>1, <2>8, <3>1, <3>2 DEF Inv, RecordInv
    <3>5. ToldInv'
      <4>1. \A n \in Ops : n = job.id => n = job.op /\ unit[n] = "gone"
        BY <2>3 DEF Ops
      <4>. QED
        BY <2>5, <2>8, <2>9, <3>2, <4>1 DEF Inv, ToldInv, Unharmed
    <3>6. HostInv'
      BY <2>1, <2>8, <3>1, <3>2 DEF Inv, HostInv, Clean, Alive
    <3>. QED
      BY <1>1, <3>3, <3>4, <3>5, <3>6 DEF TypeOK, Inv
  <2>10. CASE out # "unknown"
    <3>1. job' = NoJob /\ Dropped
      BY <2>1, <2>10 DEF Complete
    <3>2. NoJob \in PendingJob /\ NoJob.id = 0 /\ NoJob.op = 0
      BY JobsAssumption DEF NoJob, PendingJob
    <3>3. stray' = stray \/ stray' = stray \cup {job.op}
      BY <3>1 DEF Dropped
    <3>4. DurableType' /\ GhostType'
      BY <2>2, <2>6, <2>7, <2>8, <3>1, <3>2, <3>3 DEF TypeOK, DurableType, GhostType
    <3>5. RecordInv'
      BY <2>1, <2>8, <3>1, <3>2 DEF RecordInv
    <3>6. ToldInv'
      <4>1. \A n \in Ops : job'.op # n
        BY <3>1, <3>2 DEF Ops
      <4>2. \A n \in Ops : n = job.id => n = job.op /\ job.id # 0
        BY <2>3 DEF Ops
      <4>. QED
        BY <2>2, <2>3, <2>5, <2>8, <2>10, <4>1, <4>2 DEF Inv, ToldInv, Unharmed
    <3>7. HostInv'
      <4>1. SUFFICES ASSUME Clean'
                     PROVE  /\ \A n \in Ops : ~Alive(n)
                            /\ host.ver = reg' \/ host.broken
        BY <2>8, <3>1, <3>2 DEF HostInv, Alive, Ops
      <4>2. Clean /\ stray' = {}
        BY <2>8, <3>3, <4>1 DEF Clean
      <4>3. job.id = 0 => unit[job.op] = "none"
        BY <3>1, <4>2 DEF Dropped
      <4>4. ~Alive(job.op)
        BY <2>3, <4>3 DEF Alive, Active
      <4>5. \A n \in Ops : ~Alive(n)
        BY <4>2, <4>4 DEF Inv, HostInv
      <4>6. CASE job.id = 0
        BY <2>1, <2>2, <2>4, <2>7, <2>10, <4>2, <4>3, <4>5, <4>6 DEF Inv, HostInv
      <4>7. CASE job.id # 0
        <5>1. Unharmed(job.op)
          BY <4>2 DEF Clean, Unharmed
        <5>2. reg = job.op
          BY <2>3, <4>7 DEF Inv, RecordInv
        <5>. QED
          BY <2>1, <2>2, <2>3, <2>7, <2>10, <4>2, <4>5, <4>7, <5>1, <5>2 DEF Inv, HostInv
      <4>. QED
        BY <4>6, <4>7
    <3>. QED
      BY <1>1, <3>4, <3>5, <3>6, <3>7 DEF TypeOK, Inv
  <2>. QED
    BY <2>9, <2>10
<1>. QED
  BY <1>2, <1>3

\* A completion fails.
LEMMA TellFailsStep ==
  ASSUME TypeOK, Inv, TellFails
  PROVE  TypeOK' /\ Inv'
<1>1. DurableType' /\ ActorType' /\ RootType' /\ RecordInv' /\ UnitInv' /\ ToldInv' /\
     HostInv'
  BY DEF TypeOK, Inv, DurableType, ActorType, RootType, RecordInv, UnitInv, ToldInv,
     HostInv, Unharmed, Clean, Alive, TellFails, durable, root, ghosts
<1>2. ObserverType'
  BY DEF TypeOK, ObserverType, TellFails
<1>3. GhostType'
  BY JobsAssumption DEF TypeOK, GhostType, TellFails, Trouble, ghosts
<1>4. ObserverInv'
  BY DEF ObserverInv, TellFails
<1>. QED
  BY <1>1, <1>2, <1>3, <1>4 DEF TypeOK, Inv

\* A late request is served or lost.
LEMMA ServeStep ==
  ASSUME TypeOK, Inv, NEW n \in Ops, Serve(n)
  PROVE  TypeOK' /\ Inv'
<1>1. DurableType' /\ ActorType' /\ ObserverType' /\ GhostType'
  BY DEF TypeOK, DurableType, ActorType, ObserverType, GhostType, Serve, durable,
     observer, ghosts
<1>2. RootType'
  BY DEF TypeOK, RootType, UnitStates, Active, Serve
<1>3. RecordInv'
  BY DEF Inv, RecordInv, Began, Active, Serve, durable
<1>4. UnitInv'
  BY DEF Inv, UnitInv, Unharmed, Serve, ghosts
<1>5. ObserverInv'
  BY DEF Inv, ObserverInv, Unharmed, Began, Active, Serve, observer, ghosts
<1>6. ToldInv'
  BY DEF Inv, ToldInv, Unharmed, Serve, durable, ghosts
<1>7. HostInv'
  BY DEF Inv, HostInv, Clean, Alive, Serve, durable, ghosts
<1>. QED
  BY <1>1, <1>2, <1>3, <1>4, <1>5, <1>6, <1>7 DEF TypeOK, Inv

\* A unit begins its work or refuses it.
LEMMA EnterStep ==
  ASSUME TypeOK, Inv, NEW n \in Ops, Enter(n)
  PROVE  TypeOK' /\ Inv'
<1>1. DurableType' /\ ActorType' /\ ObserverType' /\ GhostType'
  BY DEF TypeOK, DurableType, ActorType, ObserverType, GhostType, Enter, durable,
     observer, ghosts
<1>2. RootType'
  <2>1. n \in 0 .. MaxOps /\ host.ver \in 0 .. MaxOps
    BY DEF TypeOK, RootType, Ops
  <2>2. host' = host \/ host' = [ver |-> n, old |-> host.ver, broken |-> TRUE]
    BY DEF Enter
  <2>3. host' \in [ver : 0 .. MaxOps, old : 0 .. MaxOps, broken : BOOLEAN]
    <3>1. [ver |-> n, old |-> host.ver, broken |-> TRUE]
            \in [ver : 0 .. MaxOps, old : 0 .. MaxOps, broken : BOOLEAN]
      BY <2>1
    <3>. QED
      BY <2>2, <3>1, Zenon DEF TypeOK, RootType
  <2>4. unit' \in [Ops -> UnitStates] /\ ended' \in [Ops -> {"none", "good", "bad"}]
    BY DEF TypeOK, RootType, UnitStates, Active, Enter
  <2>. QED
    BY <2>3, <2>4 DEF TypeOK, RootType, Enter
<1>3. RecordInv'
  BY JobsAssumption DEF Inv, TypeOK, DurableType, ActorType, RootType, Ops,
     RecordInv, Began, Active, Enter, durable
<1>4. UnitInv'
  <2>1. unit[n] = "waiting" /\ \A m \in Ops : Unharmed(m)' = Unharmed(m)
    BY DEF Unharmed, Enter, ghosts
  <2>2. ended[n] = "none" /\ file[n] = "none" /\ n <= ops
    BY <2>1 DEF TypeOK, ActorType, RootType, Inv, UnitInv, Ops
  <2>3. \A m \in Ops \ {n} : unit'[m] = unit[m] /\ ended'[m] = ended[m]
    BY DEF TypeOK, RootType, Enter
  <2>4. \/ unit'[n] = "bad" /\ ended'[n] = "bad"
        \/ unit'[n] = "inside" /\ ended'[n] = "none"
    BY <2>2 DEF TypeOK, RootType, Enter
  <2>. QED
    BY <2>1, <2>2, <2>3, <2>4 DEF TypeOK, ActorType, Ops, Inv, UnitInv, Enter
<1>5. ObserverInv'
  BY JobsAssumption DEF Inv, TypeOK, RootType, ObserverType, Ops, PendingJob,
     ObserverInv, Unharmed, Began, Active, Enter, observer, ghosts
<1>6. ToldInv'
  BY JobsAssumption DEF Inv, TypeOK, RootType, ToldInv, UnitInv, Unharmed, Enter,
     durable, ghosts
<1>7. HostInv'
  BY JobsAssumption DEF Inv, TypeOK, RootType, HostInv, Clean, Alive, Active, Enter,
     durable, ghosts
<1>. QED
  BY <1>1, <1>2, <1>3, <1>4, <1>5, <1>6, <1>7 DEF TypeOK, Inv

\* A unit ends its work.
LEMMA LeaveStep ==
  ASSUME TypeOK, Inv, NEW n \in Ops, Leave(n)
  PROVE  TypeOK' /\ Inv'
<1>1. DurableType' /\ ActorType' /\ ObserverType' /\ GhostType'
  BY DEF TypeOK, DurableType, ActorType, ObserverType, GhostType, Leave, durable,
     observer, ghosts
<1>2. RootType'
  BY JobsAssumption DEF TypeOK, RootType, Ops, UnitStates, Active, Leave
<1>3. RecordInv'
  BY DEF Inv, RecordInv, Began, Active, Leave, durable
<1>4. UnitInv'
  BY DEF Inv, TypeOK, RootType, UnitInv, Unharmed, Leave, ghosts
<1>5. ObserverInv'
  BY DEF Inv, ObserverInv, Unharmed, Began, Active, Leave, observer, ghosts
<1>6. ToldInv'
  BY DEF Inv, ToldInv, Unharmed, Leave, durable, ghosts
<1>7. HostInv'
  BY DEF Inv, TypeOK, RootType, Ops, NoJob, HostInv, Clean, Alive, Active, Leave,
     durable, ghosts
<1>. QED
  BY <1>1, <1>2, <1>3, <1>4, <1>5, <1>6, <1>7 DEF TypeOK, Inv

\* A unit stores its result.
LEMMA ReportStep ==
  ASSUME TypeOK, Inv, NEW n \in Ops, Report(n)
  PROVE  TypeOK' /\ Inv'
<1>1. DurableType' /\ ActorType' /\ ObserverType' /\ GhostType'
  BY DEF TypeOK, DurableType, ActorType, ObserverType, GhostType, Report, durable,
     observer, ghosts
<1>2. RootType'
  BY DEF TypeOK, RootType, UnitStates, Report
<1>3. RecordInv'
  BY DEF Inv, RecordInv, Began, Report, durable
<1>4. UnitInv'
  BY DEF Inv, TypeOK, RootType, UnitInv, Unharmed, Report, ghosts
<1>5. ObserverInv'
  BY DEF Inv, ObserverInv, Unharmed, Began, Report, observer, ghosts
<1>6. ToldInv'
  BY DEF Inv, ToldInv, Unharmed, Report, durable, ghosts
<1>7. HostInv'
  BY DEF Inv, TypeOK, RootType, UnitStates, HostInv, Clean, Alive, Report, durable,
     ghosts
<1>. QED
  BY <1>1, <1>2, <1>3, <1>4, <1>5, <1>6, <1>7 DEF TypeOK, Inv

\* A unit is stopped or dies.
LEMMA KilledStep ==
  ASSUME TypeOK, Inv, NEW n \in Ops, Killed(n)
  PROVE  TypeOK' /\ Inv'
<1>1. DurableType' /\ ActorType' /\ ObserverType'
  BY DEF TypeOK, DurableType, ActorType, ObserverType, Killed, durable, observer
<1>2. RootType'
  BY DEF TypeOK, RootType, UnitStates, Killed
<1>3. GhostType'
  <2>1. troubles' \in 0 .. MaxTroubles
    BY JobsAssumption DEF TypeOK, GhostType, Killed, Trouble, NoTrouble
  <2>2. harmed' \in BOOLEAN /\ stray' = stray /\ waived' = waived
    BY Zenon DEF TypeOK, GhostType, Killed
  <2>. QED
    BY <2>1, <2>2 DEF TypeOK, GhostType
<1>4. RecordInv'
  BY DEF Inv, RecordInv, Began, Active, Killed, durable
<1>5. UnitInv'
  BY DEF Inv, UnitInv, Unharmed, Active, Killed
<1>6. ObserverInv'
  BY DEF Inv, ObserverInv, Unharmed, Began, Killed, observer
<1>7. ToldInv'
  BY DEF Inv, ToldInv, Unharmed, Killed, durable
<1>8. HostInv'
  BY DEF HostInv, Clean, Killed
<1>. QED
  BY <1>1, <1>2, <1>3, <1>4, <1>5, <1>6, <1>7, <1>8 DEF TypeOK, Inv

\* The control process dies.
LEMMA CrashStep ==
  ASSUME TypeOK, Inv, Crash
  PROVE  TypeOK' /\ Inv'
<1>1. DurableType' /\ RootType' /\ UnitInv' /\ ToldInv' /\ HostInv'
  BY DEF TypeOK, Inv, DurableType, RootType, UnitInv, ToldInv, HostInv, Unharmed,
     Clean, Alive, Crash, durable, root, ghosts
<1>2. ActorType'
  BY DEF TypeOK, ActorType, Crash, Forget
<1>3. ObserverType'
  BY JobsAssumption DEF ObserverType, PendingJob, Outcomes, NoJob, Crash, Forget
<1>4. GhostType'
  BY JobsAssumption DEF TypeOK, GhostType, Crash, Trouble, ghosts
<1>5. RecordInv'
  BY DEF Inv, RecordInv, Crash, Forget, durable, root
<1>6. ObserverInv'
  BY DEF ObserverInv, Crash, Forget
<1>. QED
  BY <1>1, <1>2, <1>3, <1>4, <1>5, <1>6 DEF TypeOK, Inv

\* The machine reboots.
LEMMA RebootStep ==
  ASSUME TypeOK, Inv, Reboot
  PROVE  TypeOK' /\ Inv'
<1>1. DurableType'
  BY DEF TypeOK, DurableType, Reboot, durable
<1>2. ActorType'
  BY DEF TypeOK, ActorType, Reboot, Forget
<1>3. RootType'
  BY DEF TypeOK, RootType, UnitStates, Reboot
<1>4. ObserverType'
  BY JobsAssumption DEF ObserverType, PendingJob, Outcomes, NoJob, Reboot, Forget
<1>5. GhostType'
  BY JobsAssumption DEF TypeOK, GhostType, Reboot, Trouble
<1>6. RecordInv'
  BY DEF Inv, TypeOK, DurableType, Ops, RecordInv, Began, Reboot, Forget, durable
<1>7. UnitInv'
  BY DEF Inv, UnitInv, Unharmed, Reboot
<1>8. ObserverInv'
  BY DEF ObserverInv, Reboot, Forget
<1>9. ToldInv'
  BY DEF Inv, ToldInv, Unharmed, Reboot, durable
<1>10. HostInv'
  BY DEF HostInv, Clean, Reboot
<1>. QED
  BY <1>1, <1>2, <1>3, <1>4, <1>5, <1>6, <1>7, <1>8, <1>9, <1>10 DEF TypeOK, Inv

\* The control process is restarted.
LEMMA RestartStep ==
  ASSUME TypeOK, Inv, Restart
  PROVE  TypeOK' /\ Inv'
<1>1. DurableType' /\ RootType' /\ ObserverType' /\ GhostType' /\ RecordInv' /\ UnitInv'
     /\ ObserverInv' /\ ToldInv' /\ HostInv'
  BY DEF TypeOK, Inv, DurableType, RootType, ObserverType, GhostType, RecordInv,
     UnitInv, ObserverInv, ToldInv, HostInv, Unharmed, Clean, Alive, Restart,
     durable, root, observer, ghosts
<1>2. ActorType'
  BY DEF TypeOK, ActorType, Restart
<1>. QED
  BY <1>1, <1>2 DEF TypeOK, Inv
\* The invariant with its types is inductive.
LEMMA InvStep ==
  ASSUME TypeOK, Inv, [Next]_vars
  PROVE  TypeOK' /\ Inv'
<1>1. CASE ActorNext
  BY <1>1, SubmitStep, RefusedStep, RequestLateStep, RequestAnsweredStep, AcceptStep,
     AcceptFailsStep, CancelStep DEF ActorNext
<1>2. CASE ObserverNext
  BY <1>2, LookStep, StatusFileStep, StatusUnitStep, StatusFailsStep, TellStep, TellFailsStep
     DEF ObserverNext
<1>3. CASE UnitNext
  BY <1>3, ServeStep, EnterStep, LeaveStep, ReportStep, KilledStep DEF UnitNext
<1>4. CASE Crash \/ Reboot \/ Restart
  BY <1>4, CrashStep, RebootStep, RestartStep
<1>5. CASE UNCHANGED vars
  <2>1. TypeOK'
    BY <1>5 DEF TypeOK, DurableType, ActorType, RootType, ObserverType, GhostType, vars, durable,
       root, observer, ghosts
  <2>2. RecordInv' /\ UnitInv' /\ ObserverInv' /\ ToldInv' /\ HostInv'
    BY <1>5 DEF Inv, RecordInv, UnitInv, ObserverInv, ToldInv, HostInv, Unharmed, Clean, Alive,
       vars, durable, root, observer, ghosts
  <2>. QED
    BY <2>1, <2>2 DEF Inv
<1>. QED
  BY <1>1, <1>2, <1>3, <1>4, <1>5 DEF Next

\* It holds before the first command.
LEMMA InvInit ==
  ASSUME Init
  PROVE  TypeOK /\ Inv
<1>1. NoJob \in PendingJob /\ NoJob.id = 0 /\ NoJob.op = 0
  BY JobsAssumption DEF NoJob, PendingJob
<1>2. TypeOK
  <2>1. DurableType /\ ActorType /\ ObserverType
    BY <1>1, JobsAssumption DEF Init, DurableType, ActorType, ObserverType, Outcomes
  <2>2. GhostType
    <3>1. troubles \in 0 .. MaxTroubles
      BY JobsAssumption DEF Init
    <3>. QED
      BY <3>1 DEF Init, GhostType
  <2>3. host \in [ver : 0 .. MaxOps, old : 0 .. MaxOps, broken : BOOLEAN]
    <3>1. 0 \in 0 .. MaxOps
      BY JobsAssumption
    <3>. QED
      BY <3>1 DEF Init
  <2>4. RootType
    BY <2>3 DEF Init, RootType, UnitStates
  <2>. QED
    BY <2>1, <2>2, <2>4 DEF TypeOK
<1>3. RecordInv /\ UnitInv /\ ObserverInv /\ ToldInv /\ HostInv
  BY <1>1 DEF Init, RecordInv, UnitInv, ObserverInv, ToldInv, HostInv, Clean, Alive, Active
<1>. QED
  BY <1>2, <1>3 DEF Inv

\* The invariant Inv and the types hold of every behaviour, for any number of
\* operations, polls and troubles.
THEOREM InvHolds == Spec => [](TypeOK /\ Inv)
<1>1. Init => TypeOK /\ Inv
  BY InvInit
<1>2. TypeOK /\ Inv /\ [Next]_vars => TypeOK' /\ Inv'
  BY InvStep
<1>. QED
  BY <1>1, <1>2, PTL DEF Spec

\* Every variable keeps its type; that the ghosts hold operations needs the
\* invariant (a record that is dropped or cancelled is of an operation).
THEOREM TypeCorrect == Spec => []TypeOK
BY InvHolds, PTL

\* Clients are told what the unit found (domains/plugins/jobs.rs `outcome`).
THEOREM TruthfulResultHolds == Spec => []TruthfulResult
<1>1. TypeOK /\ Inv => TruthfulResult
  BY DEF Inv, ToldInv, Unharmed, TruthfulResult
<1>. QED
  BY <1>1, InvHolds, PTL

\* At rest the accepted intent is what is on the host (`completion`, privd's
\* `install`), but for the exceptions the property names.
THEOREM IntentMatchesHostHolds == Spec => []IntentMatchesHost
<1>1. TypeOK /\ Inv => IntentMatchesHost
  BY DEF Inv, HostInv, Clean, Quiet, IntentMatchesHost
<1>. QED
  BY <1>1, InvHolds, PTL

\* A named job is recorded until its unit has ended (`observe_with`): only a
\* completion removes it, and what it completes is gone.
THEOREM RecordOutlivesUnitHolds == Spec => RecordOutlivesUnit
<1>1. TypeOK /\ Inv /\ [Next]_vars => (job.id # 0 /\ job'.op # job.op => unit[job.id] = "gone")
  <2>1. SUFFICES ASSUME TypeOK, Inv, [Next]_vars, job.id # 0, job'.op # job.op
                 PROVE  unit[job.id] = "gone"
    OBVIOUS
  <2>2. job # NoJob /\ actor = "idle"
    BY <2>1 DEF Inv, RecordInv, NoJob
  <2>3. Tell
    <3>1. job' # job
      BY <2>1
    <3>2. ~Submit /\ ~Refused /\ ~AcceptFails /\ ~Accept
      BY <2>2 DEF Submit, Free, Refused, AcceptFails, Accept
    <3>3. ~Cancel
      BY <2>1 DEF Cancel, TypeOK, DurableType, PendingJob
    <3>4. ~Request(TRUE) /\ ~Request(FALSE) /\ ~Look /\ ~StatusFile /\ ~StatusUnit
          /\ ~StatusFails /\ ~TellFails
      BY <3>1 DEF Request, Look, StatusFile, StatusUnit, StatusFails, TellFails, durable
    <3>5. ~UnitNext
      BY <3>1 DEF UnitNext, Serve, Enter, Leave, Report, Killed, durable
    <3>6. ~Crash /\ ~Reboot /\ ~Restart /\ ~UNCHANGED vars
      BY <3>1 DEF Crash, Reboot, Restart, vars, durable
    <3>. QED
      BY <2>1, <3>2, <3>3, <3>4, <3>5, <3>6 DEF Next, ActorNext, ObserverNext
  <2>4. snap.id = job.id /\ pc = "tell"
    BY <2>1, <2>3 DEF Tell, ForThisJob, durable
  <2>. QED
    BY <2>1, <2>4 DEF Inv, ObserverInv
<1>. QED
  BY <1>1, InvHolds, PTL DEF Spec, RecordOutlivesUnit

\* An outcome that was told is final (`completion`): the job it would be told of
\* again is not recorded any more.
THEOREM SettledOnceHolds == Spec => SettledOnce
<1>1. TypeOK /\ Inv /\ [Next]_vars
        => \A n \in Ops : results[n] \in {"ok", "err"} => results'[n] = results[n]
  <2>1. SUFFICES ASSUME TypeOK, Inv, [Next]_vars, NEW n \in Ops, results[n] \in {"ok", "err"}
                 PROVE  results'[n] = results[n]
    OBVIOUS
  <2>2. n # job.id
    BY <2>1 DEF Inv, ToldInv, RecordInv, Ops
  <2>3. CASE Tell
    BY <2>1, <2>2, <2>3 DEF Tell, Complete, durable
  <2>4. CASE ActorNext
    BY <2>4 DEF ActorNext, Submit, Refused, Request, Accept, AcceptFails, Cancel, durable
  <2>5. CASE Look \/ StatusFile \/ StatusUnit \/ StatusFails \/ TellFails
    BY <2>5 DEF Look, StatusFile, StatusUnit, StatusFails, TellFails, durable
  <2>6. CASE UnitNext
    BY <2>6 DEF UnitNext, Serve, Enter, Leave, Report, Killed, durable
  <2>7. CASE Crash \/ Reboot \/ Restart \/ UNCHANGED vars
    BY <2>7 DEF Crash, Reboot, Restart, vars, durable
  <2>. QED
    BY <2>1, <2>3, <2>4, <2>5, <2>6, <2>7 DEF Next, ObserverNext
<1>. QED
  BY <1>1, InvHolds, PTL DEF Spec, SettledOnce

\* What clients are told is what happened, and the accepted intent is what is on
\* the host (domains/plugins/jobs.rs `outcome`, `completion`).
THEOREM ResultsAreRealHolds == Spec => []ResultsAreReal
<1>1. TruthfulResult /\ IntentMatchesHost => ResultsAreReal
  BY DEF ResultsAreReal
<1>. QED
  BY <1>1, TruthfulResultHolds, IntentMatchesHostHolds, PTL

\* A job is settled once, and not before its unit has ended (`observe_with`).
THEOREM SettledForGoodHolds == Spec => SettledForGood
BY RecordOutlivesUnitHolds, SettledOnceHolds DEF SettledForGood

-------------------------------------------------------------------------------
(* The plugin runtime.                                                       *)

\* The runtime by itself, without what the scheduler owes it.
PrSafe == PrInit /\ [][PrNext]_prVars

-------------------------------------------------------------------------------
(* The inductive invariant.                                                    *)

PrDocs == [rev : Nat, enabled : BOOLEAN, version : PrVersions, job : BOOLEAN,
           seen : PrVersions, pend : BOOLEAN, failed : BOOLEAN]
PrLoops == [at : {"look", "stop", "remove", "halt", "spawn", "wait"}, failed : BOOLEAN,
            events : BOOLEAN, lagged : BOOLEAN, holds : BOOLEAN, up : BOOLEAN,
            saw : {"no", "run", "hook"}, version : PrVersions]
PrTasks == [at : {"none", "gate", "hook", "await", "check", "open", "accept", "register",
                  "start", "fail", "ended", "broke"},
            pend : BOOLEAN, version : PrVersions, rev : PrRevs]
PrProcs == [up : BOOLEAN, version : PrVersions, view : PrRevs,
            own : {"no", "asked", "stray"}]
PrCmds == [at : {"none", "call", "commit", "resync", "resyncing"}, expects : PrRevs, base : PrRevs]

PrConns == {c \in [open : BOOLEAN, version : PrVersions, alive : BOOLEAN, calls : Seq(PrCalls)] :
                Len(c.calls) <= PrQueue}
PrHooks == [granted : Nat, run : Nat]
PrLefts == [changes : PrRevs, faults : 0 .. PrFaults]

PrTypes ==
    /\ pDoc \in PrDocs /\ pLoop \in PrLoops /\ pTask \in PrTasks /\ pConn \in PrConns
    /\ pProc \in PrProcs /\ pCmd \in PrCmds /\ pHooks \in PrHooks /\ pLeft \in PrLefts

\* A revision was paid for, by the change itself or by the command that proposed it.
BudgetInv ==
    pDoc.rev + pLeft.changes + (IF pCmd.at \in {"call", "commit"} THEN 1 ELSE 0) <= PrChanges

\* A hook that was granted is pending, or used up and about to run, or has run.
HookInv ==
    /\ pHooks.run + (IF pDoc.pend THEN 1 ELSE 0) + (IF pTask.at = "hook" THEN 1 ELSE 0)
            <= pHooks.granted
    /\ ~pDoc.job => pDoc.seen = pDoc.version
    /\ pTask.at = "gate" /\ pTask.pend => pDoc.pend
    /\ pLoop.saw # "no" => pTask.at = "none"
    /\ pLoop.saw = "hook" => pDoc.pend

PrInv == PrTypes /\ BudgetInv /\ HookInv

-------------------------------------------------------------------------------
(* Values that the steps assign.                                               *)

LEMMA Blank ==
    /\ NoTask \in PrTasks /\ NoSession \in PrConns /\ NoProcess \in PrProcs /\ NoCommand \in PrCmds
    /\ NoTask.at = "none" /\ NoCommand.at = "none"
<1>1. 0 \in PrRevs
  BY PrAssumption DEF PrRevs
<1>2. NoSession \in PrConns
  <2>1. <<>> \in Seq(PrCalls) /\ Len(<<>>) <= PrQueue
    BY PrAssumption
  <2> QED
    BY <2>1 DEF NoSession, PrConns, PrVersions
<1> QED
  BY <1>1, <1>2 DEF NoTask, NoProcess, NoCommand, PrTasks, PrProcs, PrCmds, PrVersions

LEMMA SpentTyped ==
    ASSUME PrTypes, PrChange \/ PrFault
    PROVE  /\ pLeft' \in PrLefts
           /\ pLeft'.changes = IF PrChange THEN pLeft.changes - 1 ELSE pLeft.changes
BY PrAssumption DEF PrTypes, PrLefts, PrChange, PrFault, PrRevs

LEMMA EnqueuedTyped ==
    ASSUME PrTypes, NEW call \in PrCalls
    PROVE  Enqueued(call) \in PrConns
<1>1. /\ pConn \in [open : BOOLEAN, version : PrVersions, alive : BOOLEAN, calls : Seq(PrCalls)]
      /\ Len(pConn.calls) <= PrQueue /\ pConn.calls \in Seq(PrCalls) /\ Len(pConn.calls) \in Nat
  BY DEF PrTypes, PrConns
<1>2. /\ Append(pConn.calls, call) \in Seq(PrCalls)
      /\ Len(Append(pConn.calls, call)) = Len(pConn.calls) + 1
  BY <1>1
<1>3. <<>> \in Seq(PrCalls) /\ Len(<<>>) <= PrQueue
  BY PrAssumption
<1>4. CASE ~pConn.alive
  BY <1>1, <1>4 DEF Enqueued, PrTypes
<1>5. CASE pConn.alive /\ Len(pConn.calls) < PrQueue
  <2>1. Len(Append(pConn.calls, call)) <= PrQueue
    BY <1>1, <1>2, <1>5, PrAssumption
  <2> QED
    BY <1>1, <1>2, <1>5, <2>1 DEF Enqueued, PrConns
<1>6. CASE pConn.alive /\ ~(Len(pConn.calls) < PrQueue)
  BY <1>1, <1>3, <1>6 DEF Enqueued, PrConns
<1> QED
  BY <1>4, <1>5, <1>6

LEMMA AbandonedTyped == ASSUME PrTypes PROVE Abandoned(pConn) \in PrConns
<1>1. <<>> \in Seq(PrCalls) /\ Len(<<>>) <= PrQueue
  BY PrAssumption
<1> QED
  BY <1>1 DEF Abandoned, PrTypes, PrConns

LEMMA RevTyped == ASSUME PrInv PROVE pDoc.rev \in PrRevs
BY PrAssumption DEF PrInv, PrTypes, PrDocs, PrLefts, PrRevs, BudgetInv

LEMMA PrInvAtFirst == PrInit => PrInv
<1> SUFFICES ASSUME PrInit PROVE PrInv
  OBVIOUS
<1>1. /\ pTask = NoTask /\ pConn = NoSession /\ pProc = NoProcess /\ pCmd = NoCommand
      /\ pHooks = [granted |-> 0, run |-> 0] /\ pLeft = [changes |-> PrChanges, faults |-> PrFaults]
  BY DEF PrInit
<1>2. pDoc \in PrDocs /\ pDoc.rev = 0 /\ pDoc.seen = pDoc.version /\ ~pDoc.pend /\ ~pDoc.job
  <2>1. pDoc \in [rev : {0}, enabled : BOOLEAN, version : {1}, job : {FALSE}, seen : {1}, pend : {FALSE},
                 failed : {FALSE}]
    BY DEF PrInit
  <2>2. PICK e \in BOOLEAN, f \in BOOLEAN :
           f = FALSE /\ pDoc = [rev |-> 0, enabled |-> e, version |-> 1, job |-> f, seen |-> 1, pend |-> f,
                             failed |-> f]
    BY <2>1
  <2>3. pDoc \in PrDocs
    <3>1. 1 \in PrVersions
      BY DEF PrVersions
    <3> QED
      BY <2>2, <3>1 DEF PrDocs
  <2> QED
    BY <2>2, <2>3
<1>3. pLoop \in PrLoops
  BY DEF PrInit, PrLoops, PrVersions
<1>4. pHooks \in PrHooks /\ pLeft \in PrLefts
  BY <1>1, PrAssumption DEF PrHooks, PrLefts, PrRevs
<1>5. PrTypes
  BY <1>1, <1>2, <1>3, <1>4, Blank DEF PrTypes
<1>6. BudgetInv /\ HookInv
  BY <1>1, <1>2, PrAssumption, Blank DEF PrInit, BudgetInv, HookInv
<1> QED
  BY <1>5, <1>6 DEF PrInv

LEMMA ChangeStateKeeps == ASSUME PrInv, ChangeState PROVE PrInv'
<1>1. PrTypes /\ UNCHANGED <<pTask, pConn, pProc, pCmd, pHooks>>
  BY DEF ChangeState, PrInv
<1>2. pDoc' \in PrDocs
  BY <1>1 DEF ChangeState, PrTypes, PrDocs
<1>3. pLoop' \in PrLoops
  BY <1>1 DEF ChangeState, PrTypes, PrLoops
<1>4. pLeft' \in PrLefts
  BY <1>1, SpentTyped DEF ChangeState
<1>5. PrTypes'
  BY <1>1, <1>2, <1>3, <1>4 DEF PrTypes
<1>6. BudgetInv'
  BY <1>1 DEF PrInv, ChangeState, PrTypes, PrDocs, PrLefts, PrRevs, PrChange, BudgetInv
<1>7. HookInv'
  BY <1>1 DEF PrInv, PrTypes, PrLoops, PrDocs, ChangeState, HookInv
<1> QED
  BY <1>5, <1>6, <1>7 DEF PrInv

LEMMA SetEnabledKeeps == ASSUME PrInv, SetEnabled PROVE PrInv'
<1>1. PrTypes /\ UNCHANGED <<pTask, pCmd, pHooks>>
  BY DEF SetEnabled, PrInv
<1>2. pDoc' \in PrDocs
  BY <1>1 DEF SetEnabled, PrTypes, PrDocs
<1>3. pLoop' \in PrLoops
  BY <1>1 DEF SetEnabled, PrTypes, PrLoops
<1>4. pConn' \in PrConns
  BY <1>1, Blank DEF SetEnabled, PrTypes, Quiesced
<1>5. pProc' \in PrProcs
  BY <1>1, Blank DEF SetEnabled, PrTypes, Quiesced
<1>6. pLeft' \in PrLefts
  BY <1>1, SpentTyped DEF SetEnabled
<1>7. PrTypes'
  BY <1>1, <1>2, <1>3, <1>4, <1>5, <1>6 DEF PrTypes
<1>8. BudgetInv'
  BY <1>1, PrAssumption DEF PrInv, SetEnabled, PrTypes, PrDocs, PrLefts, PrRevs, PrChange,
     BudgetInv
<1>9. HookInv'
  BY <1>1 DEF PrInv, PrTypes, PrLoops, PrDocs, SetEnabled, HookInv
<1> QED
  BY <1>7, <1>8, <1>9 DEF PrInv

LEMMA InstallKeeps == ASSUME PrInv, Install PROVE PrInv'
<1>1. PrTypes /\ UNCHANGED <<pTask, pCmd, pHooks>>
  BY DEF Install, PrInv
<1>2. pDoc' \in PrDocs
  BY <1>1 DEF Install, PrTypes, PrDocs, PrVersions
<1>3. pLoop' \in PrLoops
  BY <1>1 DEF Install, PrTypes, PrLoops
<1>4. pConn' \in PrConns
  BY <1>1, Blank DEF Install, Quiesced
<1>5. pProc' \in PrProcs
  BY <1>1, Blank DEF Install, Quiesced
<1>6. pLeft' \in PrLefts
  BY <1>1, SpentTyped DEF Install
<1>7. PrTypes'
  BY <1>1, <1>2, <1>3, <1>4, <1>5, <1>6 DEF PrTypes
<1>8. BudgetInv'
  BY <1>1, PrAssumption DEF PrInv, Install, PrTypes, PrDocs, PrLefts, PrRevs, PrChange,
     BudgetInv
<1>9. HookInv'
  BY <1>1 DEF PrInv, PrTypes, PrLoops, PrDocs, Install, HookInv
<1> QED
  BY <1>7, <1>8, <1>9 DEF PrInv

LEMMA JobEndsKeeps == ASSUME PrInv, JobEnds PROVE PrInv'
<1>1. PrTypes /\ UNCHANGED <<pTask, pConn, pProc, pCmd, pLeft>>
  BY DEF JobEnds, PrInv
<1>2. pDoc' \in PrDocs
  BY <1>1 DEF JobEnds, PrTypes, PrDocs
<1>3. pLoop' \in PrLoops
  BY <1>1 DEF JobEnds, PrTypes, PrLoops
<1>4. pHooks' \in PrHooks
  BY <1>1 DEF JobEnds, PrTypes, PrHooks
<1>5. PrTypes'
  BY <1>1, <1>2, <1>3, <1>4 DEF PrTypes
<1>6. BudgetInv'
  BY <1>1 DEF PrInv, JobEnds, BudgetInv
<1>7. HookInv'
  BY <1>1 DEF PrInv, PrTypes, PrLoops, PrDocs, JobEnds, PrTypes, PrHooks, HookInv
<1> QED
  BY <1>5, <1>6, <1>7 DEF PrInv

LEMMA AnswerKeeps == ASSUME PrInv, Answer PROVE PrInv'
<1>1. PrTypes /\ UNCHANGED <<pDoc, pLoop, pTask, pHooks, pLeft>>
  BY DEF Answer, PrInv
<1>2. pConn' \in PrConns
  <2>1. /\ pConn.calls \in Seq(PrCalls) /\ Len(pConn.calls) <= PrQueue /\ pConn.calls # <<>>
        /\ Len(pConn.calls) \in Nat
    BY <1>1 DEF Answer, PrTypes, PrConns
  <2>2. Tail(pConn.calls) \in Seq(PrCalls) /\ Len(Tail(pConn.calls)) <= PrQueue
    BY <2>1, PrAssumption
  <2>3. pConn' = [pConn EXCEPT !.calls = Tail(@)]
    BY DEF Answer
  <2> QED
    BY <1>1, <2>2, <2>3 DEF PrTypes, PrConns
<1>3. pProc' \in PrProcs
  <2>1. pConn.calls \in Seq(PrCalls) /\ pConn.calls # <<>>
    BY <1>1 DEF Answer, PrTypes, PrConns
  <2>2. PICK call : call = Head(pConn.calls)
    OBVIOUS
  <2>3. call \in PrCalls
    BY <2>1, <2>2
  <2>4. pProc' = CASE call.kind = "start" -> [pProc EXCEPT !.view = call.rev, !.own = "no"]
                   [] call = Commanded("caller") -> [pProc EXCEPT !.own = "asked"]
                   [] call = Commanded("nobody") -> [pProc EXCEPT !.own = "stray"]
                   [] OTHER -> pProc
    BY <2>2 DEF Answer
  <2>5. CASE call.kind = "start"
    <3>1. call.rev \in PrRevs
      BY <2>3, <2>5 DEF PrCalls
    <3>2. pProc' = [pProc EXCEPT !.view = call.rev, !.own = "no"]
      BY <2>4, <2>5 DEF Commanded
    <3> QED
      BY <1>1, <3>1, <3>2 DEF PrTypes, PrProcs
  <2>6. CASE call = Commanded("caller")
    <3>1. pProc' = [pProc EXCEPT !.own = "asked"]
      BY <2>4, <2>6 DEF Commanded
    <3> QED
      BY <1>1, <3>1 DEF PrTypes, PrProcs
  <2>7. CASE call = Commanded("nobody")
    <3>1. pProc' = [pProc EXCEPT !.own = "stray"]
      BY <2>4, <2>7 DEF Commanded
    <3> QED
      BY <1>1, <3>1 DEF PrTypes, PrProcs
  <2>8. CASE call.kind # "start" /\ call # Commanded("caller") /\ call # Commanded("nobody")
    <3>1. pProc' = pProc
      BY <2>4, <2>8
    <3> QED
      BY <1>1, <3>1 DEF PrTypes
  <2> QED
    BY <2>5, <2>6, <2>7, <2>8
<1>4. pCmd' \in PrCmds
  <2>1. pProc.view \in PrRevs
    BY <1>1 DEF PrTypes, PrProcs
  <2>2. pCmd' = pCmd \/ pCmd' = [pCmd EXCEPT !.at = "commit", !.base = pProc.view]
    BY DEF Answer
  <2> QED
    BY <1>1, <2>1, <2>2 DEF PrTypes, PrCmds
<1>5. PrTypes'
  BY <1>1, <1>2, <1>3, <1>4 DEF PrTypes
<1>6. BudgetInv'
  BY <1>1 DEF PrInv, Answer, BudgetInv
<1>7. HookInv'
  BY <1>1 DEF PrInv, HookInv
<1> QED
  BY <1>5, <1>6, <1>7 DEF PrInv

LEMMA UnansweredKeeps == ASSUME PrInv, Unanswered PROVE PrInv'
<1>1. PrTypes /\ UNCHANGED <<pDoc, pLoop, pTask, pProc, pCmd, pHooks>>
  BY DEF Unanswered, PrInv
<1>2. pConn' \in PrConns
  BY <1>1, AbandonedTyped DEF Unanswered
<1>3. pLeft' \in PrLefts
  BY <1>1, SpentTyped DEF Unanswered, PrTypes
<1>4. PrTypes'
  BY <1>1, <1>2, <1>3 DEF PrTypes
<1>5. BudgetInv'
  BY <1>1 DEF PrInv, Unanswered, PrTypes, PrLefts, PrFault, BudgetInv
<1>6. HookInv'
  BY <1>1 DEF PrInv, HookInv
<1> QED
  BY <1>4, <1>5, <1>6 DEF PrInv

LEMMA DisconnectedKeeps == ASSUME PrInv, Disconnected PROVE PrInv'
<1>1. PrTypes /\ UNCHANGED <<pDoc, pLoop, pTask, pProc, pCmd, pHooks, pLeft>>
  BY DEF Disconnected, PrInv
<1>2. pConn' \in PrConns
  BY <1>1, AbandonedTyped DEF Disconnected, Abandoned
<1>3. PrTypes'
  BY <1>1, <1>2 DEF PrTypes
<1>4. BudgetInv'
  BY <1>1 DEF PrInv, BudgetInv
<1>5. HookInv'
  BY <1>1 DEF PrInv, HookInv
<1> QED
  BY <1>3, <1>4, <1>5 DEF PrInv

LEMMA ProcessDiesKeeps == ASSUME PrInv, ProcessDies PROVE PrInv'
<1>1. PrTypes /\ UNCHANGED <<pDoc, pLoop, pTask, pConn, pCmd, pHooks>>
  BY DEF ProcessDies, PrInv
<1>2. pProc' \in PrProcs
  BY <1>1, Blank DEF ProcessDies
<1>3. pLeft' \in PrLefts
  BY <1>1, SpentTyped DEF ProcessDies
<1>4. PrTypes'
  BY <1>1, <1>2, <1>3 DEF PrTypes
<1>5. BudgetInv'
  BY <1>1 DEF PrInv, ProcessDies, PrFault, BudgetInv
<1>6. HookInv'
  BY <1>1 DEF PrInv, HookInv
<1> QED
  BY <1>4, <1>5, <1>6 DEF PrInv

LEMMA LoopLooksKeeps == ASSUME PrInv, LoopLooks PROVE PrInv'
<1>1. PrTypes /\ UNCHANGED <<pDoc, pConn, pProc, pCmd, pHooks, pLeft>>
  BY DEF LoopLooks, PrInv
<1>2. pLoop' \in PrLoops
  <2>1. Seen \in {"no", "run", "hook"} /\ pDoc.version \in PrVersions
    BY <1>1 DEF Seen, PrTypes, PrDocs
  <2> QED
    BY <1>1, <2>1 DEF LoopLooks, PrTypes, PrLoops
<1>3. pTask' \in PrTasks
  BY <1>1, Blank DEF LoopLooks, PrTypes
<1>4. PrTypes'
  BY <1>1, <1>2, <1>3 DEF PrTypes
<1>5. BudgetInv'
  BY <1>1 DEF PrInv, BudgetInv
<1>6. HookInv'
  <2>1. pLoop'.saw = Seen
    BY <1>1 DEF LoopLooks, PrTypes, PrLoops
  <2>2. Seen # "no" => pTask'.at = "none" /\ ~pDoc.job
    BY <1>1 DEF LoopLooks, Seen, NoTask
  <2>3. Seen = "hook" => pDoc.pend
    BY <2>2 DEF PrInv, HookInv, Seen, Pending
  <2>4. /\ pHooks.run + (IF pDoc.pend THEN 1 ELSE 0) + (IF pTask'.at = "hook" THEN 1 ELSE 0)
             <= pHooks.granted
        /\ pTask'.at = "gate" /\ pTask'.pend => pDoc.pend
    BY <1>1 DEF PrInv, LoopLooks, NoTask, HookInv
  <2> QED
    BY <1>1, <2>1, <2>2, <2>3, <2>4 DEF PrInv, HookInv
<1> QED
  BY <1>4, <1>5, <1>6 DEF PrInv

LEMMA LoopStopsKeeps == ASSUME PrInv, LoopStops PROVE PrInv'
<1>1. PrTypes /\ UNCHANGED <<pDoc, pTask, pProc, pCmd, pHooks, pLeft>>
  BY DEF LoopStops, PrInv
<1>2. pLoop' \in PrLoops
  BY <1>1 DEF LoopStops, PrTypes, PrLoops
<1>3. pConn' \in PrConns
  BY <1>1, EnqueuedTyped DEF LoopStops, PrCalls
<1>4. PrTypes'
  BY <1>1, <1>2, <1>3 DEF PrTypes
<1>5. BudgetInv'
  BY <1>1 DEF PrInv, BudgetInv
<1>6. HookInv'
  BY <1>1 DEF PrInv, LoopStops, PrTypes, PrLoops, HookInv
<1> QED
  BY <1>4, <1>5, <1>6 DEF PrInv

LEMMA LoopRemovesKeeps == ASSUME PrInv, LoopRemoves PROVE PrInv'
<1>1. PrTypes /\ UNCHANGED <<pDoc, pTask, pProc, pCmd, pHooks>>
  BY DEF LoopRemoves, PrInv
<1>2. pLoop' \in PrLoops
  BY <1>1 DEF LoopRemoves, PrTypes, PrLoops
<1>3. pConn' \in PrConns
  BY <1>1, Blank DEF LoopRemoves
<1>7. pLeft' \in PrLefts
  BY <1>1, SpentTyped DEF LoopRemoves, PrTypes
<1>4. PrTypes'
  BY <1>1, <1>2, <1>3, <1>7 DEF PrTypes
<1>5. BudgetInv'
  BY <1>1 DEF PrInv, LoopRemoves, PrTypes, PrLefts, PrFault, BudgetInv
<1>6. HookInv'
  BY <1>1 DEF PrInv, LoopRemoves, PrTypes, PrLoops, HookInv
<1> QED
  BY <1>4, <1>5, <1>6 DEF PrInv

LEMMA LoopHaltsKeeps == ASSUME PrInv, LoopHalts PROVE PrInv'
<1>1. PrTypes /\ UNCHANGED <<pDoc, pTask, pConn, pCmd, pHooks, pLeft>>
  BY DEF LoopHalts, PrInv
<1>2. pLoop' \in PrLoops
  BY <1>1 DEF LoopHalts, PrTypes, PrLoops
<1>3. pProc' \in PrProcs
  BY <1>1, Blank DEF LoopHalts
<1>4. PrTypes'
  BY <1>1, <1>2, <1>3 DEF PrTypes
<1>5. BudgetInv'
  BY <1>1 DEF PrInv, BudgetInv
<1>6. HookInv'
  BY <1>1 DEF PrInv, LoopHalts, PrTypes, PrLoops, HookInv
<1> QED
  BY <1>4, <1>5, <1>6 DEF PrInv

LEMMA LoopSpawnsKeeps == ASSUME PrInv, LoopSpawns PROVE PrInv'
<1>1. PrTypes /\ UNCHANGED <<pDoc, pConn, pProc, pCmd, pHooks, pLeft>>
  BY DEF LoopSpawns, PrInv
<1>2. pLoop' \in PrLoops
  BY <1>1 DEF LoopSpawns, PrTypes, PrLoops
<1>3. pTask' \in PrTasks
  <2>1. PICK pend \in BOOLEAN : pend = (pLoop.saw = "hook")
    OBVIOUS
  <2>2. pTask' = pTask \/ pTask' = [at |-> "gate", pend |-> pend, version |-> pLoop.version, rev |-> 0]
    BY <2>1 DEF LoopSpawns
  <2>3. pLoop.version \in PrVersions
    BY <1>1 DEF PrTypes, PrLoops
  <2>4. 0 \in PrRevs
    BY PrAssumption DEF PrRevs
  <2> QED
    BY <1>1, <2>2, <2>3, <2>4 DEF PrTypes, PrTasks
<1>4. PrTypes'
  BY <1>1, <1>2, <1>3 DEF PrTypes
<1>5. BudgetInv'
  BY <1>1 DEF PrInv, BudgetInv
<1>6. HookInv'
  BY <1>1 DEF PrInv, PrTypes, PrLoops, LoopSpawns, HookInv, Missing
<1> QED
  BY <1>4, <1>5, <1>6 DEF PrInv

LEMMA LoopHearsKeeps == ASSUME PrInv, LoopHears PROVE PrInv'
<1>1. PrTypes /\ UNCHANGED <<pDoc, pTask, pProc, pCmd, pHooks, pLeft>>
  BY DEF LoopHears, PrInv
<1>2. pLoop' \in PrLoops
  BY <1>1 DEF LoopHears, PrTypes, PrLoops
<1>3. pConn' \in PrConns
  <2>1. [kind |-> "start", rev |-> pDoc.rev, who |-> "sync"] \in PrCalls
    BY RevTyped DEF PrCalls
  <2> QED
    BY <1>1, <2>1, EnqueuedTyped DEF LoopHears, PrTypes
<1>4. PrTypes'
  BY <1>1, <1>2, <1>3 DEF PrTypes
<1>5. BudgetInv'
  BY <1>1 DEF PrInv, BudgetInv
<1>6. HookInv'
  BY <1>1 DEF PrInv, LoopHears, PrTypes, PrLoops, HookInv
<1> QED
  BY <1>4, <1>5, <1>6 DEF PrInv

LEMMA LoopLagsKeeps == ASSUME PrInv, LoopLags PROVE PrInv'
<1>1. PrTypes /\ UNCHANGED <<pDoc, pTask, pConn, pProc, pCmd, pHooks, pLeft>>
  BY DEF LoopLags, PrInv
<1>2. pLoop' \in PrLoops
  <2>1. PICK at : at = AfterEventsLost
    OBVIOUS
  <2>2. at \in {"stop", "look"}
    BY <2>1 DEF AfterEventsLost
  <2>3. pLoop' = [pLoop EXCEPT !.at = at, !.events = FALSE, !.lagged = FALSE]
    BY <2>1 DEF LoopLags
  <2> QED
    BY <1>1, <2>2, <2>3 DEF PrTypes, PrLoops
<1>3. PrTypes'
  BY <1>1, <1>2 DEF PrTypes
<1>4. BudgetInv'
  BY <1>1 DEF PrInv, BudgetInv
<1>5. HookInv'
  BY <1>1 DEF PrInv, LoopLags, PrTypes, PrLoops, HookInv
<1> QED
  BY <1>3, <1>4, <1>5 DEF PrInv

LEMMA LoopWakesKeeps == ASSUME PrInv, LoopWakes PROVE PrInv'
<1>1. PrTypes /\ UNCHANGED <<pDoc, pTask, pConn, pProc, pCmd, pHooks, pLeft>>
  BY DEF LoopWakes, PrInv
<1>2. pLoop' \in PrLoops
  BY <1>1 DEF LoopWakes, PrTypes, PrLoops
<1>3. PrTypes'
  BY <1>1, <1>2 DEF PrTypes
<1>4. BudgetInv'
  BY <1>1 DEF PrInv, BudgetInv
<1>5. HookInv'
  BY <1>1 DEF PrInv, LoopWakes, PrTypes, PrLoops, HookInv
<1> QED
  BY <1>3, <1>4, <1>5 DEF PrInv

LEMMA RetryFallsDueKeeps == ASSUME PrInv, RetryFallsDue PROVE PrInv'
<1>1. PrTypes /\ UNCHANGED <<pDoc, pTask, pConn, pProc, pCmd, pHooks, pLeft>>
  BY DEF RetryFallsDue, PrInv
<1>2. pLoop' \in PrLoops
  BY <1>1 DEF RetryFallsDue, PrTypes, PrLoops
<1>3. PrTypes'
  BY <1>1, <1>2 DEF PrTypes
<1>4. BudgetInv'
  BY <1>1 DEF PrInv, BudgetInv
<1>5. HookInv'
  BY <1>1 DEF PrInv, RetryFallsDue, PrTypes, PrLoops, HookInv
<1> QED
  BY <1>3, <1>4, <1>5 DEF PrInv

LEMMA EventsLostKeeps == ASSUME PrInv, EventsLost PROVE PrInv'
<1>1. PrTypes /\ UNCHANGED <<pDoc, pTask, pConn, pProc, pCmd, pHooks>>
  BY DEF EventsLost, PrInv
<1>2. pLoop' \in PrLoops
  BY <1>1 DEF EventsLost, PrTypes, PrLoops
<1>3. pLeft' \in PrLefts
  BY <1>1, SpentTyped DEF EventsLost
<1>4. PrTypes'
  BY <1>1, <1>2, <1>3 DEF PrTypes
<1>5. BudgetInv'
  BY <1>1 DEF PrInv, EventsLost, PrFault, BudgetInv
<1>6. HookInv'
  BY <1>1 DEF PrInv, EventsLost, PrTypes, PrLoops, HookInv
<1> QED
  BY <1>4, <1>5, <1>6 DEF PrInv

LEMMA TaskGateKeeps == ASSUME PrInv, TaskGate PROVE PrInv'
<1>1. PrTypes /\ UNCHANGED <<pLoop, pConn, pProc, pCmd, pHooks, pLeft>>
  BY DEF TaskGate, PrInv
<1>2. pDoc' \in PrDocs
  BY <1>1 DEF TaskGate, PrTypes, PrDocs, Consumed
<1>3. pTask' \in PrTasks
  BY <1>1 DEF TaskGate, PrTypes, PrTasks, TaskTo
<1>4. PrTypes'
  BY <1>1, <1>2, <1>3 DEF PrTypes
<1>5. BudgetInv'
  BY <1>1 DEF PrInv, TaskGate, PrTypes, PrDocs, BudgetInv, Consumed
<1>6. HookInv'
  <2>1. CASE pDoc' = pDoc
    <3>1. pTask'.at # "hook" /\ pTask'.at # "gate"
      BY <1>1, <2>1 DEF TaskGate, TaskTo, PrTypes, PrTasks, PrInv, HookInv, Consumed, PrDocs
    <3>2. pLoop.saw = "no"
      BY DEF TaskGate, PrInv, HookInv
    <3> QED
      BY <1>1, <2>1, <3>1, <3>2 DEF PrInv, HookInv, PrTypes, PrHooks
  <2>2. CASE pDoc' # pDoc
    <3>1. /\ pTask.at = "gate" /\ pTask.pend /\ ~Superseded /\ ~pDoc.job /\ pDoc' = Consumed(pDoc)
          /\ pTask' = [pTask EXCEPT !.at = "hook"]
      BY <2>2 DEF TaskGate, TaskTo
    <3>2. pTask'.at = "hook"
      BY <1>1, <3>1
    <3>3. ~pDoc'.pend /\ pDoc'.seen = pDoc.version /\ pDoc'.version = pDoc.version
      BY <1>1, <3>1 DEF Consumed
    <3> QED
      BY <1>1, <3>1, <3>2, <3>3 DEF PrInv, HookInv, PrTypes, PrHooks
  <2> QED
    BY <2>1, <2>2
<1> QED
  BY <1>4, <1>5, <1>6 DEF PrInv

LEMMA TaskHookKeeps == ASSUME PrInv, TaskHook PROVE PrInv'
<1>1. PrTypes /\ UNCHANGED <<pLoop, pConn, pProc, pCmd, pLeft>>
  BY DEF TaskHook, PrInv
<1>2. pDoc' \in PrDocs
  BY <1>1 DEF TaskHook, PrTypes, PrDocs
<1>3. pTask' \in PrTasks
  BY <1>1 DEF TaskHook, PrTypes, PrTasks, TaskTo
<1>4. pHooks' \in PrHooks
  BY <1>1 DEF TaskHook, PrTypes, PrHooks
<1>5. PrTypes'
  BY <1>1, <1>2, <1>3, <1>4 DEF PrTypes
<1>6. BudgetInv'
  BY <1>1 DEF PrInv, TaskHook, PrTypes, PrDocs, BudgetInv
<1>7. HookInv'
  BY <1>1 DEF PrInv, TaskHook, PrTypes, PrDocs, PrTasks, PrHooks, HookInv, TaskTo
<1> QED
  BY <1>5, <1>6, <1>7 DEF PrInv

LEMMA TaskAwaitKeeps == ASSUME PrInv, TaskAwait PROVE PrInv'
<1>1. PrTypes /\ UNCHANGED <<pLoop, pConn, pProc, pCmd, pHooks, pLeft>>
  BY DEF TaskAwait, PrInv
<1>2. pDoc' \in PrDocs
  BY <1>1 DEF TaskAwait, PrTypes, PrDocs, Consumed
<1>3. pTask' \in PrTasks
  BY <1>1 DEF TaskAwait, PrTypes, PrTasks, TaskTo
<1>4. PrTypes'
  BY <1>1, <1>2, <1>3 DEF PrTypes
<1>5. BudgetInv'
  BY <1>1 DEF PrInv, TaskAwait, BudgetInv, Consumed
<1>6. HookInv'
  BY <1>1 DEF PrInv, TaskAwait, PrTypes, PrHooks, HookInv, TaskTo, Consumed
<1> QED
  BY <1>4, <1>5, <1>6 DEF PrInv

LEMMA TaskCheckKeeps == ASSUME PrInv, TaskCheck PROVE PrInv'
<1>1. PrTypes /\ UNCHANGED <<pDoc, pLoop, pConn, pProc, pCmd, pHooks, pLeft>>
  BY DEF TaskCheck, PrInv
<1>2. pTask' \in PrTasks
  <2>1. pTask' = [pTask EXCEPT !.at = "ended"] \/ pTask' = [pTask EXCEPT !.at = "open", !.rev = pDoc.rev]
    BY DEF TaskCheck
  <2> QED
    BY <1>1, <2>1, RevTyped DEF PrTypes, PrTasks
<1>3. PrTypes'
  BY <1>1, <1>2 DEF PrTypes
<1>4. BudgetInv'
  BY <1>1 DEF PrInv, BudgetInv
<1>5. HookInv'
  BY <1>1 DEF PrInv, TaskCheck, HookInv
<1> QED
  BY <1>3, <1>4, <1>5 DEF PrInv

LEMMA TaskOpensKeeps == ASSUME PrInv, TaskOpens PROVE PrInv'
<1>1. PrTypes /\ UNCHANGED <<pDoc, pLoop, pConn, pCmd, pHooks, pLeft>>
  BY DEF TaskOpens, PrInv
<1>2. pTask' \in PrTasks
  BY <1>1 DEF TaskOpens, PrTypes, PrTasks, TaskTo
<1>3. pProc' \in PrProcs
  <2>1. pTask.rev \in PrRevs /\ pDoc.version \in PrVersions
    BY <1>1 DEF PrTypes, PrTasks, PrDocs
  <2> QED
    BY <2>1 DEF TaskOpens, PrProcs
<1>4. PrTypes'
  BY <1>1, <1>2, <1>3 DEF PrTypes
<1>5. BudgetInv'
  BY <1>1 DEF PrInv, BudgetInv
<1>6. HookInv'
  BY <1>1 DEF PrInv, TaskOpens, HookInv, TaskTo
<1> QED
  BY <1>4, <1>5, <1>6 DEF PrInv

LEMMA TaskStartRefusedKeeps == ASSUME PrInv, TaskStartRefused PROVE PrInv'
<1>1. PrTypes /\ UNCHANGED <<pDoc, pLoop, pConn, pProc, pCmd, pHooks>>
  BY DEF TaskStartRefused, PrInv
<1>2. pTask' \in PrTasks
  BY <1>1 DEF TaskStartRefused, PrTypes, PrTasks, TaskTo
<1>3. pLeft' \in PrLefts
  BY <1>1, SpentTyped DEF TaskStartRefused
<1>4. PrTypes'
  BY <1>1, <1>2, <1>3 DEF PrTypes
<1>5. BudgetInv'
  BY <1>1 DEF PrInv, TaskStartRefused, PrFault, BudgetInv
<1>6. HookInv'
  BY <1>1 DEF PrInv, TaskStartRefused, HookInv, TaskTo
<1> QED
  BY <1>4, <1>5, <1>6 DEF PrInv

LEMMA TaskAcceptsKeeps == ASSUME PrInv, TaskAccepts PROVE PrInv'
<1>1. PrTypes /\ UNCHANGED <<pDoc, pLoop, pConn, pProc, pCmd, pHooks, pLeft>>
  BY DEF TaskAccepts, PrInv
<1>2. pTask' \in PrTasks
  BY <1>1 DEF TaskAccepts, PrTypes, PrTasks, TaskTo
<1>3. PrTypes'
  BY <1>1, <1>2 DEF PrTypes
<1>4. BudgetInv'
  BY <1>1 DEF PrInv, BudgetInv
<1>5. HookInv'
  BY <1>1 DEF PrInv, TaskAccepts, PrTypes, PrTasks, HookInv, TaskTo
<1> QED
  BY <1>3, <1>4, <1>5 DEF PrInv

LEMMA TaskRegistersKeeps == ASSUME PrInv, TaskRegisters PROVE PrInv'
<1>1. PrTypes /\ UNCHANGED <<pDoc, pLoop, pProc, pCmd, pHooks, pLeft>>
  BY DEF TaskRegisters, PrInv
<1>2. pTask' \in PrTasks
  BY <1>1 DEF TaskRegisters, PrTypes, PrTasks, TaskTo
<1>3. pConn' \in PrConns
  <2>1. pTask.rev \in PrRevs /\ pTask.version \in PrVersions
    BY <1>1 DEF PrTypes, PrTasks
  <2>2. PICK call : call = [kind |-> "start", rev |-> pTask.rev, who |-> "task"]
    OBVIOUS
  <2>3. call \in PrCalls
    BY <2>1, <2>2 DEF PrCalls
  <2>4. <<call>> \in Seq(PrCalls) /\ Len(<<call>>) = 1 /\ 1 <= PrQueue
    BY <2>3, PrAssumption
  <2>5. pConn' = [open |-> TRUE, version |-> pTask.version, alive |-> TRUE, calls |-> <<call>>]
    BY <2>2 DEF TaskRegisters
  <2> QED
    BY <2>1, <2>4, <2>5 DEF PrConns
<1>4. PrTypes'
  BY <1>1, <1>2, <1>3 DEF PrTypes
<1>5. BudgetInv'
  BY <1>1 DEF PrInv, BudgetInv
<1>6. HookInv'
  BY <1>1 DEF PrInv, TaskRegisters, HookInv, TaskTo
<1> QED
  BY <1>4, <1>5, <1>6 DEF PrInv

LEMMA TaskStartedKeeps == ASSUME PrInv, TaskStarted PROVE PrInv'
<1>1. PrTypes /\ UNCHANGED <<pDoc, pLoop, pConn, pProc, pCmd, pHooks, pLeft>>
  BY DEF TaskStarted, PrInv
<1>2. pTask' \in PrTasks
  BY <1>1 DEF TaskStarted, PrTypes, PrTasks, TaskTo
<1>3. PrTypes'
  BY <1>1, <1>2 DEF PrTypes
<1>4. BudgetInv'
  BY <1>1 DEF PrInv, BudgetInv
<1>5. HookInv'
  BY <1>1 DEF PrInv, TaskStarted, PrTypes, PrTasks, HookInv, TaskTo
<1> QED
  BY <1>3, <1>4, <1>5 DEF PrInv

LEMMA TaskFailsKeeps == ASSUME PrInv, TaskFails PROVE PrInv'
<1>1. PrTypes /\ UNCHANGED <<pDoc, pLoop, pConn, pCmd, pHooks, pLeft>>
  BY DEF TaskFails, PrInv
<1>2. pTask' \in PrTasks
  BY <1>1 DEF TaskFails, PrTypes, PrTasks, TaskTo
<1>3. pProc' \in PrProcs
  BY <1>1, Blank DEF TaskFails
<1>4. PrTypes'
  BY <1>1, <1>2, <1>3 DEF PrTypes
<1>5. BudgetInv'
  BY <1>1 DEF PrInv, BudgetInv
<1>6. HookInv'
  BY <1>1 DEF PrInv, TaskFails, HookInv, TaskTo
<1> QED
  BY <1>4, <1>5, <1>6 DEF PrInv

LEMMA CmdBeginsKeeps == ASSUME PrInv, CmdBegins PROVE PrInv'
<1>1. PrTypes /\ UNCHANGED <<pDoc, pLoop, pTask, pProc, pHooks>>
  BY DEF CmdBegins, PrInv
<1>2. pConn' \in PrConns
  BY <1>1, EnqueuedTyped DEF CmdBegins, PrCalls, Commanded
<1>3. pCmd' \in PrCmds
  <2>1. 0 \in PrRevs
    BY PrAssumption DEF PrRevs
  <2> QED
    BY <2>1, RevTyped, Blank DEF CmdBegins, PrCmds
<1>4. pLeft' \in PrLefts
  BY <1>1, SpentTyped DEF CmdBegins
<1>5. PrTypes'
  BY <1>1, <1>2, <1>3, <1>4 DEF PrTypes
<1>6. BudgetInv'
  <2>1. pCmd'.at \in {"call", "none"} /\ pCmd.at = "none"
    BY DEF CmdBegins, NoCommand
  <2>2. pDoc.rev \in Nat /\ pLeft.changes \in Nat /\ pLeft'.changes = pLeft.changes - 1
    BY <1>1 DEF CmdBegins, PrTypes, PrDocs, PrLefts, PrRevs, PrChange
  <2>3. pDoc.rev + pLeft.changes <= PrChanges
    BY <2>1, <2>2 DEF PrInv, BudgetInv
  <2> QED
    BY <1>1, <2>1, <2>2, <2>3, PrAssumption DEF BudgetInv
<1>7. HookInv'
  BY <1>1 DEF PrInv, HookInv
<1> QED
  BY <1>5, <1>6, <1>7 DEF PrInv

LEMMA CmdDroppedKeeps == ASSUME PrInv, CmdDropped PROVE PrInv'
<1>1. PrTypes /\ UNCHANGED <<pDoc, pLoop, pTask, pConn, pProc, pHooks, pLeft>>
  BY DEF CmdDropped, PrInv
<1>2. pCmd' \in PrCmds
  BY <1>1, Blank DEF CmdDropped
<1>3. PrTypes'
  BY <1>1, <1>2 DEF PrTypes
<1>4. BudgetInv'
  BY <1>1, PrAssumption DEF PrInv, CmdDropped, PrTypes, PrDocs, PrLefts, PrRevs, BudgetInv
<1>5. HookInv'
  BY <1>1 DEF PrInv, HookInv
<1> QED
  BY <1>3, <1>4, <1>5 DEF PrInv

LEMMA CmdGivesUpKeeps == ASSUME PrInv, CmdGivesUp PROVE PrInv'
<1>1. PrTypes /\ UNCHANGED <<pDoc, pLoop, pTask, pHooks>>
  BY DEF CmdGivesUp, PrInv
<1>2. pConn' \in PrConns
  <2> DEFINE calls == [i \in DOMAIN pConn.calls |-> GivenUp(pConn.calls[i])]
  <2>1. pConn.calls \in Seq(PrCalls) /\ Len(pConn.calls) <= PrQueue
    BY <1>1 DEF PrTypes, PrConns
  <2>2. \A i \in DOMAIN pConn.calls : GivenUp(pConn.calls[i]) \in PrCalls
    BY <2>1 DEF GivenUp, Commanded, PrCalls
  <2>3. Len(pConn.calls) \in Nat /\ DOMAIN pConn.calls = 1 .. Len(pConn.calls)
    BY <2>1
  <2>4. calls \in Seq(PrCalls) /\ Len(calls) = Len(pConn.calls)
    BY <2>2, <2>3, IsASeq
  <2>5. pConn' = [pConn EXCEPT !.calls = calls]
    BY DEF CmdGivesUp
  <2> HIDE DEF calls
  <2> QED
    BY <1>1, <2>1, <2>4, <2>5 DEF PrTypes, PrConns
<1>3. pProc' \in PrProcs
  BY <1>1 DEF CmdGivesUp, PrTypes, PrProcs
<1>4. pCmd' \in PrCmds
  BY <1>1, Blank DEF CmdGivesUp
<1>5. pLeft' \in PrLefts
  BY <1>1, SpentTyped DEF CmdGivesUp
<1>6. PrTypes'
  BY <1>1, <1>2, <1>3, <1>4, <1>5 DEF PrTypes
<1>7. BudgetInv'
  BY <1>1, PrAssumption DEF PrInv, CmdGivesUp, PrTypes, PrDocs, PrLefts, PrRevs, PrFault,
     NoCommand, BudgetInv
<1>8. HookInv'
  BY <1>1 DEF PrInv, HookInv
<1> QED
  BY <1>6, <1>7, <1>8 DEF PrInv

LEMMA CmdCommitsKeeps == ASSUME PrInv, CmdCommits PROVE PrInv'
<1>1. PrTypes /\ UNCHANGED <<pTask, pConn, pHooks, pLeft>>
  BY DEF CmdCommits, PrInv
<1>2. pDoc' \in PrDocs
  BY <1>1 DEF CmdCommits, PrTypes, PrDocs
<1>3. pLoop' \in PrLoops
  BY <1>1 DEF CmdCommits, PrTypes, PrLoops
<1>4. pProc' \in PrProcs
  <2>1. pDoc.rev + 1 \in PrRevs
    BY <1>1, PrAssumption DEF CmdCommits, PrInv, BudgetInv, PrTypes, PrDocs, PrLefts, PrRevs
  <2>2. pProc' = pProc \/ pProc' = [pProc EXCEPT !.view = pDoc.rev + 1, !.own = "no"]
    BY DEF CmdCommits
  <2> QED
    BY <1>1, <2>1, <2>2 DEF PrTypes, PrProcs
<1>5. pCmd' \in PrCmds
  BY <1>1, Blank DEF CmdCommits
<1>6. PrTypes'
  BY <1>1, <1>2, <1>3, <1>4, <1>5 DEF PrTypes
<1>7. BudgetInv'
  BY <1>1 DEF PrInv, CmdCommits, PrTypes, PrCmds, PrLefts, PrRevs, NoCommand, BudgetInv
<1>8. HookInv'
  BY <1>1 DEF PrInv, PrTypes, PrLoops, PrDocs, CmdCommits, HookInv
<1> QED
  BY <1>6, <1>7, <1>8 DEF PrInv

LEMMA CmdRefusedKeeps == ASSUME PrInv, CmdRefused PROVE PrInv'
<1>1. PrTypes /\ UNCHANGED <<pDoc, pLoop, pTask, pConn, pProc, pHooks>>
  BY DEF CmdRefused, PrInv
<1>2. pCmd' \in PrCmds
  BY <1>1 DEF CmdRefused, PrTypes, PrCmds, AfterRefusal
<1>3. pLeft' \in PrLefts
  BY <1>1, SpentTyped DEF CmdRefused, PrTypes
<1>4. PrTypes'
  BY <1>1, <1>2, <1>3 DEF PrTypes
<1>5. BudgetInv'
  BY <1>1, PrAssumption DEF PrInv, CmdRefused, PrTypes, PrDocs, PrLefts, PrRevs, PrChange,
     BudgetInv
<1>6. HookInv'
  BY <1>1 DEF PrInv, HookInv
<1> QED
  BY <1>4, <1>5, <1>6 DEF PrInv

LEMMA CmdReadsKeeps == ASSUME PrInv, CmdReads PROVE PrInv'
<1>1. PrTypes /\ UNCHANGED <<pDoc, pLoop, pTask, pConn, pProc, pHooks, pLeft>>
  BY DEF CmdReads, PrInv
<1>2. pCmd' \in PrCmds
  BY <1>1, RevTyped DEF CmdReads, PrTypes, PrCmds
<1>3. PrTypes'
  BY <1>1, <1>2 DEF PrTypes
<1>4. BudgetInv'
  BY <1>1 DEF PrInv, CmdReads, BudgetInv
<1>5. HookInv'
  BY <1>1 DEF PrInv, HookInv
<1> QED
  BY <1>3, <1>4, <1>5 DEF PrInv

LEMMA CmdResyncsKeeps == ASSUME PrInv, CmdResyncs PROVE PrInv'
<1>1. PrTypes /\ UNCHANGED <<pDoc, pLoop, pTask, pProc, pHooks, pLeft>>
  BY DEF CmdResyncs, PrInv
<1>2. pConn' \in PrConns
  <2>1. [kind |-> "start", rev |-> pCmd.base, who |-> "command"] \in PrCalls
    BY <1>1 DEF PrTypes, PrCmds, PrCalls
  <2> QED
    BY <1>1, <2>1, EnqueuedTyped DEF CmdResyncs
<1>3. pCmd' \in PrCmds
  BY <1>1, Blank DEF CmdResyncs
<1>4. PrTypes'
  BY <1>1, <1>2, <1>3 DEF PrTypes
<1>5. BudgetInv'
  BY <1>1 DEF PrInv, CmdResyncs, NoCommand, BudgetInv
<1>6. HookInv'
  BY <1>1 DEF PrInv, HookInv
<1> QED
  BY <1>4, <1>5, <1>6 DEF PrInv

LEMMA ControlDiesKeeps == ASSUME PrInv, ControlDies PROVE PrInv'
<1>1. PrTypes /\ UNCHANGED <<pDoc, pHooks>>
  BY DEF ControlDies, PrInv
<1>2. pLoop' \in PrLoops
  BY <1>1 DEF ControlDies, PrTypes, PrLoops
<1>3. pTask' \in PrTasks
  BY <1>1, Blank DEF ControlDies
<1>4. pConn' \in PrConns
  BY <1>1, Blank DEF ControlDies
<1>5. pProc' \in PrProcs
  BY <1>1, Blank DEF ControlDies
<1>6. pCmd' \in PrCmds
  BY <1>1, Blank DEF ControlDies
<1>7. pLeft' \in PrLefts
  BY <1>1, SpentTyped DEF ControlDies
<1>8. PrTypes'
  BY <1>1, <1>2, <1>3, <1>4, <1>5, <1>6, <1>7 DEF PrTypes
<1>9. BudgetInv'
  BY <1>1, PrAssumption DEF PrInv, ControlDies, PrTypes, PrDocs, PrLefts, PrRevs, NoCommand,
     PrFault, BudgetInv
<1>10. HookInv'
  BY <1>1 DEF PrInv, PrTypes, PrLoops, PrDocs, ControlDies, PrTypes, PrHooks, NoTask, HookInv
<1> QED
  BY <1>8, <1>9, <1>10 DEF PrInv

LEMMA ControlStartsKeeps == ASSUME PrInv, ControlStarts PROVE PrInv'
<1>1. PrTypes /\ UNCHANGED <<pDoc, pTask, pConn, pProc, pCmd, pHooks, pLeft>>
  BY DEF ControlStarts, PrInv
<1>2. pLoop' \in PrLoops
  BY <1>1 DEF ControlStarts, PrTypes, PrLoops
<1>3. PrTypes'
  BY <1>1, <1>2 DEF PrTypes
<1>4. BudgetInv'
  BY <1>1 DEF PrInv, BudgetInv
<1>5. HookInv'
  BY <1>1 DEF PrInv, ControlStarts, PrTypes, PrLoops, HookInv
<1> QED
  BY <1>3, <1>4, <1>5 DEF PrInv

LEMMA PrInvKept == PrInv /\ [PrNext]_prVars => PrInv'
<1> SUFFICES ASSUME PrInv, [PrNext]_prVars PROVE PrInv'
  OBVIOUS
<1>1. CASE UNCHANGED prVars
  BY <1>1 DEF prVars, PrInv, PrTypes, BudgetInv, HookInv
<1>2. CASE ChangeState \/ SetEnabled \/ Install \/ JobEnds
  BY <1>2, ChangeStateKeeps, SetEnabledKeeps, InstallKeeps, JobEndsKeeps
<1>3. CASE Answer \/ Unanswered \/ Disconnected \/ ProcessDies
  BY <1>3, AnswerKeeps, UnansweredKeeps, DisconnectedKeeps, ProcessDiesKeeps
<1>4. CASE LoopLooks \/ LoopStops \/ LoopRemoves \/ LoopHalts \/ LoopSpawns \/ LoopHears \/ LoopLags \/ LoopWakes \/ RetryFallsDue \/ EventsLost
  BY <1>4, LoopLooksKeeps, LoopStopsKeeps, LoopRemovesKeeps, LoopHaltsKeeps, LoopSpawnsKeeps,
     LoopHearsKeeps, LoopLagsKeeps, LoopWakesKeeps, RetryFallsDueKeeps, EventsLostKeeps
<1>5. CASE TaskGate \/ TaskHook \/ TaskAwait \/ TaskCheck \/ TaskOpens \/ TaskStartRefused \/ TaskAccepts \/ TaskRegisters \/ TaskStarted \/ TaskFails
  BY <1>5, TaskGateKeeps, TaskHookKeeps, TaskAwaitKeeps, TaskCheckKeeps, TaskOpensKeeps,
     TaskStartRefusedKeeps, TaskAcceptsKeeps, TaskRegistersKeeps, TaskStartedKeeps,
     TaskFailsKeeps
<1>6. CASE CmdBegins \/ CmdDropped \/ CmdGivesUp \/ CmdCommits \/ CmdRefused \/ CmdReads \/ CmdResyncs
  BY <1>6, CmdBeginsKeeps, CmdDroppedKeeps, CmdGivesUpKeeps, CmdCommitsKeeps, CmdRefusedKeeps, CmdReadsKeeps,
     CmdResyncsKeeps
<1>7. CASE ControlDies \/ ControlStarts
  BY <1>7, ControlDiesKeeps, ControlStartsKeeps
<1> QED
  BY <1>1, <1>2, <1>3, <1>4, <1>5, <1>6, <1>7 DEF PrNext, LoopStep, TaskStep, CmdStep

\* PrInv is an inductive invariant of the runtime: for any changes, faults and sizes of
\* the queue, a pending activation is used up before its hook runs (runtime.rs, activate).
THEOREM PrInvHolds == PrSafe => []PrInv
BY PrInvAtFirst, PrInvKept, PTL DEF PrSafe

\* No enable hook runs, as root, more often than it was granted, whatever died or was
\* superseded halfway (runtime.rs, activate and consume_activation).
THEOREM HooksRunOnce == PrSafe => []RuntimePromises
<1>1. PrInv => PrTypeOK
  <2> SUFFICES ASSUME PrInv PROVE PrTypeOK
    OBVIOUS
  <2>1. pDoc \in [rev : PrRevs, enabled : BOOLEAN, version : PrVersions, job : BOOLEAN,
                 seen : PrVersions, pend : BOOLEAN, failed : BOOLEAN]
    BY RevTyped DEF PrInv, PrTypes, PrDocs
  <2>2. /\ pConn \in [open : BOOLEAN, version : PrVersions, alive : BOOLEAN, calls : Seq(PrCalls)]
        /\ Len(pConn.calls) <= PrQueue
    BY DEF PrInv, PrTypes, PrConns
  <2> QED
    BY <2>1, <2>2 DEF PrInv, PrTypes, PrTypeOK, PrLoops, PrTasks, PrProcs, PrCmds, PrHooks,
       PrLefts
<1>2. PrInv => HookRunsOnce
  <2> SUFFICES ASSUME PrInv PROVE HookRunsOnce
    OBVIOUS
  <2>1. pHooks.run \in Nat /\ pHooks.granted \in Nat
    BY DEF PrInv, PrTypes, PrHooks
  <2> QED
    BY <2>1 DEF PrInv, HookInv, HookRunsOnce
<1>3. PrInv => RuntimePromises
  BY <1>1, <1>2 DEF RuntimePromises
<1> QED
  BY <1>3, PrInvHolds, PTL
================================================================================
