--------------------------- MODULE StateStoreProofs ---------------------------
(***************************************************************************)
(* Proofs about StateStore, for any number of transactions, decisions,     *)
(* crashes and failing file operations.  Inv is preserved part by part:    *)
(* the lock names the process that is inside it (LockInv); at each control *)
(* point the marker, the current and the previous file are in a known      *)
(* relation (DiskInv); what a process read under the lock is still current *)
(* (HeldInv).  From these follow the safety parts: both files load, every  *)
(* acknowledged publication is on disk, and a revision names one document. *)
(* The lock's part is what ~UnlockedOverlap is needed for: `start` writes  *)
(* without the lock, so it must not meet a compare-and-swap.               *)
(* What outcomes say has two invariants of its own, RefusalInv and         *)
(* ReservationInv, at the end.                                             *)
(***************************************************************************)
EXTENDS StateStore, TLAPS

\* The envelope of the root import is an envelope.
LEMMA FirstType == First \in Envelope
BY DEF First, Envelope, JobStates

\* What the fields of an envelope are.
LEMMA EnvelopeFields ==
  ASSUME NEW e \in Envelope
  PROVE  /\ e.rev \in Nat /\ e.doc \in Nat /\ e.docrev \in Nat
         /\ e.net \in Nat /\ e.netrev \in Nat /\ e.job \in JobStates
BY DEF Envelope

\* Recording another plugin job gives an envelope.
LEMMA WithJobType ==
  ASSUME NEW e \in Envelope, NEW j \in JobStates
  PROVE  WithJob(e, j) \in Envelope
BY DEF Envelope, WithJob

\* The job states the actor writes are job states.
LEMMA JobNames == /\ "none" \in JobStates /\ "unknown" \in JobStates
                  /\ "running" \in JobStates /\ "parked" \in JobStates
BY DEF JobStates

\* The candidate's job is one.
LEMMA CandidateJob == ASSUME TypeOK PROVE cand.job \in JobStates
BY EnvelopeFields DEF TypeOK

\* Refusing a client adds its number to the refused ones.
LEMMA RefuseType == ASSUME TypeOK, Refuse PROVE refused' \subseteq Nat
BY EnvelopeFields DEF TypeOK, Refuse

\* The candidate of a transaction is an envelope.
LEMMA NextDocumentType ==
  ASSUME NEW e \in Envelope, NEW t \in Nat, NEW j \in JobStates
  PROVE  NextDocument(e, t, j) \in Envelope
BY DEF Envelope, NextDocument

\* The candidate of a compare-and-swap is an envelope.
LEMMA ReplacementType ==
  ASSUME NEW e \in Envelope, NEW n \in Nat, base \in Envelope
  PROVE  Replacement(e, n) \in Envelope
BY DEF Envelope, Replacement

\* What an acknowledgement promises is a revision, a document and a decision.
LEMMA ContentType ==
  ASSUME NEW e \in Envelope
  PROVE  Content(e) \in [rev : Nat, doc : Nat, net : Nat]
BY DEF Envelope, Content

\* Every step keeps the types, overlapping writers or not.
LEMMA TypeStep == ASSUME TypeOK, [Next]_vars PROVE TypeOK'
<1> USE DEF TypeOK, ControlPoints, PrivdPoints, LoadPoints, StagePoints, RestorePoints,
            Turns, disk, ghost, actor, job
<1>1. CASE Start
  BY <1>1 DEF Start
<1>2. CASE StartWrite
  BY <1>2 DEF StartWrite, WriteJson, Count, Outcomes, Stored
<1>3. CASE Refresh
  BY <1>3 DEF Refresh
<1>4. CASE ControlRead
  BY <1>4 DEF ControlRead
<1>5. CASE LoadRecover
  BY <1>5, FirstType DEF LoadRecover, WriteJson, Count, Outcomes, Stored, LoadFails, Unlock
<1>6. CASE LoadUnmark
  BY <1>6, FirstType DEF LoadUnmark, RemovePending, Count, Outcomes, Stored, LoadFails, Unlock
<1>7. CASE Return
  BY <1>7, FirstType DEF Return, EndTurn, Unlock
<1>8. CASE Submit
  BY <1>8, NextDocumentType, EnvelopeFields DEF Submit, Decide
<1>9. CASE SubmitLifecycle
  BY <1>9, NextDocumentType, JobNames DEF SubmitLifecycle, Decide
<1>10. CASE SubmitEffect
  BY <1>10 DEF SubmitEffect, Unlock
<1>11. CASE SubmitEffectJob
  BY <1>11, WithJobType, JobNames DEF SubmitEffectJob, Decide
<1>12. CASE Follow
  BY <1>12, NextDocumentType, EnvelopeFields DEF Follow, Decide
<1>13. CASE FollowText
  BY <1>13 DEF FollowText, Decide
<1>14. CASE Complete
  <2>1. NextDocument(state, txn + 1, state.job) \in Envelope
    BY NextDocumentType, EnvelopeFields
  <2>2. CASE /\ Decide("complete", state, "stage_prev") \/ Decide("runtime", state, "stage_prev")
             /\ UNCHANGED txn
    BY <2>2 DEF Decide
  <2>3. CASE txn' = txn + 1 /\ Decide("complete", NextDocument(state, txn + 1, state.job), "stage_prev")
    BY <2>1, <2>3 DEF Decide
  <2>4. QED
    BY <1>14, <2>2, <2>3 DEF Complete
<1>15. CASE Reserve
  <2>1. PICK r \in Outcomes :
          /\ WriteJson(r, WithJob(state, "unknown"))
          /\ \/ r # "ok" /\ EndTurn /\ Refuse /\ UNCHANGED state
             \/ /\ state' = WithJob(state, "unknown")
                /\ \/ cpc' = "effect" /\ Unlock("control")
                   \/ cpc' = "stage_prev" /\ UNCHANGED lock
                /\ UNCHANGED <<turn, cand, refused>>
    BY <1>15 DEF Reserve
  <2>2. refused' \subseteq Nat
    BY <2>1, RefuseType
  <2>3. QED
    BY <1>15, <2>1, <2>2, FirstType, WithJobType, JobNames
    DEF Reserve, WriteJson, Count, Outcomes, Stored, EndTurn, Unlock
<1>16. CASE StagePrev
  BY <1>16 DEF StagePrev, Count, Outcomes, Stored
<1>17. CASE StageMarker
  BY <1>17 DEF StageMarker, Count, Outcomes, Stored
<1>18. CASE StageNext
  BY <1>18 DEF StageNext, WriteJson, Count, Outcomes, Stored
<1>19. CASE Apply
  BY <1>19 DEF Apply
<1>20. CASE Accept
  <2>1. refused' \subseteq Nat
    BY <1>20, RefuseType DEF Accept, SaveJob
  <2>2. \A j \in JobStates : WithJob(cand, j) \in Envelope
    BY WithJobType
  <2>3. QED
    BY <1>20, <2>1, <2>2, FirstType, JobNames, CandidateJob
    DEF Accept, SaveJob, WriteJson, Count, Outcomes, Stored, EndTurn, Unlock
<1>21. CASE Commit
  BY <1>21, FirstType, ContentType DEF Commit, RemovePending, Count, Outcomes, Stored, EndTurn,
     Unlock
<1>22. CASE Release
  <2>1. refused' \subseteq Nat
    BY <1>22, RefuseType DEF Release
  <2>2. WithJob(state, "none") \in Envelope
    BY WithJobType, JobNames
  <2>3. QED
    BY <1>22, <2>1, <2>2, FirstType
    DEF Release, WriteJson, Count, Outcomes, Stored, EndTurn, Unlock
<1>23. CASE RollbackWrite
  <2>1. refused' \subseteq Nat
    BY <1>23, RefuseType DEF RollbackWrite
  <2>2. QED
    BY <1>23, <2>1, FirstType
    DEF RollbackWrite, WriteJson, Count, Outcomes, Stored, EndTurn, Unlock
<1>24. CASE RollbackUnmark
  BY <1>24, FirstType, RefuseType DEF RollbackUnmark, RemovePending, Count, Outcomes, Stored,
     EndTurn, Unlock
<1>25. CASE SaveText
  BY <1>25, FirstType DEF SaveText, WriteJson, Count, Outcomes, Stored, EndTurn, Unlock
<1>26. CASE EffectDone
  BY <1>26 DEF EffectDone
<1>27. CASE EffectFailed
  BY <1>27, FirstType DEF EffectFailed, EndTurn, Unlock
<1>28. CASE EffectRelease
  BY <1>28, FirstType, WithJobType, JobNames DEF EffectRelease, WriteJson, Count, Outcomes,
     Stored, EndTurn, Unlock
<1>29. CASE Settle
  BY <1>29, FirstType, WithJobType, JobNames DEF Settle, WriteJson, Count, Outcomes, Stored,
     EndTurn, Unlock
<1>30. CASE CrashControl
  BY <1>30, FirstType DEF CrashControl, Unlock
<1>31. CASE JobLoad
  BY <1>31 DEF JobLoad
<1>32. CASE JobCommit
  BY <1>32 DEF JobCommit
<1>33. CASE JobRecover
  BY <1>33, FirstType DEF JobRecover, WriteJson, Count, Outcomes, Stored, EndJob, Unlock
<1>34. CASE JobUnmark
  BY <1>34, FirstType DEF JobUnmark, RemovePending, Count, Outcomes, Stored, EndJob, Unlock
<1>35. CASE JobRead
  BY <1>35 DEF JobRead, Unlock
<1>36. CASE JobCompare
  BY <1>36, FirstType DEF JobCompare, EndJob, Unlock
<1>37. CASE JobPublish
  <2> DEFINE e == Replacement(read, jobs + 1)
  <2>a. jobs + 1 \in Nat
    OBVIOUS
  <2>b. e \in Envelope
    BY <2>a, ReplacementType
  <2> HIDE DEF e
  <2>1. e \in Envelope /\ Content(e) \in [rev : Nat, doc : Nat, net : Nat]
    BY <2>b, ContentType
  <2>2. PICK r \in Outcomes :
          /\ WriteJson(r, e)
          /\ acked' = acked \cup (IF r = "ok" THEN {Content(e)} ELSE {})
    BY <1>37 DEF JobPublish, e
  <2>3. acked' \subseteq [rev : Nat, doc : Nat, net : Nat]
    BY <2>1, <2>2
  <2>4. QED
    BY <1>37, <2>1, <2>2, <2>3, FirstType
    DEF JobPublish, WriteJson, Count, Outcomes, Stored, EndJob, Unlock
<1>38. CASE JobEnds
  BY <1>38, FirstType DEF JobEnds, EndJob, Unlock
<1>39. CASE UNCHANGED vars
  BY <1>39 DEF vars
<1>40. QED
  BY <1>1, <1>2, <1>3, <1>4, <1>5, <1>6, <1>7, <1>8, <1>9, <1>10, <1>11, <1>12, <1>13, <1>14,
     <1>15, <1>16, <1>17, <1>18, <1>19, <1>20, <1>21, <1>22, <1>23, <1>24, <1>25, <1>26, <1>27,
     <1>28, <1>29, <1>30, <1>31, <1>32, <1>33, <1>34, <1>35, <1>36, <1>37, <1>38, <1>39
     DEF Next, ControlNext, JobNext

\* Every step keeps the lock with the process that is inside it.
LEMMA LockStep ==
  ASSUME ~UnlockedOverlap, TypeOK, LockInv, [Next]_vars PROVE LockInv'
<1> USE DEF TypeOK, LockInv, ControlUnlocked, Held, ControlPoints, PrivdPoints, LoadPoints, StagePoints,
            RestorePoints, disk, ghost, actor, job
<1>1. CASE Start
  BY <1>1 DEF Start
<1>2. CASE StartWrite
  BY <1>2 DEF StartWrite, WriteJson, Count, Outcomes, Stored
<1>3. CASE Refresh
  BY <1>3 DEF Refresh
<1>4. CASE ControlRead
  BY <1>4 DEF ControlRead
<1>5. CASE LoadRecover
  BY <1>5 DEF LoadRecover, WriteJson, Count, Outcomes, Stored, LoadFails, Unlock
<1>6. CASE LoadUnmark
  BY <1>6 DEF LoadUnmark, RemovePending, Count, Outcomes, Stored, LoadFails, Unlock
<1>7. CASE Return
  BY <1>7 DEF Return, EndTurn, Unlock
<1>8. CASE Submit
  BY <1>8 DEF Submit, Decide
<1>9. CASE SubmitLifecycle
  BY <1>9 DEF SubmitLifecycle, Decide
<1>10. CASE SubmitEffect
  BY <1>10 DEF SubmitEffect, Unlock
<1>11. CASE SubmitEffectJob
  BY <1>11 DEF SubmitEffectJob, Decide
<1>12. CASE Follow
  BY <1>12 DEF Follow, Decide
<1>13. CASE FollowText
  BY <1>13 DEF FollowText, Decide
<1>14. CASE Complete
  BY <1>14 DEF Complete, Decide
<1>15. CASE Reserve
  BY <1>15 DEF Reserve, WriteJson, Count, Outcomes, Stored, EndTurn, Unlock
<1>16. CASE StagePrev
  BY <1>16 DEF StagePrev, Count, Outcomes, Stored
<1>17. CASE StageMarker
  BY <1>17 DEF StageMarker, Count, Outcomes, Stored
<1>18. CASE StageNext
  BY <1>18 DEF StageNext, WriteJson, Count, Outcomes, Stored
<1>19. CASE Apply
  BY <1>19 DEF Apply
<1>20. CASE Accept
  BY <1>20 DEF Accept, WriteJson, Count, Outcomes, Stored, SaveJob, EndTurn, Unlock
<1>21. CASE Commit
  BY <1>21 DEF Commit, RemovePending, Count, Outcomes, Stored, EndTurn, Unlock
<1>22. CASE Release
  BY <1>22 DEF Release, WriteJson, Count, Outcomes, Stored, EndTurn, Unlock
<1>23. CASE RollbackWrite
  BY <1>23 DEF RollbackWrite, WriteJson, Count, Outcomes, Stored, EndTurn, Unlock
<1>24. CASE RollbackUnmark
  BY <1>24 DEF RollbackUnmark, RemovePending, Count, Outcomes, Stored, EndTurn, Unlock
<1>25. CASE SaveText
  BY <1>25 DEF SaveText, WriteJson, Count, Outcomes, Stored, EndTurn, Unlock
<1>26. CASE EffectDone
  BY <1>26 DEF EffectDone
<1>27. CASE EffectFailed
  BY <1>27 DEF EffectFailed, EndTurn, Unlock
<1>28. CASE EffectRelease
  BY <1>28 DEF EffectRelease, WriteJson, Count, Outcomes, Stored, EndTurn, Unlock
<1>29. CASE Settle
  BY <1>29 DEF Settle, WriteJson, Count, Outcomes, Stored, EndTurn, Unlock
<1>30. CASE CrashControl
  BY <1>30 DEF CrashControl, Unlock
<1>31. CASE JobLoad
  BY <1>31 DEF JobLoad, Quiet
<1>32. CASE JobCommit
  BY <1>32 DEF JobCommit, Quiet
<1>33. CASE JobRecover
  BY <1>33 DEF JobRecover, WriteJson, Count, Outcomes, Stored, EndJob, Unlock
<1>34. CASE JobUnmark
  BY <1>34 DEF JobUnmark, RemovePending, Count, Outcomes, Stored, EndJob, Unlock
<1>35. CASE JobRead
  BY <1>35 DEF JobRead, Unlock
<1>36. CASE JobCompare
  BY <1>36 DEF JobCompare, EndJob, Unlock
<1>37. CASE JobPublish
  BY <1>37 DEF JobPublish, WriteJson, Count, Outcomes, Stored, EndJob, Unlock
<1>38. CASE JobEnds
  BY <1>38 DEF JobEnds, EndJob, Unlock
<1>39. CASE UNCHANGED vars
  BY <1>39 DEF vars
<1>40. QED
  BY <1>1, <1>2, <1>3, <1>4, <1>5, <1>6, <1>7, <1>8, <1>9, <1>10, <1>11, <1>12, <1>13, <1>14,
     <1>15, <1>16, <1>17, <1>18, <1>19, <1>20, <1>21, <1>22, <1>23, <1>24, <1>25, <1>26, <1>27,
     <1>28, <1>29, <1>30, <1>31, <1>32, <1>33, <1>34, <1>35, <1>36, <1>37, <1>38, <1>39
     DEF Next, ControlNext, JobNext

\* Plugin metadata changes nothing but the job.
LEMMA SameFacts ==
  ASSUME NEW e \in Envelope, NEW j \in JobStates
  PROVE  Same(WithJob(e, j), e) /\ WithJob(e, j).job = j
BY DEF Same, WithJob, Envelope

\* What the actor writes is the same decision or its successor.
LEMMA SucceedsFacts ==
  ASSUME NEW e \in Envelope, NEW f \in Envelope, NEW j \in JobStates, NEW t \in Nat
  PROVE  /\ Succeeds(e, e)
         /\ Succeeds(WithJob(e, j), e)
         /\ Succeeds(NextDocument(e, t, j), e)
         /\ Succeeds(f, e) => Succeeds(f, WithJob(e, j))
         /\ Succeeds(f, e) => Succeeds(WithJob(f, j), e)
BY SameFacts DEF Succeeds, Same, NextDocument, WithJob, Envelope

\* Every step keeps the files in the state its control point promises.
LEMMA DiskStep ==
  ASSUME ~UnlockedOverlap, TypeOK, LockInv, DiskInv, [Next]_vars PROVE DiskInv'
<1> USE DEF TypeOK, LockInv, DiskInv, Marked, ControlUnlocked, Held, ControlPoints, PrivdPoints,
            LoadPoints, StagePoints, RestorePoints, disk, ghost, actor, job
<1>1. CASE Start
  BY <1>1 DEF Start
<1>2. CASE StartWrite
  BY <1>2 DEF StartWrite, WriteJson, Count, Outcomes, Stored
<1>3. CASE Refresh
  BY <1>3 DEF Refresh
<1>4. CASE ControlRead
  BY <1>4 DEF ControlRead
<1>5. CASE LoadRecover
  BY <1>5 DEF LoadRecover, WriteJson, Count, Outcomes, Stored, LoadFails, Unlock
<1>6. CASE LoadUnmark
  BY <1>6 DEF LoadUnmark, RemovePending, Count, Outcomes, Stored, LoadFails, Unlock
<1>7. CASE Return
  BY <1>7 DEF Return, EndTurn, Unlock
<1>8. CASE Submit
  BY <1>8, SameFacts, SucceedsFacts, JobNames, EnvelopeFields DEF Submit, Decide
<1>9. CASE SubmitLifecycle
  BY <1>9, SameFacts, SucceedsFacts, JobNames DEF SubmitLifecycle, Decide
<1>10. CASE SubmitEffect
  BY <1>10 DEF SubmitEffect, Unlock
<1>11. CASE SubmitEffectJob
  BY <1>11, SameFacts, SucceedsFacts, JobNames DEF SubmitEffectJob, Decide
<1>12. CASE Follow
  BY <1>12, SameFacts, SucceedsFacts, JobNames, EnvelopeFields DEF Follow, Decide
<1>13. CASE FollowText
  BY <1>13, SameFacts, SucceedsFacts, JobNames DEF FollowText, Decide
<1>14. CASE Complete
  BY <1>14, SameFacts, SucceedsFacts, JobNames, EnvelopeFields DEF Complete, Decide
<1>15. CASE Reserve
  BY <1>15, SameFacts, SucceedsFacts, JobNames DEF Reserve, WriteJson, Count, Outcomes, Stored,
     EndTurn, Unlock
<1>16. CASE StagePrev
  BY <1>16 DEF StagePrev, Count, Outcomes, Stored, Same
<1>17. CASE StageMarker
  BY <1>17 DEF StageMarker, Count, Outcomes, Stored, Same
<1>18. CASE StageNext
  BY <1>18 DEF StageNext, WriteJson, Count, Outcomes, Stored, Same
<1>19. CASE Apply
  BY <1>19 DEF Apply, Same
<1>20. CASE Accept
  BY <1>20, SameFacts, SucceedsFacts, JobNames, CandidateJob DEF Accept, WriteJson, Count, Outcomes, Stored,
     SaveJob, EndTurn, Unlock, Same
<1>21. CASE Commit
  BY <1>21 DEF Commit, RemovePending, Count, Outcomes, Stored, EndTurn, Unlock, Same
<1>22. CASE Release
  BY <1>22, SameFacts, SucceedsFacts, JobNames DEF Release, WriteJson, Count, Outcomes, Stored,
     EndTurn, Unlock, Same
<1>23. CASE RollbackWrite
  BY <1>23 DEF RollbackWrite, WriteJson, Count, Outcomes, Stored, EndTurn, Unlock, Same
<1>24. CASE RollbackUnmark
  BY <1>24 DEF RollbackUnmark, RemovePending, Count, Outcomes, Stored, EndTurn, Unlock
<1>25. CASE SaveText
  BY <1>25 DEF SaveText, WriteJson, Count, Outcomes, Stored, EndTurn, Unlock
<1>26. CASE EffectDone
  BY <1>26 DEF EffectDone
<1>27. CASE EffectFailed
  BY <1>27 DEF EffectFailed, EndTurn, Unlock
<1>28. CASE EffectRelease
  BY <1>28, SameFacts, SucceedsFacts, JobNames DEF EffectRelease, WriteJson, Count, Outcomes,
     Stored, EndTurn, Unlock
<1>29. CASE Settle
  BY <1>29, SameFacts, SucceedsFacts, JobNames DEF Settle, WriteJson, Count, Outcomes, Stored,
     EndTurn, Unlock
<1>30. CASE CrashControl
  BY <1>30 DEF CrashControl, Unlock
<1>31. CASE JobLoad
  BY <1>31 DEF JobLoad, Quiet
<1>32. CASE JobCommit
  BY <1>32 DEF JobCommit, Quiet
<1>33. CASE JobRecover
  BY <1>33 DEF JobRecover, WriteJson, Count, Outcomes, Stored, EndJob, Unlock
<1>34. CASE JobUnmark
  BY <1>34 DEF JobUnmark, RemovePending, Count, Outcomes, Stored, EndJob, Unlock
<1>35. CASE JobRead
  BY <1>35 DEF JobRead, Unlock
<1>36. CASE JobCompare
  BY <1>36 DEF JobCompare, EndJob, Unlock
<1>37. CASE JobPublish
  BY <1>37 DEF JobPublish, WriteJson, Count, Outcomes, Stored, EndJob, Unlock
<1>38. CASE JobEnds
  BY <1>38 DEF JobEnds, EndJob, Unlock
<1>39. CASE UNCHANGED vars
  BY <1>39 DEF vars
<1>40. QED
  BY <1>1, <1>2, <1>3, <1>4, <1>5, <1>6, <1>7, <1>8, <1>9, <1>10, <1>11, <1>12, <1>13, <1>14,
     <1>15, <1>16, <1>17, <1>18, <1>19, <1>20, <1>21, <1>22, <1>23, <1>24, <1>25, <1>26, <1>27,
     <1>28, <1>29, <1>30, <1>31, <1>32, <1>33, <1>34, <1>35, <1>36, <1>37, <1>38, <1>39
     DEF Next, ControlNext, JobNext

\* Two envelopes that differ in metadata cover the same acknowledgements.
LEMMA CoversSame ==
  ASSUME NEW e \in Envelope, NEW f \in Envelope, Same(e, f)
  PROVE  Covers(f) => Covers(e)
BY DEF Covers, Content, Same, Envelope

\* A successor covers what its predecessor covered.
LEMMA CoversSucceeds ==
  ASSUME NEW e \in Envelope, NEW f \in Envelope, Succeeds(e, f),
         acked \subseteq [rev : Nat, doc : Nat, net : Nat]
  PROVE  Covers(f) => Covers(e)
BY CoversSame, EnvelopeFields DEF Covers, Succeeds

\* A successor of an envelope that loads is one that loads.
LEMMA CheckSucceeds ==
  ASSUME NEW e \in Envelope, NEW f \in Envelope, Succeeds(e, f), Check(f)
  PROVE  Check(e)
BY EnvelopeFields DEF Check, Succeeds, Same

\* Plugin metadata keeps what StateFile::check and the clients rely on.
LEMMA WithJobFacts ==
  ASSUME NEW e \in Envelope, NEW j \in JobStates
  PROVE  /\ WithJob(e, j) \in Envelope
         /\ Check(e) => Check(WithJob(e, j))
         /\ Covers(e) => Covers(WithJob(e, j))
BY WithJobType, SameFacts, CoversSame, CheckSucceeds DEF Succeeds

\* Every step leaves both files loadable.
LEMMA LoadableStep ==
  ASSUME TypeOK, LockInv, DiskInv, HeldInv, AlwaysLoadable, [Next]_vars PROVE AlwaysLoadable'
<1> USE DEF TypeOK, LockInv, DiskInv, HeldInv, AlwaysLoadable, Held, StagePoints, RestorePoints,
            disk, ghost, actor, job
<1>1. CASE Start
  BY <1>1 DEF Start
<1>2. CASE StartWrite
  BY <1>2 DEF StartWrite, WriteJson, Count, Outcomes, Stored
<1>3. CASE Refresh
  BY <1>3 DEF Refresh
<1>4. CASE ControlRead
  BY <1>4 DEF ControlRead
<1>5. CASE LoadRecover
  BY <1>5 DEF LoadRecover, WriteJson, Count, Outcomes, Stored, LoadFails, Unlock
<1>6. CASE LoadUnmark
  BY <1>6 DEF LoadUnmark, RemovePending, Count, Outcomes, Stored, LoadFails, Unlock
<1>7. CASE Return
  BY <1>7 DEF Return, EndTurn, Unlock
<1>8. CASE Submit
  BY <1>8 DEF Submit, Decide
<1>9. CASE SubmitLifecycle
  BY <1>9 DEF SubmitLifecycle, Decide
<1>10. CASE SubmitEffect
  BY <1>10 DEF SubmitEffect, Unlock
<1>11. CASE SubmitEffectJob
  BY <1>11 DEF SubmitEffectJob, Decide
<1>12. CASE Follow
  BY <1>12 DEF Follow, Decide
<1>13. CASE FollowText
  BY <1>13 DEF FollowText, Decide
<1>14. CASE Complete
  BY <1>14 DEF Complete, Decide
<1>15. CASE Reserve
  BY <1>15, WithJobFacts, JobNames DEF Reserve, WriteJson, Count, Outcomes, Stored, EndTurn,
     Unlock
<1>16. CASE StagePrev
  BY <1>16 DEF StagePrev, Count, Outcomes, Stored
<1>17. CASE StageMarker
  BY <1>17 DEF StageMarker, Count, Outcomes, Stored
<1>18. CASE StageNext
  <2>1. Check(cand)
    BY <1>18, CheckSucceeds DEF StageNext
  <2>2. QED
    BY <1>18, <2>1 DEF StageNext, WriteJson, Stored
<1>19. CASE Apply
  BY <1>19 DEF Apply
<1>20. CASE Accept
  <2>1. Check(cand)
    BY <1>20, CheckSucceeds DEF Accept
  <2>2. \A j \in JobStates : Check(WithJob(cand, j))
    BY <2>1, WithJobFacts
  <2>3. QED
    BY <1>20, <2>2, JobNames, CandidateJob DEF Accept, SaveJob, WriteJson, Stored
<1>21. CASE Commit
  BY <1>21 DEF Commit, RemovePending, Count, Outcomes, Stored, EndTurn, Unlock
<1>22. CASE Release
  BY <1>22, WithJobFacts, JobNames DEF Release, WriteJson, Count, Outcomes, Stored, EndTurn,
     Unlock
<1>23. CASE RollbackWrite
  BY <1>23 DEF RollbackWrite, WriteJson, Count, Outcomes, Stored, EndTurn, Unlock
<1>24. CASE RollbackUnmark
  BY <1>24 DEF RollbackUnmark, RemovePending, Count, Outcomes, Stored, EndTurn, Unlock
<1>25. CASE SaveText
  BY <1>25 DEF SaveText, WriteJson, Count, Outcomes, Stored, EndTurn, Unlock
<1>26. CASE EffectDone
  BY <1>26 DEF EffectDone
<1>27. CASE EffectFailed
  BY <1>27 DEF EffectFailed, EndTurn, Unlock
<1>28. CASE EffectRelease
  BY <1>28, WithJobFacts, JobNames DEF EffectRelease, WriteJson, Count, Outcomes, Stored,
     EndTurn, Unlock
<1>29. CASE Settle
  BY <1>29, WithJobFacts, JobNames DEF Settle, WriteJson, Count, Outcomes, Stored, EndTurn,
     Unlock
<1>30. CASE CrashControl
  BY <1>30 DEF CrashControl, Unlock
<1>31. CASE JobLoad
  BY <1>31 DEF JobLoad
<1>32. CASE JobCommit
  BY <1>32 DEF JobCommit
<1>33. CASE JobRecover
  BY <1>33 DEF JobRecover, WriteJson, Count, Outcomes, Stored, EndJob, Unlock
<1>34. CASE JobUnmark
  BY <1>34 DEF JobUnmark, RemovePending, Count, Outcomes, Stored, EndJob, Unlock
<1>35. CASE JobRead
  BY <1>35 DEF JobRead, Unlock
<1>36. CASE JobCompare
  BY <1>36 DEF JobCompare, EndJob, Unlock
<1>37. CASE JobPublish
  <2>1. base.rev = read.rev /\ Check(read)
    BY <1>37 DEF JobPublish, Decision
  <2>2. Check(Replacement(read, jobs + 1))
    BY <2>1, EnvelopeFields DEF Check, Replacement
  <2>3. QED
    BY <1>37, <2>2 DEF JobPublish, WriteJson, Stored
<1>38. CASE JobEnds
  BY <1>38 DEF JobEnds, EndJob, Unlock
<1>39. CASE UNCHANGED vars
  BY <1>39 DEF vars
<1>40. QED
  BY <1>1, <1>2, <1>3, <1>4, <1>5, <1>6, <1>7, <1>8, <1>9, <1>10, <1>11, <1>12, <1>13, <1>14,
     <1>15, <1>16, <1>17, <1>18, <1>19, <1>20, <1>21, <1>22, <1>23, <1>24, <1>25, <1>26, <1>27,
     <1>28, <1>29, <1>30, <1>31, <1>32, <1>33, <1>34, <1>35, <1>36, <1>37, <1>38, <1>39
     DEF Next, ControlNext, JobNext

\* Every step keeps what each process has read under the lock current.
LEMMA HeldStep ==
  ASSUME TypeOK, LockInv, DiskInv, HeldInv, AlwaysLoadable, AckedSurvives, [Next]_vars
  PROVE  HeldInv'
<1> USE DEF TypeOK, LockInv, DiskInv, HeldInv, Held, LoadPoints, StagePoints, RestorePoints, Covers,
            disk, ghost, actor, job
<1>1. CASE Start
  BY <1>1 DEF Start
<1>2. CASE StartWrite
  BY <1>2 DEF StartWrite, WriteJson, Count, Outcomes, Stored
<1>3. CASE Refresh
  BY <1>3 DEF Refresh
<1>4. CASE ControlRead
  BY <1>4 DEF ControlRead, AlwaysLoadable, AckedSurvives, Durable, Marked
<1>5. CASE LoadRecover
  BY <1>5 DEF LoadRecover, WriteJson, Count, Outcomes, Stored, LoadFails, Unlock
<1>6. CASE LoadUnmark
  BY <1>6 DEF LoadUnmark, RemovePending, Count, Outcomes, Stored, LoadFails, Unlock
<1>7. CASE Return
  BY <1>7 DEF Return, EndTurn, Unlock
<1>8. CASE Submit
  BY <1>8 DEF Submit, Decide
<1>9. CASE SubmitLifecycle
  BY <1>9 DEF SubmitLifecycle, Decide
<1>10. CASE SubmitEffect
  BY <1>10 DEF SubmitEffect, Unlock
<1>11. CASE SubmitEffectJob
  BY <1>11 DEF SubmitEffectJob, Decide
<1>12. CASE Follow
  BY <1>12 DEF Follow, Decide
<1>13. CASE FollowText
  BY <1>13 DEF FollowText, Decide
<1>14. CASE Complete
  BY <1>14 DEF Complete, Decide
<1>15. CASE Reserve
  <2>1. Covers(WithJob(state, "unknown")) /\ Check(WithJob(state, "unknown"))
    BY <1>15, WithJobFacts, JobNames DEF Reserve, AlwaysLoadable
  <2>2. QED
    BY <1>15, <2>1 DEF Reserve, WriteJson, Stored, EndTurn, Unlock
<1>16. CASE StagePrev
  BY <1>16 DEF StagePrev, Count, Outcomes, Stored
<1>17. CASE StageMarker
  BY <1>17 DEF StageMarker, Count, Outcomes, Stored
<1>18. CASE StageNext
  BY <1>18 DEF StageNext, WriteJson, Count, Outcomes, Stored
<1>19. CASE Apply
  BY <1>19 DEF Apply
<1>20. CASE Accept
  BY <1>20 DEF Accept, WriteJson, Count, Outcomes, Stored, SaveJob, EndTurn, Unlock
<1>21. CASE Commit
  BY <1>21 DEF Commit, RemovePending, Count, Outcomes, Stored, EndTurn, Unlock
<1>22. CASE Release
  <2>1. Covers(WithJob(state, "none")) /\ Check(WithJob(state, "none"))
    BY <1>22, WithJobFacts, JobNames DEF Release, AlwaysLoadable
  <2>2. QED
    BY <1>22, <2>1 DEF Release, WriteJson, Stored, EndTurn, Unlock
<1>23. CASE RollbackWrite
  BY <1>23 DEF RollbackWrite, WriteJson, Count, Outcomes, Stored, EndTurn, Unlock
<1>24. CASE RollbackUnmark
  BY <1>24 DEF RollbackUnmark, RemovePending, Count, Outcomes, Stored, EndTurn, Unlock
<1>25. CASE SaveText
  BY <1>25 DEF SaveText, WriteJson, Count, Outcomes, Stored, EndTurn, Unlock
<1>26. CASE EffectDone
  BY <1>26 DEF EffectDone
<1>27. CASE EffectFailed
  BY <1>27 DEF EffectFailed, EndTurn, Unlock
<1>28. CASE EffectRelease
  BY <1>28 DEF EffectRelease, WriteJson, Count, Outcomes, Stored, EndTurn, Unlock
<1>29. CASE Settle
  BY <1>29 DEF Settle, WriteJson, Count, Outcomes, Stored, EndTurn, Unlock
<1>30. CASE CrashControl
  BY <1>30 DEF CrashControl, Unlock
<1>31. CASE JobLoad
  BY <1>31 DEF JobLoad
<1>32. CASE JobCommit
  BY <1>32 DEF JobCommit
<1>33. CASE JobRecover
  BY <1>33 DEF JobRecover, WriteJson, Count, Outcomes, Stored, EndJob, Unlock
<1>34. CASE JobUnmark
  BY <1>34 DEF JobUnmark, RemovePending, Count, Outcomes, Stored, EndJob, Unlock
<1>35. CASE JobRead
  BY <1>35 DEF JobRead, Unlock
<1>36. CASE JobCompare
  BY <1>36 DEF JobCompare, EndJob, Unlock
<1>37. CASE JobPublish
  BY <1>37 DEF JobPublish, WriteJson, Count, Outcomes, Stored, EndJob, Unlock
<1>38. CASE JobEnds
  BY <1>38 DEF JobEnds, EndJob, Unlock
<1>39. CASE UNCHANGED vars
  BY <1>39 DEF vars
<1>40. QED
  BY <1>1, <1>2, <1>3, <1>4, <1>5, <1>6, <1>7, <1>8, <1>9, <1>10, <1>11, <1>12, <1>13, <1>14,
     <1>15, <1>16, <1>17, <1>18, <1>19, <1>20, <1>21, <1>22, <1>23, <1>24, <1>25, <1>26, <1>27,
     <1>28, <1>29, <1>30, <1>31, <1>32, <1>33, <1>34, <1>35, <1>36, <1>37, <1>38, <1>39
     DEF Next, ControlNext, JobNext

\* Every step keeps everything acknowledged on disk.
LEMMA AckedStep ==
  ASSUME ~UnlockedOverlap, TypeOK, LockInv, DiskInv, HeldInv, AckedSurvives, [Next]_vars
  PROVE  AckedSurvives'
<1> USE DEF TypeOK, LockInv, DiskInv, HeldInv, AckedSurvives, Held, LoadPoints, StagePoints,
            RestorePoints, ControlUnlocked, Covers, Durable, Marked, disk, ghost, actor, job
<1>1. CASE Start
  BY <1>1 DEF Start
<1>2. CASE StartWrite
  BY <1>2 DEF StartWrite, WriteJson, Count, Outcomes, Stored
<1>3. CASE Refresh
  BY <1>3 DEF Refresh
<1>4. CASE ControlRead
  BY <1>4 DEF ControlRead
<1>5. CASE LoadRecover
  BY <1>5 DEF LoadRecover, WriteJson, Count, Outcomes, Stored, LoadFails, Unlock
<1>6. CASE LoadUnmark
  BY <1>6 DEF LoadUnmark, RemovePending, Count, Outcomes, Stored, LoadFails, Unlock
<1>7. CASE Return
  BY <1>7 DEF Return, EndTurn, Unlock
<1>8. CASE Submit
  BY <1>8 DEF Submit, Decide
<1>9. CASE SubmitLifecycle
  BY <1>9 DEF SubmitLifecycle, Decide
<1>10. CASE SubmitEffect
  BY <1>10 DEF SubmitEffect, Unlock
<1>11. CASE SubmitEffectJob
  BY <1>11 DEF SubmitEffectJob, Decide
<1>12. CASE Follow
  BY <1>12 DEF Follow, Decide
<1>13. CASE FollowText
  BY <1>13 DEF FollowText, Decide
<1>14. CASE Complete
  BY <1>14 DEF Complete, Decide
<1>15. CASE Reserve
  <2>1. Covers(WithJob(state, "unknown")) /\ Check(WithJob(state, "unknown"))
    BY <1>15, WithJobFacts, JobNames DEF Reserve, AlwaysLoadable
  <2>2. QED
    BY <1>15, <2>1 DEF Reserve, WriteJson, Stored, EndTurn, Unlock
<1>16. CASE StagePrev
  BY <1>16 DEF StagePrev, Count, Outcomes, Stored
<1>17. CASE StageMarker
  BY <1>17 DEF StageMarker, Count, Outcomes, Stored
<1>18. CASE StageNext
  BY <1>18 DEF StageNext, WriteJson, Count, Outcomes, Stored
<1>19. CASE Apply
  BY <1>19 DEF Apply
<1>20. CASE Accept
  BY <1>20 DEF Accept, WriteJson, Count, Outcomes, Stored, SaveJob, EndTurn, Unlock
<1>21. CASE Commit
  <2>1. /\ Marked /\ prev = state /\ json = cand
        /\ Covers(state) /\ Covers(cand) /\ Content(cand).rev = cand.rev
    BY <1>21, CoversSucceeds DEF Commit, Content
  <2>2. /\ json' = json /\ prev' = prev /\ marker' \in {"present", "absent"}
        /\ acked' = acked \/ (acked' = acked \cup {Content(cand)} /\ marker' = "absent")
    BY <1>21 DEF Commit, RemovePending, Stored
  <2>3. CASE marker' = "present"
    <3>1. Durable' = state /\ acked' = acked
      BY <2>1, <2>2, <2>3
    <3>2. QED
      BY <2>1, <3>1
  <2>4. CASE marker' = "absent"
    <3>1. Durable' = cand
      BY <2>1, <2>2, <2>4
    <3>2. QED
      BY <2>1, <2>2, <3>1, EnvelopeFields
  <2>5. QED
    BY <2>2, <2>3, <2>4
<1>22. CASE Release
  <2>1. Covers(WithJob(state, "none")) /\ Check(WithJob(state, "none"))
    BY <1>22, WithJobFacts, JobNames DEF Release, AlwaysLoadable
  <2>2. QED
    BY <1>22, <2>1 DEF Release, WriteJson, Stored, EndTurn, Unlock
<1>23. CASE RollbackWrite
  BY <1>23 DEF RollbackWrite, WriteJson, Count, Outcomes, Stored, EndTurn, Unlock
<1>24. CASE RollbackUnmark
  BY <1>24 DEF RollbackUnmark, RemovePending, Count, Outcomes, Stored, EndTurn, Unlock
<1>25. CASE SaveText
  BY <1>25 DEF SaveText, WriteJson, Count, Outcomes, Stored, EndTurn, Unlock
<1>26. CASE EffectDone
  BY <1>26 DEF EffectDone
<1>27. CASE EffectFailed
  BY <1>27 DEF EffectFailed, EndTurn, Unlock
<1>28. CASE EffectRelease
  <2>1. ~Marked /\ json = state /\ Covers(state)
    BY <1>28 DEF EffectRelease
  <2>2. Covers(WithJob(state, "none"))
    BY <2>1, WithJobFacts, JobNames
  <2>3. QED
    BY <1>28, <2>1, <2>2 DEF EffectRelease, WriteJson, Stored
<1>29. CASE Settle
  <2>1. Covers(WithJob(state, "running")) /\ Covers(WithJob(state, "none"))
    BY <1>29, WithJobFacts, JobNames DEF Settle
  <2>2. QED
    BY <1>29, <2>1 DEF Settle, WriteJson, Stored
<1>30. CASE CrashControl
  BY <1>30 DEF CrashControl, Unlock
<1>31. CASE JobLoad
  BY <1>31 DEF JobLoad
<1>32. CASE JobCommit
  BY <1>32 DEF JobCommit
<1>33. CASE JobRecover
  BY <1>33 DEF JobRecover, WriteJson, Count, Outcomes, Stored, EndJob, Unlock
<1>34. CASE JobUnmark
  BY <1>34 DEF JobUnmark, RemovePending, Count, Outcomes, Stored, EndJob, Unlock
<1>35. CASE JobRead
  BY <1>35 DEF JobRead, Unlock
<1>36. CASE JobCompare
  BY <1>36 DEF JobCompare, EndJob, Unlock
<1>37. CASE JobPublish
  <2> DEFINE e == Replacement(read, jobs + 1)
  <2>1. /\ read = json /\ ~Marked /\ Content(e).rev = e.rev
        /\ e.rev \in Nat /\ json.rev \in Nat /\ e.rev = json.rev + 1
    BY <1>37, EnvelopeFields DEF JobPublish, Replacement, Decision, Content
  <2>2. \A a \in acked : a.rev \in Nat /\ a.rev <= json.rev
    BY <2>1
  <2> HIDE DEF e
  <2>3. /\ marker' = marker /\ json' \in {json, e}
        /\ acked' = acked \/ (acked' = acked \cup {Content(e)} /\ json' = e)
    BY <1>37 DEF JobPublish, WriteJson, Stored, e
  <2>4. CASE json' = json /\ acked' = acked
    BY <2>1, <2>3, <2>4
  <2>5. CASE json' = e
    BY <2>1, <2>2, <2>3, <2>5
  <2>6. QED
    BY <2>3, <2>4, <2>5
<1>38. CASE JobEnds
  BY <1>38 DEF JobEnds, EndJob, Unlock
<1>39. CASE UNCHANGED vars
  BY <1>39 DEF vars
<1>40. QED
  BY <1>1, <1>2, <1>3, <1>4, <1>5, <1>6, <1>7, <1>8, <1>9, <1>10, <1>11, <1>12, <1>13, <1>14,
     <1>15, <1>16, <1>17, <1>18, <1>19, <1>20, <1>21, <1>22, <1>23, <1>24, <1>25, <1>26, <1>27,
     <1>28, <1>29, <1>30, <1>31, <1>32, <1>33, <1>34, <1>35, <1>36, <1>37, <1>38, <1>39
     DEF Next, ControlNext, JobNext

\* No step acknowledges a revision for a second document.
LEMMA RevisionStep ==
  ASSUME TypeOK, LockInv, DiskInv, HeldInv, AckedSurvives, RevisionNamesOneDocument, [Next]_vars
  PROVE  RevisionNamesOneDocument'
<1> USE DEF RevisionNamesOneDocument, disk, ghost, actor, job
<1>1. CASE Start
  BY <1>1 DEF Start
<1>2. CASE StartWrite
  BY <1>2 DEF StartWrite, WriteJson, Count, Outcomes, Stored
<1>3. CASE Refresh
  BY <1>3 DEF Refresh
<1>4. CASE ControlRead
  BY <1>4 DEF ControlRead
<1>5. CASE LoadRecover
  BY <1>5 DEF LoadRecover, WriteJson, Count, Outcomes, Stored, LoadFails, Unlock
<1>6. CASE LoadUnmark
  BY <1>6 DEF LoadUnmark, RemovePending, Count, Outcomes, Stored, LoadFails, Unlock
<1>7. CASE Return
  BY <1>7 DEF Return, EndTurn, Unlock
<1>8. CASE Submit
  BY <1>8 DEF Submit, Decide
<1>9. CASE SubmitLifecycle
  BY <1>9 DEF SubmitLifecycle, Decide
<1>10. CASE SubmitEffect
  BY <1>10 DEF SubmitEffect, Unlock
<1>11. CASE SubmitEffectJob
  BY <1>11 DEF SubmitEffectJob, Decide
<1>12. CASE Follow
  BY <1>12 DEF Follow, Decide
<1>13. CASE FollowText
  BY <1>13 DEF FollowText, Decide
<1>14. CASE Complete
  BY <1>14 DEF Complete, Decide
<1>15. CASE Reserve
  BY <1>15 DEF Reserve, WriteJson, Count, Outcomes, Stored, EndTurn, Unlock
<1>16. CASE StagePrev
  BY <1>16 DEF StagePrev, Count, Outcomes, Stored
<1>17. CASE StageMarker
  BY <1>17 DEF StageMarker, Count, Outcomes, Stored
<1>18. CASE StageNext
  BY <1>18 DEF StageNext, WriteJson, Count, Outcomes, Stored
<1>19. CASE Apply
  BY <1>19 DEF Apply
<1>20. CASE Accept
  BY <1>20 DEF Accept, WriteJson, Count, Outcomes, Stored, SaveJob, EndTurn, Unlock
<1>21. CASE Commit
  <2>1. Covers(cand)
    BY <1>21, CoversSucceeds DEF Commit, TypeOK, LockInv, DiskInv, HeldInv, Held, StagePoints,
       RestorePoints
  <2>2. Content(cand).rev = cand.rev
    BY DEF Content
  <2>3. acked' \in {acked, acked \cup {Content(cand)}}
    BY <1>21 DEF Commit
  <2>4. QED
    BY <2>1, <2>2, <2>3 DEF Covers
<1>22. CASE Release
  BY <1>22 DEF Release, WriteJson, Count, Outcomes, Stored, EndTurn, Unlock
<1>23. CASE RollbackWrite
  BY <1>23 DEF RollbackWrite, WriteJson, Count, Outcomes, Stored, EndTurn, Unlock
<1>24. CASE RollbackUnmark
  BY <1>24 DEF RollbackUnmark, RemovePending, Count, Outcomes, Stored, EndTurn, Unlock
<1>25. CASE SaveText
  BY <1>25 DEF SaveText, WriteJson, Count, Outcomes, Stored, EndTurn, Unlock
<1>26. CASE EffectDone
  BY <1>26 DEF EffectDone
<1>27. CASE EffectFailed
  BY <1>27 DEF EffectFailed, EndTurn, Unlock
<1>28. CASE EffectRelease
  BY <1>28 DEF EffectRelease, WriteJson, Count, Outcomes, Stored, EndTurn, Unlock
<1>29. CASE Settle
  BY <1>29 DEF Settle, WriteJson, Count, Outcomes, Stored, EndTurn, Unlock
<1>30. CASE CrashControl
  BY <1>30 DEF CrashControl, Unlock
<1>31. CASE JobLoad
  BY <1>31 DEF JobLoad
<1>32. CASE JobCommit
  BY <1>32 DEF JobCommit
<1>33. CASE JobRecover
  BY <1>33 DEF JobRecover, WriteJson, Count, Outcomes, Stored, EndJob, Unlock
<1>34. CASE JobUnmark
  BY <1>34 DEF JobUnmark, RemovePending, Count, Outcomes, Stored, EndJob, Unlock
<1>35. CASE JobRead
  BY <1>35 DEF JobRead, Unlock
<1>36. CASE JobCompare
  BY <1>36 DEF JobCompare, EndJob, Unlock
<1>37. CASE JobPublish
  <2> DEFINE e == Replacement(read, jobs + 1)
  <2>1. /\ Covers(json) /\ Content(e).rev = e.rev
        /\ json.rev \in Nat /\ e.rev = json.rev + 1
    BY <1>37, EnvelopeFields
    DEF JobPublish, TypeOK, DiskInv, AckedSurvives, Durable, Marked, Replacement, Decision, Content
  <2>2. \A a \in acked : a.rev \in Nat /\ a.rev <= json.rev
    BY <2>1 DEF Covers, TypeOK
  <2> HIDE DEF e
  <2>3. acked' \in {acked, acked \cup {Content(e)}}
    BY <1>37 DEF JobPublish, e
  <2>4. QED
    BY <2>1, <2>2, <2>3
<1>38. CASE JobEnds
  BY <1>38 DEF JobEnds, EndJob, Unlock
<1>39. CASE UNCHANGED vars
  BY <1>39 DEF vars
<1>40. QED
  BY <1>1, <1>2, <1>3, <1>4, <1>5, <1>6, <1>7, <1>8, <1>9, <1>10, <1>11, <1>12, <1>13, <1>14,
     <1>15, <1>16, <1>17, <1>18, <1>19, <1>20, <1>21, <1>22, <1>23, <1>24, <1>25, <1>26, <1>27,
     <1>28, <1>29, <1>30, <1>31, <1>32, <1>33, <1>34, <1>35, <1>36, <1>37, <1>38, <1>39
     DEF Next, ControlNext, JobNext

-------------------------------------------------------------------------------
(* The invariant, and the theorems it carries.                               *)

\* The store the root import leaves satisfies the invariant.
LEMMA InitInv == Init => Inv
<1> SUFFICES ASSUME Init PROVE Inv
  OBVIOUS
<1>1. First \in Envelope /\ Check(First)
  BY FirstType DEF First, Check
<1>2. TypeOK
  BY <1>1 DEF Init, TypeOK, Turns, ControlPoints, PrivdPoints
<1>3. LockInv
  BY DEF Init, LockInv, Held, LoadPoints, StagePoints, RestorePoints, ControlUnlocked
<1>4. DiskInv
  BY DEF Init, DiskInv, StagePoints, Marked
<1>5. HeldInv
  BY DEF Init, HeldInv, Held, StagePoints, RestorePoints
<1>6. AlwaysLoadable /\ AckedSurvives /\ RevisionNamesOneDocument
  BY <1>1 DEF Init, AlwaysLoadable, AckedSurvives, Covers, RevisionNamesOneDocument
<1>7. QED
  BY <1>2, <1>3, <1>4, <1>5, <1>6 DEF Inv

\* Every step of either process, its failures and its death preserve it.
LEMMA InvStep ==
  ASSUME ~UnlockedOverlap, Inv, [Next]_vars
  PROVE  Inv'
BY TypeStep, LockStep, DiskStep, HeldStep, LoadableStep, AckedStep, RevisionStep DEF Inv

\* Every value of the store stays within its type, overlapping writers or not.
THEOREM TypeCorrect == Spec => []TypeOK
<1>1. Init => TypeOK
  BY InitInv DEF Inv
<1>2. TypeOK /\ [Next]_vars => TypeOK'
  BY TypeStep
<1>3. QED
  BY <1>1, <1>2, PTL DEF Spec

\* The inductive invariant holds throughout.
THEOREM InvHolds == ASSUME ~UnlockedOverlap PROVE Spec => []Inv
<1>1. Inv /\ [Next]_vars => Inv'
  BY InvStep
<1>2. QED
  BY InitInv, <1>1, PTL DEF Spec

\* What a writer was told is published is never lost or replaced under its
\* revision, through any number of crashes, failed file operations, rollbacks
\* and interleavings of the two writers (lib.rs, persist.rs, network_authority.rs).
THEOREM AckedSurvivesHolds == ASSUME ~UnlockedOverlap PROVE Spec => []AckedSurvives
<1>1. Inv => AckedSurvives
  BY DEF Inv
<1>2. QED
  BY InvHolds, <1>1, PTL

\* Both files a later start may load always pass StateFile::check.
THEOREM AlwaysLoadableHolds == ASSUME ~UnlockedOverlap PROVE Spec => []AlwaysLoadable
<1>1. Inv => AlwaysLoadable
  BY DEF Inv
<1>2. QED
  BY InvHolds, <1>1, PTL

\* No two acknowledged publications share a revision.
THEOREM RevisionHolds == ASSUME ~UnlockedOverlap PROVE Spec => []RevisionNamesOneDocument
<1>1. Inv => RevisionNamesOneDocument
  BY DEF Inv
<1>2. QED
  BY InvHolds, <1>1, PTL

\* What a writer was told is published can be loaded, is never lost and keeps a
\* revision to itself (lib.rs, persist.rs, network_authority.rs).
THEOREM PublishedStaysHolds == ASSUME ~UnlockedOverlap PROVE Spec => []PublishedStays
<1>1. Inv => PublishedStays
  BY DEF Inv, PublishedStays
<1>2. QED
  BY InvHolds, <1>1, PTL

-------------------------------------------------------------------------------
(* What outcomes say.  A refused document is not on disk because the numbers of *)
(* documents only grow and because the file operations that undo a transaction  *)
(* run after the one that failed: with one failure a turn they succeed.         *)

\* Control points at which the candidate of a transaction is in hand.
CandidatePoints == {"apply", "accept", "commit"} \cup StagePoints \cup RestorePoints

\* A refused document is neither the actor's, nor the previous one, nor the
\* published one, and a new candidate's number is not refused yet.
RefusalInv ==
    /\ refused \subseteq 1 .. txn
    /\ \A e \in {json, prev, state, cand} : e.doc <= txn
    /\ \A e \in {prev, state, cand} : e.doc \notin refused
    /\ ~Marked => json.doc \notin refused
    /\ cpc \in CandidatePoints /\ cand.doc # state.doc => cand.doc \notin {0, prev.doc}
    /\ cpc \in {"release", "rb_write"} /\ ~Marked => faults # 0

\* A turn that goes on to a privileged plugin effect holds the reservation.
ReservationInv ==
    \/ turn = "lifecycle" /\ cpc \in {"stage_prev", "stage_marker", "stage_next", "apply", "accept"}
    \/ turn = "effectjob" /\ cpc = "effect"
    => state.job = "unknown"

\* What Refuse adds, and what the documents of the actor's envelopes are.
LEMMA RefusalFacts ==
  ASSUME NEW e \in Envelope, NEW j \in JobStates, NEW t \in Nat
  PROVE  /\ WithJob(e, j).doc = e.doc /\ NextDocument(e, t, j).doc = t
         /\ First.doc = 0
BY DEF WithJob, NextDocument, First, Envelope

\* No step brings a refused document back, or refuses one that is on disk: with one
\* failing operation a turn, what undoes the transaction succeeds.
LEMMA RefusalStep ==
  ASSUME FaultsPerTurn <= 1, TypeOK, LockInv, DiskInv, RefusalInv, [Next]_vars
  PROVE  RefusalInv'
<1> USE StoreAssumption
    DEF TypeOK, LockInv, DiskInv, RefusalInv, Marked, Held, CandidatePoints, ControlUnlocked,
        LoadPoints, StagePoints, RestorePoints, disk, ghost, actor, job
<1>f. /\ First.doc = 0 /\ txn \in Nat /\ json.doc \in Nat /\ prev.doc \in Nat
      /\ state.doc \in Nat /\ cand.doc \in Nat /\ read.doc \in Nat
  BY EnvelopeFields DEF First
<1>w. \A e \in Envelope, jj \in JobStates : WithJob(e, jj).doc = e.doc
  BY RefusalFacts, <1>f
<1>n. \A e \in Envelope, jj \in JobStates : NextDocument(e, txn + 1, jj).doc = txn + 1
  BY RefusalFacts, <1>f
<1>c. cpc \in CandidatePoints /\ cand.doc # state.doc => cand.doc \in 1 .. txn
  BY <1>f
<1> USE <1>f
<1>1. CASE Start
  BY <1>1 DEF Start
<1>2. CASE StartWrite
  BY <1>2 DEF StartWrite, WriteJson, Count, Outcomes, Stored
<1>3. CASE Refresh
  BY <1>3 DEF Refresh
<1>4. CASE ControlRead
  BY <1>4 DEF ControlRead
<1>5. CASE LoadRecover
  BY <1>5 DEF LoadRecover, WriteJson, Count, Outcomes, Stored, LoadFails, Unlock
<1>6. CASE LoadUnmark
  BY <1>6 DEF LoadUnmark, RemovePending, Count, Outcomes, Stored, LoadFails, Unlock
<1>7. CASE Return
  BY <1>7 DEF Return, EndTurn, Unlock
<1>8. CASE Submit
  <2>1. NextDocument(state, txn + 1, state.job).doc = txn + 1
    BY <1>n, EnvelopeFields
  <2> DEFINE e == NextDocument(state, txn + 1, state.job)
  <2> HIDE DEF e
  <2>2. /\ cand' = e /\ e.doc = txn + 1 /\ cpc' = "stage_prev" /\ txn' = txn + 1
        /\ UNCHANGED <<json, prev, marker, state, faults, refused>>
    BY <1>8, <2>1 DEF Submit, Decide, e
  <2>3. QED
    BY <2>2
<1>9. CASE SubmitLifecycle
  <2>1. NextDocument(state, txn + 1, "unknown").doc = txn + 1
    BY <1>n, JobNames
  <2> DEFINE e == NextDocument(state, txn + 1, "unknown")
  <2> HIDE DEF e
  <2>2. /\ cand' = e /\ e.doc = txn + 1 /\ cpc' = "reserve" /\ txn' = txn + 1
        /\ UNCHANGED <<json, prev, marker, state, faults, refused>>
    BY <1>9, <2>1 DEF SubmitLifecycle, Decide, e
  <2>3. QED
    BY <2>2
<1>10. CASE SubmitEffect
  BY <1>10 DEF SubmitEffect, Unlock
<1>11. CASE SubmitEffectJob
  <2>1. WithJob(state, "unknown").doc = state.doc
    BY <1>w, JobNames
  <2> DEFINE e == WithJob(state, "unknown")
  <2> HIDE DEF e
  <2>2. /\ cand' = e /\ e.doc = state.doc /\ cpc' = "reserve"
        /\ UNCHANGED <<json, prev, marker, state, faults, refused, txn>>
    BY <1>11, <2>1 DEF SubmitEffectJob, Decide, e
  <2>3. QED
    BY <2>2
<1>12. CASE Follow
  <2>1. NextDocument(state, txn + 1, state.job).doc = txn + 1
    BY <1>n, EnvelopeFields
  <2> DEFINE e == NextDocument(state, txn + 1, state.job)
  <2> HIDE DEF e
  <2>2. /\ cand' = e /\ e.doc = txn + 1 /\ cpc' = "stage_prev" /\ txn' = txn + 1
        /\ UNCHANGED <<json, prev, marker, state, faults, refused>>
    BY <1>12, <2>1 DEF Follow, Decide, e
  <2>3. QED
    BY <2>2
<1>13. CASE FollowText
  BY <1>13 DEF FollowText, Decide
<1>14. CASE Complete
  <2>1. NextDocument(state, txn + 1, state.job).doc = txn + 1
    BY <1>n, EnvelopeFields
  <2> DEFINE e == NextDocument(state, txn + 1, state.job)
  <2> HIDE DEF e
  <2>2. /\ \/ cand' = state /\ txn' = txn
           \/ cand' = e /\ e.doc = txn + 1 /\ txn' = txn + 1
        /\ cpc' = "stage_prev"
        /\ UNCHANGED <<json, prev, marker, state, faults, refused>>
    BY <1>14, <2>1 DEF Complete, Decide, e
  <2>3. QED
    BY <2>2
<1>15. CASE Reserve
  <2> DEFINE e == WithJob(state, "unknown")
  <2>1. e.doc = state.doc
    BY <1>w, JobNames
  <2> HIDE DEF e
  <2>2. /\ json' \in {json, e} /\ prev' = prev /\ marker' = marker /\ txn' = txn
        /\ json.doc = state.doc /\ ~Marked
        /\ \/ /\ cand' = First /\ state' = state /\ cpc' = "idle"
              /\ refused' \subseteq refused \cup {cand.doc}
              /\ cand.doc = state.doc => refused' = refused
           \/ /\ cand' = cand /\ state' = e /\ refused' = refused
              /\ cpc' \in {"effect", "stage_prev"}
    BY <1>15 DEF Reserve, WriteJson, Stored, EndTurn, Refuse, e
  <2>3. refused' \subseteq 1 .. txn
    BY <1>15, <1>c, <2>2 DEF Reserve
  <2>4. QED
    BY <1>15, <1>c, <2>1, <2>2, <2>3 DEF Reserve
<1>16. CASE StagePrev
  BY <1>16 DEF StagePrev, Count, Outcomes, Stored
<1>17. CASE StageMarker
  BY <1>17 DEF StageMarker, Count, Outcomes, Stored
<1>18. CASE StageNext
  BY <1>18 DEF StageNext, WriteJson, Count, Outcomes, Stored
<1>19. CASE Apply
  BY <1>19 DEF Apply
<1>20. CASE Accept
  <2>1. /\ prev' = prev /\ marker' = marker /\ txn' = txn /\ state' = state
        /\ Marked /\ cpc' \in {"idle", "commit", "release"}
        /\ \/ /\ cand' = First /\ cpc' = "idle" /\ json' = json
              /\ refused' \subseteq refused \cup {cand.doc}
              /\ cand.doc = state.doc => refused' = refused
           \/ /\ \/ json' = json /\ cand' = cand
                 \/ \E jj \in JobStates : cand' = WithJob(cand, jj) /\ json' \in {json, cand'}
              /\ refused' = refused /\ cpc' # "idle"
    BY <1>20, JobNames, CandidateJob DEF Accept, SaveJob, WriteJson, Stored, EndTurn, Refuse
  <2>2. cpc' # "idle" => cand'.doc = cand.doc /\ json'.doc \in {json.doc, cand.doc}
    BY <2>1, <1>w
  <2>3. refused' \subseteq 1 .. txn
    BY <1>20, <1>c, <2>1 DEF Accept
  <2>4. /\ Marked' /\ prev = state
        /\ cpc' = "idle" => json' = json /\ cand' = First /\ state.doc \notin refused'
    BY <1>20, <2>1 DEF Accept
  <2>5. CASE cpc' = "idle"
    BY <2>1, <2>3, <2>4, <2>5
  <2>6. CASE cpc' # "idle"
    BY <1>20, <1>c, <2>1, <2>2, <2>4, <2>6 DEF Accept
  <2>7. QED
    BY <2>5, <2>6
<1>21. CASE Commit
  BY <1>21 DEF Commit, RemovePending, Count, Outcomes, Stored, EndTurn, Unlock
<1>22. CASE Release
  <2> DEFINE e == WithJob(state, "none")
  <2>1. e.doc = state.doc
    BY <1>w, JobNames
  <2> HIDE DEF e
  <2>2. PICK r \in {"ok", "lost", "late"} :
          /\ \/ r = "ok" /\ state' \in {state, e} /\ json' \in {json, e}
                /\ (state' = e \/ json' = json)
                /\ cpc' = "rb_write" /\ cand' = cand /\ refused' = refused /\ faults' = faults
             \/ /\ r # "ok" /\ faults < FaultsPerTurn
                /\ state' = state /\ json' \in {json, e}
                /\ cpc' = "idle" /\ cand' = First
                /\ refused' \subseteq refused \cup {cand.doc}
                /\ cand.doc = state.doc => refused' = refused
          /\ prev' = prev /\ marker' = marker /\ txn' = txn
    BY <1>22 DEF Release, Outcomes, Count, WriteJson, Stored, EndTurn, Refuse, e
  <2>3. r # "ok" => Marked
    BY <1>22, <2>2 DEF Release
  <2>4. refused' \subseteq 1 .. txn
    BY <1>22, <1>c, <2>2 DEF Release
  <2>5. QED
    BY <1>22, <2>1, <2>2, <2>3, <2>4 DEF Release
<1>23. CASE RollbackWrite
  <2>1. PICK r \in {"ok", "lost", "late"} :
          /\ json' \in {json, state} /\ (r = "ok" => json' = state)
          /\ \/ r = "ok" /\ cpc' = "rb_unmark" /\ cand' = cand /\ refused' = refused
             \/ /\ r # "ok" /\ faults < FaultsPerTurn
                /\ cpc' = "idle" /\ cand' = First
                /\ refused' \subseteq refused \cup {cand.doc}
                /\ cand.doc = state.doc => refused' = refused
          /\ UNCHANGED <<prev, marker, txn, state>>
    BY <1>23 DEF RollbackWrite, Outcomes, WriteJson, Stored, EndTurn, Refuse
  <2>2. r # "ok" => Marked
    BY <1>23, <2>1 DEF RollbackWrite
  <2>3. refused' \subseteq 1 .. txn
    BY <1>23, <1>c, <2>1 DEF RollbackWrite
  <2>4. QED
    BY <1>23, <2>1, <2>2, <2>3 DEF RollbackWrite
<1>24. CASE RollbackUnmark
  <2>1. /\ json = state /\ UNCHANGED <<json, prev, txn, state>>
        /\ cpc' = "idle" /\ cand' = First
        /\ refused' \subseteq refused \cup {cand.doc}
        /\ cand.doc = state.doc => refused' = refused
    BY <1>24 DEF RollbackUnmark, EndTurn, Refuse
  <2>2. refused' \subseteq 1 .. txn
    BY <1>24, <1>c, <2>1 DEF RollbackUnmark
  <2>3. QED
    BY <1>24, <2>1, <2>2 DEF RollbackUnmark
<1>25. CASE SaveText
  BY <1>25 DEF SaveText, WriteJson, Count, Outcomes, Stored, EndTurn, Unlock
<1>26. CASE EffectDone
  BY <1>26 DEF EffectDone
<1>27. CASE EffectFailed
  BY <1>27 DEF EffectFailed, EndTurn, Unlock
<1>28. CASE EffectRelease
  <2> DEFINE e == WithJob(state, "none")
  <2>1. e.doc = state.doc
    BY <1>w, JobNames
  <2> HIDE DEF e
  <2>2. /\ state' \in {state, e} /\ json' \in {json, e} /\ cpc' = "idle" /\ cand' = First
        /\ UNCHANGED <<prev, marker, txn, refused>> /\ json = state
    BY <1>28 DEF EffectRelease, WriteJson, Stored, EndTurn, e
  <2>3. QED
    BY <2>1, <2>2
<1>29. CASE Settle
  <2>1. /\ \/ state' = state /\ json' = json
           \/ \E jj \in JobStates :
                 /\ state' \in {state, WithJob(state, jj)}
                 /\ json' \in {json, WithJob(state, jj)}
        /\ cpc' = "idle" /\ cand' = First
        /\ UNCHANGED <<prev, marker, txn, refused>> /\ json = state
    BY <1>29, JobNames DEF Settle, WriteJson, Stored, EndTurn
  <2>2. state'.doc = state.doc /\ json'.doc = state.doc
    BY <2>1, <1>w
  <2>3. QED
    BY <2>1, <2>2
<1>30. CASE CrashControl
  BY <1>30 DEF CrashControl, Unlock
<1>31. CASE JobLoad
  BY <1>31 DEF JobLoad, Quiet
<1>32. CASE JobCommit
  BY <1>32 DEF JobCommit, Quiet
<1>33. CASE JobRecover
  BY <1>33 DEF JobRecover, WriteJson, Count, Outcomes, Stored, EndJob, Unlock
<1>34. CASE JobUnmark
  BY <1>34 DEF JobUnmark, RemovePending, Count, Outcomes, Stored, EndJob, Unlock
<1>35. CASE JobRead
  BY <1>35 DEF JobRead, Unlock
<1>36. CASE JobCompare
  BY <1>36 DEF JobCompare, EndJob, Unlock
<1>37. CASE JobPublish
  <2> DEFINE e == Replacement(read, jobs + 1)
  <2>1. e.doc = read.doc
    BY DEF Replacement
  <2> HIDE DEF e
  <2>2. /\ json' \in {json, e} /\ json = read /\ ~Marked
        /\ UNCHANGED <<prev, marker, txn, refused, state, cand, cpc>>
    BY <1>37 DEF JobPublish, WriteJson, Stored, e
  <2>3. lock = "privd" /\ cpc \notin {"release", "rb_write"}
    BY <1>37 DEF JobPublish
  <2>4. QED
    BY <2>1, <2>2, <2>3
<1>38. CASE JobEnds
  BY <1>38 DEF JobEnds, EndJob, Unlock
<1>39. CASE UNCHANGED vars
  BY <1>39 DEF vars
<1>40. QED
  BY <1>1, <1>2, <1>3, <1>4, <1>5, <1>6, <1>7, <1>8, <1>9, <1>10, <1>11, <1>12, <1>13, <1>14,
     <1>15, <1>16, <1>17, <1>18, <1>19, <1>20, <1>21, <1>22, <1>23, <1>24, <1>25, <1>26, <1>27,
     <1>28, <1>29, <1>30, <1>31, <1>32, <1>33, <1>34, <1>35, <1>36, <1>37, <1>38, <1>39
     DEF Next, ControlNext, JobNext

\* No step goes to a plugin effect without the reservation.
LEMMA ReservationStep ==
  ASSUME TypeOK, LockInv, DiskInv, ReservationInv, [Next]_vars
  PROVE  ReservationInv'
<1> USE DEF TypeOK, LockInv, DiskInv, ReservationInv, Held, LoadPoints, StagePoints, RestorePoints,
            disk, ghost, actor, job
<1>1. CASE Start
  BY <1>1 DEF Start
<1>2. CASE StartWrite
  BY <1>2 DEF StartWrite, WriteJson, Count, Outcomes, Stored
<1>3. CASE Refresh
  BY <1>3 DEF Refresh
<1>4. CASE ControlRead
  BY <1>4 DEF ControlRead
<1>5. CASE LoadRecover
  BY <1>5 DEF LoadRecover, WriteJson, Count, Outcomes, Stored, LoadFails, Unlock
<1>6. CASE LoadUnmark
  BY <1>6 DEF LoadUnmark, RemovePending, Count, Outcomes, Stored, LoadFails, Unlock
<1>7. CASE Return
  BY <1>7 DEF Return, EndTurn, Unlock
<1>8. CASE Submit
  BY <1>8 DEF Submit, Decide
<1>9. CASE SubmitLifecycle
  BY <1>9 DEF SubmitLifecycle, Decide
<1>10. CASE SubmitEffect
  BY <1>10 DEF SubmitEffect, Unlock
<1>11. CASE SubmitEffectJob
  BY <1>11 DEF SubmitEffectJob, Decide
<1>12. CASE Follow
  BY <1>12 DEF Follow, Decide
<1>13. CASE FollowText
  BY <1>13 DEF FollowText, Decide
<1>14. CASE Complete
  BY <1>14 DEF Complete, Decide
<1>15. CASE Reserve
  <2>1. WithJob(state, "unknown").job = "unknown"
    BY SameFacts, JobNames
  <2>2. \/ cpc' = "idle"
        \/ cpc' \in {"effect", "stage_prev"} /\ state' = WithJob(state, "unknown")
    BY <1>15 DEF Reserve, EndTurn
  <2>3. QED
    BY <2>1, <2>2
<1>16. CASE StagePrev
  BY <1>16 DEF StagePrev, Count, Outcomes, Stored
<1>17. CASE StageMarker
  BY <1>17 DEF StageMarker, Count, Outcomes, Stored
<1>18. CASE StageNext
  BY <1>18 DEF StageNext, WriteJson, Count, Outcomes, Stored
<1>19. CASE Apply
  BY <1>19 DEF Apply
<1>20. CASE Accept
  BY <1>20 DEF Accept, WriteJson, Count, Outcomes, Stored, SaveJob, EndTurn, Unlock
<1>21. CASE Commit
  BY <1>21 DEF Commit, RemovePending, Count, Outcomes, Stored, EndTurn, Unlock
<1>22. CASE Release
  BY <1>22 DEF Release, WriteJson, Count, Outcomes, Stored, EndTurn, Unlock
<1>23. CASE RollbackWrite
  BY <1>23 DEF RollbackWrite, WriteJson, Count, Outcomes, Stored, EndTurn, Unlock
<1>24. CASE RollbackUnmark
  BY <1>24 DEF RollbackUnmark, RemovePending, Count, Outcomes, Stored, EndTurn, Unlock
<1>25. CASE SaveText
  BY <1>25 DEF SaveText, WriteJson, Count, Outcomes, Stored, EndTurn, Unlock
<1>26. CASE EffectDone
  BY <1>26 DEF EffectDone
<1>27. CASE EffectFailed
  BY <1>27 DEF EffectFailed, EndTurn, Unlock
<1>28. CASE EffectRelease
  BY <1>28 DEF EffectRelease, WriteJson, Count, Outcomes, Stored, EndTurn, Unlock
<1>29. CASE Settle
  BY <1>29 DEF Settle, WriteJson, Count, Outcomes, Stored, EndTurn, Unlock
<1>30. CASE CrashControl
  BY <1>30 DEF CrashControl, Unlock
<1>31. CASE JobLoad
  BY <1>31 DEF JobLoad, Quiet
<1>32. CASE JobCommit
  BY <1>32 DEF JobCommit, Quiet
<1>33. CASE JobRecover
  BY <1>33 DEF JobRecover, WriteJson, Count, Outcomes, Stored, EndJob, Unlock
<1>34. CASE JobUnmark
  BY <1>34 DEF JobUnmark, RemovePending, Count, Outcomes, Stored, EndJob, Unlock
<1>35. CASE JobRead
  BY <1>35 DEF JobRead, Unlock
<1>36. CASE JobCompare
  BY <1>36 DEF JobCompare, EndJob, Unlock
<1>37. CASE JobPublish
  BY <1>37 DEF JobPublish, WriteJson, Count, Outcomes, Stored, EndJob, Unlock
<1>38. CASE JobEnds
  BY <1>38 DEF JobEnds, EndJob, Unlock
<1>39. CASE UNCHANGED vars
  BY <1>39 DEF vars
<1>40. QED
  BY <1>1, <1>2, <1>3, <1>4, <1>5, <1>6, <1>7, <1>8, <1>9, <1>10, <1>11, <1>12, <1>13, <1>14,
     <1>15, <1>16, <1>17, <1>18, <1>19, <1>20, <1>21, <1>22, <1>23, <1>24, <1>25, <1>26, <1>27,
     <1>28, <1>29, <1>30, <1>31, <1>32, <1>33, <1>34, <1>35, <1>36, <1>37, <1>38, <1>39
     DEF Next, ControlNext, JobNext

\* The store the root import leaves: nothing has been refused, nothing reserved.
LEMMA InitOutcomes == Init => RefusalInv /\ ReservationInv
BY StoreAssumption
DEF Init, RefusalInv, ReservationInv, First, Marked, CandidatePoints, StagePoints, RestorePoints

\* A turn that goes on to a plugin effect has its reservation on disk.
LEMMA ReservedFromInv ==
  ASSUME DiskInv, ReservationInv
  PROVE  ReservedBeforeEffect
BY DEF DiskInv, ReservationInv, ReservedBeforeEffect, Durable

\* A privileged plugin job is started only under a durable reservation, through
\* any number of crashes and failed file operations (lib.rs `reserve`).
THEOREM ReservedBeforeEffectHolds ==
  ASSUME ~UnlockedOverlap PROVE Spec => []ReservedBeforeEffect
<1>1. Inv /\ ReservationInv /\ [Next]_vars => ReservationInv'
  BY ReservationStep DEF Inv
<1>2. Inv /\ ReservationInv => ReservedBeforeEffect
  BY ReservedFromInv DEF Inv
<1>3. QED
  BY InvHolds, InitOutcomes, <1>1, <1>2, PTL DEF Spec

\* With at most one failing file operation in a turn, a transaction whose client
\* was told that it failed is not what anybody loads, and an effect has its record
\* first (lib.rs `restore`, `finish`, `reserve`).  Two failures are too many: the
\* marker removed by the first and a rollback lost by the second leave the refused
\* candidate published.
THEOREM OutcomesAreTrueHolds ==
  ASSUME ~UnlockedOverlap, FaultsPerTurn <= 1 PROVE Spec => []OutcomesAreTrue
<1>1. Inv /\ RefusalInv /\ [Next]_vars => RefusalInv'
  BY RefusalStep DEF Inv
<1>2. RefusalInv => RefusedNotPublished
  BY DEF RefusalInv, RefusedNotPublished, Durable
<1>3. RefusedNotPublished /\ ReservedBeforeEffect => OutcomesAreTrue
  BY DEF OutcomesAreTrue
<1>4. QED
  BY InvHolds, InitOutcomes, ReservedBeforeEffectHolds, <1>1, <1>2, <1>3, PTL DEF Spec
-------------------------------------------------------------------------------
(***************************************************************************)
(* The store implements DesiredLog: what a reader can load moves forward   *)
(* one publication at a time, whoever writes it and whatever fails.        *)
(***************************************************************************)

\* An envelope is determined by its fields.
LEMMA EnvelopeEq ==
  ASSUME NEW e \in Envelope, NEW f \in Envelope, Same(e, f), e.job = f.job
  PROVE  e = f
BY DEF Envelope, Same

\* The successors of an envelope are envelopes.
LEMMA ExceptType ==
  ASSUME NEW e \in Envelope, NEW r \in Nat, NEW n \in Nat, NEW j \in JobStates
  PROVE  /\ [e EXCEPT !.rev = r, !.doc = n, !.docrev = r, !.job = j] \in Envelope
         /\ [e EXCEPT !.rev = r, !.net = n, !.netrev = r] \in Envelope
BY DEF Envelope

\* A reader always finds an envelope.
LEMMA PublishedType == ASSUME TypeOK PROVE Published \in Envelope
BY DEF TypeOK, Published, Durable

\* A successor of the actor is a document or a metadata publication.
LEMMA SucceedsIsLogStep ==
  ASSUME Published \in Envelope, Published' \in Envelope, Succeeds(Published', Published)
  PROVE  Log!Next
<1> DEFINE p == Published
           q == Published'
<1>1. CASE Same(q, p)
  <2>1. [p EXCEPT !.job = q.job] \in Envelope
    BY DEF Envelope
  <2>2. q = [p EXCEPT !.job = q.job]
    BY <1>1, <2>1, EnvelopeEq DEF Same, Envelope
  <2>3. QED
    BY <2>2 DEF Log!Next, Log!SaveMetadata, Log!Envelope, Envelope
<1>2. CASE ~Same(q, p)
  <2> DEFINE r == [p EXCEPT !.rev = p.rev + 1, !.doc = q.doc, !.docrev = p.rev + 1, !.job = q.job]
  <2>0. p \in Envelope /\ p.rev + 1 \in Nat /\ q.doc \in Nat /\ q.job \in JobStates
    BY EnvelopeFields
  <2>1. r \in Envelope
    BY <2>0, ExceptType, Zenon
  <2>2. Same(q, r) /\ q.job = r.job
    BY <1>2 DEF Succeeds, Same, Envelope
  <2>3. q = r
    BY <2>1, <2>2, EnvelopeEq
  <2>4. QED
    BY <2>3 DEF Log!Next, Log!CommitDocument, Log!Envelope, Envelope
<1>3. QED
  BY <1>1, <1>2

\* Every step of the actor leaves what a reader finds, or publishes a successor.
LEMMA ControlPublishes ==
  ASSUME ~UnlockedOverlap, TypeOK, LockInv, DiskInv, ControlNext
  PROVE  Succeeds(Published', Published)
<1> USE DEF TypeOK, LockInv, DiskInv, Held, LoadPoints, StagePoints, RestorePoints,
            ControlUnlocked, Published, Durable, Marked, Succeeds, Same, disk, ghost, actor, job
<1>1. CASE Start
  BY <1>1 DEF Start
<1>2. CASE StartWrite
  BY <1>2 DEF StartWrite, WriteJson, Count, Outcomes, Stored
<1>3. CASE Refresh
  BY <1>3 DEF Refresh
<1>4. CASE ControlRead
  BY <1>4 DEF ControlRead
<1>5. CASE LoadRecover
  BY <1>5 DEF LoadRecover, WriteJson, Count, Outcomes, Stored, LoadFails, Unlock
<1>6. CASE LoadUnmark
  BY <1>6 DEF LoadUnmark, RemovePending, Count, Outcomes, Stored, LoadFails, Unlock
<1>7. CASE Return
  BY <1>7 DEF Return, EndTurn, Unlock
<1>8. CASE Submit
  BY <1>8 DEF Submit, Decide
<1>9. CASE SubmitLifecycle
  BY <1>9 DEF SubmitLifecycle, Decide
<1>10. CASE SubmitEffect
  BY <1>10 DEF SubmitEffect, Unlock
<1>11. CASE SubmitEffectJob
  BY <1>11 DEF SubmitEffectJob, Decide
<1>12. CASE Follow
  BY <1>12 DEF Follow, Decide
<1>13. CASE FollowText
  BY <1>13 DEF FollowText, Decide
<1>14. CASE Complete
  BY <1>14 DEF Complete, Decide
<1>15. CASE Reserve
  BY <1>15, SucceedsFacts, SameFacts, JobNames DEF Reserve, WriteJson, Count, Outcomes, Stored, EndTurn, Unlock
<1>16. CASE StagePrev
  BY <1>16 DEF StagePrev, Count, Outcomes, Stored
<1>17. CASE StageMarker
  BY <1>17 DEF StageMarker, Count, Outcomes, Stored
<1>18. CASE StageNext
  BY <1>18 DEF StageNext, WriteJson, Count, Outcomes, Stored
<1>19. CASE Apply
  BY <1>19 DEF Apply
<1>20. CASE Accept
  BY <1>20, SucceedsFacts, SameFacts, JobNames DEF Accept, WriteJson, Count, Outcomes, Stored, SaveJob, EndTurn, Unlock
<1>21. CASE Commit
  BY <1>21 DEF Commit, RemovePending, Count, Outcomes, Stored, EndTurn, Unlock
<1>22. CASE Release
  BY <1>22, SucceedsFacts, SameFacts, JobNames DEF Release, WriteJson, Count, Outcomes, Stored, EndTurn, Unlock
<1>23. CASE RollbackWrite
  BY <1>23 DEF RollbackWrite, WriteJson, Count, Outcomes, Stored, EndTurn, Unlock
<1>24. CASE RollbackUnmark
  BY <1>24 DEF RollbackUnmark, RemovePending, Count, Outcomes, Stored, EndTurn, Unlock
<1>25. CASE SaveText
  BY <1>25 DEF SaveText, WriteJson, Count, Outcomes, Stored, EndTurn, Unlock
<1>26. CASE EffectDone
  BY <1>26 DEF EffectDone
<1>27. CASE EffectFailed
  BY <1>27 DEF EffectFailed, EndTurn, Unlock
<1>28. CASE EffectRelease
  BY <1>28, SucceedsFacts, SameFacts, JobNames DEF EffectRelease, WriteJson, Count, Outcomes, Stored, EndTurn, Unlock
<1>29. CASE Settle
  BY <1>29, SucceedsFacts, SameFacts, JobNames DEF Settle, WriteJson, Count, Outcomes, Stored, EndTurn, Unlock
<1>30. CASE CrashControl
  BY <1>30 DEF CrashControl, Unlock
<1> HIDE DEF TypeOK, LockInv, DiskInv, Published, Durable, Marked, Succeeds, Same
<1>31. QED
  BY <1>1, <1>2, <1>3, <1>4, <1>5, <1>6, <1>7, <1>8, <1>9, <1>10, <1>11, <1>12, <1>13, <1>14, <1>15, <1>16, <1>17, <1>18, <1>19, <1>20, <1>21, <1>22, <1>23, <1>24, <1>25, <1>26, <1>27, <1>28, <1>29, <1>30 DEF ControlNext

\* A Keep publishes the next revision with its network decision, or nothing.
LEMMA PublishIsLogStep ==
  ASSUME ~UnlockedOverlap, TypeOK, TypeOK', LockInv, DiskInv, JobPublish
  PROVE  [Log!Next]_Published
<1> DEFINE e == Replacement(read, jobs + 1)
           r == [json EXCEPT !.rev = json.rev + 1, !.net = e.net, !.netrev = json.rev + 1]
<1>1. /\ read = json /\ ~Marked /\ Decision(read) = Decision(base) /\ lock = "privd"
      /\ Published = json
  BY DEF JobPublish, LockInv, DiskInv, Published, Durable
<1>2. json \in Envelope /\ jobs + 1 \in Nat /\ base \in Envelope
  BY DEF TypeOK
<1>3. e \in Envelope
  BY <1>1, <1>2, ReplacementType DEF TypeOK
<1>4. r \in Envelope
  <2>1. json.rev + 1 \in Nat /\ e.net \in Nat
    BY <1>2, <1>3, EnvelopeFields
  <2>2. QED
    BY <1>2, <2>1, ExceptType, JobNames, Zenon
<1>5. Same(e, r) /\ e.job = r.job
  BY <1>1, <1>2 DEF Same, Replacement, Decision, Envelope
<1>6. e = r
  BY <1>3, <1>4, <1>5, EnvelopeEq
<1> HIDE DEF e
<1>7. /\ json' \in {json, e} /\ marker' = marker /\ lock' = "none"
  BY <1>1 DEF JobPublish, WriteJson, Stored, EndJob, Unlock, e
<1>8. Published' = json'
  BY <1>1, <1>7 DEF Published, Durable, Marked
<1>9. CASE json' = json
  BY <1>1, <1>8, <1>9
<1>10. CASE json' = e
  BY <1>1, <1>3, <1>6, <1>8, <1>10 DEF Log!Next, Log!CommitNetwork, Log!Envelope, Envelope
<1>11. QED
  BY <1>7, <1>9, <1>10

\* The network job's other steps leave what a reader finds.
LEMMA JobKeepsPublished ==
  ASSUME ~UnlockedOverlap, TypeOK, LockInv, DiskInv, JobNext, ~JobPublish
  PROVE  Published' = Published
<1> USE DEF TypeOK, LockInv, DiskInv, Held, LoadPoints, StagePoints, RestorePoints,
            ControlUnlocked, Published, Durable, Marked, disk, ghost, actor, job
<1>1. CASE JobLoad
  BY <1>1 DEF JobLoad
<1>2. CASE JobCommit
  BY <1>2 DEF JobCommit
<1>3. CASE JobRecover
  BY <1>3 DEF JobRecover, WriteJson, Count, Outcomes, Stored, EndJob, Unlock
<1>4. CASE JobUnmark
  BY <1>4 DEF JobUnmark, RemovePending, Count, Outcomes, Stored, EndJob, Unlock
<1>5. CASE JobRead
  BY <1>5 DEF JobRead, Unlock
<1>6. CASE JobCompare
  BY <1>6 DEF JobCompare, EndJob, Unlock
<1>7. CASE JobEnds
  BY <1>7 DEF JobEnds, EndJob, Unlock
<1>8. QED
  BY <1>1, <1>2, <1>3, <1>4, <1>5, <1>6, <1>7 DEF JobNext

\* Every step of the system is a step of the log or leaves it as it is.
LEMMA LogStep == ASSUME ~UnlockedOverlap, Inv, [Next]_vars PROVE [Log!Next]_Published
<1>1. TypeOK /\ TypeOK' /\ LockInv /\ DiskInv /\ Published \in Envelope /\ Published' \in Envelope
  BY TypeStep, PublishedType DEF Inv, TypeOK, Published, Durable
<1>2. CASE ControlNext
  BY <1>1, <1>2, ControlPublishes, SucceedsIsLogStep
<1>3. CASE JobPublish
  BY <1>1, <1>3, PublishIsLogStep
<1>4. CASE JobNext /\ ~JobPublish
  BY <1>1, <1>4, JobKeepsPublished
<1>5. CASE UNCHANGED vars
  BY <1>5 DEF vars, Published, Durable, Marked
<1>6. QED
  BY <1>2, <1>3, <1>4, <1>5 DEF Next

\* The store implements the log (persist.rs, lib.rs, network_authority.rs): every
\* change a reader can see is the next revision of exactly one writer, or plugin
\* metadata under the same revision.
THEOREM RefinesLogHolds == ASSUME ~UnlockedOverlap PROVE Spec => RefinesLog
<1>1. Init => Log!Init
  BY FirstType DEF Init, Log!Init, Log!Envelope, Envelope, Published, Durable, Marked, First
<1>2. Inv /\ [Next]_vars => [Log!Next]_Published
  BY LogStep
<1>3. QED
  BY <1>1, <1>2, InvHolds, PTL DEF Spec, RefinesLog, Log!Spec

\* While a commit that reported an error is undone, the decision on disk is the
\* one a reader will find.
LEMMA DecisionPublished ==
  ASSUME TypeOK, DiskInv PROVE Durable.netrev = Published.netrev
BY DEF TypeOK, DiskInv, Published, Durable, Succeeds, Same, StagePoints

\* No step of the log takes the network decision back.
LEMMA LogKeepsDecision ==
  ASSUME Published \in Envelope, [Log!Next]_Published, Check(Published)
  PROVE  Published'.netrev >= Published.netrev
<1>1. Published.rev \in Nat /\ Published.netrev \in Nat /\ Published.netrev <= Published.rev
  BY EnvelopeFields DEF Check
<1>2. CASE Log!CommitDocument
  <2>1. Published'.netrev = Published.netrev
    BY <1>2 DEF Log!CommitDocument, Envelope
  <2>2. QED
    BY <1>1, <2>1
<1>3. CASE Log!CommitNetwork
  <2>1. Published'.netrev = Published.rev + 1
    BY <1>3 DEF Log!CommitNetwork, Envelope
  <2>2. QED
    BY <1>1, <2>1
<1>4. CASE Log!SaveMetadata
  <2>1. Published'.netrev = Published.netrev
    BY <1>4 DEF Log!SaveMetadata, Envelope
  <2>2. QED
    BY <1>1, <2>1
<1>5. CASE UNCHANGED Published
  BY <1>1, <1>5
<1>6. QED
  BY <1>2, <1>3, <1>4, <1>5 DEF Log!Next

\* A kept network decision is replaced only by a later one: ordinary writes,
\* imports, completions and their rollbacks carry it along.
THEOREM KeptDecisionHolds == ASSUME ~UnlockedOverlap PROVE Spec => KeptDecisionStays
<1>1. Inv /\ Inv' /\ [Next]_vars => [Durable'.netrev >= Durable.netrev]_vars
  <2> SUFFICES ASSUME Inv, Inv', [Next]_vars PROVE Durable'.netrev >= Durable.netrev
    OBVIOUS
  <2>1. Durable.netrev = Published.netrev
    BY DecisionPublished DEF Inv
  <2>2. Durable'.netrev = Published'.netrev
    BY DEF Inv, TypeOK, DiskInv, Published, Durable, Marked, Succeeds, Same, StagePoints
  <2>3. Published \in Envelope /\ Check(Published)
    BY PublishedType DEF Inv, Published, Durable, AlwaysLoadable, HeldInv, Held, RestorePoints
  <2>4. QED
    BY <2>1, <2>2, <2>3, LogStep, LogKeepsDecision
<1>2. QED
  BY <1>1, InvHolds, PTL DEF Spec, KeptDecisionStays
===============================================================================
