---------------------------- MODULE NetEngineProofs ----------------------------
(***************************************************************************)
(* Proofs about NetEngine, for any documents and any number of changes,    *)
(* failing steps, deaths and reboots: the host and the decision go         *)
(* together, new addressing is guarded, the media run on one network, a    *)
(* touched host is watched, and only a network that is applied completely  *)
(* is kept.  The argument is the invariant Inv below, in six parts, each   *)
(* kept by every action.                                                   *)
(***************************************************************************)
EXTENDS NetEngine, TLAPS

-------------------------------------------------------------------------------
(* The inductive invariant.                                                   *)

ApplyPoints == {"a_mark", "a_stop", "a_part", "a_start", "a_done", "a_window", "a_fail"}
UndoPoints == {"r_retry", "r_stop", "r_part", "r_again", "r_start", "r_last", "r_remove"}
DecidedPoints == {"k_mark", "c_clean", "c_last", "c_remove"}
AcceptPoints == {"x_stop", "x_part", "x_start"}

\* Points at which the operation works on the journal that is on disk.
JournalPoints == Points \ {"idle", "s_write", "r_fail", "b_guard"}

\* Points at which the transaction in hand has not been decided.
OpenPoints == Points \ ({"idle", "b_guard"} \cup DecidedPoints)

\* The position among the parts is one of the order that is being followed.
StepInv ==
    /\ pc \notin {"a_part", "r_part", "x_part", "a_fail", "r_fail"} => step = 1
    /\ pc = "x_part" => step \in 1 .. 3

\* Who may run when: the boot oneshot runs until it has succeeded, and a change
\* is staged and kept only after it.
OpInv ==
    /\ op = "none" <=> pc = "idle"
    /\ op = "boot" => ~booted
    /\ pc = "b_guard" => op = "boot"
    /\ pc \in {"s_write", "k_cas"} => booted
    /\ fresh => booted

\* e is the transaction that the journal describes.
Same == j.id = journal.id /\ j.base = journal.base /\ j.cand = journal.cand
  /\ j.old = journal.old

\* The decision is still the one that the transaction e started from.
Undecided(e) == /\ saved.net = e.base.net /\ saved.txn = e.base.txn
                /\ saved.netrev = e.base.netrev /\ saved.rev >= e.base.rev

\* e is the latest transaction, it changes the document, and it is either open or kept.
Current(e) == /\ e.id = jobs /\ e.cand \in Nets /\ e.base.net \in Nets /\ e.cand # e.base.net
              /\ e.base.txn < e.id
              /\ Undecided(e) \/ Committed(e)

\* The journal on disk, the copy in hand and the authority's decision.
LinkInv ==
    /\ journal.id = 0 => journal = Blank
    /\ saved.txn <= jobs
    /\ journal.id # 0 => Current(journal)
    /\ j.id # 0 => Current(j)
    /\ pc = "idle" => j = Blank
    /\ pc = "s_write" => journal.id = 0 /\ j.id # 0 /\ j.phase = "staged"
    /\ pc \in JournalPoints => journal.id # 0 /\ Same
    /\ pc = "r_fail" => j.id # 0 /\ (journal.id # 0 => Same)
    /\ pc = "b_guard" /\ j.phase = "failed" =>
         j.id # 0 /\ (journal.id # 0 => Same) /\ Undecided(j)
    /\ pc = "b_guard" /\ j.phase # "failed" => journal.id = 0
    /\ pc \in DecidedPoints => Committed(j)
    /\ pc \in OpenPoints => Undecided(j)

\* How far the journal says the change has come, at each point.
PhaseInv ==
    /\ pc \in {"s_guard", "s_apply", "a_mark"} => journal.phase = "staged"
    /\ pc \in {"a_stop", "a_part", "a_start", "a_done"} =>
         journal.phase = "applying" /\ j.phase = "applying"
    /\ pc \in {"a_window", "k_cas"} => journal.phase = "applied"
    /\ pc = "a_window" => j.phase = "applied"
    /\ pc = "a_fail" => j.phase \in {"applying", "applied"}
    /\ pc \in UndoPoints => journal.phase = "reverting"
    /\ pc \in {"r_fail", "b_guard"}
         /\ journal.id # 0 => journal.phase \in {"reverting", "failed"}
    /\ pc \in {"u_last", "u_remove"} => excuse = "accepted" \/ journal.phase = "staged"
    /\ pc \in AcceptPoints => excuse = "accepted" /\ journal.phase = "failed"

\* The host is of document n, except for the guard that a reboot has removed.
Config(n) == /\ host["files"] = n /\ host["live"] = n /\ host["bind"] = n
             /\ booted => host["table"] = n

\* The host is what it was before the change e.
AllBefore(e) == \A p \in Parts : host[p] = Before(e, p)

\* What the change e found was one document.
Rooted(e) == e.id # 0 /\ excuse # "accepted" => \A p \in Parts : e.old[p] = e.base.net

\* What the host is of, given the journal and the point.
HostInv ==
    /\ Rooted(journal) /\ Rooted(j)
    /\ journal.id = 0 /\ excuse # "accepted" => Config(saved.net)
    /\ journal.id # 0 /\ Committed(journal) =>
         Config(journal.cand) /\ (~booted => media = "stopped")
    /\ journal.id # 0 /\ journal.phase = "staged" /\ excuse # "accepted" /\ ~Committed(journal)
         => Config(journal.base.net)
    /\ journal.id # 0 /\ journal.phase = "applied" => Config(journal.cand)
    /\ pc = "a_fail" /\ j.phase = "applied" => Config(j.cand)
    /\ pc = "a_part" => /\ step > 1 => host["table"] = j.cand
                        /\ step > 2 => host["files"] = j.cand
                        /\ step > 3 => host["live"] = j.cand
    /\ pc \in {"a_start", "a_done"} => Of(j.cand)
    /\ pc = "r_part" => /\ step > 1 => host["files"] = Before(j, "files")
                        /\ step > 2 => host["live"] = Before(j, "live")
                        /\ step > 3 => host["table"] = Before(j, "table")
    /\ pc \in {"r_again", "r_start", "r_last", "r_remove"} => AllBefore(j)
    /\ pc = "r_fail" /\ journal.id = 0 => AllBefore(j)
    /\ pc = "b_guard" /\ j.phase = "failed" /\ journal.id = 0 => AllBefore(j)

\* Media are stopped while parts change, unless a recovery has failed before.
MediaInv ==
    /\ MediaOnWholeNetwork
    /\ journal.media \/ j.media => excuse # "none"
    /\ pc = "a_part" => media = "stopped"
    /\ pc = "r_part" => media = "stopped" \/ j.media
    /\ pc = "b_guard" /\ j.phase = "failed" => excuse # "none"

\* The guard timer stands from before the apply timer until the journal is gone.
WatchInv ==
    /\ pc \in {"s_write", "s_guard"} => "apply" \notin timers
    /\ pc = "s_apply" => "guard" \in timers
    /\ journal.id # 0 /\ fresh /\ (journal.phase # "staged" \/ "apply" \in timers)
         => "guard" \in timers
    /\ pc \in ApplyPoints \cup UndoPoints \cup {"r_mark", "r_fail", "k_cas", "k_mark"} /\ fresh
         => "guard" \in timers

Inv == /\ TypeOK /\ StepInv /\ OpInv /\ LinkInv /\ PhaseInv /\ HostInv
       /\ NewAddressesGuarded /\ MediaInv /\ WatchInv

-------------------------------------------------------------------------------
(* Updates of the journal.                                                    *)

\* f describes the same transaction as e, at another point.
Kin(f, e) == f.id = e.id /\ f.base = e.base /\ f.cand = e.cand /\ f.old = e.old

\* No journal is a journal: the one with no transaction, staged.
LEMMA BlankJournal ==
  Blank \in Journal /\ Blank.id = 0 /\ Blank.phase = "staged" /\ ~Blank.media
  <1>1. Blank.old \in [Parts -> Nets \cup {"none"}]
    BY DEF Blank
  <1>2. Blank.base \in Commit
    BY DEF Blank, Commit
  <1>. QED
    BY <1>1, <1>2 DEF Blank, Journal, Phases

\* Setting the outcome of a journal changes nothing else that the invariant reads.
LEMMA Outcome ==
  ASSUME NEW e \in Journal, NEW out \in Phases
  PROVE  LET f == [e EXCEPT !.outcome = out] IN
         /\ f \in Journal /\ Kin(f, e)
         /\ f.phase = e.phase /\ f.pending = e.pending /\ f.media = e.media /\ f.outcome = out
  BY DEF Journal, Kin

\* Moving a journal to another phase keeps it the same transaction.
LEMMA Phase ==
  ASSUME NEW e \in Journal, NEW ph \in Phases
  PROVE  LET f == [e EXCEPT !.phase = ph] IN
         /\ f \in Journal /\ Kin(f, e)
         /\ f.phase = ph /\ f.pending = e.pending /\ f.media = e.media /\ f.outcome = e.outcome
  BY DEF Journal, Kin

\* The journal that a recovery writes before it touches the host.
LEMMA Reverting ==
  ASSUME NEW e \in Journal
  PROVE  LET f == [e EXCEPT !.phase = "reverting", !.pending = TRUE] IN
         /\ f \in Journal /\ Kin(f, e) /\ f.phase = "reverting" /\ f.media = e.media
  BY DEF Journal, Kin, Phases

\* The journal that a recovery that failed leaves behind.
LEMMA Failed ==
  ASSUME NEW e \in Journal
  PROVE  LET f == [e EXCEPT !.phase = "failed", !.pending = TRUE, !.media = TRUE] IN
         /\ f \in Journal /\ Kin(f, e) /\ f.phase = "failed" /\ f.media
  BY DEF Journal, Kin, Phases

\* An apply that fails goes on to its recovery with the journal it had.
LEMMA FailingEffect ==
  ASSUME j \in Journal, NEW e \in Journal, Failing(e)
  PROVE  /\ pc' = "a_fail" /\ op' = op /\ step' = step
         /\ j' \in Journal /\ Kin(j', e)
         /\ j'.phase = e.phase /\ j'.pending = e.pending /\ j'.media = e.media
  BY Outcome DEF Failing, Phases

\* Where a recovery starts, and that it works on the journal it was given.
LEMMA RecoverEffect ==
  ASSUME NEW e \in Journal, NEW o, NEW out \in Phases, Recover(o, e, out)
  PROVE  /\ op' = o /\ step' = 1
         /\ pc' = IF Committed(e) THEN "c_clean"
                  ELSE IF e.phase = "staged" THEN "u_last" ELSE "r_mark"
         /\ j' \in Journal /\ Kin(j', e)
         /\ j'.phase = e.phase /\ j'.pending = e.pending /\ j'.media = e.media
  BY Outcome DEF Recover

\* What it takes for the decision to be that of a transaction, field by field.
LEMMA CommittedMeans ==
  ASSUME saved \in Commit, NEW e
  PROVE  Committed(e) <=> /\ saved.rev >= e.base.rev + 1
                          /\ saved.net = e.cand /\ saved.txn = e.id
                          /\ saved.netrev = e.base.rev + 1
  BY DEF Committed, NextCommit, Commit

\* The types of the fields of a journal.
LEMMA JournalFields ==
  ASSUME NEW e \in Journal
  PROVE  /\ e.id \in Nat /\ e.outcome \in Phases /\ e.phase \in Phases
         /\ e.cand \in Nets \cup {"none"} /\ e.base \in Commit
         /\ \A p \in Parts : Before(e, p) \in Nets \cup {"none"}
  BY DEF Journal, Commit, Before, Parts

\* Writing the journal of a new transaction keeps the invariant.
LEMMA StageWriteStep ==
  ASSUME Inv, StageWrite
  PROVE  Inv'
<1>. USE EngineAssumption DEF Inv
<1>1. TypeOK'
  <2>1. journal' \in Journal /\ j' \in Journal
    BY BlankJournal DEF TypeOK, StageWrite, WriteJournal, Stored, To, Leave
  <2>2. saved' \in Commit /\ saved'.net \in Nets /\ last' \in [id : Nat, phase : Phases]
    BY JournalFields DEF StageWrite, WriteJournal, TypeOK
  <2>3. /\ host' \in [Parts -> Nets \cup {"none"}]
        /\ media' \in {"running", "stopped"} /\ timers' \subseteq Timers
    BY JournalFields DEF StageWrite, WriteJournal, TypeOK, Timers
  <2>4. op' \in Ops /\ pc' \in Points /\ step' \in 1 .. 4
    BY DEF StageWrite, WriteJournal, Count, Stored, To, Leave, Outcomes, TypeOK, Ops, Points
  <2>5. due' \in BOOLEAN /\ fresh' \in BOOLEAN /\ booted' \in BOOLEAN
    BY Zenon DEF StageWrite, WriteJournal, Count, Stored, TypeOK
  <2>6. /\ excuse' \in {"none", "resumed", "accepted"}
        /\ jobs' \in Nat /\ faults' \in Nat /\ crashes' \in Nat
        /\ boots' \in Nat /\ writes' \in Nat
    BY DEF StageWrite, WriteJournal, Count, Stored, env, clock, proc, Outcomes, TypeOK
  <2>. QED
    BY <2>1, <2>2, <2>3, <2>4, <2>5, <2>6 DEF TypeOK
<1>2. StepInv'
  BY DEF StageWrite, WriteJournal, To, Leave, proc, Outcomes, StepInv, TypeOK
<1>3. OpInv'
  BY DEF StageWrite, WriteJournal, To, Leave, proc, Outcomes, OpInv, StepInv
<1>4. LinkInv'
  <2>1. /\ j.id # 0 /\ j.phase = "staged" /\ Current(j) /\ Undecided(j)
        /\ journal.id = 0 /\ journal = Blank /\ saved.txn <= jobs
        /\ saved' = saved /\ jobs' = jobs
    BY DEF StageWrite, env, LinkInv, Points, OpenPoints, DecidedPoints
  <2>2. \/ journal' = j /\ j' = j /\ pc' = "s_guard"
        \/ journal' \in {Blank, j} /\ j' = Blank /\ pc' = "idle"
    BY <2>1 DEF StageWrite, WriteJournal, Stored, To, Leave
  <2>3. CASE journal' = j /\ j' = j /\ pc' = "s_guard"
    BY <2>1, <2>3, BlankJournal DEF LinkInv, Current, Undecided, Committed, NextCommit,
       Same, OpenPoints, DecidedPoints
  <2>4. CASE journal' \in {Blank, j} /\ j' = Blank /\ pc' = "idle"
    BY <2>1, <2>4, BlankJournal DEF LinkInv, Current, Undecided, Committed, Points,
       JournalPoints, OpenPoints, DecidedPoints
  <2>. QED
    BY <2>2, <2>3, <2>4
<1>5. PhaseInv'
  BY DEF StageWrite, WriteJournal, Count, Stored, To, Leave, env, clock, proc, Outcomes,
     PhaseInv, LinkInv, OpInv, Points, JournalPoints, UndoPoints, AcceptPoints, Same, Blank
<1>6. HostInv'
  BY DEF StageWrite, WriteJournal, Count, Stored, To, Leave, env, clock, proc, Outcomes,
     HostInv, PhaseInv, LinkInv, OpInv, StepInv, TypeOK, Config, AllBefore, Rooted, Before,
     Same, Committed, Undecided, Current, NextCommit, Of, Parts, Points, JournalPoints,
     OpenPoints, DecidedPoints, Blank, UndoPoints
<1>7. NewAddressesGuarded'
  BY DEF StageWrite, WriteJournal, Count, Stored, proc, Outcomes, NewAddressesGuarded,
     HostInv, LinkInv, OpInv, PhaseInv, StepInv, TypeOK, Config, Rooted, Before, Same,
     Committed
<1>8. MediaInv'
  BY DEF StageWrite, WriteJournal, Count, Stored, To, Leave, env, clock, proc, Outcomes,
     MediaInv, MediaOnWholeNetwork, Current, Parts, Points, JournalPoints, OpenPoints,
     DecidedPoints, Blank, Of
<1>9. WatchInv'
  BY DEF StageWrite, WriteJournal, Count, Stored, To, Leave, env, clock, proc, Outcomes,
     WatchInv, LinkInv, ApplyPoints, UndoPoints, Same, Blank, OpenPoints
<1>. QED
  BY <1>1, <1>2, <1>3, <1>4, <1>5, <1>6, <1>7, <1>8, <1>9

\* Arming the guard timer of a new transaction keeps the invariant.
LEMMA StageGuardStep ==
  ASSUME Inv, StageGuard
  PROVE  Inv'
<1>. USE EngineAssumption DEF Inv
<1>a. /\ j' \in Journal
      /\ \/ pc' = "idle" /\ j' = Blank /\ step' = 1
         \/ pc' \in {"s_apply", "u_last"} /\ Kin(j', j) /\ j'.phase = j.phase
              /\ j'.media = j.media /\ step' = step
  <2>. DEFINE e == [j EXCEPT !.outcome = "failed"]
  <2>1. e \in Journal /\ Kin(e, j) /\ e.phase = j.phase /\ e.media = j.media /\ j \in Journal
    BY Outcome DEF TypeOK, Phases
  <2>2. \/ pc' = "u_last" /\ j' = e /\ UNCHANGED <<op, step>>
        \/ Leave
        \/ To("s_apply")
    BY DEF StageGuard, StageArm
  <2>. HIDE DEF e
  <2>. QED
    BY <2>1, <2>2, BlankJournal DEF Leave, To, Kin
<1>1. TypeOK'
  BY DEF StageGuard, StageArm, Arm, Count, Stored, To, Leave, env, clock, Outcomes, TypeOK,
     Commit, Journal, Phases, Parts, Ops, Points, Timers, Blank
<1>2. StepInv'
  BY DEF StageGuard, StageArm, Arm, Count, Stored, To, proc, Outcomes, StepInv, TypeOK
<1>3. OpInv'
  BY DEF StageGuard, StageArm, Arm, Count, Stored, To, Leave, env, clock, proc, Outcomes,
     OpInv, StepInv
<1>4. LinkInv'
  BY DEF StageGuard, StageArm, Arm, Count, Stored, To, Leave, env, clock, proc, Outcomes,
     LinkInv, OpInv, Same, Undecided, Current, Committed, NextCommit, Blank, Points,
     JournalPoints, OpenPoints, DecidedPoints, TypeOK, Commit, Journal
<1>5. PhaseInv'
  BY DEF StageGuard, StageArm, Arm, Count, Stored, To, Leave, env, clock, proc, Outcomes,
     PhaseInv, UndoPoints, AcceptPoints, Same, Blank
<1>6. HostInv'
  BY <1>a DEF StageGuard, StageArm, Count, env, clock, proc, Outcomes, HostInv, PhaseInv,
     LinkInv, OpInv, StepInv, TypeOK, Config, AllBefore, Rooted, Before, Same, Committed,
     Undecided, Current, NextCommit, Of, Parts, Points, JournalPoints, OpenPoints,
     DecidedPoints, Blank, UndoPoints, Kin
<1>7. NewAddressesGuarded'
  BY DEF StageGuard, StageArm, Arm, Count, clock, proc, Outcomes, NewAddressesGuarded,
     StepInv, TypeOK, Config, Rooted, Before, Same
<1>8. MediaInv'
  BY <1>a DEF StageGuard, StageArm, Count, env, clock, proc, Outcomes, MediaInv,
     MediaOnWholeNetwork, HostInv, Undecided, Current, DecidedPoints, Blank, Of, Kin
<1>9. WatchInv'
  BY DEF StageGuard, StageArm, Arm, Count, Stored, To, Leave, env, clock, proc, Outcomes,
     WatchInv, JournalPoints, ApplyPoints, UndoPoints, Same, Blank, OpenPoints
<1>. QED
  BY <1>1, <1>2, <1>3, <1>4, <1>5, <1>6, <1>7, <1>8, <1>9

\* Arming the timer that applies the change keeps the invariant.
LEMMA StageApplyStep ==
  ASSUME Inv, StageApply
  PROVE  Inv'
<1>. USE EngineAssumption DEF Inv
<1>a. /\ j' \in Journal
      /\ \/ pc' = "idle" /\ j' = Blank /\ step' = 1
         \/ pc' \in {"s_apply", "u_last"} /\ Kin(j', j) /\ j'.phase = j.phase
              /\ j'.media = j.media /\ step' = step
  <2>. DEFINE e == [j EXCEPT !.outcome = "failed"]
  <2>1. e \in Journal /\ Kin(e, j) /\ e.phase = j.phase /\ e.media = j.media /\ j \in Journal
    BY Outcome DEF TypeOK, Phases
  <2>2. \/ pc' = "u_last" /\ j' = e /\ UNCHANGED <<op, step>>
        \/ Leave
        \/ To("s_apply")
    BY DEF StageApply, StageArm
  <2>. HIDE DEF e
  <2>. QED
    BY <2>1, <2>2, BlankJournal DEF Leave, To, Kin
<1>1. TypeOK'
  <2>1. journal' \in Journal /\ j' \in Journal
    BY <1>a, BlankJournal DEF TypeOK, StageApply, StageArm, Arm
  <2>2. saved' \in Commit /\ saved'.net \in Nets /\ last' \in [id : Nat, phase : Phases]
    BY JournalFields DEF StageApply, StageArm, Outcomes, TypeOK
  <2>3. /\ host' \in [Parts -> Nets \cup {"none"}]
        /\ media' \in {"running", "stopped"} /\ timers' \subseteq Timers
    BY JournalFields DEF StageApply, StageArm, Arm, Count, Stored, Outcomes, TypeOK, Timers
  <2>4. op' \in Ops /\ pc' \in Points /\ step' \in 1 .. 4
    BY DEF StageApply, StageArm, Arm, Leave, env, clock, proc, Outcomes, TypeOK, Ops, Points
  <2>5. due' \in BOOLEAN /\ fresh' \in BOOLEAN /\ booted' \in BOOLEAN
    BY DEF StageApply, StageArm, clock, proc, Outcomes, TypeOK
  <2>6. /\ excuse' \in {"none", "resumed", "accepted"}
        /\ jobs' \in Nat /\ faults' \in Nat /\ crashes' \in Nat
        /\ boots' \in Nat /\ writes' \in Nat
    BY DEF StageApply, StageArm, Arm, Count, Leave, env, clock, proc, Outcomes, TypeOK
  <2>. QED
    BY <2>1, <2>2, <2>3, <2>4, <2>5, <2>6 DEF TypeOK
<1>2. StepInv'
  BY DEF StageApply, StageArm, Arm, Leave, env, clock, proc, Outcomes, StepInv, TypeOK
<1>3. OpInv'
  BY DEF StageApply, StageArm, Arm, Leave, env, clock, proc, Outcomes, OpInv, StepInv
<1>4. LinkInv'
  BY DEF StageApply, StageArm, Arm, Count, Stored, To, Leave, env, clock, proc, Outcomes,
     LinkInv, OpInv, Same, Undecided, Current, Committed, NextCommit, Blank, Points,
     JournalPoints, OpenPoints, DecidedPoints, TypeOK, Commit, Journal
<1>5. PhaseInv'
  BY DEF StageApply, StageArm, Arm, Count, Stored, To, Leave, env, clock, proc, Outcomes,
     PhaseInv, UndoPoints, AcceptPoints, Same, Blank
<1>6. HostInv'
  BY <1>a DEF StageApply, StageArm, Count, env, clock, proc, Outcomes, HostInv, PhaseInv,
     LinkInv, OpInv, StepInv, TypeOK, Config, AllBefore, Rooted, Before, Same, Committed,
     Undecided, Current, NextCommit, Of, Parts, Points, JournalPoints, OpenPoints,
     DecidedPoints, Blank, UndoPoints, Kin
<1>7. NewAddressesGuarded'
  BY DEF StageApply, StageArm, Arm, Count, clock, proc, Outcomes, NewAddressesGuarded,
     StepInv, TypeOK, Config, Rooted, Before, Same
<1>8. MediaInv'
  BY <1>a DEF StageApply, StageArm, Count, env, clock, proc, Outcomes, MediaInv,
     MediaOnWholeNetwork, HostInv, Undecided, Current, DecidedPoints, Blank, Of, Kin
<1>9. WatchInv'
  BY DEF StageApply, StageArm, Arm, Count, Stored, To, Leave, env, clock, proc, Outcomes,
     WatchInv, LinkInv, PhaseInv, OpInv, Points
<1>. QED
  BY <1>1, <1>2, <1>3, <1>4, <1>5, <1>6, <1>7, <1>8, <1>9

\* Recording that the host was never touched keeps the invariant.
LEMMA UnmodifiedStep ==
  ASSUME Inv, Unmodified
  PROVE  Inv'
<1>. USE EngineAssumption DEF Inv
<1>1. TypeOK'
  <2>1. journal' \in Journal /\ j' \in Journal
    BY BlankJournal DEF TypeOK, Unmodified, To, Leave, env
  <2>2. saved' \in Commit /\ saved'.net \in Nets /\ last' \in [id : Nat, phase : Phases]
    BY JournalFields DEF Unmodified, Stored, Outcomes, TypeOK
  <2>3. /\ host' \in [Parts -> Nets \cup {"none"}]
        /\ media' \in {"running", "stopped"} /\ timers' \subseteq Timers
    BY JournalFields DEF Unmodified, Count, Outcomes, TypeOK
  <2>4. op' \in Ops /\ pc' \in Points /\ step' \in 1 .. 4
    BY DEF Unmodified, Count, Stored, To, Leave, env, Outcomes, TypeOK, Ops, Points
  <2>5. due' \in BOOLEAN /\ fresh' \in BOOLEAN /\ booted' \in BOOLEAN
    BY DEF Unmodified, Count, clock, proc, Outcomes, TypeOK
  <2>6. /\ excuse' \in {"none", "resumed", "accepted"}
        /\ jobs' \in Nat /\ faults' \in Nat /\ crashes' \in Nat
        /\ boots' \in Nat /\ writes' \in Nat
    BY DEF Unmodified, Count, Leave, env, Outcomes, TypeOK
  <2>. QED
    BY <2>1, <2>2, <2>3, <2>4, <2>5, <2>6 DEF TypeOK
<1>2. StepInv'
  BY DEF Unmodified, Count, Stored, To, Leave, env, Outcomes, StepInv, TypeOK
<1>3. OpInv'
  BY DEF Unmodified, Count, Stored, To, Leave, env, clock, proc, Outcomes, OpInv, StepInv
<1>4. LinkInv'
  BY DEF Unmodified, Count, Stored, To, Leave, env, clock, proc, Outcomes, LinkInv, OpInv,
     Same, Undecided, Current, Committed, NextCommit, Blank, Points, JournalPoints,
     OpenPoints, DecidedPoints, TypeOK, Commit, Journal
<1>5. PhaseInv'
  BY DEF Unmodified, Count, Stored, To, Leave, env, PhaseInv, LinkInv, OpInv, Points,
     JournalPoints, UndoPoints, AcceptPoints, Same, Blank
<1>6. HostInv'
  BY DEF Unmodified, Count, Stored, To, Leave, env, clock, proc, Outcomes, HostInv,
     PhaseInv, LinkInv, OpInv, StepInv, TypeOK, Config, AllBefore, Rooted, Before, Same,
     Committed, Undecided, Current, NextCommit, Of, Parts, Points, JournalPoints,
     OpenPoints, DecidedPoints, Blank, UndoPoints
<1>7. NewAddressesGuarded'
  BY DEF Unmodified, Count, clock, proc, Outcomes, NewAddressesGuarded, HostInv
<1>8. MediaInv'
  BY DEF Unmodified, Count, Stored, To, Leave, env, clock, proc, Outcomes, MediaInv,
     MediaOnWholeNetwork, Undecided, OpenPoints, DecidedPoints, Blank, Of
<1>9. WatchInv'
  BY DEF Unmodified, Count, Stored, To, Leave, env, clock, proc, Outcomes, WatchInv,
     LinkInv, PhaseInv, OpInv, Points, JournalPoints, ApplyPoints, UndoPoints, Same, Blank,
     OpenPoints
<1>. QED
  BY <1>1, <1>2, <1>3, <1>4, <1>5, <1>6, <1>7, <1>8, <1>9

\* Removing the journal of an untouched host keeps the invariant.
LEMMA UnmodifiedRemoveStep ==
  ASSUME Inv, UnmodifiedRemove
  PROVE  Inv'
<1>. USE EngineAssumption DEF Inv
<1>1. TypeOK'
  <2>1. journal' \in Journal /\ j' \in Journal
    BY BlankJournal DEF TypeOK, UnmodifiedRemove, WriteJournal, Done, Stored, Leave
  <2>2. saved' \in Commit /\ saved'.net \in Nets /\ last' \in [id : Nat, phase : Phases]
    BY JournalFields DEF UnmodifiedRemove, WriteJournal, Outcomes, TypeOK
  <2>3. /\ host' \in [Parts -> Nets \cup {"none"}]
        /\ media' \in {"running", "stopped"} /\ timers' \subseteq Timers
    BY JournalFields DEF UnmodifiedRemove, WriteJournal, Done, Count, Stored, To, Leave,
       env, clock, proc, Outcomes, TypeOK, Timers
  <2>4. op' \in Ops /\ pc' \in Points /\ step' \in 1 .. 4
    BY DEF UnmodifiedRemove, WriteJournal, Done, Leave, env, clock, Ops, Points
  <2>5. due' \in BOOLEAN /\ fresh' \in BOOLEAN /\ booted' \in BOOLEAN
    BY DEF UnmodifiedRemove, WriteJournal, clock, proc, Outcomes, TypeOK
  <2>6. /\ excuse' \in {"none", "resumed", "accepted"}
        /\ jobs' \in Nat /\ faults' \in Nat /\ crashes' \in Nat
        /\ boots' \in Nat /\ writes' \in Nat
    BY DEF UnmodifiedRemove, WriteJournal, Done, Count, Leave, env, clock, proc, Outcomes,
       TypeOK
  <2>. QED
    BY <2>1, <2>2, <2>3, <2>4, <2>5, <2>6 DEF TypeOK
<1>2. StepInv'
  BY DEF UnmodifiedRemove, WriteJournal, Done, Leave, env, clock, proc, Outcomes, StepInv,
     TypeOK
<1>3. OpInv'
  BY DEF UnmodifiedRemove, WriteJournal, Done, Leave, env, clock, proc, Outcomes, OpInv,
     StepInv
<1>4. LinkInv'
  BY DEF UnmodifiedRemove, WriteJournal, Done, Count, Stored, To, Leave, env, clock, proc,
     Outcomes, LinkInv, OpInv, Same, Undecided, Current, Committed, NextCommit, Blank,
     Points, JournalPoints, OpenPoints, DecidedPoints, TypeOK, Commit, Journal
<1>5. PhaseInv'
  BY DEF UnmodifiedRemove, WriteJournal, Done, Count, Stored, To, Leave, env, clock, proc,
     Outcomes, PhaseInv, UndoPoints, AcceptPoints, Same, Blank
<1>6. HostInv'
  BY DEF UnmodifiedRemove, WriteJournal, Done, Count, Stored, To, Leave, env, clock, proc,
     Outcomes, HostInv, PhaseInv, LinkInv, OpInv, StepInv, TypeOK, Config, AllBefore,
     Rooted, Before, Same, Committed, Undecided, Current, NextCommit, Of, Parts, Points,
     JournalPoints, OpenPoints, DecidedPoints, Blank, UndoPoints
<1>7. NewAddressesGuarded'
  BY DEF UnmodifiedRemove, WriteJournal, Done, Count, clock, proc, Outcomes,
     NewAddressesGuarded, HostInv, LinkInv, OpInv, PhaseInv, StepInv, TypeOK, Config,
     Rooted, Before, Same
<1>8. MediaInv'
  BY DEF UnmodifiedRemove, WriteJournal, Done, Count, Stored, To, Leave, env, clock, proc,
     Outcomes, MediaInv, MediaOnWholeNetwork, HostInv, LinkInv, PhaseInv, OpInv, TypeOK,
     Undecided, Current, Parts, Points, JournalPoints, OpenPoints, DecidedPoints, Blank, Of
<1>9. WatchInv'
  BY DEF UnmodifiedRemove, WriteJournal, Done, Count, Stored, To, Leave, env, clock, proc,
     Outcomes, WatchInv, JournalPoints, ApplyPoints, UndoPoints, Same, Blank, OpenPoints
<1>. QED
  BY <1>1, <1>2, <1>3, <1>4, <1>5, <1>6, <1>7, <1>8, <1>9

\* Marking the journal as applying keeps the invariant.
LEMMA ApplyMarkStep ==
  ASSUME Inv, ApplyMark
  PROVE  Inv'
<1>. USE EngineAssumption DEF Inv
<1>a. /\ j' \in Journal /\ Kin(j', j) /\ j'.phase = "applying" /\ j'.media = j.media
      /\ step' = step /\ op' = op /\ pc' \in {"a_stop", "a_fail"}
      /\ journal' \in Journal /\ Kin(journal', journal)
      /\ journal'.media \in {journal.media, j.media}
      /\ journal'.phase \in {journal.phase, "applying"}
      /\ pc' = "a_stop" => journal'.phase = "applying" 
  <2>1. j \in Journal /\ Kin(j, journal) /\ journal \in Journal
    BY DEF TypeOK, LinkInv, JournalPoints, Points, Same, Kin, ApplyMark
  <2>. DEFINE e == [j EXCEPT !.phase = "applying"]
  <2>2. e \in Journal /\ Kin(e, j) /\ e.phase = "applying" /\ e.media = j.media
    BY <2>1, Phase DEF Phases
  <2>3. PICK r \in Outcomes : /\ journal' = Stored(r, journal, e)
                             /\ IF r = "ok"
                                THEN pc' = "a_stop" /\ j' = e /\ UNCHANGED <<op, step>>
                                ELSE Failing(e)
    BY DEF ApplyMark, WriteJournal
  <2>. HIDE DEF e
  <2>. QED
    BY <2>1, <2>2, <2>3, FailingEffect DEF Kin, Stored
<1>1. TypeOK'
  <2>1. journal' \in Journal /\ j' \in Journal
    BY <1>a, BlankJournal DEF Failing, Stored, Outcomes
  <2>2. saved' \in Commit /\ saved'.net \in Nets /\ last' \in [id : Nat, phase : Phases]
    BY JournalFields DEF ApplyMark, WriteJournal, Outcomes, TypeOK
  <2>3. /\ host' \in [Parts -> Nets \cup {"none"}]
        /\ media' \in {"running", "stopped"} /\ timers' \subseteq Timers
    BY JournalFields DEF ApplyMark, WriteJournal, TypeOK, Timers
  <2>4. op' \in Ops /\ pc' \in Points /\ step' \in 1 .. 4
    BY DEF ApplyMark, WriteJournal, Failing, Count, TypeOK, Ops, Points
  <2>5. due' \in BOOLEAN /\ fresh' \in BOOLEAN /\ booted' \in BOOLEAN
    BY DEF ApplyMark, WriteJournal, clock, proc, Outcomes, TypeOK
  <2>6. /\ excuse' \in {"none", "resumed", "accepted"}
        /\ jobs' \in Nat /\ faults' \in Nat /\ crashes' \in Nat
        /\ boots' \in Nat /\ writes' \in Nat
    BY DEF ApplyMark, WriteJournal, Failing, Count, Leave, env, clock, proc, Outcomes,
       TypeOK
  <2>. QED
    BY <2>1, <2>2, <2>3, <2>4, <2>5, <2>6 DEF TypeOK
<1>2. StepInv'
  BY DEF ApplyMark, WriteJournal, Failing, Count, StepInv, TypeOK
<1>3. OpInv'
  BY DEF ApplyMark, WriteJournal, Failing, Leave, env, clock, proc, Outcomes, OpInv, StepInv
<1>4. LinkInv'
  BY <1>a DEF ApplyMark, Count, To, Leave, env, clock, proc, Outcomes, LinkInv, OpInv, Same,
     Undecided, Current, Committed, NextCommit, Blank, Points, JournalPoints, OpenPoints,
     DecidedPoints, TypeOK, Commit, Journal, Kin
<1>5. PhaseInv'
  BY <1>a DEF PhaseInv, LinkInv, JournalPoints, UndoPoints, AcceptPoints, Same, Blank, Kin
<1>6. HostInv'
  BY <1>a DEF ApplyMark, Count, To, Leave, env, clock, proc, Outcomes, HostInv, PhaseInv,
     LinkInv, OpInv, StepInv, TypeOK, Config, AllBefore, Rooted, Before, Same, Committed,
     Undecided, Current, NextCommit, Of, Parts, Points, JournalPoints, OpenPoints,
     DecidedPoints, Blank, UndoPoints, Kin
<1>7. NewAddressesGuarded'
  BY DEF ApplyMark, WriteJournal, Failing, Count, clock, proc, Outcomes,
     NewAddressesGuarded, HostInv, LinkInv, OpInv, PhaseInv, StepInv, TypeOK, Config,
     Rooted, Before, Same
<1>8. MediaInv'
  BY <1>a DEF ApplyMark, Count, To, Leave, MediaInv, MediaOnWholeNetwork, HostInv, Current,
     DecidedPoints, Blank, Of, Kin
<1>9. WatchInv'
  BY DEF ApplyMark, WriteJournal, Failing, Count, clock, proc, Outcomes, WatchInv,
     JournalPoints, ApplyPoints, UndoPoints, Same, Blank, OpenPoints
<1>. QED
  BY <1>1, <1>2, <1>3, <1>4, <1>5, <1>6, <1>7, <1>8, <1>9

\* Stopping the media for the change keeps the invariant.
LEMMA ApplyStopStep ==
  ASSUME Inv, ApplyStop
  PROVE  Inv'
<1>. USE EngineAssumption DEF Inv
<1>a. /\ Kin(j', j) /\ j'.phase = j.phase /\ j'.media = j.media
      /\ step' = step /\ op' = op
      /\ pc' = "a_part" \/ (pc' = "a_fail" /\ media' \in {media, "stopped"})
      /\ pc' = "a_part" => media' = "stopped"
  BY FailingEffect DEF TypeOK, ApplyStop, SetMedia, Stored, To, Kin
<1>1. TypeOK'
  BY DEF ApplyStop, SetMedia, Failing, Count, Stored, To, env, clock, Outcomes, TypeOK,
     Commit, Journal, Phases, Parts, Ops, Points, Timers
<1>2. StepInv'
  BY DEF ApplyStop, SetMedia, Failing, Count, Stored, To, proc, Outcomes, StepInv, TypeOK
<1>3. OpInv'
  BY DEF ApplyStop, SetMedia, Failing, Count, Stored, To, Leave, env, clock, proc, Outcomes,
     OpInv, StepInv
<1>4. LinkInv'
  BY DEF ApplyStop, SetMedia, Failing, Count, Stored, To, Leave, env, clock, proc, Outcomes,
     LinkInv, OpInv, Same, Undecided, Current, Committed, NextCommit, Blank, Points,
     JournalPoints, OpenPoints, DecidedPoints, TypeOK, Commit, Journal
<1>5. PhaseInv'
  BY <1>a DEF ApplyStop, Count, Leave, Outcomes, PhaseInv, LinkInv, UndoPoints,
     AcceptPoints, Same, Blank, Kin
<1>6. HostInv'
  BY <1>a DEF ApplyStop, Count, Leave, env, clock, proc, Outcomes, HostInv, PhaseInv,
     LinkInv, OpInv, StepInv, TypeOK, Config, AllBefore, Rooted, Before, Same, Committed,
     Undecided, Current, NextCommit, Of, Parts, Points, JournalPoints, OpenPoints,
     DecidedPoints, Blank, UndoPoints, Kin
<1>7. NewAddressesGuarded'
  BY DEF ApplyStop, SetMedia, Failing, Count, clock, proc, Outcomes, NewAddressesGuarded,
     StepInv, TypeOK, Config, Rooted, Before, Same
<1>8. MediaInv'
  BY <1>a DEF ApplyStop, Count, Leave, env, clock, proc, Outcomes, MediaInv,
     MediaOnWholeNetwork, HostInv, Undecided, Current, DecidedPoints, Blank, Of, Kin
<1>9. WatchInv'
  BY DEF ApplyStop, SetMedia, Failing, Count, Stored, To, Leave, env, clock, proc, Outcomes,
     WatchInv, JournalPoints, ApplyPoints, UndoPoints, Same, Blank, OpenPoints
<1>. QED
  BY <1>1, <1>2, <1>3, <1>4, <1>5, <1>6, <1>7, <1>8, <1>9

\* Writing a part of the candidate keeps the invariant.
LEMMA ApplyPartStep ==
  ASSUME Inv, ApplyPart
  PROVE  Inv'
<1>. USE EngineAssumption DEF Inv
<1>a. /\ j' \in Journal /\ Kin(j', j) /\ j'.phase = j.phase /\ j'.media = j.media
      /\ pc' \in {"a_part", "a_start", "a_fail"}
      /\ pc' = "a_part" => step < 4 /\ step' = step + 1
           /\ host' = [host EXCEPT ![ApplyOrder[step]] = j.cand]
      /\ pc' = "a_start" => step = 4 /\ host' = [host EXCEPT ![ApplyOrder[step]] = j.cand]
      /\ host' = host \/ host' = [host EXCEPT ![ApplyOrder[step]] = j.cand]
  BY FailingEffect DEF TypeOK, ApplyPart, NextPart, ApplyOrder, SetPart, Stored, Kin
<1>1. TypeOK'
  BY DEF ApplyPart, SetPart, Failing, NextPart, ApplyOrder, Count, Stored, env, clock,
     Outcomes, TypeOK, Commit, Journal, Phases, Parts, Ops, Points, Timers
<1>2. StepInv'
  BY DEF ApplyPart, SetPart, Failing, NextPart, proc, Outcomes, StepInv, TypeOK
<1>3. OpInv'
  BY DEF ApplyPart, SetPart, Failing, NextPart, ApplyOrder, clock, OpInv, StepInv
<1>4. LinkInv'
  BY DEF ApplyPart, SetPart, Failing, NextPart, ApplyOrder, Count, Stored, To, Leave, env,
     clock, proc, Outcomes, LinkInv, OpInv, Same, Undecided, Current, Committed, NextCommit,
     Blank, Points, JournalPoints, OpenPoints, DecidedPoints, TypeOK, Commit, Journal
<1>5. PhaseInv'
  BY <1>a DEF ApplyPart, ApplyOrder, Count, To, Outcomes, PhaseInv, LinkInv, OpInv, Points,
     JournalPoints, UndoPoints, AcceptPoints, Same, Blank, Kin
<1>6. HostInv'
  BY <1>a DEF ApplyPart, ApplyOrder, Count, To, Leave, env, clock, proc, Outcomes, HostInv,
     PhaseInv, LinkInv, OpInv, StepInv, TypeOK, Config, AllBefore, Rooted, Before, Same,
     Committed, Undecided, Current, NextCommit, Of, Parts, Points, JournalPoints,
     OpenPoints, DecidedPoints, Blank, UndoPoints, Kin
<1>7. NewAddressesGuarded'
  BY DEF ApplyPart, SetPart, Failing, NextPart, ApplyOrder, Count, Stored, To, Leave, env,
     clock, proc, Outcomes, NewAddressesGuarded, HostInv, LinkInv, OpInv, PhaseInv, StepInv,
     TypeOK, Config, Rooted, Before, Same, Committed, Undecided, Current, Parts, Points,
     JournalPoints, OpenPoints, DecidedPoints, Blank, AllBefore, Of
<1>8. MediaInv'
  BY <1>a DEF ApplyPart, ApplyOrder, Outcomes, MediaInv, MediaOnWholeNetwork
<1>9. WatchInv'
  BY DEF ApplyPart, SetPart, Failing, NextPart, Leave, env, clock, proc, Outcomes, WatchInv,
     LinkInv, PhaseInv, OpInv, Points, JournalPoints, ApplyPoints, UndoPoints, Same, Blank,
     OpenPoints
<1>. QED
  BY <1>1, <1>2, <1>3, <1>4, <1>5, <1>6, <1>7, <1>8, <1>9

\* Starting the media on the candidate keeps the invariant.
LEMMA ApplyStartStep ==
  ASSUME Inv, ApplyStart
  PROVE  Inv'
<1>. USE EngineAssumption DEF Inv
<1>a. /\ Kin(j', j) /\ j'.phase = j.phase /\ j'.media = j.media
      /\ step' = step /\ op' = op
      /\ pc' \in {"a_done", "a_fail"} /\ media' \in {media, "running"}
  BY FailingEffect DEF TypeOK, ApplyStart, SetMedia, Stored, To, Kin
<1>1. TypeOK'
  BY DEF ApplyStart, SetMedia, Failing, Count, Stored, To, env, clock, Outcomes, TypeOK,
     Commit, Journal, Phases, Parts, Ops, Points, Timers
<1>2. StepInv'
  BY DEF ApplyStart, SetMedia, Failing, Count, Stored, To, proc, Outcomes, StepInv, TypeOK
<1>3. OpInv'
  BY DEF ApplyStart, SetMedia, Failing, Count, Stored, To, Leave, env, clock, proc,
     Outcomes, OpInv, StepInv
<1>4. LinkInv'
  BY DEF ApplyStart, SetMedia, Failing, Count, Stored, To, Leave, env, clock, proc,
     Outcomes, LinkInv, OpInv, Same, Undecided, Current, Committed, NextCommit, Blank,
     Points, JournalPoints, OpenPoints, DecidedPoints, TypeOK, Commit, Journal
<1>5. PhaseInv'
  BY <1>a DEF ApplyStart, Count, Leave, Outcomes, PhaseInv, LinkInv, UndoPoints,
     AcceptPoints, Same, Blank, Kin
<1>6. HostInv'
  BY <1>a DEF ApplyStart, Count, Leave, env, clock, proc, Outcomes, HostInv, PhaseInv,
     LinkInv, OpInv, StepInv, TypeOK, Config, AllBefore, Rooted, Before, Same, Committed,
     Undecided, Current, NextCommit, Of, Parts, Points, JournalPoints, OpenPoints,
     DecidedPoints, Blank, UndoPoints, Kin
<1>7. NewAddressesGuarded'
  BY DEF ApplyStart, SetMedia, Failing, Count, clock, proc, Outcomes, NewAddressesGuarded,
     StepInv, TypeOK, Config, Rooted, Before, Same
<1>8. MediaInv'
  BY <1>a DEF ApplyStart, Count, Leave, env, clock, proc, Outcomes, MediaInv,
     MediaOnWholeNetwork, HostInv, LinkInv, PhaseInv, OpInv, TypeOK, Config, AllBefore,
     Rooted, Before, Same, Committed, Undecided, Current, Parts, Points, JournalPoints,
     OpenPoints, DecidedPoints, Blank, Of, Kin
<1>9. WatchInv'
  BY DEF ApplyStart, SetMedia, Failing, Count, Stored, To, Leave, env, clock, proc,
     Outcomes, WatchInv, JournalPoints, ApplyPoints, UndoPoints, Same, Blank, OpenPoints
<1>. QED
  BY <1>1, <1>2, <1>3, <1>4, <1>5, <1>6, <1>7, <1>8, <1>9

\* Recording that the candidate is applied keeps the invariant.
LEMMA ApplyDoneStep ==
  ASSUME Inv, ApplyDone
  PROVE  Inv'
<1>. USE EngineAssumption DEF Inv
<1>a. /\ j' \in Journal /\ Kin(j', j) /\ j'.phase = "applied" /\ j'.media = j.media
      /\ step' = step /\ op' = op /\ pc' \in {"a_window", "a_fail"}
      /\ journal' \in Journal /\ Kin(journal', journal)
      /\ journal'.media \in {journal.media, j.media}
      /\ journal'.phase \in {journal.phase, "applied"}
      /\ pc' = "a_window" => journal'.phase = "applied" 
  <2>1. j \in Journal /\ Kin(j, journal) /\ journal \in Journal
    BY DEF TypeOK, LinkInv, JournalPoints, Points, Same, Kin, ApplyDone
  <2>. DEFINE e == [j EXCEPT !.phase = "applied"]
  <2>2. e \in Journal /\ Kin(e, j) /\ e.phase = "applied" /\ e.media = j.media
    BY <2>1, Phase DEF Phases
  <2>3. PICK r \in Outcomes : /\ journal' = Stored(r, journal, e)
                             /\ IF r = "ok"
                                THEN pc' = "a_window" /\ j' = e /\ UNCHANGED <<op, step>>
                                ELSE Failing(e)
    BY DEF ApplyDone, WriteJournal
  <2>. HIDE DEF e
  <2>. QED
    BY <2>1, <2>2, <2>3, FailingEffect DEF Kin, Stored
<1>1. TypeOK'
  <2>1. journal' \in Journal /\ j' \in Journal
    BY <1>a, BlankJournal DEF Failing, Stored, Outcomes
  <2>2. saved' \in Commit /\ saved'.net \in Nets /\ last' \in [id : Nat, phase : Phases]
    BY JournalFields DEF ApplyDone, WriteJournal, Outcomes, TypeOK
  <2>3. /\ host' \in [Parts -> Nets \cup {"none"}]
        /\ media' \in {"running", "stopped"} /\ timers' \subseteq Timers
    BY JournalFields DEF ApplyDone, WriteJournal, TypeOK, Timers
  <2>4. op' \in Ops /\ pc' \in Points /\ step' \in 1 .. 4
    BY DEF ApplyDone, WriteJournal, Failing, Count, TypeOK, Ops, Points
  <2>5. due' \in BOOLEAN /\ fresh' \in BOOLEAN /\ booted' \in BOOLEAN
    BY Zenon DEF ApplyDone, WriteJournal, Stored, To, clock, proc, Outcomes, TypeOK
  <2>6. /\ excuse' \in {"none", "resumed", "accepted"}
        /\ jobs' \in Nat /\ faults' \in Nat /\ crashes' \in Nat
        /\ boots' \in Nat /\ writes' \in Nat
    BY DEF ApplyDone, WriteJournal, Failing, Count, Leave, env, clock, proc, Outcomes,
       TypeOK
  <2>. QED
    BY <2>1, <2>2, <2>3, <2>4, <2>5, <2>6 DEF TypeOK
<1>2. StepInv'
  BY DEF ApplyDone, WriteJournal, Failing, Count, StepInv, TypeOK
<1>3. OpInv'
  BY DEF ApplyDone, WriteJournal, Failing, Count, OpInv, StepInv
<1>4. LinkInv'
  BY <1>a DEF ApplyDone, Count, To, Leave, env, clock, proc, Outcomes, LinkInv, OpInv, Same,
     Undecided, Current, Committed, NextCommit, Blank, Points, JournalPoints, OpenPoints,
     DecidedPoints, TypeOK, Commit, Journal, Kin
<1>5. PhaseInv'
  BY <1>a DEF PhaseInv, LinkInv, JournalPoints, UndoPoints, AcceptPoints, Same, Blank, Kin
<1>6. HostInv'
  BY <1>a DEF ApplyDone, Count, To, Leave, env, clock, proc, Outcomes, HostInv, PhaseInv,
     LinkInv, OpInv, StepInv, TypeOK, Config, AllBefore, Rooted, Before, Same, Committed,
     Undecided, Current, NextCommit, Of, Parts, Points, JournalPoints, OpenPoints,
     DecidedPoints, Blank, UndoPoints, Kin
<1>7. NewAddressesGuarded'
  BY DEF ApplyDone, WriteJournal, Failing, Count, Stored, To, Leave, env, clock, proc,
     Outcomes, NewAddressesGuarded, HostInv, LinkInv, OpInv, PhaseInv, StepInv, TypeOK,
     Current, Parts, Points, JournalPoints, OpenPoints, DecidedPoints, Blank, AllBefore, Of
<1>8. MediaInv'
  BY <1>a DEF ApplyDone, Count, To, Leave, MediaInv, MediaOnWholeNetwork, HostInv, Current,
     DecidedPoints, Blank, Of, Kin
<1>9. WatchInv'
  BY DEF ApplyDone, WriteJournal, Failing, Count, clock, proc, Outcomes, WatchInv,
     JournalPoints, ApplyPoints, UndoPoints, Same, Blank, OpenPoints
<1>. QED
  BY <1>1, <1>2, <1>3, <1>4, <1>5, <1>6, <1>7, <1>8, <1>9

\* Arming the confirmation window keeps the invariant.
LEMMA ApplyWindowStep ==
  ASSUME Inv, ApplyWindow
  PROVE  Inv'
<1>. USE EngineAssumption DEF Inv
<1>a. /\ (pc' = "idle" /\ j' = Blank /\ step' = 1 /\ op' = "none")
         \/ (pc' = "a_fail" /\ j' \in Journal /\ Kin(j', j) /\ j'.phase = j.phase
               /\ j'.media = j.media /\ step' = step /\ op' = op)
  BY FailingEffect DEF TypeOK, ApplyWindow, Leave
<1>1. TypeOK'
  <2>1. journal' \in Journal /\ j' \in Journal
    BY <1>a, BlankJournal DEF TypeOK, ApplyWindow, Arm
  <2>2. saved' \in Commit /\ saved'.net \in Nets /\ last' \in [id : Nat, phase : Phases]
    BY JournalFields DEF ApplyWindow, Arm, Outcomes, TypeOK
  <2>3. /\ host' \in [Parts -> Nets \cup {"none"}]
        /\ media' \in {"running", "stopped"} /\ timers' \subseteq Timers
    BY JournalFields DEF ApplyWindow, Arm, Stored, Outcomes, TypeOK, Timers
  <2>4. op' \in Ops /\ pc' \in Points /\ step' \in 1 .. 4
    BY DEF ApplyWindow, Arm, Failing, Leave, env, clock, proc, Outcomes, TypeOK, Ops, Points
  <2>5. due' \in BOOLEAN /\ fresh' \in BOOLEAN /\ booted' \in BOOLEAN
    BY DEF ApplyWindow, Arm, clock, proc, Outcomes, TypeOK
  <2>6. /\ excuse' \in {"none", "resumed", "accepted"}
        /\ jobs' \in Nat /\ faults' \in Nat /\ crashes' \in Nat
        /\ boots' \in Nat /\ writes' \in Nat
    BY DEF ApplyWindow, Arm, Failing, Count, Leave, env, clock, proc, Outcomes, TypeOK
  <2>. QED
    BY <2>1, <2>2, <2>3, <2>4, <2>5, <2>6 DEF TypeOK
<1>2. StepInv'
  BY DEF ApplyWindow, Arm, Failing, Leave, env, clock, proc, Outcomes, StepInv, TypeOK
<1>3. OpInv'
  BY DEF ApplyWindow, Arm, Failing, Leave, env, clock, proc, Outcomes, OpInv, StepInv
<1>4. LinkInv'
  BY DEF ApplyWindow, Arm, Failing, Count, Stored, To, Leave, env, clock, proc, Outcomes,
     LinkInv, OpInv, Same, Undecided, Current, Committed, NextCommit, Blank, Points,
     JournalPoints, OpenPoints, DecidedPoints, TypeOK, Commit, Journal
<1>5. PhaseInv'
  BY <1>a DEF ApplyWindow, Arm, Count, Stored, Outcomes, PhaseInv, LinkInv, OpInv, Points,
     JournalPoints, UndoPoints, AcceptPoints, Same, Blank, Kin
<1>6. HostInv'
  BY <1>a DEF ApplyWindow, Arm, Count, Stored, To, env, clock, proc, Outcomes, HostInv,
     PhaseInv, LinkInv, OpInv, StepInv, TypeOK, Config, AllBefore, Rooted, Before, Same,
     Committed, Undecided, Current, NextCommit, Of, Parts, Points, JournalPoints,
     OpenPoints, DecidedPoints, Blank, UndoPoints, Kin
<1>7. NewAddressesGuarded'
  BY DEF ApplyWindow, Arm, Failing, Count, clock, proc, Outcomes, NewAddressesGuarded,
     StepInv, TypeOK, Config, Rooted, Before, Same
<1>8. MediaInv'
  BY <1>a DEF ApplyWindow, Arm, Count, Stored, Outcomes, MediaInv, MediaOnWholeNetwork,
     Undecided, OpenPoints, DecidedPoints, Blank, Of, Kin
<1>9. WatchInv'
  BY DEF ApplyWindow, Arm, Failing, Count, Stored, To, Leave, env, clock, proc, Outcomes,
     WatchInv, JournalPoints, ApplyPoints, UndoPoints, Same, Blank, OpenPoints
<1>. QED
  BY <1>1, <1>2, <1>3, <1>4, <1>5, <1>6, <1>7, <1>8, <1>9

\* Recording a failed apply and turning to its recovery keeps the invariant.
LEMMA ApplyFailsStep ==
  ASSUME Inv, ApplyFails
  PROVE  Inv'
<1>. USE EngineAssumption DEF Inv
<1>a. /\ journal' \in Journal /\ Kin(journal', journal)
      /\ journal'.media \in {journal.media, j.media}
           /\ journal'.phase \in {journal.phase, j.phase}
      /\ \/ pc' = "idle" /\ j' = Blank /\ step' = 1 /\ op' = "none"
         \/ /\ j' \in Journal /\ Kin(j', j) /\ j'.phase = j.phase /\ j'.media = j.media
                 /\ step' = 1 /\ op' = op
            /\ journal' = j /\ pc' = "r_mark" 
  <2>1. j \in Journal /\ Kin(j, journal) /\ journal \in Journal /\ j.phase # "staged"
          /\ ~Committed(j)
    BY DEF TypeOK, LinkInv, PhaseInv, JournalPoints, OpenPoints, DecidedPoints, Points,
       Same, Kin, ApplyFails, Current, Undecided, Committed, NextCommit
  <2>. QED
    BY <2>1, RecoverEffect DEF ApplyFails, WriteJournal, Stored, Leave, Phases, Kin
<1>1. TypeOK'
  <2>1. journal' \in Journal /\ j' \in Journal
    BY <1>a, BlankJournal DEF Stored, Leave
  <2>2. saved' \in Commit /\ saved'.net \in Nets /\ last' \in [id : Nat, phase : Phases]
    BY JournalFields DEF ApplyFails, WriteJournal, Outcomes, TypeOK
  <2>3. /\ host' \in [Parts -> Nets \cup {"none"}]
        /\ media' \in {"running", "stopped"} /\ timers' \subseteq Timers
    BY JournalFields DEF ApplyFails, WriteJournal, TypeOK, Timers
  <2>4. op' \in Ops /\ pc' \in Points /\ step' \in 1 .. 4
    BY DEF ApplyFails, WriteJournal, Recover, Leave, env, clock, proc, Outcomes, TypeOK,
       Ops, Points
  <2>5. due' \in BOOLEAN /\ fresh' \in BOOLEAN /\ booted' \in BOOLEAN
    BY DEF ApplyFails, WriteJournal, clock, proc, Outcomes, TypeOK
  <2>6. /\ excuse' \in {"none", "resumed", "accepted"}
        /\ jobs' \in Nat /\ faults' \in Nat /\ crashes' \in Nat
        /\ boots' \in Nat /\ writes' \in Nat
    BY DEF ApplyFails, WriteJournal, Recover, Count, Leave, env, clock, proc, Outcomes,
       TypeOK
  <2>. QED
    BY <2>1, <2>2, <2>3, <2>4, <2>5, <2>6 DEF TypeOK
<1>2. StepInv'
  BY DEF ApplyFails, WriteJournal, Recover, Leave, env, clock, proc, Outcomes, StepInv,
     TypeOK
<1>3. OpInv'
  BY DEF ApplyFails, WriteJournal, Recover, Leave, env, clock, proc, Outcomes, OpInv,
     StepInv
<1>4. LinkInv'
  BY DEF ApplyFails, WriteJournal, Recover, Count, Stored, To, Leave, env, clock, proc,
     Outcomes, LinkInv, OpInv, PhaseInv, Same, Undecided, Current, Committed, NextCommit,
     Blank, Points, JournalPoints, OpenPoints, DecidedPoints, TypeOK, Commit, Journal
<1>5. PhaseInv'
  BY DEF ApplyFails, WriteJournal, Recover, Count, Stored, To, Leave, env, clock, proc,
     Outcomes, PhaseInv, UndoPoints, AcceptPoints, Same, Blank
<1>6. HostInv'
  BY <1>a DEF ApplyFails, Count, To, env, clock, proc, Outcomes, HostInv, PhaseInv, LinkInv,
     OpInv, StepInv, TypeOK, Config, AllBefore, Rooted, Before, Same, Committed, Undecided,
     Current, NextCommit, Of, Parts, Points, JournalPoints, OpenPoints, DecidedPoints,
     Blank, UndoPoints, Kin
<1>7. NewAddressesGuarded'
  BY DEF ApplyFails, WriteJournal, Recover, Count, Stored, To, Leave, env, clock, proc,
     Outcomes, NewAddressesGuarded, HostInv, LinkInv, OpInv, PhaseInv, StepInv, TypeOK,
     Config, Rooted, Before, Same, Committed, Undecided, Current, Parts, Points,
     JournalPoints, OpenPoints, DecidedPoints, Blank, AllBefore, Of
<1>8. MediaInv'
  BY <1>a DEF ApplyFails, Count, To, env, clock, proc, Outcomes, MediaInv,
     MediaOnWholeNetwork, HostInv, Undecided, Current, DecidedPoints, Blank, Of, Kin
<1>9. WatchInv'
  BY DEF ApplyFails, WriteJournal, Recover, Count, Stored, To, Leave, env, clock, proc,
     Outcomes, WatchInv, JournalPoints, ApplyPoints, UndoPoints, Same, Blank, OpenPoints
<1>. QED
  BY <1>1, <1>2, <1>3, <1>4, <1>5, <1>6, <1>7, <1>8, <1>9

\* Marking the journal as reverting keeps the invariant.
LEMMA RecoverMarkStep ==
  ASSUME Inv, RecoverMark
  PROVE  Inv'
<1>. USE EngineAssumption DEF Inv
<1>a. /\ journal' \in Journal /\ Kin(journal', journal)
      /\ journal'.media \in {journal.media, j.media}
           /\ journal'.phase \in {journal.phase, "reverting"}
      /\ \/ pc' = "idle" /\ j' = Blank /\ step' = 1 /\ op' = "none"
         \/ /\ Kin(j', j) /\ j'.media = j.media /\ step' = step /\ op' = op /\ j' \in Journal
            /\ journal'.phase = "reverting" /\ pc' = "r_retry" 
  <2>1. j \in Journal /\ Kin(j, journal) /\ journal \in Journal
    BY DEF TypeOK, LinkInv, JournalPoints, Points, Same, Kin, RecoverMark
  <2>. QED
    BY ZenonT(60), <2>1, Reverting DEF RecoverMark, WriteJournal, Stored, Leave, Kin
<1>1. TypeOK'
  <2>1. journal' \in Journal /\ j' \in Journal
    BY <1>a, BlankJournal DEF Stored, Leave
  <2>2. saved' \in Commit /\ saved'.net \in Nets /\ last' \in [id : Nat, phase : Phases]
    BY JournalFields DEF RecoverMark, WriteJournal, TypeOK
  <2>3. /\ host' \in [Parts -> Nets \cup {"none"}]
        /\ media' \in {"running", "stopped"} /\ timers' \subseteq Timers
    BY JournalFields DEF RecoverMark, WriteJournal, TypeOK, Timers
  <2>4. op' \in Ops /\ pc' \in Points /\ step' \in 1 .. 4
    BY DEF RecoverMark, WriteJournal, Count, Stored, To, Leave, Outcomes, TypeOK, Ops,
       Points
  <2>5. due' \in BOOLEAN /\ fresh' \in BOOLEAN /\ booted' \in BOOLEAN
    BY DEF RecoverMark, WriteJournal, env, clock, proc, Outcomes, TypeOK
  <2>6. /\ excuse' \in {"none", "resumed", "accepted"}
        /\ jobs' \in Nat /\ faults' \in Nat /\ crashes' \in Nat
        /\ boots' \in Nat /\ writes' \in Nat
    BY DEF RecoverMark, WriteJournal, Count, Stored, env, clock, proc, Outcomes, TypeOK
  <2>. QED
    BY <2>1, <2>2, <2>3, <2>4, <2>5, <2>6 DEF TypeOK
<1>2. StepInv'
  BY DEF RecoverMark, WriteJournal, To, Leave, proc, Outcomes, StepInv, TypeOK
<1>3. OpInv'
  BY DEF RecoverMark, WriteJournal, To, Leave, env, clock, proc, Outcomes, OpInv, StepInv
<1>4. LinkInv'
  BY <1>a DEF RecoverMark, Count, To, env, clock, proc, Outcomes, LinkInv, OpInv, Same,
     Undecided, Current, Committed, NextCommit, Blank, Points, JournalPoints, OpenPoints,
     DecidedPoints, TypeOK, Commit, Journal, Kin
<1>5. PhaseInv'
  BY DEF RecoverMark, WriteJournal, Count, Stored, To, Leave, env, clock, proc, Outcomes,
     PhaseInv, LinkInv, OpInv, Points, JournalPoints, UndoPoints, AcceptPoints, Same, Blank
<1>6. HostInv'
  BY <1>a DEF RecoverMark, Count, To, env, clock, proc, Outcomes, HostInv, PhaseInv,
     LinkInv, OpInv, StepInv, TypeOK, Config, AllBefore, Rooted, Before, Same, Committed,
     Undecided, Current, NextCommit, Of, Parts, Points, JournalPoints, OpenPoints,
     DecidedPoints, Blank, UndoPoints, Kin
<1>7. NewAddressesGuarded'
  BY DEF RecoverMark, WriteJournal, Count, Stored, To, Leave, env, clock, proc, Outcomes,
     NewAddressesGuarded, HostInv, LinkInv, OpInv, PhaseInv, StepInv, TypeOK, Config,
     Rooted, Before, Same, Committed, Undecided, Current, Parts, Points, JournalPoints,
     OpenPoints, DecidedPoints, Blank, AllBefore, Of
<1>8. MediaInv'
  BY <1>a DEF RecoverMark, Count, To, env, clock, proc, Outcomes, MediaInv,
     MediaOnWholeNetwork, HostInv, Undecided, Current, DecidedPoints, Blank, Of, Kin
<1>9. WatchInv'
  BY DEF RecoverMark, WriteJournal, Count, Stored, To, Leave, env, clock, proc, Outcomes,
     WatchInv, LinkInv, PhaseInv, OpInv
<1>. QED
  BY <1>1, <1>2, <1>3, <1>4, <1>5, <1>6, <1>7, <1>8, <1>9

\* Arming the retry of a recovery keeps the invariant.
LEMMA RecoverRetryStep ==
  ASSUME Inv, RecoverRetry
  PROVE  Inv'
<1>. USE EngineAssumption DEF Inv
<1>1. TypeOK'
  BY DEF RecoverRetry, Arm, Count, Stored, To, env, clock, Outcomes, TypeOK, Parts, Ops,
     Points, Timers
<1>2. StepInv'
  BY DEF RecoverRetry, Arm, To, Leave, proc, Outcomes, StepInv, TypeOK
<1>3. OpInv'
  BY DEF RecoverRetry, Arm, To, Leave, env, clock, proc, Outcomes, OpInv, StepInv
<1>4. LinkInv'
  BY DEF RecoverRetry, Arm, Count, Stored, To, Leave, env, clock, proc, Outcomes, LinkInv,
     OpInv, Same, Undecided, Current, Committed, NextCommit, Blank, Points, JournalPoints,
     OpenPoints, DecidedPoints, TypeOK, Commit, Journal
<1>5. PhaseInv'
  BY DEF RecoverRetry, Arm, Count, Stored, To, Leave, env, clock, proc, Outcomes, PhaseInv,
     LinkInv, OpInv, Points, JournalPoints, UndoPoints, AcceptPoints, Same, Blank
<1>6. HostInv'
  BY DEF RecoverRetry, Arm, Count, Stored, To, Leave, env, clock, proc, Outcomes, HostInv,
     PhaseInv, LinkInv, OpInv, StepInv, TypeOK, Config, AllBefore, Rooted, Before, Same,
     Committed, Undecided, Current, NextCommit, Of, Parts, Points, JournalPoints,
     OpenPoints, DecidedPoints, Blank, UndoPoints
<1>7. NewAddressesGuarded'
  BY DEF RecoverRetry, Arm, env, clock, proc, Outcomes, NewAddressesGuarded
<1>8. MediaInv'
  BY DEF RecoverRetry, Arm, Count, Stored, To, Leave, env, clock, proc, Outcomes, MediaInv,
     MediaOnWholeNetwork, Current, Parts, Points, JournalPoints, OpenPoints, DecidedPoints,
     Blank, Of
<1>9. WatchInv'
  BY DEF RecoverRetry, Arm, Count, Stored, To, Leave, env, clock, proc, Outcomes, WatchInv,
     LinkInv, ApplyPoints, UndoPoints, Same, Blank, OpenPoints
<1>. QED
  BY <1>1, <1>2, <1>3, <1>4, <1>5, <1>6, <1>7, <1>8, <1>9

\* Stopping the media for a recovery keeps the invariant.
LEMMA RecoverStopStep ==
  ASSUME Inv, RecoverStop
  PROVE  Inv'
<1>. USE EngineAssumption DEF Inv
<1>1. TypeOK'
  BY DEF RecoverStop, SetMedia, Count, Stored, To, env, clock, Outcomes, TypeOK, Parts, Ops,
     Points, Timers
<1>2. StepInv'
  BY DEF RecoverStop, SetMedia, To, Leave, proc, Outcomes, StepInv, TypeOK
<1>3. OpInv'
  BY DEF RecoverStop, SetMedia, To, Leave, env, clock, proc, Outcomes, OpInv, StepInv
<1>4. LinkInv'
  BY DEF RecoverStop, SetMedia, Count, Stored, To, Leave, env, clock, proc, Outcomes,
     LinkInv, OpInv, Same, Undecided, Current, Committed, NextCommit, Blank, Points,
     JournalPoints, OpenPoints, DecidedPoints, TypeOK, Commit, Journal
<1>5. PhaseInv'
  BY DEF RecoverStop, SetMedia, Count, Stored, To, Leave, env, clock, proc, Outcomes,
     PhaseInv, LinkInv, OpInv, Points, JournalPoints, UndoPoints, AcceptPoints, Same, Blank
<1>6. HostInv'
  BY DEF RecoverStop, SetMedia, Count, Stored, To, Leave, env, clock, proc, Outcomes,
     HostInv, PhaseInv, LinkInv, OpInv, StepInv, TypeOK, Config, AllBefore, Rooted, Before,
     Same, Committed, Undecided, Current, NextCommit, Of, Parts, Points, JournalPoints,
     OpenPoints, DecidedPoints, Blank, UndoPoints
<1>7. NewAddressesGuarded'
  BY DEF RecoverStop, SetMedia, env, clock, proc, Outcomes, NewAddressesGuarded
<1>8. MediaInv'
  BY DEF RecoverStop, SetMedia, Count, Stored, To, Leave, env, clock, proc, Outcomes,
     MediaInv, MediaOnWholeNetwork, Current, Parts, Points, JournalPoints, OpenPoints,
     DecidedPoints, Blank, Of
<1>9. WatchInv'
  BY DEF RecoverStop, SetMedia, Count, Stored, To, Leave, env, clock, proc, Outcomes,
     WatchInv, LinkInv, ApplyPoints, UndoPoints, Same, Blank, OpenPoints
<1>. QED
  BY <1>1, <1>2, <1>3, <1>4, <1>5, <1>6, <1>7, <1>8, <1>9

\* Restoring a part keeps the invariant.
LEMMA RecoverPartStep ==
  ASSUME Inv, RecoverPart
  PROVE  Inv'
<1>. USE EngineAssumption DEF Inv
<1>1. TypeOK'
  BY DEF RecoverPart, SetPart, NextPart, RestoreOrder, Count, Stored, To, env, clock,
     Outcomes, TypeOK, Commit, Journal, Phases, Parts, Ops, Points, Timers, Before
<1>2. StepInv'
  BY DEF RecoverPart, SetPart, NextPart, To, Leave, env, StepInv, TypeOK
<1>3. OpInv'
  BY DEF RecoverPart, SetPart, NextPart, To, Leave, env, clock, proc, Outcomes, OpInv,
     StepInv
<1>4. LinkInv'
  BY DEF RecoverPart, SetPart, NextPart, RestoreOrder, Count, Stored, To, Leave, env, clock,
     proc, Outcomes, LinkInv, OpInv, Same, Undecided, Current, Committed, NextCommit, Blank,
     Points, JournalPoints, OpenPoints, DecidedPoints, TypeOK, Commit, Journal
<1>5. PhaseInv'
  BY DEF RecoverPart, SetPart, NextPart, RestoreOrder, Count, Stored, To, Leave, PhaseInv,
     LinkInv, OpInv, Points, JournalPoints, UndoPoints, AcceptPoints, Same, Blank
<1>6. HostInv'
  BY DEF RecoverPart, SetPart, NextPart, RestoreOrder, Count, Stored, To, Leave, env, clock,
     proc, Outcomes, HostInv, PhaseInv, LinkInv, OpInv, StepInv, TypeOK, Config, AllBefore,
     Rooted, Before, Same, Committed, Undecided, Current, NextCommit, Of, Parts, Points,
     JournalPoints, OpenPoints, DecidedPoints, Blank, UndoPoints
<1>7. NewAddressesGuarded'
  BY DEF RecoverPart, SetPart, NextPart, RestoreOrder, Count, Stored, To, Leave, env, clock,
     proc, Outcomes, NewAddressesGuarded, HostInv, LinkInv, OpInv, PhaseInv, StepInv,
     TypeOK, Config, Rooted, Before, Same, Committed, Undecided, Current, Parts, Points,
     JournalPoints, OpenPoints, DecidedPoints, Blank, AllBefore, Of
<1>8. MediaInv'
  BY DEF RecoverPart, SetPart, NextPart, RestoreOrder, Count, Stored, To, Leave, MediaInv,
     MediaOnWholeNetwork, HostInv, LinkInv, PhaseInv, OpInv, TypeOK, Config, AllBefore,
     Rooted, Before, Same
<1>9. WatchInv'
  BY DEF RecoverPart, SetPart, NextPart, RestoreOrder, Count, Stored, To, Leave, env, clock,
     proc, Outcomes, WatchInv, LinkInv, PhaseInv, OpInv, Points, JournalPoints, ApplyPoints,
     UndoPoints, Same, Blank, OpenPoints
<1>. QED
  BY <1>1, <1>2, <1>3, <1>4, <1>5, <1>6, <1>7, <1>8, <1>9

\* Stopping once more the media that a failed attempt left running keeps the invariant.
LEMMA RecoverAgainStep ==
  ASSUME Inv, RecoverAgain
  PROVE  Inv'
<1>. USE EngineAssumption DEF Inv
<1>1. TypeOK'
  BY DEF RecoverAgain, SetMedia, Count, Stored, To, env, clock, Outcomes, TypeOK, Parts,
     Ops, Points, Timers
<1>2. StepInv'
  BY DEF RecoverAgain, SetMedia, To, Leave, proc, Outcomes, StepInv, TypeOK
<1>3. OpInv'
  BY DEF RecoverAgain, SetMedia, To, Leave, env, clock, proc, Outcomes, OpInv, StepInv
<1>4. LinkInv'
  BY DEF RecoverAgain, SetMedia, Count, Stored, To, Leave, env, clock, proc, Outcomes,
     LinkInv, OpInv, Same, Undecided, Current, Committed, NextCommit, Blank, Points,
     JournalPoints, OpenPoints, DecidedPoints, TypeOK, Commit, Journal
<1>5. PhaseInv'
  BY DEF RecoverAgain, SetMedia, Count, Stored, To, Leave, env, clock, proc, Outcomes,
     PhaseInv, LinkInv, OpInv, Points, JournalPoints, UndoPoints, AcceptPoints, Same, Blank
<1>6. HostInv'
  BY DEF RecoverAgain, SetMedia, Count, Stored, To, Leave, env, clock, proc, Outcomes,
     HostInv, PhaseInv, Config, AllBefore, Rooted, Before, Same, Committed
<1>7. NewAddressesGuarded'
  BY DEF RecoverAgain, SetMedia, env, clock, proc, Outcomes, NewAddressesGuarded
<1>8. MediaInv'
  BY DEF RecoverAgain, SetMedia, Count, Stored, To, Leave, env, clock, proc, Outcomes,
     MediaInv, MediaOnWholeNetwork, Current, Parts, Points, JournalPoints, OpenPoints,
     DecidedPoints, Blank, Of
<1>9. WatchInv'
  BY DEF RecoverAgain, SetMedia, Count, Stored, To, Leave, env, clock, proc, Outcomes,
     WatchInv, LinkInv, ApplyPoints, UndoPoints, Same, Blank, OpenPoints
<1>. QED
  BY <1>1, <1>2, <1>3, <1>4, <1>5, <1>6, <1>7, <1>8, <1>9

\* Starting the media on the restored network keeps the invariant.
LEMMA RecoverStartStep ==
  ASSUME Inv, RecoverStart
  PROVE  Inv'
<1>. USE EngineAssumption DEF Inv
<1>1. TypeOK'
  BY DEF RecoverStart, StartMedia, SetMedia, Count, Stored, To, env, clock, Outcomes,
     TypeOK, Commit, Journal, Phases, Parts, Ops, Points, Timers
<1>2. StepInv'
  BY DEF RecoverStart, StartMedia, SetMedia, Count, Stored, To, proc, Outcomes, StepInv,
     TypeOK
<1>3. OpInv'
  BY DEF RecoverStart, StartMedia, SetMedia, Count, Stored, To, Leave, env, clock, proc,
     Outcomes, OpInv, StepInv
<1>4. LinkInv'
  BY DEF RecoverStart, StartMedia, SetMedia, Count, Stored, To, Leave, env, clock, proc,
     Outcomes, LinkInv, OpInv, Same, Undecided, Current, Committed, NextCommit, Blank,
     Points, JournalPoints, OpenPoints, DecidedPoints, TypeOK, Commit, Journal
<1>5. PhaseInv'
  BY DEF RecoverStart, StartMedia, SetMedia, Count, Stored, To, Leave, env, clock, proc,
     Outcomes, PhaseInv, UndoPoints, AcceptPoints, Same, Blank
<1>6. HostInv'
  BY DEF RecoverStart, StartMedia, SetMedia, Count, Stored, To, Leave, env, clock, proc,
     Outcomes, HostInv, PhaseInv, LinkInv, OpInv, StepInv, TypeOK, Config, AllBefore,
     Rooted, Before, Same, Committed, Undecided, Current, NextCommit, Of, Parts, Points,
     JournalPoints, OpenPoints, DecidedPoints, Blank, UndoPoints
<1>7. NewAddressesGuarded'
  BY DEF RecoverStart, StartMedia, SetMedia, Count, clock, proc, Outcomes,
     NewAddressesGuarded, StepInv, TypeOK, Config, Rooted, Before, Same
<1>8. MediaInv'
  BY DEF RecoverStart, StartMedia, SetMedia, Count, Stored, To, Leave, env, clock, proc,
     Outcomes, MediaInv, MediaOnWholeNetwork, HostInv, LinkInv, PhaseInv, OpInv, TypeOK,
     Config, AllBefore, Rooted, Before, Same, Committed, Undecided, Current, Parts, Points,
     JournalPoints, OpenPoints, DecidedPoints, Blank, Of
<1>9. WatchInv'
  BY DEF RecoverStart, StartMedia, SetMedia, Count, Stored, To, Leave, env, clock, proc,
     Outcomes, WatchInv, JournalPoints, ApplyPoints, UndoPoints, Same, Blank, OpenPoints
<1>. QED
  BY <1>1, <1>2, <1>3, <1>4, <1>5, <1>6, <1>7, <1>8, <1>9

\* Recording the outcome of a recovery keeps the invariant.
LEMMA RecoverLastStep ==
  ASSUME Inv, RecoverLast
  PROVE  Inv'
<1>. USE EngineAssumption DEF Inv
<1>1. TypeOK'
  BY DEF RecoverLast, Count, Stored, To, env, clock, Outcomes, TypeOK, Commit, Journal,
     Phases, Parts, Ops, Points, Timers
<1>2. StepInv'
  BY DEF RecoverLast, Count, Stored, To, Outcomes, StepInv
<1>3. OpInv'
  BY DEF RecoverLast, Count, Stored, To, clock, proc, Outcomes, OpInv, StepInv
<1>4. LinkInv'
  BY DEF RecoverLast, Count, Stored, To, Leave, env, clock, proc, Outcomes, LinkInv, OpInv,
     Same, Undecided, Current, Committed, NextCommit, Blank, Points, JournalPoints,
     OpenPoints, DecidedPoints, TypeOK, Commit, Journal
<1>5. PhaseInv'
  BY DEF RecoverLast, Count, Stored, To, Leave, env, PhaseInv, LinkInv, OpInv, Points,
     JournalPoints, UndoPoints, AcceptPoints, Same, Blank
<1>6. HostInv'
  BY DEF RecoverLast, Count, Stored, To, Leave, env, clock, proc, Outcomes, HostInv,
     PhaseInv, LinkInv, OpInv, StepInv, TypeOK, Config, AllBefore, Rooted, Before, Same,
     Committed, Undecided
<1>7. NewAddressesGuarded'
  BY DEF RecoverLast, Count, clock, proc, Outcomes, NewAddressesGuarded, HostInv
<1>8. MediaInv'
  BY DEF RecoverLast, Count, Stored, To, Outcomes, MediaInv, MediaOnWholeNetwork, Undecided,
     OpenPoints, DecidedPoints, Blank, Of
<1>9. WatchInv'
  BY DEF RecoverLast, Count, Stored, To, Leave, env, clock, proc, Outcomes, WatchInv,
     LinkInv, PhaseInv, UndoPoints, Same, Blank, OpenPoints
<1>. QED
  BY <1>1, <1>2, <1>3, <1>4, <1>5, <1>6, <1>7, <1>8, <1>9

\* Removing the journal of a change that is undone keeps the invariant.
LEMMA RecoverRemoveStep ==
  ASSUME Inv, RecoverRemove
  PROVE  Inv'
<1>. USE EngineAssumption DEF Inv
<1>1. TypeOK'
  <2>1. journal' \in Journal /\ j' \in Journal
    BY BlankJournal DEF TypeOK, RecoverRemove, WriteJournal, Done, Stored, To, Leave, env
  <2>2. saved' \in Commit /\ saved'.net \in Nets /\ last' \in [id : Nat, phase : Phases]
    BY JournalFields DEF RecoverRemove, WriteJournal, Outcomes, TypeOK
  <2>3. /\ host' \in [Parts -> Nets \cup {"none"}]
        /\ media' \in {"running", "stopped"} /\ timers' \subseteq Timers
    BY JournalFields DEF RecoverRemove, WriteJournal, Done, Count, Stored, To, Leave, env,
       clock, proc, Outcomes, TypeOK, Timers
  <2>4. op' \in Ops /\ pc' \in Points /\ step' \in 1 .. 4
    BY DEF RecoverRemove, WriteJournal, Done, Count, Stored, To, Leave, env, clock, proc,
       Outcomes, TypeOK, Ops, Points
  <2>5. due' \in BOOLEAN /\ fresh' \in BOOLEAN /\ booted' \in BOOLEAN
    BY DEF RecoverRemove, WriteJournal, clock, proc, Outcomes, TypeOK
  <2>6. /\ excuse' \in {"none", "resumed", "accepted"}
        /\ jobs' \in Nat /\ faults' \in Nat /\ crashes' \in Nat
        /\ boots' \in Nat /\ writes' \in Nat
    BY DEF RecoverRemove, WriteJournal, Done, Count, Leave, env, clock, proc, Outcomes,
       TypeOK
  <2>. QED
    BY <2>1, <2>2, <2>3, <2>4, <2>5, <2>6 DEF TypeOK
<1>2. StepInv'
  BY DEF RecoverRemove, WriteJournal, Done, Count, Stored, To, Leave, env, clock, proc,
     Outcomes, StepInv, TypeOK
<1>3. OpInv'
  BY DEF RecoverRemove, WriteJournal, Done, Count, Stored, To, Leave, env, clock, proc,
     Outcomes, OpInv, StepInv
<1>4. LinkInv'
  BY DEF RecoverRemove, WriteJournal, Done, Count, Stored, To, Leave, env, clock, proc,
     Outcomes, LinkInv, OpInv, Same, Undecided, Current, Committed, NextCommit, Blank,
     Points, JournalPoints, OpenPoints, DecidedPoints, TypeOK, Commit, Journal
<1>5. PhaseInv'
  BY DEF RecoverRemove, WriteJournal, Done, Count, Stored, To, Leave, env, clock, proc,
     Outcomes, PhaseInv, UndoPoints, AcceptPoints, Same, Blank
<1>6. HostInv'
  BY DEF RecoverRemove, WriteJournal, Done, Count, Stored, To, Leave, env, clock, proc,
     Outcomes, HostInv, PhaseInv, LinkInv, OpInv, StepInv, TypeOK, Config, AllBefore,
     Rooted, Before, Same, Committed, Undecided, Current, NextCommit, Of, Parts, Points,
     JournalPoints, OpenPoints, DecidedPoints, Blank, UndoPoints
<1>7. NewAddressesGuarded'
  BY DEF RecoverRemove, WriteJournal, Done, Count, Stored, To, Leave, env, clock, proc,
     Outcomes, NewAddressesGuarded, Current, Parts, Points, JournalPoints, OpenPoints,
     DecidedPoints, Blank, AllBefore, Of
<1>8. MediaInv'
  BY DEF RecoverRemove, WriteJournal, Done, Count, Stored, To, Leave, env, clock, proc,
     Outcomes, MediaInv, MediaOnWholeNetwork, HostInv, LinkInv, PhaseInv, OpInv, TypeOK,
     Config, AllBefore, Rooted, Before, Same, Committed, Undecided, Current, Parts, Points,
     JournalPoints, OpenPoints, DecidedPoints, Blank, Of
<1>9. WatchInv'
  BY DEF RecoverRemove, WriteJournal, Done, Count, Stored, To, Leave, env, clock, proc,
     Outcomes, WatchInv, JournalPoints, ApplyPoints, UndoPoints, Same, Blank, OpenPoints
<1>. QED
  BY <1>1, <1>2, <1>3, <1>4, <1>5, <1>6, <1>7, <1>8, <1>9

\* Recording that a recovery failed keeps the invariant.
LEMMA RecoverFailsStep ==
  ASSUME Inv, RecoverFails
  PROVE  Inv'
<1>. USE EngineAssumption DEF Inv
<1>a. /\ journal' = journal \/ /\ journal' \in Journal /\ Kin(journal', j)
                                   /\ journal'.phase = "failed" /\ journal'.media
      /\ \/ pc' = "idle" /\ j' = Blank /\ step' = 1 /\ op' = "none"
         \/ /\ Kin(j', j) /\ j'.phase = "failed" /\ step' = 1 /\ op' = op /\ op = "boot"
                 /\ j' \in Journal
            /\ pc' = "b_guard" 
  <2>. DEFINE e == [j EXCEPT !.phase = "failed", !.pending = TRUE, !.media = TRUE]
  <2>1. e \in Journal /\ Kin(e, j) /\ e.phase = "failed" /\ e.media
    BY Failed DEF TypeOK
  <2>2. PICK r \in Outcomes : /\ journal' = Stored(r, journal, e)
                             /\ IF op = "boot" THEN pc' = "b_guard" /\ j' = e
                                  /\ step' = 1 /\ UNCHANGED op
                                ELSE Leave
    BY DEF RecoverFails, WriteJournal
  <2>. HIDE DEF e
  <2>. QED
    BY <2>1, <2>2 DEF Stored, Leave
<1>1. TypeOK'
  <2>1. journal' \in Journal /\ j' \in Journal
    BY <1>a, BlankJournal DEF TypeOK, RecoverFails, WriteJournal
  <2>2. saved' \in Commit /\ saved'.net \in Nets /\ last' \in [id : Nat, phase : Phases]
    BY JournalFields DEF RecoverFails, WriteJournal, TypeOK
  <2>3. /\ host' \in [Parts -> Nets \cup {"none"}]
        /\ media' \in {"running", "stopped"} /\ timers' \subseteq Timers
    BY JournalFields DEF RecoverFails, WriteJournal, TypeOK, Timers
  <2>4. op' \in Ops /\ pc' \in Points /\ step' \in 1 .. 4
    BY DEF RecoverFails, WriteJournal, Count, Stored, To, Leave, Outcomes, TypeOK, Ops,
       Points
  <2>5. due' \in BOOLEAN /\ fresh' \in BOOLEAN /\ booted' \in BOOLEAN
    BY DEF RecoverFails, WriteJournal, env, clock, proc, Outcomes, TypeOK
  <2>6. /\ excuse' \in {"none", "resumed", "accepted"}
        /\ jobs' \in Nat /\ faults' \in Nat /\ crashes' \in Nat
        /\ boots' \in Nat /\ writes' \in Nat
    BY DEF RecoverFails, WriteJournal, Count, Stored, env, clock, proc, Outcomes, TypeOK
  <2>. QED
    BY <2>1, <2>2, <2>3, <2>4, <2>5, <2>6 DEF TypeOK
<1>2. StepInv'
  BY DEF RecoverFails, WriteJournal, To, Leave, proc, Outcomes, StepInv, TypeOK
<1>3. OpInv'
  BY DEF RecoverFails, WriteJournal, To, Leave, env, clock, proc, Outcomes, OpInv, StepInv
<1>4. LinkInv'
  BY <1>a DEF RecoverFails, Count, To, env, clock, proc, Outcomes, LinkInv, OpInv, Same,
     Undecided, Current, Committed, NextCommit, Blank, Points, JournalPoints, OpenPoints,
     DecidedPoints, TypeOK, Commit, Journal, Kin
<1>5. PhaseInv'
  BY DEF RecoverFails, WriteJournal, Count, Stored, To, Leave, env, clock, proc, Outcomes,
     PhaseInv, LinkInv, OpInv, Points, JournalPoints, UndoPoints, AcceptPoints, Same, Blank
<1>6. HostInv'
  BY <1>a DEF RecoverFails, Count, To, env, clock, proc, Outcomes, HostInv, PhaseInv,
     LinkInv, OpInv, StepInv, TypeOK, Config, AllBefore, Rooted, Before, Same, Committed,
     Undecided, Current, NextCommit, Of, Parts, Points, JournalPoints, OpenPoints,
     DecidedPoints, Blank, UndoPoints, Kin
<1>7. NewAddressesGuarded'
  BY DEF RecoverFails, WriteJournal, Count, Stored, To, Leave, env, clock, proc, Outcomes,
     NewAddressesGuarded, HostInv, LinkInv, OpInv, PhaseInv, StepInv, TypeOK, Config,
     Rooted, Before, Same, Committed
<1>8. MediaInv'
  BY DEF RecoverFails, WriteJournal, Count, Stored, To, Leave, env, clock, proc, Outcomes,
     MediaInv, MediaOnWholeNetwork, TypeOK, Config, AllBefore, Rooted, Before, Same
<1>9. WatchInv'
  BY DEF RecoverFails, WriteJournal, Count, Stored, To, Leave, env, clock, proc, Outcomes,
     WatchInv, LinkInv, PhaseInv, OpInv
<1>. QED
  BY <1>1, <1>2, <1>3, <1>4, <1>5, <1>6, <1>7, <1>8, <1>9

\* The compare-and-commit of a Keep keeps the invariant.
LEMMA KeepStep ==
  ASSUME Inv, Keep
  PROVE  Inv'
<1>. USE EngineAssumption DEF Inv
<1>b. j.id \in Nat /\ j.base.rev \in Nat /\ j.cand \in Nets
  <2>1. j \in Journal /\ j.id # 0 /\ Current(j)
    BY DEF TypeOK, LinkInv, Same, Keep, JournalPoints, Points
  <2>. QED
    BY <2>1, JournalFields DEF Current, Commit
<1>1. TypeOK'
  <2>1. journal' \in Journal /\ j' \in Journal
    BY BlankJournal DEF TypeOK, Keep, To, Leave
  <2>2. saved' \in Commit /\ saved'.net \in Nets /\ last' \in [id : Nat, phase : Phases]
    BY JournalFields, <1>b DEF Keep, NextCommit, Count, Stored, TypeOK, Commit
  <2>3. /\ host' \in [Parts -> Nets \cup {"none"}]
        /\ media' \in {"running", "stopped"} /\ timers' \subseteq Timers
    BY JournalFields DEF Keep, NextCommit, TypeOK, Timers
  <2>4. op' \in Ops /\ pc' \in Points /\ step' \in 1 .. 4
    BY DEF Keep, NextCommit, Count, Stored, To, Leave, Outcomes, TypeOK, Ops, Points
  <2>5. due' \in BOOLEAN /\ fresh' \in BOOLEAN /\ booted' \in BOOLEAN
    BY DEF Keep, NextCommit, env, clock, proc, Outcomes, TypeOK
  <2>6. /\ excuse' \in {"none", "resumed", "accepted"}
        /\ jobs' \in Nat /\ faults' \in Nat /\ crashes' \in Nat
        /\ boots' \in Nat /\ writes' \in Nat
    BY DEF Keep, NextCommit, Count, Stored, env, clock, proc, Outcomes, TypeOK
  <2>. QED
    BY <2>1, <2>2, <2>3, <2>4, <2>5, <2>6 DEF TypeOK
<1>2. StepInv'
  BY DEF Keep, NextCommit, To, Leave, proc, Outcomes, StepInv, TypeOK
<1>3. OpInv'
  BY DEF Keep, NextCommit, To, Leave, env, clock, proc, Outcomes, OpInv, StepInv
<1>4. LinkInv'
  BY DEF Keep, NextCommit, Count, Stored, To, Leave, env, clock, proc, Outcomes, LinkInv,
     OpInv, Same, Undecided, Current, Committed, Blank, Points, JournalPoints, OpenPoints,
     DecidedPoints, TypeOK, Commit, Journal
<1>5. PhaseInv'
  BY DEF Keep, NextCommit, Count, Stored, To, Leave, env, clock, proc, Outcomes, PhaseInv,
     LinkInv, OpInv, Points, JournalPoints, UndoPoints, AcceptPoints, Same, Blank
<1>6. HostInv'
  BY DEF Keep, NextCommit, Count, Stored, To, Leave, env, clock, proc, Outcomes, HostInv,
     PhaseInv, LinkInv, OpInv, StepInv, TypeOK, Config, AllBefore, Rooted, Before, Same,
     Committed, Undecided, Current, Of, Parts, Points, JournalPoints, OpenPoints,
     DecidedPoints, Blank, UndoPoints
<1>7. NewAddressesGuarded'
  BY DEF Keep, NextCommit, env, clock, proc, Outcomes, NewAddressesGuarded
<1>8. MediaInv'
  BY DEF Keep, NextCommit, Count, Stored, To, Leave, env, clock, proc, Outcomes, MediaInv,
     MediaOnWholeNetwork, Current, Parts, Points, JournalPoints, OpenPoints, DecidedPoints,
     Blank, Of
<1>9. WatchInv'
  BY DEF Keep, NextCommit, Count, Stored, To, Leave, env, clock, proc, Outcomes, WatchInv,
     LinkInv, PhaseInv, OpInv
<1>. QED
  BY <1>1, <1>2, <1>3, <1>4, <1>5, <1>6, <1>7, <1>8, <1>9

\* Marking the journal of a kept change keeps the invariant.
LEMMA KeepMarkStep ==
  ASSUME Inv, KeepMark
  PROVE  Inv'
<1>. USE EngineAssumption DEF Inv
<1>1. TypeOK'
  BY DEF KeepMark, WriteJournal, Count, Stored, env, clock, Outcomes, TypeOK, Commit,
     Journal, Phases, Parts, Ops, Points, Timers
<1>2. StepInv'
  BY DEF KeepMark, WriteJournal, StepInv, TypeOK
<1>3. OpInv'
  BY DEF KeepMark, WriteJournal, env, clock, proc, Outcomes, OpInv, StepInv
<1>4. LinkInv'
  BY DEF KeepMark, WriteJournal, Count, Stored, To, Leave, env, clock, proc, Outcomes,
     LinkInv, OpInv, Same, Undecided, Current, Committed, NextCommit, Blank, Points,
     JournalPoints, OpenPoints, DecidedPoints, TypeOK, Commit, Journal
<1>5. PhaseInv'
  BY DEF KeepMark, WriteJournal, Count, Stored, proc, Outcomes, PhaseInv, LinkInv, OpInv,
     Points, JournalPoints, UndoPoints, AcceptPoints, Same, Blank
<1>6. HostInv'
  BY DEF KeepMark, WriteJournal, Count, Stored, To, Leave, env, clock, proc, Outcomes,
     HostInv, PhaseInv, LinkInv, OpInv, StepInv, TypeOK, Config, AllBefore, Rooted, Before,
     Same, Committed, Undecided, Current, NextCommit, Of, Parts, Points, JournalPoints,
     OpenPoints, DecidedPoints, Blank, UndoPoints
<1>7. NewAddressesGuarded'
  BY DEF KeepMark, WriteJournal, Count, Stored, To, Leave, env, clock, proc, Outcomes,
     NewAddressesGuarded, HostInv, LinkInv, OpInv, PhaseInv, StepInv, TypeOK, Config,
     Rooted, Before, Same, Committed, Undecided, Current, Parts, Points, JournalPoints,
     OpenPoints, DecidedPoints, Blank, AllBefore, Of
<1>8. MediaInv'
  BY DEF KeepMark, WriteJournal, Count, Stored, To, Leave, env, clock, proc, Outcomes,
     MediaInv, MediaOnWholeNetwork, Current, Parts, Points, JournalPoints, OpenPoints,
     DecidedPoints, Blank, Of
<1>9. WatchInv'
  BY DEF KeepMark, WriteJournal, Count, env, clock, proc, Outcomes, WatchInv, LinkInv,
     PhaseInv, OpInv
<1>. QED
  BY <1>1, <1>2, <1>3, <1>4, <1>5, <1>6, <1>7, <1>8, <1>9

\* Disarming the timers of a kept change keeps the invariant.
LEMMA FinishCleanStep ==
  ASSUME Inv, FinishClean
  PROVE  Inv'
<1>. USE EngineAssumption DEF Inv
<1>1. TypeOK'
  <2>1. journal' \in Journal /\ j' \in Journal
    BY BlankJournal DEF TypeOK, FinishClean, Cleanup, To, Leave
  <2>2. saved' \in Commit /\ saved'.net \in Nets /\ last' \in [id : Nat, phase : Phases]
    BY JournalFields DEF FinishClean, Cleanup, Count, Stored, TypeOK
  <2>3. /\ host' \in [Parts -> Nets \cup {"none"}]
        /\ media' \in {"running", "stopped"} /\ timers' \subseteq Timers
    BY JournalFields DEF FinishClean, Cleanup, TypeOK, Timers
  <2>4. op' \in Ops /\ pc' \in Points /\ step' \in 1 .. 4
    BY DEF FinishClean, Cleanup, Count, Stored, To, Leave, Outcomes, TypeOK, Ops, Points
  <2>5. due' \in BOOLEAN /\ fresh' \in BOOLEAN /\ booted' \in BOOLEAN
    BY DEF FinishClean, Cleanup, env, clock, proc, Outcomes, TypeOK
  <2>6. /\ excuse' \in {"none", "resumed", "accepted"}
        /\ jobs' \in Nat /\ faults' \in Nat /\ crashes' \in Nat
        /\ boots' \in Nat /\ writes' \in Nat
    BY DEF FinishClean, Cleanup, Count, Stored, env, clock, proc, Outcomes, TypeOK
  <2>. QED
    BY <2>1, <2>2, <2>3, <2>4, <2>5, <2>6 DEF TypeOK
<1>2. StepInv'
  BY DEF FinishClean, Cleanup, To, Leave, proc, Outcomes, StepInv, TypeOK
<1>3. OpInv'
  BY DEF FinishClean, Cleanup, To, Leave, env, clock, proc, Outcomes, OpInv, StepInv
<1>4. LinkInv'
  BY DEF FinishClean, Cleanup, Count, Stored, To, Leave, env, clock, proc, Outcomes,
     LinkInv, OpInv, Same, Undecided, Current, Committed, NextCommit, Blank, Points,
     JournalPoints, OpenPoints, DecidedPoints, TypeOK, Commit, Journal
<1>5. PhaseInv'
  BY DEF FinishClean, Cleanup, Count, Stored, To, Leave, env, clock, proc, Outcomes,
     PhaseInv, LinkInv, OpInv, Points, JournalPoints, UndoPoints, AcceptPoints, Same, Blank
<1>6. HostInv'
  BY DEF FinishClean, Cleanup, Count, Stored, To, Leave, env, clock, proc, Outcomes,
     HostInv, PhaseInv, LinkInv, OpInv, StepInv, TypeOK, Config, AllBefore, Rooted, Before,
     Same, Committed, Undecided, Current, NextCommit, Of, Parts, Points, JournalPoints,
     OpenPoints, DecidedPoints, Blank, UndoPoints
<1>7. NewAddressesGuarded'
  BY DEF FinishClean, Cleanup, env, clock, proc, Outcomes, NewAddressesGuarded
<1>8. MediaInv'
  BY DEF FinishClean, Cleanup, Count, Stored, To, Leave, env, clock, proc, Outcomes,
     MediaInv, MediaOnWholeNetwork, Current, Parts, Points, JournalPoints, OpenPoints,
     DecidedPoints, Blank, Of
<1>9. WatchInv'
  BY DEF FinishClean, Cleanup, Count, Stored, To, Leave, env, clock, proc, Outcomes,
     WatchInv, LinkInv, ApplyPoints, UndoPoints, Same, Blank, OpenPoints
<1>. QED
  BY <1>1, <1>2, <1>3, <1>4, <1>5, <1>6, <1>7, <1>8, <1>9

\* Recording the outcome of a kept change keeps the invariant.
LEMMA FinishLastStep ==
  ASSUME Inv, FinishLast
  PROVE  Inv'
<1>. USE EngineAssumption DEF Inv
<1>1. TypeOK'
  <2>1. journal' \in Journal /\ j' \in Journal
    BY BlankJournal DEF TypeOK, FinishLast, Cleanup, To, Leave
  <2>2. saved' \in Commit /\ saved'.net \in Nets /\ last' \in [id : Nat, phase : Phases]
    BY JournalFields DEF FinishLast, Cleanup, Count, Stored, TypeOK, Phases
  <2>3. /\ host' \in [Parts -> Nets \cup {"none"}]
        /\ media' \in {"running", "stopped"} /\ timers' \subseteq Timers
    BY JournalFields DEF FinishLast, Cleanup, TypeOK, Timers
  <2>4. op' \in Ops /\ pc' \in Points /\ step' \in 1 .. 4
    BY DEF FinishLast, Cleanup, Count, Stored, To, Leave, Outcomes, TypeOK, Ops, Points
  <2>5. due' \in BOOLEAN /\ fresh' \in BOOLEAN /\ booted' \in BOOLEAN
    BY DEF FinishLast, Cleanup, env, clock, proc, Outcomes, TypeOK
  <2>6. /\ excuse' \in {"none", "resumed", "accepted"}
        /\ jobs' \in Nat /\ faults' \in Nat /\ crashes' \in Nat
        /\ boots' \in Nat /\ writes' \in Nat
    BY DEF FinishLast, Cleanup, Count, Stored, env, clock, proc, Outcomes, TypeOK
  <2>. QED
    BY <2>1, <2>2, <2>3, <2>4, <2>5, <2>6 DEF TypeOK
<1>2. StepInv'
  BY DEF FinishLast, Cleanup, To, Leave, proc, Outcomes, StepInv, TypeOK
<1>3. OpInv'
  BY DEF FinishLast, Cleanup, To, Leave, env, clock, proc, Outcomes, OpInv, StepInv
<1>4. LinkInv'
  BY DEF FinishLast, Cleanup, Count, Stored, To, Leave, env, clock, proc, Outcomes, LinkInv,
     OpInv, Same, Undecided, Current, Committed, NextCommit, Blank, Points, JournalPoints,
     OpenPoints, DecidedPoints, TypeOK, Commit, Journal
<1>5. PhaseInv'
  BY DEF FinishLast, Cleanup, Count, Stored, To, Leave, env, clock, proc, Outcomes,
     PhaseInv, LinkInv, OpInv, Points, JournalPoints, UndoPoints, AcceptPoints, Same, Blank
<1>6. HostInv'
  BY DEF FinishLast, Cleanup, Count, Stored, To, Leave, env, clock, proc, Outcomes, HostInv,
     PhaseInv, LinkInv, OpInv, StepInv, TypeOK, Config, AllBefore, Rooted, Before, Same,
     Committed, Undecided, Current, NextCommit, Of, Parts, Points, JournalPoints,
     OpenPoints, DecidedPoints, Blank, UndoPoints
<1>7. NewAddressesGuarded'
  BY DEF FinishLast, Cleanup, env, clock, proc, Outcomes, NewAddressesGuarded
<1>8. MediaInv'
  BY DEF FinishLast, Cleanup, Count, Stored, To, Leave, env, clock, proc, Outcomes,
     MediaInv, MediaOnWholeNetwork, Current, Parts, Points, JournalPoints, OpenPoints,
     DecidedPoints, Blank, Of
<1>9. WatchInv'
  BY DEF FinishLast, Cleanup, Count, Stored, To, Leave, env, clock, proc, Outcomes,
     WatchInv, LinkInv, ApplyPoints, UndoPoints, Same, Blank, OpenPoints
<1>. QED
  BY <1>1, <1>2, <1>3, <1>4, <1>5, <1>6, <1>7, <1>8, <1>9

\* Removing the journal of a kept change keeps the invariant.
LEMMA FinishRemoveStep ==
  ASSUME Inv, FinishRemove
  PROVE  Inv'
<1>. USE EngineAssumption DEF Inv
<1>1. TypeOK'
  <2>1. journal' \in Journal /\ j' \in Journal
    BY BlankJournal DEF TypeOK, FinishRemove, WriteJournal, Done, Stored, Leave
  <2>2. saved' \in Commit /\ saved'.net \in Nets /\ last' \in [id : Nat, phase : Phases]
    BY JournalFields DEF FinishRemove, WriteJournal, Outcomes, TypeOK
  <2>3. /\ host' \in [Parts -> Nets \cup {"none"}]
        /\ media' \in {"running", "stopped"} /\ timers' \subseteq Timers
    BY JournalFields DEF FinishRemove, WriteJournal, Done, Count, Stored, To, Leave, env,
       clock, proc, Outcomes, TypeOK, Timers
  <2>4. op' \in Ops /\ pc' \in Points /\ step' \in 1 .. 4
    BY DEF FinishRemove, WriteJournal, Done, Leave, env, clock, Ops, Points
  <2>5. due' \in BOOLEAN /\ fresh' \in BOOLEAN /\ booted' \in BOOLEAN
    BY DEF FinishRemove, WriteJournal, clock, proc, Outcomes, TypeOK
  <2>6. /\ excuse' \in {"none", "resumed", "accepted"}
        /\ jobs' \in Nat /\ faults' \in Nat /\ crashes' \in Nat
        /\ boots' \in Nat /\ writes' \in Nat
    BY DEF FinishRemove, WriteJournal, Done, Count, Leave, env, clock, proc, Outcomes,
       TypeOK
  <2>. QED
    BY <2>1, <2>2, <2>3, <2>4, <2>5, <2>6 DEF TypeOK
<1>2. StepInv'
  BY DEF FinishRemove, WriteJournal, Done, Leave, env, clock, proc, Outcomes, StepInv,
     TypeOK
<1>3. OpInv'
  BY DEF FinishRemove, WriteJournal, Done, Leave, env, clock, proc, Outcomes, OpInv, StepInv
<1>4. LinkInv'
  BY DEF FinishRemove, WriteJournal, Done, Count, Stored, To, Leave, env, clock, proc,
     Outcomes, LinkInv, OpInv, Same, Undecided, Current, Committed, NextCommit, Blank,
     Points, JournalPoints, OpenPoints, DecidedPoints, TypeOK, Commit, Journal
<1>5. PhaseInv'
  BY DEF FinishRemove, WriteJournal, Done, Count, Stored, To, Leave, env, clock, proc,
     Outcomes, PhaseInv, UndoPoints, AcceptPoints, Same, Blank
<1>6. HostInv'
  BY DEF FinishRemove, WriteJournal, Done, Count, Stored, To, Leave, env, clock, proc,
     Outcomes, HostInv, PhaseInv, LinkInv, OpInv, StepInv, TypeOK, Config, AllBefore,
     Rooted, Before, Same, Committed, Undecided, Current, NextCommit, Of, Parts, Points,
     JournalPoints, OpenPoints, DecidedPoints, Blank, UndoPoints
<1>7. NewAddressesGuarded'
  BY DEF FinishRemove, WriteJournal, Done, Count, Stored, To, Leave, env, clock, proc,
     Outcomes, NewAddressesGuarded, Current, Parts, Points, JournalPoints, OpenPoints,
     DecidedPoints, Blank, AllBefore, Of
<1>8. MediaInv'
  <2>1. journal.id # 0 /\ Committed(journal) /\ Config(journal.cand)
          /\ (~booted => media = "stopped")
        /\ journal.cand \in Nets
    BY CommittedMeans DEF FinishRemove, LinkInv, HostInv, Same, TypeOK, Current, Points,
       JournalPoints, DecidedPoints
  <2>2. media = "running" => Of(journal.cand)
    BY <2>1 DEF Config, Of, Parts
  <2>3. /\ host' = host /\ media' = media /\ j' = Blank /\ pc' \in {"idle", "b_guard"}
        /\ \/ journal' = Blank
           \/ journal' = journal /\ excuse' = excuse
    BY DEF FinishRemove, WriteJournal, Done, Leave, Stored
  <2>4. MediaOnWholeNetwork'
    BY <2>1, <2>2, <2>3 DEF MediaOnWholeNetwork, Of
  <2>. QED
    BY <2>3, <2>4, BlankJournal DEF MediaInv
<1>9. WatchInv'
  BY DEF FinishRemove, WriteJournal, Done, Count, Stored, To, Leave, env, clock, proc,
     Outcomes, WatchInv, JournalPoints, ApplyPoints, UndoPoints, Same, Blank, OpenPoints
<1>. QED
  BY <1>1, <1>2, <1>3, <1>4, <1>5, <1>6, <1>7, <1>8, <1>9

\* Stopping the media to accept the network as it is keeps the invariant.
LEMMA AcceptStopStep ==
  ASSUME Inv, AcceptStop
  PROVE  Inv'
<1>. USE EngineAssumption DEF Inv
<1>1. TypeOK'
  BY DEF AcceptStop, SetMedia, Count, Stored, To, env, clock, Outcomes, TypeOK, Parts, Ops,
     Points, Timers
<1>2. StepInv'
  BY DEF AcceptStop, SetMedia, To, Leave, proc, Outcomes, StepInv, TypeOK
<1>3. OpInv'
  BY DEF AcceptStop, SetMedia, To, Leave, env, clock, proc, Outcomes, OpInv, StepInv
<1>4. LinkInv'
  BY DEF AcceptStop, SetMedia, Count, Stored, To, Leave, env, clock, proc, Outcomes,
     LinkInv, OpInv, Same, Undecided, Current, Committed, NextCommit, Blank, Points,
     JournalPoints, OpenPoints, DecidedPoints, TypeOK, Commit, Journal
<1>5. PhaseInv'
  BY DEF AcceptStop, SetMedia, Count, Stored, To, Leave, env, clock, proc, Outcomes,
     PhaseInv, LinkInv, OpInv, Points, JournalPoints, UndoPoints, AcceptPoints, Same, Blank
<1>6. HostInv'
  BY DEF AcceptStop, SetMedia, Count, Stored, To, Leave, env, clock, proc, Outcomes,
     HostInv, PhaseInv, Config, AllBefore, Rooted, Before, Same, Committed
<1>7. NewAddressesGuarded'
  BY DEF AcceptStop, SetMedia, env, clock, proc, Outcomes, NewAddressesGuarded
<1>8. MediaInv'
  BY DEF AcceptStop, SetMedia, Count, Stored, To, Leave, env, clock, proc, Outcomes,
     MediaInv, MediaOnWholeNetwork, Current, Parts, Points, JournalPoints, OpenPoints,
     DecidedPoints, Blank, Of
<1>9. WatchInv'
  BY DEF AcceptStop, SetMedia, Count, Stored, To, Leave, env, clock, proc, Outcomes,
     WatchInv, LinkInv, ApplyPoints, UndoPoints, Same, Blank, OpenPoints
<1>. QED
  BY <1>1, <1>2, <1>3, <1>4, <1>5, <1>6, <1>7, <1>8, <1>9

\* Rewriting a part to accept the network as it is keeps the invariant.
LEMMA AcceptPartStep ==
  ASSUME Inv, AcceptPart
  PROVE  Inv'
<1>. USE EngineAssumption DEF Inv
<1>a. /\ excuse = "accepted" /\ excuse' = excuse /\ journal' = journal /\ j' = j
           /\ media' = media
      /\ saved' = saved /\ booted' = booted /\ fresh' = fresh
      /\ pc' \in {"x_part", "x_start"}
      /\ journal.id # 0 /\ journal.phase = "failed" /\ ~Committed(journal)
  BY CommittedMeans DEF TypeOK, AcceptPart, NextPart, AcceptOrder, LinkInv, PhaseInv,
     AcceptPoints, Same, Current, Undecided, Points, JournalPoints, OpenPoints,
     DecidedPoints, clock, Committed
<1>1. TypeOK'
  BY DEF AcceptPart, SetPart, NextPart, AcceptOrder, Count, Stored, To, Leave, env, clock,
     proc, Outcomes, TypeOK, Commit, Journal, Phases, Parts, Ops, Points, Timers, Blank,
     StepInv, Before
<1>2. StepInv'
  BY DEF AcceptPart, SetPart, NextPart, AcceptOrder, Outcomes, StepInv, TypeOK
<1>3. OpInv'
  BY DEF AcceptPart, SetPart, NextPart, clock, proc, Outcomes, OpInv, StepInv
<1>4. LinkInv'
  BY DEF AcceptPart, SetPart, NextPart, AcceptOrder, Count, Stored, To, Leave, env, clock,
     proc, Outcomes, LinkInv, OpInv, PhaseInv, Same, Undecided, Current, Committed,
     NextCommit, Blank, Points, JournalPoints, OpenPoints, DecidedPoints, TypeOK, Commit,
     Journal
<1>5. PhaseInv'
  BY DEF AcceptPart, SetPart, NextPart, AcceptOrder, PhaseInv, LinkInv, OpInv, Points,
     JournalPoints, UndoPoints, AcceptPoints, Same, Blank
<1>6. HostInv'
  BY <1>a DEF HostInv, Rooted, Committed, NextCommit
<1>7. NewAddressesGuarded'
  BY <1>a DEF NewAddressesGuarded
<1>8. MediaInv'
  BY <1>a DEF MediaInv, MediaOnWholeNetwork
<1>9. WatchInv'
  BY DEF AcceptPart, SetPart, NextPart, AcceptOrder, env, clock, proc, Outcomes, WatchInv,
     LinkInv, PhaseInv, OpInv, Points, JournalPoints, ApplyPoints, UndoPoints, Same, Blank,
     OpenPoints
<1>. QED
  BY <1>1, <1>2, <1>3, <1>4, <1>5, <1>6, <1>7, <1>8, <1>9

\* Starting the media on the accepted network keeps the invariant.
LEMMA AcceptStartStep ==
  ASSUME Inv, AcceptStart
  PROVE  Inv'
<1>. USE EngineAssumption DEF Inv
<1>1. TypeOK'
  BY DEF AcceptStart, SetMedia, Count, Stored, To, env, clock, Outcomes, TypeOK, Parts, Ops,
     Points, Timers
<1>2. StepInv'
  BY DEF AcceptStart, SetMedia, To, Leave, proc, Outcomes, StepInv, TypeOK
<1>3. OpInv'
  BY DEF AcceptStart, SetMedia, To, Leave, env, clock, proc, Outcomes, OpInv, StepInv
<1>4. LinkInv'
  BY DEF AcceptStart, SetMedia, Count, Stored, To, Leave, env, clock, proc, Outcomes,
     LinkInv, OpInv, Same, Undecided, Current, Committed, NextCommit, Blank, Points,
     JournalPoints, OpenPoints, DecidedPoints, TypeOK, Commit, Journal
<1>5. PhaseInv'
  BY DEF AcceptStart, SetMedia, Count, Stored, To, Leave, env, clock, proc, Outcomes,
     PhaseInv, LinkInv, OpInv, Points, JournalPoints, UndoPoints, AcceptPoints, Same, Blank
<1>6. HostInv'
  BY DEF AcceptStart, SetMedia, Count, Stored, To, Leave, env, clock, proc, Outcomes,
     HostInv, PhaseInv, LinkInv, OpInv, StepInv, TypeOK, Config, AllBefore, Rooted, Before,
     Same, Committed, Undecided, Current, NextCommit, Of, Parts, Points, JournalPoints,
     OpenPoints, DecidedPoints, Blank, UndoPoints
<1>7. NewAddressesGuarded'
  BY DEF AcceptStart, SetMedia, env, clock, proc, Outcomes, NewAddressesGuarded
<1>8. MediaInv'
  <2>1. excuse = "accepted" /\ excuse' = excuse /\ j' = j /\ journal' = journal
          /\ pc' = "u_last"
    BY DEF PhaseInv, AcceptPoints, AcceptStart, To
  <2>. QED
    BY <2>1 DEF MediaInv, MediaOnWholeNetwork
<1>9. WatchInv'
  BY DEF AcceptStart, SetMedia, Count, Stored, To, Leave, env, clock, proc, Outcomes,
     WatchInv, LinkInv, ApplyPoints, UndoPoints, Same, Blank, OpenPoints
<1>. QED
  BY <1>1, <1>2, <1>3, <1>4, <1>5, <1>6, <1>7, <1>8, <1>9

\* Applying the decision's guards at boot keeps the invariant.
LEMMA BootGuardStep ==
  ASSUME Inv, BootGuard
  PROVE  Inv'
<1>. USE EngineAssumption DEF Inv
<1>1. TypeOK'
  <2>1. journal' \in Journal /\ j' \in Journal
    BY BlankJournal DEF TypeOK, BootGuard, Leave, env
  <2>2. saved' \in Commit /\ saved'.net \in Nets /\ last' \in [id : Nat, phase : Phases]
    BY JournalFields DEF BootGuard, SetPart, TypeOK
  <2>3. /\ host' \in [Parts -> Nets \cup {"none"}]
        /\ media' \in {"running", "stopped"} /\ timers' \subseteq Timers
    BY JournalFields DEF BootGuard, SetPart, Count, Stored, To, TypeOK, Timers, Parts
  <2>4. op' \in Ops /\ pc' \in Points /\ step' \in 1 .. 4
    BY DEF BootGuard, SetPart, Count, Stored, To, Leave, Outcomes, TypeOK, Ops, Points
  <2>5. due' \in BOOLEAN /\ fresh' \in BOOLEAN /\ booted' \in BOOLEAN
    BY Zenon DEF BootGuard, SetPart, TypeOK
  <2>6. /\ excuse' \in {"none", "resumed", "accepted"}
        /\ jobs' \in Nat /\ faults' \in Nat /\ crashes' \in Nat
        /\ boots' \in Nat /\ writes' \in Nat
    BY DEF BootGuard, SetPart, Count, Stored, env, clock, proc, Outcomes, TypeOK
  <2>. QED
    BY <2>1, <2>2, <2>3, <2>4, <2>5, <2>6 DEF TypeOK
<1>2. StepInv'
  BY DEF BootGuard, SetPart, To, Leave, proc, Outcomes, StepInv, TypeOK
<1>3. OpInv'
  BY DEF BootGuard, SetPart, To, Leave, proc, Outcomes, OpInv, StepInv
<1>4. LinkInv'
  BY DEF BootGuard, SetPart, Count, Stored, To, Leave, env, clock, proc, Outcomes, LinkInv,
     OpInv, Same, Undecided, Current, Committed, NextCommit, Blank, Points, JournalPoints,
     OpenPoints, DecidedPoints, TypeOK, Commit, Journal
<1>5. PhaseInv'
  BY DEF BootGuard, SetPart, Count, Stored, To, Leave, env, clock, proc, Outcomes, PhaseInv,
     LinkInv, OpInv, Points, JournalPoints, UndoPoints, AcceptPoints, Same, Blank
<1>6. HostInv'
  BY DEF BootGuard, SetPart, Count, Stored, To, Leave, env, clock, proc, Outcomes, HostInv,
     PhaseInv, LinkInv, OpInv, StepInv, TypeOK, Config, AllBefore, Rooted, Before, Same,
     Committed, Undecided, Current, NextCommit, Of, Parts, Points, JournalPoints,
     OpenPoints, DecidedPoints, Blank, UndoPoints
<1>7. NewAddressesGuarded'
  BY DEF BootGuard, SetPart, Count, Stored, proc, Outcomes, NewAddressesGuarded, HostInv,
     LinkInv, OpInv, PhaseInv, StepInv, TypeOK, Config, Rooted, Before, Same, Committed
<1>8. MediaInv'
  BY DEF BootGuard, SetPart, Count, Stored, To, Leave, env, clock, proc, Outcomes, MediaInv,
     MediaOnWholeNetwork, HostInv, LinkInv, PhaseInv, OpInv, TypeOK, Config, Current, Parts,
     Points, JournalPoints, OpenPoints, DecidedPoints, Blank, Of
<1>9. WatchInv'
  BY DEF BootGuard, SetPart, Count, Stored, To, Leave, Outcomes, WatchInv, LinkInv,
     PhaseInv, OpInv
<1>. QED
  BY <1>1, <1>2, <1>3, <1>4, <1>5, <1>6, <1>7, <1>8, <1>9

\* Accepting a candidate keeps the invariant.
LEMMA StageStep ==
  ASSUME NEW n \in Nets, Inv, Stage(n)
  PROVE  Inv'
<1>. USE EngineAssumption DEF Inv
<1>1. TypeOK'
  BY DEF Stage, clock, TypeOK, Commit, Journal, Phases, Parts, Ops, Points, Timers
<1>2. StepInv'
  BY DEF Stage, Count, Outcomes, StepInv
<1>3. OpInv'
  BY DEF Stage, Count, clock, proc, Outcomes, OpInv, StepInv
<1>4. LinkInv'
  BY DEF Stage, Count, Stored, To, Outcomes, LinkInv, OpInv, Same, Undecided, Current,
     Committed, NextCommit, Blank, Points, JournalPoints, OpenPoints, DecidedPoints, TypeOK,
     Commit, Journal
<1>5. PhaseInv'
  BY DEF Stage, Count, Stored, PhaseInv, LinkInv, OpInv, Points, JournalPoints, UndoPoints,
     AcceptPoints, Same, Blank
<1>6. HostInv'
  BY DEF Stage, Count, Stored, To, Leave, env, clock, proc, Outcomes, HostInv, PhaseInv,
     LinkInv, OpInv, StepInv, TypeOK, Config, AllBefore, Rooted, Of, Parts, Points,
     JournalPoints, OpenPoints, DecidedPoints, Blank, UndoPoints
<1>7. NewAddressesGuarded'
  BY DEF Stage, Count, Outcomes, NewAddressesGuarded, HostInv
<1>8. MediaInv'
  BY DEF Stage, Count, Stored, To, Outcomes, MediaInv, MediaOnWholeNetwork, Undecided,
     OpenPoints, DecidedPoints, Blank, Of
<1>9. WatchInv'
  BY DEF Stage, Count, Stored, To, Outcomes, WatchInv, LinkInv, PhaseInv, OpInv, Points,
     JournalPoints, ApplyPoints, UndoPoints, Same, Blank, OpenPoints
<1>. QED
  BY <1>1, <1>2, <1>3, <1>4, <1>5, <1>6, <1>7, <1>8, <1>9

\* The start of the apply job keeps the invariant.
LEMMA ApplyJobStep ==
  ASSUME Inv, ApplyJob
  PROVE  Inv'
<1>. USE EngineAssumption DEF Inv
<1>a. UNCHANGED proc \/ (/\ Kin(j', journal) /\ j'.phase = journal.phase
                              /\ j'.media = journal.media /\ j' \in Journal /\ step' = 1
      /\ pc' \in {"c_clean", "r_mark", "u_last", "a_mark"})
  <2>1. journal \in Journal /\ journal.outcome \in Phases
    BY JournalFields DEF TypeOK
  <2>2. ASSUME NEW out \in Phases, NEW o, Recover(o, journal, out)
        PROVE  /\ Kin(j', journal) /\ j'.phase = journal.phase
                    /\ j'.media = journal.media /\ j' \in Journal /\ step' = 1
           /\ pc' \in {"c_clean", "r_mark", "u_last"}
    BY <2>1, <2>2, RecoverEffect
  <2>3. ASSUME NEW o, NEW l \in {"c_clean", "r_mark", "u_last", "a_mark"}, Enter(o, l)
        PROVE  /\ Kin(j', journal) /\ j'.phase = journal.phase
                    /\ j'.media = journal.media /\ j' \in Journal /\ step' = 1
           /\ pc' \in {"c_clean", "r_mark", "u_last", "a_mark"}
    BY <2>1, <2>3 DEF Enter, Kin
  <2>4. ASSUME pc' = "u_last", step' = 1, j' = [journal EXCEPT !.outcome = "failed"]
        PROVE  /\ Kin(j', journal) /\ j'.phase = journal.phase
                    /\ j'.media = journal.media /\ j' \in Journal /\ step' = 1
           /\ pc' \in {"c_clean", "r_mark", "u_last", "a_mark"}
    BY <2>1, <2>4, Outcome DEF Phases
  <2>. QED
    BY <2>1, <2>2, <2>3, <2>4 DEF ApplyJob, Phases
<1>1. TypeOK'
  <2>1. journal' \in Journal /\ j' \in Journal
    BY <1>a, BlankJournal DEF TypeOK, ApplyJob, clock, proc
  <2>2. saved' \in Commit /\ saved'.net \in Nets /\ last' \in [id : Nat, phase : Phases]
    BY JournalFields DEF ApplyJob, Taken, Outcomes, TypeOK
  <2>3. /\ host' \in [Parts -> Nets \cup {"none"}]
        /\ media' \in {"running", "stopped"} /\ timers' \subseteq Timers
    BY JournalFields DEF ApplyJob, Taken, Outcomes, TypeOK, Timers
  <2>4. op' \in Ops /\ pc' \in Points /\ step' \in 1 .. 4
    BY DEF ApplyJob, Taken, Recover, Enter, Count, proc, Outcomes, TypeOK, Ops, Points
  <2>5. due' \in BOOLEAN /\ fresh' \in BOOLEAN /\ booted' \in BOOLEAN
    BY DEF ApplyJob, Taken, Recover, clock, proc, Outcomes, TypeOK
  <2>6. /\ excuse' \in {"none", "resumed", "accepted"}
        /\ jobs' \in Nat /\ faults' \in Nat /\ crashes' \in Nat
        /\ boots' \in Nat /\ writes' \in Nat
    BY DEF ApplyJob, Taken, Recover, To, Leave, env, TypeOK
  <2>. QED
    BY <2>1, <2>2, <2>3, <2>4, <2>5, <2>6 DEF TypeOK
<1>2. StepInv'
  BY DEF ApplyJob, Taken, Recover, Enter, Count, proc, Outcomes, StepInv, TypeOK
<1>3. OpInv'
  BY DEF ApplyJob, Taken, Recover, Enter, Count, Stored, clock, proc, Outcomes, OpInv,
     StepInv
<1>4. LinkInv'
  BY DEF ApplyJob, Taken, Recover, Enter, Count, Stored, To, Leave, env, clock, proc,
     Outcomes, LinkInv, OpInv, Same, Undecided, Current, Committed, NextCommit, Blank,
     Points, JournalPoints, OpenPoints, DecidedPoints, TypeOK, Commit, Journal
<1>5. PhaseInv'
  BY DEF ApplyJob, Taken, Recover, Enter, env, clock, proc, Outcomes, PhaseInv, LinkInv,
     OpInv, Points, JournalPoints, UndoPoints, AcceptPoints, Same, Blank
<1>6. HostInv'
  BY <1>a DEF ApplyJob, Taken, Count, Stored, To, Leave, env, clock, proc, Outcomes,
     HostInv, PhaseInv, LinkInv, OpInv, StepInv, TypeOK, Config, AllBefore, Rooted, Before,
     Same, Committed, Undecided, Current, NextCommit, Of, Parts, Points, JournalPoints,
     OpenPoints, DecidedPoints, Blank, UndoPoints, Kin
<1>7. NewAddressesGuarded'
  BY DEF ApplyJob, Taken, Recover, Enter, env, clock, proc, Outcomes, NewAddressesGuarded,
     HostInv, LinkInv, OpInv, PhaseInv, StepInv, TypeOK, Config, Rooted, Before, Same,
     Committed
<1>8. MediaInv'
  BY <1>a DEF ApplyJob, Taken, Count, Stored, To, Leave, env, clock, proc, Outcomes,
     MediaInv, MediaOnWholeNetwork, Current, Parts, Points, JournalPoints, OpenPoints,
     DecidedPoints, Blank, Of, Kin
<1>9. WatchInv'
  BY DEF ApplyJob, Taken, Recover, Enter, Count, Stored, clock, proc, Outcomes, WatchInv,
     LinkInv, PhaseInv, OpInv
<1>. QED
  BY <1>1, <1>2, <1>3, <1>4, <1>5, <1>6, <1>7, <1>8, <1>9

\* An apply job that gives up waiting for a lock keeps the invariant.
LEMMA ApplyMissedStep ==
  ASSUME Inv, ApplyMissed
  PROVE  Inv'
<1>. USE EngineAssumption DEF Inv
<1>1. TypeOK'
  BY DEF ApplyMissed, env, clock, proc, TypeOK, Commit
<1>2. StepInv'
  BY DEF ApplyMissed, Count, clock, proc, Outcomes, StepInv, TypeOK
<1>3. OpInv'
  BY DEF ApplyMissed, Count, clock, proc, Outcomes, OpInv, StepInv
<1>4. LinkInv'
  BY DEF ApplyMissed, Count, Stored, To, Leave, env, clock, proc, Outcomes, LinkInv, OpInv,
     Same, Undecided, Current, Committed, NextCommit
<1>5. PhaseInv'
  BY DEF ApplyMissed, Count, clock, proc, Outcomes, PhaseInv, LinkInv, OpInv
<1>6. HostInv'
  BY DEF ApplyMissed, Count, Stored, To, Leave, env, clock, proc, Outcomes, HostInv,
     PhaseInv, LinkInv, OpInv, StepInv, TypeOK, Config, AllBefore, Rooted, Before, Same,
     Committed, Undecided, Current, NextCommit, Of, Parts, Points, JournalPoints,
     OpenPoints, DecidedPoints, Blank, UndoPoints
<1>7. NewAddressesGuarded'
  BY DEF ApplyMissed, Count, clock, proc, Outcomes, NewAddressesGuarded, HostInv
<1>8. MediaInv'
  BY DEF ApplyMissed, Count, Stored, To, Leave, env, clock, proc, Outcomes, MediaInv,
     MediaOnWholeNetwork, Undecided, OpenPoints, DecidedPoints, Blank, Of
<1>9. WatchInv'
  BY DEF ApplyMissed, Count, Stored, clock, proc, Outcomes, WatchInv, LinkInv, PhaseInv,
     OpInv, Points
<1>. QED
  BY <1>1, <1>2, <1>3, <1>4, <1>5, <1>6, <1>7, <1>8, <1>9

\* The start of a recovery by a timer keeps the invariant.
LEMMA RecoverJobStep ==
  ASSUME Inv, RecoverJob
  PROVE  Inv'
<1>. USE EngineAssumption DEF Inv
<1>a. UNCHANGED proc \/ (/\ Kin(j', journal) /\ j'.phase = journal.phase
                              /\ j'.media = journal.media /\ j' \in Journal /\ step' = 1
      /\ pc' \in {"c_clean", "r_mark", "u_last"})
  <2>1. journal \in Journal /\ journal.outcome \in Phases
    BY JournalFields DEF TypeOK
  <2>2. ASSUME NEW out \in Phases, NEW o, Recover(o, journal, out)
        PROVE  /\ Kin(j', journal) /\ j'.phase = journal.phase
                    /\ j'.media = journal.media /\ j' \in Journal /\ step' = 1
           /\ pc' \in {"c_clean", "r_mark", "u_last"}
    BY <2>1, <2>2, RecoverEffect
  <2>3. ASSUME NEW o, NEW l \in {"c_clean", "r_mark", "u_last"}, Enter(o, l)
        PROVE  /\ Kin(j', journal) /\ j'.phase = journal.phase
                    /\ j'.media = journal.media /\ j' \in Journal /\ step' = 1
           /\ pc' \in {"c_clean", "r_mark", "u_last"}
    BY <2>1, <2>3 DEF Enter, Kin
  <2>. QED
    BY <2>1, <2>2, <2>3 DEF RecoverJob, Phases
<1>1. TypeOK'
  <2>1. journal' \in Journal /\ j' \in Journal
    BY <1>a, BlankJournal DEF TypeOK, RecoverJob, clock, proc
  <2>2. saved' \in Commit /\ saved'.net \in Nets /\ last' \in [id : Nat, phase : Phases]
    BY JournalFields DEF RecoverJob, Taken, Outcomes, TypeOK
  <2>3. /\ host' \in [Parts -> Nets \cup {"none"}]
        /\ media' \in {"running", "stopped"} /\ timers' \subseteq Timers
    BY JournalFields DEF RecoverJob, Taken, Recover, Enter, Outcomes, TypeOK, Timers
  <2>4. op' \in Ops /\ pc' \in Points /\ step' \in 1 .. 4
    BY DEF RecoverJob, Taken, Recover, Enter, Count, proc, Outcomes, TypeOK, Ops, Points
  <2>5. due' \in BOOLEAN /\ fresh' \in BOOLEAN /\ booted' \in BOOLEAN
    BY DEF RecoverJob, Taken, Recover, clock, proc, Outcomes, TypeOK
  <2>6. /\ excuse' \in {"none", "resumed", "accepted"}
        /\ jobs' \in Nat /\ faults' \in Nat /\ crashes' \in Nat
        /\ boots' \in Nat /\ writes' \in Nat
    BY DEF RecoverJob, Taken, Recover, To, Leave, env, TypeOK
  <2>. QED
    BY <2>1, <2>2, <2>3, <2>4, <2>5, <2>6 DEF TypeOK
<1>2. StepInv'
  BY DEF RecoverJob, Taken, Recover, Enter, Count, proc, Outcomes, StepInv, TypeOK
<1>3. OpInv'
  BY DEF RecoverJob, Taken, Recover, Enter, Count, Stored, clock, proc, Outcomes, OpInv,
     StepInv
<1>4. LinkInv'
  BY DEF RecoverJob, Taken, Recover, Enter, Count, Stored, To, Leave, env, clock, proc,
     Outcomes, LinkInv, OpInv, Same, Undecided, Current, Committed, NextCommit, Blank,
     Points, JournalPoints, OpenPoints, DecidedPoints, TypeOK, Commit, Journal
<1>5. PhaseInv'
  BY DEF RecoverJob, Taken, Recover, Enter, env, clock, proc, Outcomes, PhaseInv, LinkInv,
     OpInv, Points, JournalPoints, UndoPoints, AcceptPoints, Same, Blank
<1>6. HostInv'
  BY <1>a DEF RecoverJob, Taken, Count, Stored, To, Leave, env, clock, proc, Outcomes,
     HostInv, PhaseInv, LinkInv, OpInv, StepInv, TypeOK, Config, AllBefore, Rooted, Before,
     Same, Committed, Undecided, Current, NextCommit, Of, Parts, Points, JournalPoints,
     OpenPoints, DecidedPoints, Blank, UndoPoints, Kin
<1>7. NewAddressesGuarded'
  BY DEF RecoverJob, Taken, Recover, Enter, env, clock, proc, Outcomes, NewAddressesGuarded,
     HostInv, LinkInv, OpInv, PhaseInv, StepInv, TypeOK, Config, Rooted, Before, Same,
     Committed
<1>8. MediaInv'
  BY <1>a DEF RecoverJob, Taken, Count, Stored, To, Leave, env, clock, proc, Outcomes,
     MediaInv, MediaOnWholeNetwork, Current, Parts, Points, JournalPoints, OpenPoints,
     DecidedPoints, Blank, Of, Kin
<1>9. WatchInv'
  BY DEF RecoverJob, Taken, Recover, Enter, env, clock, proc, Outcomes, WatchInv, LinkInv,
     PhaseInv, OpInv, Points, JournalPoints, ApplyPoints, UndoPoints, Same, Blank,
     OpenPoints
<1>. QED
  BY <1>1, <1>2, <1>3, <1>4, <1>5, <1>6, <1>7, <1>8, <1>9

\* The start of a Keep keeps the invariant.
LEMMA ConfirmStep ==
  ASSUME Inv, Confirm
  PROVE  Inv'
<1>. USE EngineAssumption DEF Inv
<1>a. /\ Kin(j', journal) /\ j'.phase = journal.phase /\ j'.media = journal.media
           /\ j' \in Journal /\ step' = 1
      /\ pc' \in {"c_clean", "r_mark", "u_last", "k_cas"}
  <2>1. journal \in Journal /\ journal.outcome \in Phases
    BY JournalFields DEF TypeOK
  <2>2. ASSUME NEW out \in Phases, NEW o, Recover(o, journal, out)
        PROVE  /\ Kin(j', journal) /\ j'.phase = journal.phase
                    /\ j'.media = journal.media /\ j' \in Journal /\ step' = 1
           /\ pc' \in {"c_clean", "r_mark", "u_last"}
    BY <2>1, <2>2, RecoverEffect
  <2>3. ASSUME NEW o, NEW l \in {"c_clean", "r_mark", "u_last", "k_cas"}, Enter(o, l)
        PROVE  /\ Kin(j', journal) /\ j'.phase = journal.phase
                    /\ j'.media = journal.media /\ j' \in Journal /\ step' = 1
           /\ pc' \in {"c_clean", "r_mark", "u_last", "k_cas"}
    BY <2>1, <2>3 DEF Enter, Kin
  <2>. QED
    BY <2>1, <2>2, <2>3 DEF Confirm, Phases
<1>1. TypeOK'
  <2>1. journal' \in Journal /\ j' \in Journal
    BY <1>a, BlankJournal DEF TypeOK, Confirm, Asked
  <2>2. saved' \in Commit /\ saved'.net \in Nets /\ last' \in [id : Nat, phase : Phases]
    BY JournalFields DEF Confirm, Asked, Outcomes, TypeOK
  <2>3. /\ host' \in [Parts -> Nets \cup {"none"}]
        /\ media' \in {"running", "stopped"} /\ timers' \subseteq Timers
    BY JournalFields DEF Confirm, Asked, TypeOK, Timers
  <2>4. op' \in Ops /\ pc' \in Points /\ step' \in 1 .. 4
    BY DEF Confirm, Asked, Taken, Recover, Enter, Count, Ops, Points
  <2>5. due' \in BOOLEAN /\ fresh' \in BOOLEAN /\ booted' \in BOOLEAN
    BY DEF Confirm, Asked, Enter, clock, TypeOK
  <2>6. /\ excuse' \in {"none", "resumed", "accepted"}
        /\ jobs' \in Nat /\ faults' \in Nat /\ crashes' \in Nat
        /\ boots' \in Nat /\ writes' \in Nat
    BY DEF Confirm, Asked, Taken, env, clock, proc, Outcomes, TypeOK
  <2>. QED
    BY <2>1, <2>2, <2>3, <2>4, <2>5, <2>6 DEF TypeOK
<1>2. StepInv'
  BY DEF Confirm, Asked, Taken, Recover, Enter, clock, StepInv, TypeOK
<1>3. OpInv'
  BY DEF Confirm, Asked, Taken, Recover, Enter, clock, OpInv, StepInv
<1>4. LinkInv'
  BY DEF Confirm, Asked, Taken, Recover, Enter, Count, Stored, To, Leave, env, clock, proc,
     Outcomes, LinkInv, OpInv, Same, Undecided, Current, Committed, NextCommit, Blank,
     Points, JournalPoints, OpenPoints, DecidedPoints, TypeOK, Commit, Journal
<1>5. PhaseInv'
  BY DEF Confirm, Asked, Taken, Recover, Enter, Count, Stored, To, Outcomes, PhaseInv,
     LinkInv, OpInv, Points, JournalPoints, UndoPoints, AcceptPoints, Same, Blank
<1>6. HostInv'
  BY <1>a DEF Confirm, Asked, Taken, Count, Stored, To, Leave, env, clock, proc, Outcomes,
     HostInv, PhaseInv, LinkInv, OpInv, StepInv, TypeOK, Config, AllBefore, Rooted, Before,
     Same, Committed, Undecided, Current, NextCommit, Of, Parts, Points, JournalPoints,
     OpenPoints, DecidedPoints, Blank, UndoPoints, Kin
<1>7. NewAddressesGuarded'
  BY DEF Confirm, Asked, Taken, Recover, Leave, env, clock, proc, Outcomes,
     NewAddressesGuarded, HostInv, LinkInv, OpInv, PhaseInv, StepInv, TypeOK, Config,
     Rooted, Before, Same
<1>8. MediaInv'
  BY <1>a DEF Confirm, Asked, Taken, Count, Stored, To, Leave, env, clock, proc, Outcomes,
     MediaInv, MediaOnWholeNetwork, HostInv, LinkInv, PhaseInv, OpInv, TypeOK, Undecided,
     Current, Parts, Points, JournalPoints, OpenPoints, DecidedPoints, Blank, Of, Kin
<1>9. WatchInv'
  BY DEF Confirm, Asked, Taken, Recover, Enter, Count, Stored, To, Leave, env, clock, proc,
     Outcomes, WatchInv, LinkInv, PhaseInv, OpInv, Points, JournalPoints, ApplyPoints,
     UndoPoints, Same, Blank, OpenPoints
<1>. QED
  BY <1>1, <1>2, <1>3, <1>4, <1>5, <1>6, <1>7, <1>8, <1>9

\* The start of a rollback keeps the invariant.
LEMMA RevertStep ==
  ASSUME Inv, Revert
  PROVE  Inv'
<1>. USE EngineAssumption DEF Inv
<1>1. TypeOK'
  BY DEF Revert, Asked, Taken, Recover, env, clock, TypeOK, Commit, Journal, Phases, Parts,
     Ops, Points, Timers
<1>2. StepInv'
  BY DEF Revert, Asked, Taken, Recover, Outcomes, StepInv, TypeOK
<1>3. OpInv'
  BY DEF Revert, Asked, Taken, Recover, Count, Stored, clock, proc, Outcomes, OpInv, StepInv
<1>4. LinkInv'
  BY DEF Revert, Asked, Taken, Recover, Count, Stored, To, Leave, env, clock, proc,
     Outcomes, LinkInv, OpInv, Same, Undecided, Current, Committed, NextCommit, Blank,
     Points, JournalPoints, OpenPoints, DecidedPoints, TypeOK, Commit, Journal
<1>5. PhaseInv'
  BY DEF Revert, Asked, Taken, Recover, PhaseInv, LinkInv, OpInv, Points, JournalPoints,
     UndoPoints, AcceptPoints, Same, Blank
<1>6. HostInv'
  BY DEF Revert, Asked, Taken, Recover, env, clock, proc, Outcomes, HostInv, PhaseInv,
     LinkInv, OpInv, StepInv, TypeOK, Config, AllBefore, Rooted, Before, Same, Committed
<1>7. NewAddressesGuarded'
  BY DEF Revert, Asked, Taken, Recover, env, clock, proc, Outcomes, NewAddressesGuarded,
     HostInv, LinkInv, OpInv, PhaseInv, StepInv, TypeOK, Config, Rooted, Before, Same,
     Committed
<1>8. MediaInv'
  BY DEF Revert, Asked, Taken, Recover, Count, Stored, MediaInv, MediaOnWholeNetwork,
     HostInv, LinkInv, PhaseInv, OpInv, Committed, Undecided, Current, Parts, Points,
     JournalPoints, OpenPoints, DecidedPoints, Blank, Of
<1>9. WatchInv'
  BY DEF Revert, Asked, Taken, Recover, env, clock, proc, Outcomes, WatchInv, LinkInv,
     PhaseInv, OpInv, Points, JournalPoints, ApplyPoints, UndoPoints, Same, Blank,
     OpenPoints
<1>. QED
  BY <1>1, <1>2, <1>3, <1>4, <1>5, <1>6, <1>7, <1>8, <1>9

\* The start of an acceptance keeps the invariant.
LEMMA AcceptStep ==
  ASSUME Inv, Accept
  PROVE  Inv'
<1>. USE EngineAssumption DEF Inv
<1>1. TypeOK'
  BY DEF Accept, Asked, Taken, Enter, env, clock, TypeOK, Commit, Journal, Phases, Parts,
     Ops, Points, Timers
<1>2. StepInv'
  BY DEF Accept, Asked, Taken, Enter, Outcomes, StepInv, TypeOK
<1>3. OpInv'
  BY DEF Accept, Asked, Taken, Enter, Count, Stored, clock, proc, Outcomes, OpInv, StepInv
<1>4. LinkInv'
  BY DEF Accept, Asked, Taken, Enter, Count, Stored, To, Leave, env, clock, proc, Outcomes,
     LinkInv, OpInv, Same, Undecided, Current, Committed, NextCommit, Blank, Points,
     JournalPoints, OpenPoints, DecidedPoints, TypeOK, Commit, Journal
<1>5. PhaseInv'
  BY DEF Accept, Asked, Taken, Enter, PhaseInv, LinkInv, OpInv, Points, JournalPoints,
     UndoPoints, AcceptPoints, Same, Blank
<1>6. HostInv'
  BY DEF Accept, Asked, Taken, Enter, env, clock, proc, Outcomes, HostInv, PhaseInv,
     LinkInv, OpInv, StepInv, TypeOK, Config, AllBefore, Rooted, Before, Same, Committed
<1>7. NewAddressesGuarded'
  BY DEF Accept, Asked, Taken, Enter, NewAddressesGuarded, HostInv, LinkInv, OpInv,
     PhaseInv, StepInv, TypeOK, Config, Rooted, Before, Same, Committed
<1>8. MediaInv'
  BY DEF Accept, Asked, Taken, Enter, Count, Stored, MediaInv, MediaOnWholeNetwork, HostInv,
     LinkInv, PhaseInv, OpInv, Committed, Undecided, Current, Parts, Points, JournalPoints,
     OpenPoints, DecidedPoints, Blank, Of
<1>9. WatchInv'
  BY DEF Accept, Asked, Taken, Enter, env, clock, proc, Outcomes, WatchInv, LinkInv,
     PhaseInv, OpInv, Points, JournalPoints, ApplyPoints, UndoPoints, Same, Blank,
     OpenPoints
<1>. QED
  BY <1>1, <1>2, <1>3, <1>4, <1>5, <1>6, <1>7, <1>8, <1>9

\* The start of the boot oneshot keeps the invariant.
LEMMA BootStep ==
  ASSUME Inv, Boot
  PROVE  Inv'
<1>. USE EngineAssumption DEF Inv
<1>a. /\ Kin(j', journal) /\ j'.phase = journal.phase /\ j'.media = journal.media /\ step' = 1
      /\ pc' \in {"c_clean", "r_mark", "u_last", "b_guard"}
           /\ (pc' = "b_guard" => journal.id = 0)
  BY RecoverEffect DEF TypeOK, Boot, Enter, Phases, Kin
<1>1. TypeOK'
  BY DEF Boot, Recover, Enter, env, clock, TypeOK, Commit, Journal, Phases, Parts, Ops,
     Points, Timers
<1>2. StepInv'
  BY DEF Boot, Recover, Enter, Count, StepInv, TypeOK
<1>3. OpInv'
  BY DEF Boot, Recover, Enter, Leave, env, clock, proc, Outcomes, OpInv, StepInv
<1>4. LinkInv'
  BY DEF Boot, Recover, Enter, Count, Stored, To, Leave, env, clock, proc, Outcomes,
     LinkInv, OpInv, Same, Undecided, Current, Committed, NextCommit, Blank, Points,
     JournalPoints, OpenPoints, DecidedPoints, TypeOK, Commit, Journal
<1>5. PhaseInv'
  BY DEF Boot, Recover, Enter, Count, clock, proc, Outcomes, PhaseInv, UndoPoints,
     AcceptPoints, Same, Blank
<1>6. HostInv'
  BY <1>a DEF Boot, Count, Stored, To, Leave, env, clock, proc, Outcomes, HostInv, PhaseInv,
     LinkInv, OpInv, StepInv, TypeOK, Config, AllBefore, Rooted, Before, Same, Committed,
     Undecided, Current, NextCommit, Of, Parts, Points, JournalPoints, OpenPoints,
     DecidedPoints, Blank, UndoPoints, Kin
<1>7. NewAddressesGuarded'
  BY DEF Boot, Recover, Enter, Count, clock, proc, Outcomes, NewAddressesGuarded, StepInv,
     TypeOK, Config, Rooted, Before, Same
<1>8. MediaInv'
  BY <1>a DEF Boot, Count, Stored, To, Leave, env, clock, proc, Outcomes, MediaInv,
     MediaOnWholeNetwork, HostInv, LinkInv, PhaseInv, OpInv, TypeOK, Config, AllBefore,
     Parts, Points, JournalPoints, OpenPoints, DecidedPoints, Blank, Of, Kin
<1>9. WatchInv'
  BY DEF Boot, Recover, Enter, Leave, env, clock, proc, Outcomes, WatchInv, LinkInv,
     PhaseInv, OpInv, Points
<1>. QED
  BY <1>1, <1>2, <1>3, <1>4, <1>5, <1>6, <1>7, <1>8, <1>9

\* The death of the operation that runs keeps the invariant.
LEMMA CrashStep ==
  ASSUME Inv, Crash
  PROVE  Inv'
<1>. USE EngineAssumption DEF Inv
<1>1. TypeOK'
  BY DEF Crash, Leave, clock, TypeOK, Commit, Journal, Phases, Parts, Ops, Points, Timers,
     Blank
<1>2. StepInv'
  BY DEF Crash, Count, Leave, env, Outcomes, StepInv, TypeOK
<1>3. OpInv'
  BY DEF Crash, Count, Leave, env, clock, proc, Outcomes, OpInv, StepInv
<1>4. LinkInv'
  BY DEF Crash, Count, Stored, To, Leave, env, clock, proc, Outcomes, LinkInv, OpInv, Same,
     Undecided, Current, Committed, NextCommit, Blank, Points, JournalPoints, OpenPoints,
     DecidedPoints, TypeOK, Commit, Journal
<1>5. PhaseInv'
  BY DEF Crash, Count, Stored, To, Leave, env, PhaseInv, LinkInv, OpInv, Points,
     JournalPoints, UndoPoints, AcceptPoints, Same, Blank
<1>6. HostInv'
  BY DEF Crash, Count, Stored, To, Leave, env, clock, proc, Outcomes, HostInv, PhaseInv,
     LinkInv, OpInv, StepInv, TypeOK, Config, AllBefore, Rooted, Before, Same, Committed,
     Undecided, Current, NextCommit, Of, Parts, Points, JournalPoints, OpenPoints,
     DecidedPoints, Blank, UndoPoints
<1>7. NewAddressesGuarded'
  BY DEF Crash, Count, clock, proc, Outcomes, NewAddressesGuarded, HostInv
<1>8. MediaInv'
  BY DEF Crash, Count, Stored, To, Leave, env, clock, proc, Outcomes, MediaInv,
     MediaOnWholeNetwork, Undecided, OpenPoints, DecidedPoints, Blank, Of
<1>9. WatchInv'
  BY DEF Crash, Count, Stored, To, Leave, env, clock, proc, Outcomes, WatchInv, LinkInv,
     PhaseInv, OpInv, Points, JournalPoints, ApplyPoints, UndoPoints, Same, Blank,
     OpenPoints
<1>. QED
  BY <1>1, <1>2, <1>3, <1>4, <1>5, <1>6, <1>7, <1>8, <1>9

\* A reboot keeps the invariant.
LEMMA RebootStep ==
  ASSUME Inv, Reboot
  PROVE  Inv'
<1>. USE EngineAssumption DEF Inv
<1>1. TypeOK'
  <2>1. journal' \in Journal /\ j' \in Journal
    BY BlankJournal DEF TypeOK, Reboot, Leave
  <2>2. saved' \in Commit /\ saved'.net \in Nets /\ last' \in [id : Nat, phase : Phases]
    BY JournalFields DEF Reboot, proc, Outcomes, TypeOK
  <2>3. /\ host' \in [Parts -> Nets \cup {"none"}]
        /\ media' \in {"running", "stopped"} /\ timers' \subseteq Timers
    BY JournalFields DEF Reboot, Count, Outcomes, TypeOK, Timers, Parts
  <2>4. op' \in Ops /\ pc' \in Points /\ step' \in 1 .. 4
    BY DEF Reboot, Count, Leave, env, Outcomes, TypeOK, Ops, Points
  <2>5. due' \in BOOLEAN /\ fresh' \in BOOLEAN /\ booted' \in BOOLEAN
    BY Zenon DEF Reboot, To, Outcomes, TypeOK
  <2>6. /\ excuse' \in {"none", "resumed", "accepted"}
        /\ jobs' \in Nat /\ faults' \in Nat /\ crashes' \in Nat
        /\ boots' \in Nat /\ writes' \in Nat
    BY DEF Reboot, To, Outcomes, TypeOK
  <2>. QED
    BY <2>1, <2>2, <2>3, <2>4, <2>5, <2>6 DEF TypeOK
<1>2. StepInv'
  BY DEF Reboot, Count, Leave, env, Outcomes, StepInv, TypeOK
<1>3. OpInv'
  BY DEF Reboot, Count, Leave, env, Outcomes, OpInv, StepInv
<1>4. LinkInv'
  BY DEF Reboot, Count, Stored, To, Leave, env, clock, proc, Outcomes, LinkInv, OpInv, Same,
     Undecided, Current, Committed, NextCommit, Blank, Points, JournalPoints, OpenPoints,
     DecidedPoints, TypeOK, Commit, Journal
<1>5. PhaseInv'
  BY DEF Reboot, Count, Stored, To, Leave, env, PhaseInv, LinkInv, OpInv, Points,
     JournalPoints, UndoPoints, AcceptPoints, Same, Blank
<1>6. HostInv'
  BY DEF Reboot, Count, Stored, To, Leave, env, clock, proc, Outcomes, HostInv, PhaseInv,
     LinkInv, OpInv, StepInv, TypeOK, Config, AllBefore, Rooted, Before, Same, Committed,
     Undecided, Current, NextCommit, Of, Parts, Points, JournalPoints, OpenPoints,
     DecidedPoints, Blank, UndoPoints
<1>7. NewAddressesGuarded'
  BY DEF Reboot, Count, Outcomes, NewAddressesGuarded, HostInv
<1>8. MediaInv'
  BY DEF Reboot, Count, Stored, To, Leave, env, clock, proc, Outcomes, MediaInv,
     MediaOnWholeNetwork, Undecided, OpenPoints, DecidedPoints, Blank, Of
<1>9. WatchInv'
  BY DEF Reboot, Count, Stored, To, Leave, env, WatchInv, LinkInv, PhaseInv, OpInv, Points
<1>. QED
  BY <1>1, <1>2, <1>3, <1>4, <1>5, <1>6, <1>7, <1>8, <1>9

\* The passing of a deadline keeps the invariant.
LEMMA TickStep ==
  ASSUME Inv, Tick
  PROVE  Inv'
<1>. USE EngineAssumption DEF Inv
<1>1. TypeOK'
  BY DEF Tick, env, proc, TypeOK
<1>2. StepInv'
  BY DEF Tick, Count, clock, proc, Outcomes, StepInv, TypeOK
<1>3. OpInv'
  BY DEF Tick, Count, clock, proc, Outcomes, OpInv, StepInv
<1>4. LinkInv'
  BY DEF Tick, Count, Stored, To, Leave, env, clock, proc, Outcomes, LinkInv, OpInv, Same,
     Undecided, Current, Committed, NextCommit
<1>5. PhaseInv'
  BY DEF Tick, Count, clock, proc, Outcomes, PhaseInv, LinkInv, OpInv
<1>6. HostInv'
  BY DEF Tick, Count, Stored, To, Leave, env, clock, proc, Outcomes, HostInv, PhaseInv,
     LinkInv, OpInv, StepInv, TypeOK, Config, AllBefore, Rooted, Before, Same, Committed,
     Undecided, Current, NextCommit, Of, Parts, Points, JournalPoints, OpenPoints,
     DecidedPoints, Blank, UndoPoints
<1>7. NewAddressesGuarded'
  BY DEF Tick, Count, Outcomes, NewAddressesGuarded, HostInv
<1>8. MediaInv'
  BY DEF Tick, Count, Stored, To, Leave, env, clock, proc, Outcomes, MediaInv,
     MediaOnWholeNetwork, Undecided, OpenPoints, DecidedPoints, Blank, Of
<1>9. WatchInv'
  BY DEF Tick, Count, Stored, clock, proc, Outcomes, WatchInv, LinkInv, PhaseInv, OpInv,
     Points
<1>. QED
  BY <1>1, <1>2, <1>3, <1>4, <1>5, <1>6, <1>7, <1>8, <1>9

\* Another commit of the authority keeps the invariant.
LEMMA ActorWriteStep ==
  ASSUME Inv, ActorWrite
  PROVE  Inv'
<1>. USE EngineAssumption DEF Inv
<1>1. TypeOK'
  BY DEF ActorWrite, clock, proc, TypeOK, Commit, Journal
<1>2. StepInv'
  BY DEF ActorWrite, Count, clock, proc, Outcomes, StepInv, TypeOK
<1>3. OpInv'
  BY DEF ActorWrite, Count, clock, proc, Outcomes, OpInv, StepInv
<1>4. LinkInv'
  BY DEF ActorWrite, Count, Stored, To, Leave, env, clock, proc, Outcomes, LinkInv, OpInv,
     Same, Undecided, Current, Committed, NextCommit, Blank, Points, JournalPoints,
     OpenPoints, DecidedPoints, TypeOK, Commit, Journal
<1>5. PhaseInv'
  BY DEF ActorWrite, Count, clock, proc, Outcomes, PhaseInv, LinkInv, OpInv
<1>6. HostInv'
  <2>1. journal.id # 0 => (Committed(journal)' <=> Committed(journal))
    BY DEF ActorWrite, TypeOK, Commit, Journal, LinkInv, Current, Undecided, Committed,
       NextCommit
  <2>2. saved'.net = saved.net
    BY DEF ActorWrite, TypeOK, Commit
  <2>3. UNCHANGED <<journal, j, host, media, excuse, booted, pc, step>>
    BY DEF ActorWrite, proc, clock
  <2>. QED
    BY <2>1, <2>2, <2>3 DEF HostInv, Config, AllBefore, Rooted, Of
<1>7. NewAddressesGuarded'
  BY DEF ActorWrite, Count, clock, proc, Outcomes, NewAddressesGuarded, HostInv
<1>8. MediaInv'
  BY DEF ActorWrite, Count, Stored, To, Leave, env, clock, proc, Outcomes, MediaInv,
     MediaOnWholeNetwork, Undecided, OpenPoints, DecidedPoints, Blank, Of
<1>9. WatchInv'
  BY DEF ActorWrite, Count, Stored, clock, proc, Outcomes, WatchInv, LinkInv, PhaseInv,
     OpInv, Points
<1>. QED
  BY <1>1, <1>2, <1>3, <1>4, <1>5, <1>6, <1>7, <1>8, <1>9
-------------------------------------------------------------------------------
(* The invariant, and what it says.                                           *)

\* The invariant holds initially.
LEMMA InitInv == Init => Inv
<1>. SUFFICES ASSUME Init PROVE Inv
  OBVIOUS
<1>. USE EngineAssumption, BlankJournal DEF Init
<1>1. TypeOK
  <2>1. saved \in Commit /\ saved.net \in Nets /\ host \in [Parts -> Nets \cup {"none"}]
    BY DEF Commit
  <2>2. /\ last \in [id : Nat, phase : Phases] /\ timers \subseteq Timers
        /\ op \in Ops /\ pc \in Points /\ step \in 1 .. 4
    BY DEF Phases, Timers, Ops, Points
  <2>. QED
    BY <2>1, <2>2 DEF TypeOK
<1>2. StepInv /\ OpInv /\ PhaseInv /\ WatchInv /\ NewAddressesGuarded
  BY DEF StepInv, OpInv, PhaseInv, WatchInv, NewAddressesGuarded, ApplyPoints, UndoPoints,
     AcceptPoints
<1>3. LinkInv
  BY DEF LinkInv, JournalPoints, OpenPoints, DecidedPoints
<1>4. HostInv
  BY DEF HostInv, Rooted, Config, Parts
<1>5. MediaInv
  BY DEF MediaInv, MediaOnWholeNetwork, Of
<1>. QED
  BY <1>1, <1>2, <1>3, <1>4, <1>5 DEF Inv

\* A step that changes nothing keeps the invariant.
LEMMA StutterInv == Inv /\ UNCHANGED vars => Inv'
<1>. SUFFICES ASSUME Inv, UNCHANGED vars PROVE Inv'
  OBVIOUS
<1>. USE DEF Inv, vars
<1>1. TypeOK' /\ StepInv' /\ OpInv' /\ PhaseInv' /\ WatchInv' /\ NewAddressesGuarded'
  BY DEF TypeOK, StepInv, OpInv, PhaseInv, WatchInv, NewAddressesGuarded
<1>2. LinkInv'
  BY DEF LinkInv, Current, Undecided, Committed, NextCommit, Same
<1>3. HostInv'
  BY DEF HostInv, Rooted, Config, AllBefore, Before, Committed, NextCommit, Of
<1>4. MediaInv'
  BY DEF MediaInv, MediaOnWholeNetwork, Of
<1>. QED
  BY <1>1, <1>2, <1>3, <1>4

\* A step of the operation that runs.
LEMMA OperationStep ==
  ASSUME Inv, StepNext
  PROVE  Inv'
BY StageWriteStep, StageGuardStep, StageApplyStep, UnmodifiedStep, UnmodifiedRemoveStep,
  
   ApplyMarkStep, ApplyStopStep, ApplyPartStep, ApplyStartStep, ApplyDoneStep,
  
   ApplyWindowStep, ApplyFailsStep, RecoverMarkStep, RecoverRetryStep, RecoverStopStep,
  
   RecoverPartStep, RecoverAgainStep, RecoverStartStep, RecoverLastStep, RecoverRemoveStep,

     RecoverFailsStep, KeepStep, KeepMarkStep, FinishCleanStep, FinishLastStep,
  
   FinishRemoveStep, AcceptStopStep, AcceptPartStep, AcceptStartStep, BootGuardStep DEF
   StepNext

\* Every step keeps the invariant.
LEMMA NextInv == Inv /\ [Next]_vars => Inv'
<1>. SUFFICES ASSUME Inv, [Next]_vars PROVE Inv'
  OBVIOUS
<1>1. CASE StepNext
  BY <1>1, OperationStep
<1>2. ASSUME NEW n \in Nets, Stage(n) PROVE Inv'
  BY <1>2, StageStep
<1>3. CASE ApplyJob
  BY <1>3, ApplyJobStep
<1>4. CASE ApplyMissed
  BY <1>4, ApplyMissedStep
<1>5. CASE RecoverJob
  BY <1>5, RecoverJobStep
<1>6. CASE Confirm
  BY <1>6, ConfirmStep
<1>7. CASE Revert
  BY <1>7, RevertStep
<1>8. CASE Accept
  BY <1>8, AcceptStep
<1>9. CASE Boot
  BY <1>9, BootStep
<1>10. CASE Crash
  BY <1>10, CrashStep
<1>11. CASE Reboot
  BY <1>11, RebootStep
<1>12. CASE Tick
  BY <1>12, TickStep
<1>13. CASE ActorWrite
  BY <1>13, ActorWriteStep
<1>14. CASE UNCHANGED vars
  BY <1>14, StutterInv
<1>. QED
  BY <1>1, <1>2, <1>3, <1>4, <1>5, <1>6, <1>7, <1>8, <1>9, <1>10, <1>11, <1>12, <1>13, <1>14
     DEF Next

\* The inductive invariant: at every point, how the journal, the copy in hand, the
\* authority's decision, the host, the media and the timers go together
\* (engine.rs `run_apply_job`, `recover_locked`, `finish_committed`).
THEOREM InvHolds == Spec => []Inv
BY InitInv, NextInv, PTL DEF Spec

\* The state of the engine and of the host keeps its types.
THEOREM TypeCorrect == Spec => []TypeOK
BY InvHolds, PTL DEF Inv

\* With nothing pending the host is configured as the decision says, and once the
\* decision names a transaction nothing takes its configuration back (engine.rs
\* `finish_unmodified`, `finish_committed`, `recover_locked`).
THEOREM HostFollowsDecisionHolds == Spec => []HostFollowsDecision
<1>1. Inv => HostFollowsDecision
  <2>. SUFFICES ASSUME Inv PROVE HostFollowsDecision
    OBVIOUS
  <2>1. RestMatchesDecision
    BY DEF Inv, HostInv, Config, RestMatchesDecision, Of, Parts
  <2>2. ASSUME journal.id # 0, saved.txn = journal.id
        PROVE  Committed(journal)
    BY <2>2 DEF Inv, TypeOK, LinkInv, Current, Undecided
  <2>3. KeptNotUndone
    BY <2>2, CommittedMeans DEF Inv, TypeOK, HostInv, Config, KeptNotUndone
  <2>. QED
    BY <2>1, <2>3 DEF HostFollowsDecision
<1>. QED
  BY <1>1, InvHolds, PTL

\* New addressing is live only behind its guard, the media run on one network, and
\* a touched host is watched by a timer that undoes the change (engine.rs
\* `run_apply_job`, `stop_consumers`, `stage_transaction`).
THEOREM ChangeIsGuardedHolds == Spec => []ChangeIsGuarded
<1>1. Inv => TouchedIsWatched
  BY DEF Inv, WatchInv, TouchedIsWatched, Recovering
<1>2. Inv => ChangeIsGuarded
  BY <1>1 DEF Inv, MediaInv, ChangeIsGuarded
<1>. QED
  BY <1>2, InvHolds, PTL

\* A decision is only ever taken for a network that is applied completely
\* (engine.rs `confirm`, `next_commit`).
THEOREM KeepsOnlyAppliedHolds == Spec => KeepsOnlyApplied
<1>1. Inv /\ [Next]_vars => [saved'.txn # saved.txn => Of(saved'.net)]_vars
  <2>. SUFFICES ASSUME Inv, [Next]_vars, saved'.txn # saved.txn
                PROVE  Of(saved'.net)
    OBVIOUS
  <2>1. CASE Keep
    <3>1. Of(j.cand)
      BY <2>1 DEF Keep, Inv, OpInv, LinkInv, PhaseInv, HostInv, Config, Of, Same, Parts,
         JournalPoints, Points
    <3>2. saved' = NextCommit(j)
      BY <2>1 DEF Keep, Stored
    <3>. QED
      BY <3>1, <3>2 DEF NextCommit
  <2>2. CASE ActorWrite
    BY <2>2 DEF ActorWrite, Inv, TypeOK, Commit
  <2>3. ~Keep /\ ~ActorWrite => saved' = saved
    BY DEF Next, StepNext, vars, StageWrite, StageGuard, StageApply, StageArm, FinishClean,
       FinishLast, Cleanup, Unmodified, UnmodifiedRemove, ApplyMark, ApplyStop, ApplyPart,
       ApplyStart, ApplyDone, ApplyWindow, ApplyFails, RecoverMark, RecoverRetry,
       RecoverStop, RecoverPart, RecoverAgain, RecoverStart, RecoverLast, RecoverRemove,
       RecoverFails, KeepMark, FinishRemove, AcceptStop, AcceptPart, AcceptStart, BootGuard,
       Stage, ApplyJob, ApplyMissed, RecoverJob, Confirm, Revert, Accept, Boot, Crash,
       Reboot, Tick
  <2>. QED
    BY <2>1, <2>2, <2>3
<1>. QED
  BY <1>1, InvHolds, PTL DEF Spec, KeepsOnlyApplied
================================================================================
