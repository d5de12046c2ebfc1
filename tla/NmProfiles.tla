----------------------------- MODULE NmProfiles -----------------------------
(* Changes of the network on a host that NetworkManager runs (backend/nm.rs,  *)
(* with the parts of backend/mod.rs and engine.rs that it is called from).    *)
(* NetworkManager keeps its own database of connections: a change modifies    *)
(* the connection of the port, adds and disables connections of VLANs, and a  *)
(* recovery has to put all of that back from what the journal recorded,       *)
(* while NetworkManager (and its Netplan plugin) move, re-save and reload the *)
(* files of the connections on their own.                                     *)
EXTENDS Naturals, Sequences, SequencesExt

CONSTANTS NmTags,     \* VLAN tags, numbers above 0
          NmChanges,  \* changes that are planned
          NmEdits,    \* edits of connections by others
          NmFaults    \* failing commands and deaths of a job

ASSUME NmAssumption ==
    /\ NmTags \subseteq Nat \ {0} /\ IsFiniteSet(NmTags)
    /\ {NmChanges, NmEdits, NmFaults} \subseteq Nat

VARIABLES nCon,      \* the connections, with the file of each
          nNetplan,  \* does Netplan own the connection of the port?
          nLinks,    \* the VLAN links of the port
          nDoc,      \* the committed document, with the connections it owns, and (history)
                     \* those that a document ever owned, and those that could not be
                     \* discarded when the operator gave a change up
          nPlan,     \* the plan in the journal
          nAt,       \* where the job is
          nLeft      \* the bounds still unspent

nmVars == <<nCon, nNetplan, nLinks, nDoc, nPlan, nAt, nLeft>>
-----------------------------------------------------------------------------
\* A connection is named by its tag (0 for the port) and the change it is from.
NmUuids == {<<0, 0>>, <<0, 1>>} \cup (NmTags \X (1 .. NmChanges))
NmParent == <<0, 0>>
NmForeign == <<0, 1>>    \* a connection of the operator that competes for the port
NmValues == 0 .. NmChanges + 1
NmEdited == NmChanges + 1

NoFile == [there |-> FALSE, val |-> 0, auto |-> FALSE, moved |-> FALSE, saved |-> FALSE]
NoCon == [here |-> FALSE, val |-> 0, auto |-> FALSE, on |-> FALSE, file |-> NoFile]
NoNmPlan == [n |-> 0, tags |-> {}, owned |-> [t \in NmTags |-> 0], ch |-> <<>>]
NmIdle == [step |-> "idle", i |-> 1, sub |-> "begin"]

NmTypeOK ==
    /\ DOMAIN nCon = NmUuids
    /\ \A u \in NmUuids : nCon[u].val \in NmValues /\ nCon[u].file.val \in NmValues
    /\ nNetplan \in BOOLEAN /\ nLinks \subseteq NmTags
    /\ nDoc.tags \subseteq NmTags /\ nDoc.owned \in [NmTags -> 0 .. NmChanges]
    /\ nAt.step \in {"idle", "staged", "settle", "apply", "links", "ready", "applied", "prune",
                     "recover", "relinks", "failed"}
    /\ nAt.i \in 1 .. Len(nPlan.ch) + 1
    /\ nLeft \in [changes : 0 .. NmChanges, edits : 0 .. NmEdits, faults : 0 .. NmFaults]

NmInit ==
    /\ nNetplan \in BOOLEAN
    /\ nCon = [u \in NmUuids |->
                 IF u # NmParent THEN NoCon
                 ELSE [here |-> TRUE, val |-> 0, auto |-> TRUE, on |-> TRUE,
                       file |-> [NoFile EXCEPT !.there = TRUE, !.auto = TRUE]]]
    /\ nLinks = {} /\ nDoc = [tags |-> {}, owned |-> [t \in NmTags |-> 0], ever |-> {}, lost |-> {}]
    /\ nPlan = NoNmPlan /\ nAt = NmIdle
    /\ nLeft = [changes |-> NmChanges, edits |-> NmEdits, faults |-> NmFaults]

NmSame == UNCHANGED <<nNetplan, nDoc, nPlan, nLeft>>
-----------------------------------------------------------------------------
(* Planning.                                                                  *)

\* The connections a set of owners (tag -> change) names.
Owned(owned, tags) == {<<t, owned[t]>> : t \in tags}

\* nm_drift: a connection that is not ours and competes for our interfaces.
NmDrift(own) == \E u \in NmUuids \ ({NmParent} \cup own) : nCon[u].here

\* One NmChange: what the connection is now, and whether it goes.
NmChangeOf(u, existed, removed) ==
    [uuid |-> u, existed |-> existed, removed |-> removed, before |-> nCon[u]]

\* plan_nm: the port first, then the VLANs of the candidate, then the removed, in
\* the order of the documents, which may be any.  A VLAN that is new gets an identity
\* that the journal knows before it exists.
Listed(tags) == SetToSeq(tags) \o SetToSeq(nDoc.tags \ tags)
NmPlanOf(tags) ==
    LET n == NmChanges - nLeft.changes + 1
        owned == [t \in NmTags |-> IF t \notin tags THEN 0
                                   ELSE IF t \in nDoc.tags THEN nDoc.owned[t] ELSE n]
        uuid(t) == <<t, IF t \in tags THEN owned[t] ELSE nDoc.owned[t]>>
        vlans == [i \in DOMAIN Listed(tags) |->
                    LET t == Listed(tags)[i]
                    IN NmChangeOf(uuid(t), t \in nDoc.tags, t \notin tags)]
    IN [n |-> n, tags |-> tags, owned |-> owned,
        ch |-> <<NmChangeOf(NmParent, TRUE, FALSE)>> \o vlans]

PlanNm(tags) ==
    /\ nAt.step = "idle" /\ nLeft.changes > 0
    /\ ~NmDrift(Owned(nDoc.owned, nDoc.tags)) /\ nLinks \subseteq nDoc.tags
    /\ nLeft' = [nLeft EXCEPT !.changes = @ - 1]
    /\ nPlan' = NmPlanOf(tags)
    /\ nAt' = [NmIdle EXCEPT !.step = "staged"]
    /\ UNCHANGED <<nCon, nNetplan, nLinks, nDoc>>

\* check_plan before anything is changed: every connection is still what the
\* plan recorded, and nothing competes.  Removed ones are ours until the prune.
Unchanged(c) == IF c.existed THEN nCon[c.uuid].here /\ nCon[c.uuid].val = c.before.val
                                  /\ nCon[c.uuid].auto = c.before.auto
                ELSE ~nCon[c.uuid].here
CheckPlan ==
    /\ nAt.step = "staged"
    /\ LET own == Owned(nPlan.owned, nPlan.tags) \cup Owned(nDoc.owned, nDoc.tags)
       IN IF NmDrift(own) \/ ~(\A i \in DOMAIN nPlan.ch : Unchanged(nPlan.ch[i]))
          THEN nPlan' = NoNmPlan /\ nAt' = NmIdle
          ELSE nAt' = [nAt EXCEPT !.step = "settle"] /\ UNCHANGED nPlan
    /\ UNCHANGED <<nCon, nNetplan, nLinks, nDoc, nLeft>>
-----------------------------------------------------------------------------
(* NetworkManager.                                                            *)

\* `connection reload`: what the files say counts.  A file nobody removed brings its
\* connection back, and a connection without one goes (the operator's own apart).
ReloadedOne(c) ==
    IF c.file.there THEN [c EXCEPT !.here = TRUE, !.val = c.file.val, !.auto = c.file.auto] ELSE NoCon
Reloaded(con) ==
    [u \in NmUuids |-> IF ~nNetplan \/ u = NmForeign THEN con[u] ELSE ReloadedOne(con[u])]

\* `connection modify`: the profile is written, and may be moved to another file.
Modified(c, val, auto) ==
    [c EXCEPT !.val = val, !.auto = auto,
              !.file = [there |-> TRUE, val |-> val, auto |-> auto, moved |-> nNetplan, saved |-> FALSE]]

\* `connection delete`: the plugin may leave the file.
Deleted(c, leave) == [NoCon EXCEPT !.file = IF nNetplan /\ leave THEN c.file ELSE NoFile]

\* The plugin re-saves a file it did not write itself, with lines of its own.
ReSave(u) ==
    /\ nNetplan /\ nCon[u].file.there /\ ~nCon[u].file.saved
    /\ nCon' = [nCon EXCEPT ![u].file.saved = TRUE]
    /\ UNCHANGED <<nLinks, nAt>> /\ NmSame

\* A VLAN whose connection is down loses its link in its own time.
LinkGoes(t) ==
    /\ t \in nLinks /\ \A u \in NmUuids : u[1] = t => ~nCon[u].on
    /\ nLinks' = nLinks \ {t}
    /\ UNCHANGED <<nCon, nAt>> /\ NmSame
-----------------------------------------------------------------------------
(* Applying.                                                                  *)

Cur == nPlan.ch[nAt.i]
NmStep(at, sub) == nAt.step = at /\ nAt.i <= Len(nPlan.ch) /\ nAt.sub = sub
NmSub(sub) == nAt' = [nAt EXCEPT !.sub = sub]
NextCh == nAt' = [nAt EXCEPT !.i = @ + 1, !.sub = "begin"]
NmTo(step) == nAt' = [NmIdle EXCEPT !.step = step]

\* settle_nm_files: the images are taken again after one reload.
SettleNmFiles ==
    /\ nAt.step = "settle"
    /\ nCon' = Reloaded(nCon)
    /\ nPlan' = [nPlan EXCEPT !.ch = [i \in DOMAIN nPlan.ch |->
                    [nPlan.ch[i] EXCEPT !.before.file = nCon[nPlan.ch[i].uuid].file]]]
    /\ NmTo("apply")
    /\ UNCHANGED <<nNetplan, nLinks, nDoc, nLeft>>

\* activate_nm: a connection that is not there is added ...
AddConnection ==
    /\ NmStep("apply", "begin")
    /\ nCon' = IF Cur.existed \/ nCon[Cur.uuid].here THEN nCon
               ELSE [nCon EXCEPT ![Cur.uuid] = [Modified(NoCon, 0, TRUE) EXCEPT !.here = TRUE]]
    /\ NmSub("modify")
    /\ UNCHANGED nLinks /\ NmSame

\* ... modified and read back: one that goes is only kept from starting, until
\* the candidate is committed.
Written(c) == IF c.removed THEN Modified(nCon[c.uuid], c.before.val, FALSE)
              ELSE Modified(nCon[c.uuid], nPlan.n, TRUE)
ModifyConnection ==
    /\ NmStep("apply", "modify")
    /\ nCon' = [nCon EXCEPT ![Cur.uuid] = Written(Cur)]
    /\ NmSub("up")
    /\ UNCHANGED nLinks /\ NmSame

\* ... and taken up or down.
TakeUp(c, on) ==
    /\ nCon' = [nCon EXCEPT ![c.uuid].on = on]
    /\ nLinks' = IF c.uuid # NmParent THEN nLinks \cup {c.uuid[1]} ELSE nLinks
UpConnection ==
    /\ NmStep("apply", "up")
    /\ TakeUp(Cur, ~Cur.removed)
    /\ NextCh /\ NmSame

\* remove_links: the links of VLANs that the new network does not have.
RemoveLinks ==
    /\ nAt.step = "apply" /\ nAt.i > Len(nPlan.ch)
    /\ nLinks' = nLinks \ (nDoc.tags \ nPlan.tags)
    /\ NmTo("ready")
    /\ UNCHANGED nCon /\ NmSame

\* verify_nm: every device runs the connection the metadata names.
VerifyNm ==
    /\ nAt.step = "ready"
    /\ NmTo(IF \A u \in {NmParent} \cup Owned(nPlan.owned, nPlan.tags) : nCon[u].on
            THEN "applied" ELSE "recover")
    /\ UNCHANGED <<nCon, nLinks>> /\ NmSame

NmCommandFails ==
    /\ nAt.step \in {"settle", "apply", "ready"} /\ nLeft.faults > 0
    /\ nLeft' = [nLeft EXCEPT !.faults = @ - 1]
    /\ NmTo("recover")
    /\ UNCHANGED <<nCon, nNetplan, nLinks, nDoc, nPlan>>

KeepNm ==
    /\ nAt.step = "applied"
    /\ nDoc' = [nDoc EXCEPT !.tags = nPlan.tags, !.owned = nPlan.owned,
                            !.ever = @ \cup Owned(nPlan.owned, nPlan.tags)]
    /\ NmTo("prune")
    /\ UNCHANGED <<nCon, nNetplan, nLinks, nPlan, nLeft>>

ExpireNm == nAt.step = "applied" /\ NmTo("recover") /\ UNCHANGED <<nCon, nLinks>> /\ NmSame

\* prune_nm, after the commit; it is repeated after a death or a failure.
PruneNm(leave) ==
    /\ NmStep("prune", "begin")
    /\ nCon' = IF Cur.removed /\ nCon[Cur.uuid].here
               THEN [nCon EXCEPT ![Cur.uuid] = Deleted(@, leave)] ELSE nCon
    /\ NextCh
    /\ UNCHANGED nLinks /\ NmSame
PruneFails ==
    /\ nAt.step = "prune" /\ nLeft.faults > 0
    /\ nLeft' = [nLeft EXCEPT !.faults = @ - 1]
    /\ NmTo("prune")
    /\ UNCHANGED <<nCon, nNetplan, nLinks, nDoc, nPlan>>
Pruned ==
    /\ nAt.step = "prune" /\ nAt.i > Len(nPlan.ch)
    /\ nPlan' = NoNmPlan /\ nAt' = NmIdle
    /\ UNCHANGED <<nCon, nNetplan, nLinks, nDoc, nLeft>>
-----------------------------------------------------------------------------
(* Recovering.                                                                *)

\* restore_nm_files and, if a file differed, a reload.
FilesBack(con, c) ==
    IF nNetplan /\ con[c.uuid].file # c.before.file
    THEN Reloaded([con EXCEPT ![c.uuid].file = c.before.file]) ELSE con

\* A connection the change created is deleted, one that existed gets its
\* properties back.
Restored(c, con, leave, listed) ==
    IF c.existed THEN Modified(con, c.before.val, c.before.auto)
    ELSE IF con.here /\ listed THEN Deleted(con, leave) ELSE con

\* What is there was listed before the first connection was restored: a reload since
\* then may have brought back one that was not listed.
RestoreProperties(leave, listed) ==
    /\ NmStep("recover", "begin") /\ (listed \/ nNetplan)
    /\ nCon' = [nCon EXCEPT ![Cur.uuid] = Restored(Cur, @, leave, listed)]
    /\ NmSub("files")
    /\ UNCHANGED nLinks /\ NmSame

RestoreKeyfiles ==
    /\ NmStep("recover", "files")
    /\ nCon' = FilesBack(nCon, Cur)
    /\ NmSub(IF Cur.existed THEN "up" ELSE "verify")
    /\ UNCHANGED nLinks /\ NmSame

\* A mutant: all connections are taken up again, also those that were not active.
RestoreUpAlways ==
    /\ NmStep("recover", "up")
    /\ TakeUp(Cur, TRUE)
    /\ NmSub("verify") /\ NmSame

RestoreUp ==
    /\ NmStep("recover", "up")
    /\ TakeUp(Cur, Cur.before.on)
    /\ NmSub("verify") /\ NmSame

\* A mutant: the restored file has to have the bytes of the image.
SameBytes(now, before) == now = before

\* same_profile: what NetworkManager adds when it saves a file does not count.
SameProfile(now, before) == [now EXCEPT !.saved = FALSE] = [before EXCEPT !.saved = FALSE]

\* verify_restored, verify_files.
VerifyRestored ==
    /\ NmStep("recover", "verify")
    /\ LET c == Cur
           right == /\ c.existed => nCon[c.uuid].val = c.before.val /\ nCon[c.uuid].auto = c.before.auto
                    /\ nNetplan => SameProfile(nCon[c.uuid].file, c.before.file)
       IN IF right THEN NextCh ELSE NmTo("failed")
    /\ UNCHANGED <<nCon, nLinks>> /\ NmSame

RestoreLinks ==
    /\ nAt.step = "recover" /\ nAt.i > Len(nPlan.ch)
    /\ nLinks' = nLinks \ (nPlan.tags \ nDoc.tags)
    /\ NmTo("relinks")
    /\ UNCHANGED nCon /\ NmSame

RecoveredNm ==
    /\ nAt.step = "relinks"
    /\ nPlan' = NoNmPlan /\ nAt' = NmIdle
    /\ UNCHANGED <<nCon, nNetplan, nLinks, nDoc, nLeft>>

RecoveryFails ==
    /\ nAt.step \in {"recover", "relinks"} /\ nLeft.faults > 0
    /\ nLeft' = [nLeft EXCEPT !.faults = @ - 1]
    /\ NmTo("failed")
    /\ UNCHANGED <<nCon, nNetplan, nLinks, nDoc, nPlan>>

\* The repeating guard tries again.
RecoverAgainNm == nAt.step = "failed" /\ NmTo("recover") /\ UNCHANGED <<nCon, nLinks>> /\ NmSame

\* discard_created: the connections that the failed change created go one by one, with
\* their files, up to the first command that fails, at the k-th; that one may have
\* lost its connection, though not its file.
CreatedBefore(k) ==
    {nPlan.ch[i].uuid : i \in {j \in DOMAIN nPlan.ch : j < k /\ ~nPlan.ch[j].existed}}
Discarded(k, half, leave) ==
    [u \in NmUuids |-> IF u \in CreatedBefore(k) THEN NoCon
                       ELSE IF half /\ u \in CreatedBefore(k + 1) THEN Deleted(nCon[u], leave)
                       ELSE nCon[u]]
NewOwned == Owned(nPlan.owned, nPlan.tags \ nDoc.tags)

\* accept_current: the operator keeps the network as it is; the rest stays as the
\* failure left it.  What is discarded is discarded as far as it goes: its errors
\* are dropped, and the journal is removed in any case.
AcceptCurrent(k, half, leave, kept, reload) ==
    LET fails == k <= Len(nPlan.ch) \/ kept # {}
        con == Discarded(k, half, leave)
    IN /\ nAt.step = "failed" /\ (fails => nLeft.faults > 0) /\ (reload => nNetplan)
       /\ kept \subseteq nLinks \cap (nPlan.tags \ nDoc.tags)
       /\ nCon' = IF reload THEN Reloaded(con) ELSE con
       /\ nLinks' = (nLinks \ (nPlan.tags \ nDoc.tags)) \cup kept
       /\ nDoc' = [nDoc EXCEPT !.lost = IF fails THEN @ \cup NewOwned ELSE @]
       /\ nLeft' = [nLeft EXCEPT !.faults = IF fails THEN @ - 1 ELSE @]
       /\ nPlan' = NoNmPlan /\ nAt' = NmIdle
       /\ UNCHANGED nNetplan

\* The job may die while it discards; the journal is still there.
AcceptDies(k, half, leave) ==
    /\ nAt.step = "failed" /\ nLeft.faults > 0
    /\ nCon' = Discarded(k, half, leave)
    /\ nLeft' = [nLeft EXCEPT !.faults = @ - 1]
    /\ NmTo("recover")
    /\ UNCHANGED <<nNetplan, nLinks, nDoc, nPlan>>

\* The job dies: the guard recovers from the journal, or finishes the commit.
NmJobDies ==
    /\ nAt.step \in {"settle", "apply", "ready", "recover", "relinks", "prune"} /\ nLeft.faults > 0
    /\ nLeft' = [nLeft EXCEPT !.faults = @ - 1]
    /\ NmTo(IF nAt.step = "prune" THEN "prune" ELSE "recover")
    /\ UNCHANGED <<nCon, nNetplan, nLinks, nDoc, nPlan>>

\* Others edit the connection of the port or add a competing one, while no
\* change is being applied.
EditParent ==
    /\ nAt.step \in {"idle", "staged"} /\ nLeft.edits > 0 /\ nCon[NmParent].val # NmEdited
    /\ nCon' = [nCon EXCEPT ![NmParent] = Modified(@, NmEdited, TRUE)]
    /\ nLeft' = [nLeft EXCEPT !.edits = @ - 1]
    /\ UNCHANGED <<nNetplan, nLinks, nDoc, nPlan, nAt>>
EditForeign ==
    /\ nAt.step \in {"idle", "staged"} /\ nLeft.edits > 0
    /\ nCon' = [nCon EXCEPT ![NmForeign].here = ~@]
    /\ nLeft' = [nLeft EXCEPT !.edits = @ - 1]
    /\ UNCHANGED <<nNetplan, nLinks, nDoc, nPlan, nAt>>

NmJob ==
    \/ CheckPlan \/ SettleNmFiles \/ AddConnection \/ ModifyConnection \/ UpConnection \/ RemoveLinks
    \/ VerifyNm \/ ExpireNm \/ Pruned \/ RestoreKeyfiles \/ RestoreUp \/ VerifyRestored \/ RestoreLinks
    \/ RecoveredNm \/ RecoverAgainNm
    \/ \E leave \in BOOLEAN : PruneNm(leave) \/ \E listed \in BOOLEAN : RestoreProperties(leave, listed)

NmNext ==
    \/ \E tags \in SUBSET NmTags : PlanNm(tags)
    \/ NmJob \/ KeepNm \/ NmCommandFails \/ PruneFails \/ RecoveryFails \/ NmJobDies
    \/ \E k \in 1 .. Len(nPlan.ch) + 1, half, leave \in BOOLEAN :
         \/ AcceptDies(k, half, leave)
         \/ \E kept \in SUBSET NmTags, reload \in BOOLEAN : AcceptCurrent(k, half, leave, kept, reload)
    \/ EditParent \/ EditForeign
    \/ (\E u \in NmUuids : ReSave(u)) \/ (\E t \in NmTags : LinkGoes(t))

\* Jobs run when their timers fire and every command has a time limit.
NmFair == WF_nmVars(NmJob)
-----------------------------------------------------------------------------
(* Properties.                                                                *)

\* A recovery that reports success has put back every connection that the plan
\* recorded, its file too, and left none that the change created, whatever
\* failed, died or was re-saved on the way.
RestoredAsBefore ==
    [][nAt.step = "relinks" /\ nAt'.step = "idle" =>
         \A i \in DOMAIN nPlan.ch :
           LET c == nPlan.ch[i]
           IN IF ~c.existed THEN ~nCon[c.uuid].here
              ELSE nCon[c.uuid] = [c.before EXCEPT !.file = nCon[c.uuid].file]
                   /\ (nNetplan => nCon[c.uuid].file.moved = c.before.file.moved)]_nmVars

\* A VLAN connection of the committed document is never deleted: until the
\* candidate is committed, there is a way back.
CommittedNeverDeleted == \A u \in Owned(nDoc.owned, nDoc.tags) : nCon[u].here

\* Nothing that a change created and gave up keeps the next one from being
\* planned, however often a recovery failed, died and was repeated: at rest, all
\* VLAN links are the document's, and no connection is there that never became the
\* document's, the operator's apart.  Only a change that the operator gave up for
\* good, while discarding it failed, leaves something behind.
OwnNeverInTheWay ==
    nAt.step = "idle" =>
      /\ nLinks \subseteq nDoc.tags \cup {u[1] : u \in nDoc.lost}
      /\ \A u \in NmUuids \ {NmParent, NmForeign} : nCon[u].here => u \in nDoc.ever \cup nDoc.lost

\* A change comes to an end, kept or restored.
NmChangeEnds == []<>(nAt.step = "idle")

\* What a change of NetworkManager's connections promises.
NmPromises ==
    /\ []NmTypeOK /\ []CommittedNeverDeleted /\ []OwnNeverInTheWay
    /\ RestoredAsBefore
=============================================================================
