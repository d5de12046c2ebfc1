------------------------------- MODULE Backup -------------------------------
(***************************************************************************)
(* Restore and undo (ndimon-state's backup/, ndimon-compat's backup.rs).   *)
(* A document gives each section one of a few values.  One restore runs at *)
(* a time, under the backup lock, and is a chain of awaited steps: read    *)
(* the state, capture it (plugin exports and the password record are read  *)
(* later than the state), write the pre-restore snapshot, send the import  *)
(* with the revision that was read, import the password, import plugin     *)
(* data, stage the network, answer.  Between two steps other sessions      *)
(* commit, and the process may die, which loses the lock and the restore   *)
(* but no file.                                                            *)
(***************************************************************************)
EXTENDS Naturals, Sequences, FiniteSets

CONSTANTS
    BkValues,     \* values a section can have
    SnapshotCap,  \* pre-restore snapshots kept (five in the code)
    BkChanges,    \* commits and password changes of other sessions
    BkRestores,   \* restores and undos begun
    BkFaults      \* failing steps and crashes

ASSUME BkAssumption ==
    /\ BkValues \subseteq Nat \ {0} /\ BkValues # {} /\ IsFiniteSet(BkValues)
    /\ SnapshotCap \in Nat \ {0} /\ BkChanges \in Nat /\ BkRestores \in Nat /\ BkFaults \in Nat

BkSections == {"settings", "plugin", "auth", "net"}
Missing == 0                          \* a section a document does not have
BkDocuments == [BkSections -> BkValues \cup {Missing}]

VARIABLES
    bkDoc,      \* the device: section -> value
    bkRev,      \* revision of the desired state ("auth" is not part of it)
    bkSnaps,    \* pre-restore snapshots, oldest first
    bkImport,   \* the inspected upload: [doc, fresh, there]
    bkOp,       \* the restore under way
    bkPending,  \* the staged network, Missing when there is none
    bkBefore,   \* settings before the last import that was committed, Missing before the first
    bkChanged, bkBegun, bkFailed   \* counters for the bounds

bkVars == <<bkDoc, bkRev, bkSnaps, bkImport, bkOp, bkPending, bkBefore, bkChanged, bkBegun, bkFailed>>
bkBounds == <<bkChanged, bkBegun, bkFailed>>

NoDocument == [s \in BkSections |-> Missing]
NoOp == [at |-> "idle", kind |-> "apply", doc |-> NoDocument, base |-> 0, seen |-> NoDocument, prev |-> NoDocument]
NoImport == [doc |-> NoDocument, fresh |-> FALSE, there |-> FALSE]
OpSteps == <<"begin", "capture", "write", "send", "auth", "plugins", "stage", "reply">>

BkInit ==
    /\ bkDoc \in [BkSections -> {CHOOSE v \in BkValues : TRUE}]
    /\ bkRev = 1 /\ bkSnaps = <<>> /\ bkImport = NoImport /\ bkOp = NoOp
    /\ bkPending = Missing /\ bkBefore = Missing
    /\ bkChanged = 0 /\ bkBegun = 0 /\ bkFailed = 0

----------------------------------------------------------------------------
(* Other sessions.                                                          *)

OtherChange(s, v) ==
    /\ s \in {"settings", "plugin"} /\ bkDoc[s] # v
    /\ bkChanged < BkChanges /\ bkChanged' = bkChanged + 1
    /\ bkDoc' = [bkDoc EXCEPT ![s] = v]
    /\ bkRev' = bkRev + 1
    /\ UNCHANGED <<bkSnaps, bkImport, bkOp, bkPending, bkBefore, bkBegun, bkFailed>>

(* A password change writes the record and no revision.                     *)
OtherPassword(v) ==
    /\ bkDoc["auth"] # v /\ bkChanged < BkChanges /\ bkChanged' = bkChanged + 1
    /\ bkDoc' = [bkDoc EXCEPT !["auth"] = v]
    /\ UNCHANGED <<bkRev, bkSnaps, bkImport, bkOp, bkPending, bkBefore, bkBegun, bkFailed>>

(* Another session stages a network of its own.                             *)
OtherStages(v) ==
    /\ bkPending = Missing /\ bkDoc["net"] # v
    /\ bkChanged < BkChanges /\ bkChanged' = bkChanged + 1
    /\ bkPending' = v
    /\ UNCHANGED <<bkDoc, bkRev, bkSnaps, bkImport, bkOp, bkBefore, bkBegun, bkFailed>>

(* The staged network is kept, with a revision of its own, or reverted.     *)
NetworkDecided ==
    /\ bkPending # Missing
    /\ bkPending' = Missing
    /\ \/ bkDoc' = [bkDoc EXCEPT !["net"] = bkPending] /\ bkRev' = bkRev + 1
       \/ UNCHANGED <<bkDoc, bkRev>>
    /\ UNCHANGED <<bkSnaps, bkImport, bkOp, bkBefore, bkBounds>>

----------------------------------------------------------------------------
(* Inspect: a document that passes the schema, its checksum, the semantic   *)
(* checks and the candidate becomes the upload; a damaged one is refused.   *)
Inspect(doc) ==
    /\ bkOp.at = "idle" /\ bkBegun < BkRestores
    /\ bkImport' = [doc |-> doc, fresh |-> TRUE, there |-> TRUE]
    /\ UNCHANGED <<bkDoc, bkRev, bkSnaps, bkOp, bkPending, bkBefore, bkBounds>>

(* Fifteen minutes pass.                                                    *)
ImportExpires ==
    /\ bkImport.there /\ bkImport.fresh
    /\ bkImport' = [bkImport EXCEPT !.fresh = FALSE]
    /\ UNCHANGED <<bkDoc, bkRev, bkSnaps, bkOp, bkPending, bkBefore, bkBounds>>

Begin(kind, doc) ==
    /\ bkOp.at = "idle" /\ bkBegun < BkRestores
    /\ bkBegun' = bkBegun + 1
    /\ bkOp' = [NoOp EXCEPT !.at = "begin", !.kind = kind, !.doc = doc]
    /\ UNCHANGED <<bkDoc, bkRev, bkSnaps, bkImport, bkPending, bkBefore, bkChanged, bkFailed>>

(* apply takes the lock and an upload that has not expired.                 *)
ApplyBackup == bkImport.there /\ bkImport.fresh /\ Begin("apply", bkImport.doc)

(* undo takes the lock and a snapshot; the page offers the newest.          *)
UndoRestore == bkSnaps # <<>> /\ Begin("undo", bkSnaps[Len(bkSnaps)])

----------------------------------------------------------------------------
(* restore, one await at a time.                                            *)

RestoreAt(step) == bkOp.at = step
Goes(step) == bkOp' = [bkOp EXCEPT !.at = step]
OpEnds == bkOp' = NoOp
Failing == bkFailed < BkFaults /\ bkFailed' = bkFailed + 1

(* The state is read; a pending network change ends the restore, and so do  *)
(* a document the candidate refuses and an impact nobody has confirmed.     *)
ReadState ==
    /\ RestoreAt("begin")
    /\ IF bkPending # Missing THEN OpEnds
       ELSE bkOp' = [bkOp EXCEPT !.at = "capture", !.base = bkRev, !.seen = bkDoc]
    /\ UNCHANGED <<bkDoc, bkRev, bkSnaps, bkImport, bkPending, bkBefore, bkBounds>>

NotConfirmed ==
    /\ RestoreAt("capture") /\ OpEnds
    /\ UNCHANGED <<bkDoc, bkRev, bkSnaps, bkImport, bkPending, bkBefore, bkBounds>>

(* A mutant of Captured: the network is left out of the snapshot.           *)
WithoutNetwork(plugin) ==
    [bkOp.seen EXCEPT !["plugin"] = plugin, !["auth"] = bkDoc["auth"], !["net"] = Missing]
(* capture: the state that was read, with the plugin's export and the       *)
(* password record as they are now; an export that fails is left out.       *)
Captured(plugin) == [bkOp.seen EXCEPT !["plugin"] = plugin, !["auth"] = bkDoc["auth"]]
Capture ==
    /\ RestoreAt("capture")
    /\ \E plugin \in {bkDoc["plugin"], Missing} :
           bkOp' = [bkOp EXCEPT !.at = "write", !.prev = Captured(plugin)]
    /\ UNCHANGED <<bkDoc, bkRev, bkSnaps, bkImport, bkPending, bkBefore, bkBounds>>

(* prune: the newest ones by modification time stay.                        *)
Pruned(files) == SubSeq(files, IF Len(files) > SnapshotCap THEN Len(files) - SnapshotCap + 1 ELSE 1, Len(files))

(* The snapshot is renamed into place before anything is changed.           *)
SnapshotFirst == bkSnaps' = Pruned(Append(bkSnaps, bkOp.prev))

WriteSnapshot ==
    /\ RestoreAt("write") /\ SnapshotFirst /\ Goes("send")
    /\ UNCHANGED <<bkDoc, bkRev, bkImport, bkPending, bkBefore, bkBounds>>

(* The actor's compare-and-set of the import.                               *)
AtRevisionRead == bkRev = bkOp.base

Put(s) == IF bkOp.doc[s] = Missing THEN bkDoc[s] ELSE bkOp.doc[s]

(* One revision for all native sections.                                    *)
SendImport ==
    /\ RestoreAt("send") /\ AtRevisionRead
    /\ bkDoc' = [bkDoc EXCEPT !["settings"] = Put("settings")]
    /\ bkRev' = bkRev + 1
    /\ bkBefore' = bkDoc["settings"]
    /\ Goes("auth")
    /\ UNCHANGED <<bkSnaps, bkImport, bkPending, bkBounds>>

(* revision_conflict.                                                       *)
ImportConflict ==
    /\ RestoreAt("send") /\ bkRev # bkOp.base /\ OpEnds
    /\ UNCHANGED <<bkDoc, bkRev, bkSnaps, bkImport, bkPending, bkBefore, bkBounds>>

(* The password record, written by privd.                                   *)
ImportAuth ==
    /\ RestoreAt("auth") /\ Goes("plugins")
    /\ bkDoc' = [bkDoc EXCEPT !["auth"] = Put("auth")]
    /\ UNCHANGED <<bkRev, bkSnaps, bkImport, bkPending, bkBefore, bkBounds>>

(* A plugin's own data: imported with a revision of its own, or reported as *)
(* failed, which ends nothing.                                              *)
ImportPlugin ==
    /\ RestoreAt("plugins") /\ Goes("stage")
    /\ \/ /\ bkOp.doc["plugin"] # Missing
          /\ bkDoc' = [bkDoc EXCEPT !["plugin"] = Put("plugin")] /\ bkRev' = bkRev + 1
       \/ UNCHANGED <<bkDoc, bkRev>>
    /\ UNCHANGED <<bkSnaps, bkImport, bkPending, bkBefore, bkBounds>>

(* The engine refuses a change while another one is pending.                *)
Stageable == bkPending = Missing

(* The network comes last, at the revision of the moment; a refusal is      *)
(* reported and undoes nothing.                                             *)
StageNetwork ==
    /\ RestoreAt("stage") /\ Goes("reply")
    /\ \/ /\ bkOp.doc["net"] \notin {Missing, bkOp.seen["net"]} /\ Stageable
          /\ bkPending' = bkOp.doc["net"]
       \/ UNCHANGED bkPending
    /\ UNCHANGED <<bkDoc, bkRev, bkSnaps, bkImport, bkBefore, bkBounds>>

(* The answer; an applied upload is removed.                                *)
Answer ==
    /\ RestoreAt("reply") /\ OpEnds
    /\ bkImport' = IF bkOp.kind = "apply" THEN NoImport ELSE bkImport
    /\ UNCHANGED <<bkDoc, bkRev, bkSnaps, bkPending, bkBefore, bkBounds>>

(* Writing the snapshot, applying the import or the password fails: the     *)
(* restore answers with the error, whatever it has done so far.             *)
StepFails ==
    /\ bkOp.at \in {"write", "send", "auth"} /\ Failing /\ OpEnds
    /\ UNCHANGED <<bkDoc, bkRev, bkSnaps, bkImport, bkPending, bkBefore, bkChanged, bkBegun>>

(* The process dies.                                                        *)
BkCrash ==
    /\ bkOp.at # "idle" /\ Failing /\ OpEnds
    /\ UNCHANGED <<bkDoc, bkRev, bkSnaps, bkImport, bkPending, bkBefore, bkChanged, bkBegun>>

BkRest == bkOp.at = "idle" /\ bkPending = Missing /\ UNCHANGED bkVars

RestoreStep ==
    \/ ReadState \/ NotConfirmed \/ Capture \/ WriteSnapshot \/ SendImport \/ ImportConflict
    \/ ImportAuth \/ ImportPlugin \/ StageNetwork \/ Answer \/ StepFails

BkNext ==
    \/ \E v \in BkValues : OtherPassword(v) \/ \E s \in BkSections : OtherChange(s, v)
    \/ NetworkDecided \/ \E v \in BkValues : OtherStages(v)
    \/ \E v \in BkValues, w \in BkValues \cup {Missing} :
           Inspect([settings |-> v, plugin |-> w, auth |-> w, net |-> w])
    \/ ImportExpires \/ ApplyBackup \/ UndoRestore
    \/ RestoreStep \/ BkCrash \/ BkRest

----------------------------------------------------------------------------
(* Properties                                                               *)

(* The types of the state.                                                  *)
BkTypeOK ==
    /\ bkDoc \in [BkSections -> BkValues]
    /\ \A i \in DOMAIN bkSnaps : bkSnaps[i] \in BkDocuments
    /\ Len(bkSnaps) <= SnapshotCap
    /\ bkOp.at = "idle" \/ \E i \in DOMAIN OpSteps : OpSteps[i] = bkOp.at
    /\ bkImport.doc \in BkDocuments /\ bkPending \in BkValues \cup {Missing}

Importing == bkOp.at = "send" /\ bkOp'.at = "auth"

(* Whatever an import replaces is on disk first: when the settings change,  *)
(* the newest snapshot holds the settings and the network of that very      *)
(* moment, although they were read several awaits earlier and other         *)
(* sessions go on committing (coordinator.rs restore).                      *)
ReplacedIsSaved ==
    [][Importing => /\ bkSnaps # <<>>
                    /\ LET newest == bkSnaps[Len(bkSnaps)]
                       IN  newest["settings"] = bkDoc["settings"] /\ newest["net"] = bkDoc["net"]]_bkVars

(* A restore that dies or fails after its import can still be taken back:   *)
(* while it is under way a snapshot holds the settings before the import,   *)
(* however few are kept (storage.rs prune).                                 *)
UnderWayUndoable ==
    bkOp.at \in {"auth", "plugins", "stage", "reply"} => \E i \in DOMAIN bkSnaps : bkSnaps[i]["settings"] = bkBefore

(* "Undo last restore puts settings back to the automatic snapshot taken    *)
(* just before the import" (README.md).                                     *)
UndoTakesBackImport ==
    [][Importing /\ bkOp.kind = "undo" /\ bkBefore # Missing => bkDoc'["settings"] = bkBefore]_bkVars

(* What a restore promises: it can be taken back (coordinator.rs restore).  *)
BackupPromises == []BkTypeOK /\ []UnderWayUndoable /\ ReplacedIsSaved
=============================================================================
