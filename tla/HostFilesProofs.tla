---------------------------- MODULE HostFilesProofs ----------------------------
(*****************************************************************************)
(* Proofs about what is kept in files on the host: the package store of the  *)
(* plugins, the sets of restore and undo, the rules of a network document,   *)
(* and the device's own packages. PluginFiles, for any archives, requests    *)
(* and faults: no tree is moved into place that the operator was not shown,  *)
(* an installed version stays on disk, and a plugin is only started from a   *)
(* tree whose hook has succeeded, or one whose removal was cut off (PfInv:   *)
(* at each step of an install, which of the two trees is the good one).      *)
(* Backup, for any values, number of kept snapshots, commits of others,      *)
(* restores and faults: whatever an import replaces is in the newest         *)
(* snapshot, and stays there while the restore is under way (BkInv: what a   *)
(* restore read is what the device has as long as the revision it read is    *)
(* the present one). NetworkRules, for any addresses, prefixes and rows: the *)
(* networks of an accepted document have no address in common and only the   *)
(* one with the management role has a gateway. Updates, for any versions,    *)
(* jobs and faults: no package goes back unless that is forced, all are      *)
(* signed, and what the device says it runs is what it runs (UpInv: what the *)
(* job has checked, what dpkg has unpacked and what the migration has        *)
(* copied).                                                                  *)
(*****************************************************************************)
EXTENDS PluginFiles, Backup, NetworkRules, Updates, SequenceTheorems, TLAPS

--------------------------------------------------------------------------------
(* The files of a plugin.                                                      *)

(* The inductive invariant.                                                    *)

\* The type invariant, variable by variable.
FeedOK == fFeed \in [serves : PfContents, cached : PfMaybe]
StoreOK == fStore \in [PfContents -> {"none", "fresh", "old"}]
OfferOK ==
    fOffer \in [at : {"none", "copy", "stored", "offered"}, listed : PfMaybe,
        content : PfMaybe]
JobOK ==
    fJob \in [at : {"none", "over"} \cup InstallSteps \cup RemoveSteps,
              kind : {"install", "remove"}, archive : PfMaybe,
              result : {"none", "ok", "failed", "killed"}]
TreesOK == fDest \in PfTrees /\ fPrev \in PfTrees
EntryOK == fEntry \in [version : PfMaybe, before : PfMaybe]
LeftOK == pfLeft \in [requests : 0 .. PfRequests, faults : 0 .. PfFaults]
ShownOK == fShown \subseteq PfContents

\* An archive that is about to be unpacked was shown.
ShownInv ==
    /\ fOffer.at = "offered" => fOffer.content \in fShown
    /\ fOffer.at = "stored" => fOffer.content \in PfContents
    /\ fJob.kind = "install" /\ fJob.at \notin {"none", "over"} => fJob.archive \in fShown
    /\ Present(fDest) => fDest.v \in fShown
    /\ Present(fPrev) => fPrev.v \in fShown

\* A removal that is cut off, at any file.
CutOffStep ==
    \E cut \in {"half", "bare"}, marked \in BOOLEAN, result \in {"failed", "killed"} :
      RemovalCutOff(cut, marked, result)

\* Which tree is the good one at each step of an install: the live one until it
\* is swapped out, then the previous one, until the hook of the new one succeeds
\* or the previous one is back.
KeptInv ==
    /\ fGood => Good(fDest) \/ Good(fPrev)
    /\ fJob.at \in {"unpack", "compare", "clear"} => Present(fDest) \/ ~Present(fPrev)
    /\ fJob.at = "swapOut" /\ fGood => Good(fDest)
    /\ fJob.at \in {"swapIn", "hook", "mark", "dropNew", "putBack"} /\ fGood => Good(fPrev)
    /\ fJob.at \in {"hook", "unmark", "clean"} => Present(fDest) /\ fDest.cut = "whole"
    /\ fJob.at \in {"unmark", "clean"} => fDest.done

\* A tree without the marker has had its install hook, unless its removal was cut off.
Marked(tree) == Present(tree) /\ ~tree.broken => tree.done \/ tree.cut # "whole"
WholeInv == Marked(fDest) /\ Marked(fPrev)

PfInv == PfTypeOK /\ ShownInv /\ KeptInv /\ WholeInv

-------------------------------------------------------------------------------
(* Every step keeps the types.                                                 *)

\* The upload file is empty or an archive.
LEMMA UploadKept ==
    ASSUME fUpload \in PfMaybe, [PfNext]_pfVars
    PROVE  (fUpload \in PfMaybe)'
<1> USE DEF PfMaybe
<1>1. CASE UNCHANGED fUpload
  BY <1>1
<1>2. ASSUME NEW c \in PfContents, Upload(c)
      PROVE  (fUpload \in PfMaybe)'
  BY <1>2 DEF Upload, PfFails
<1>3. \/ UNCHANGED fUpload
      \/ (\E c \in PfContents : Upload(c))
  BY DEF PfNext, JobStep, pfVars, PfRest, FeedChanges, Expires, FeedFetched, Prepare,
     PrepareCopies, PrepareInspects, Accept, Uninstall, JobBegins, Unpack, Compare,
     ClearPrevious, SwapOut, SwapIn, HookSucceeds, HookFails, Unmark, Clean, MarkFailed,
     DropNew, PutBack, MarkOld, Unhook, Drop, Killed, Concluded, StartRuntime, RemovalCutOff
<1> QED
  BY <1>1, <1>2, <1>3

\* The feed lists what its owner served.
LEMMA FeedKept ==
    ASSUME FeedOK, [PfNext]_pfVars
    PROVE  FeedOK'
<1> USE DEF FeedOK, PfMaybe
<1>1. CASE UNCHANGED fFeed
  BY <1>1
<1>2. ASSUME NEW c \in PfContents, FeedChanges(c)
      PROVE  FeedOK'
  BY <1>2 DEF FeedChanges, PfFails
<1>3. CASE FeedFetched
  BY <1>3 DEF FeedFetched
<1>4. \/ UNCHANGED fFeed
      \/ (\E c \in PfContents : FeedChanges(c)) \/ FeedFetched
  BY DEF PfNext, JobStep, pfVars, PfRest, Upload, Expires, Prepare, PrepareCopies,
     PrepareInspects, Accept, Uninstall, JobBegins, Unpack, Compare, ClearPrevious, SwapOut,
     SwapIn, HookSucceeds, HookFails, Unmark, Clean, MarkFailed, DropNew, PutBack, MarkOld,
     Unhook, Drop, Killed, Concluded, StartRuntime, RemovalCutOff
<1> QED
  BY <1>1, <1>2, <1>3, <1>4

\* Prepared archives are fresh, old or swept.
LEMMA StoreKept ==
    ASSUME StoreOK, FeedOK, JobOK, fUpload \in PfMaybe, [PfNext]_pfVars
    PROVE  StoreOK'
<1> USE DEF StoreOK
<1>1. CASE UNCHANGED fStore
  BY <1>1
<1>2. ASSUME NEW c \in PfContents, Expires(c)
      PROVE  StoreOK'
  BY <1>2 DEF Expires
<1>3. ASSUME NEW s \in {"upload", "feed"}, Prepare(s)
      PROVE  StoreOK'
  BY <1>3 DEF Prepare, PfAsked, Swept
<1>4. CASE PrepareCopies
  BY <1>4 DEF PrepareCopies, NoOffer
<1>5. CASE Clean
  BY <1>5 DEF Clean, JobAt, JobTo, JobResult
<1>6. \/ UNCHANGED fStore
      \/ (\E c \in PfContents : Expires(c))
      \/ (\E s \in {"upload", "feed"} : Prepare(s)) \/ PrepareCopies \/ Clean
  BY DEF PfNext, JobStep, pfVars, PfRest, Upload, FeedChanges, FeedFetched, PrepareInspects,
     Accept, Uninstall, JobBegins, Unpack, Compare, ClearPrevious, SwapOut, SwapIn,
     HookSucceeds, HookFails, Unmark, MarkFailed, DropNew, PutBack, MarkOld, Unhook, Drop,
     Killed, Concluded, StartRuntime, RemovalCutOff
<1> QED
  BY <1>1, <1>2, <1>3, <1>4, <1>5, <1>6

\* What is offered was prepared.
LEMMA OfferKept ==
    ASSUME OfferOK, FeedOK, fUpload \in PfMaybe, [PfNext]_pfVars
    PROVE  OfferOK'
<1> USE DEF OfferOK, FeedOK, PfMaybe
<1>1. CASE UNCHANGED fOffer
  BY <1>1
<1>2. ASSUME NEW s \in {"upload", "feed"}, Prepare(s)
      PROVE  OfferOK'
  BY <1>2 DEF Prepare, PfAsked, Swept
<1>3. CASE PrepareCopies
  BY <1>3 DEF PrepareCopies, NoOffer
<1>4. CASE PrepareInspects
  BY <1>4 DEF PrepareInspects, NoOffer, Recover, RecoveredTree, Unlocked
<1>5. CASE Accept
  BY <1>5 DEF Accept, NoOffer
<1>6. \/ UNCHANGED fOffer
      \/ (\E s \in {"upload", "feed"} : Prepare(s)) \/ PrepareCopies \/ PrepareInspects
      \/ Accept
  BY DEF PfNext, JobStep, pfVars, PfRest, Upload, FeedChanges, Expires, FeedFetched, Uninstall,
     JobBegins, Unpack, Compare, ClearPrevious, SwapOut, SwapIn, HookSucceeds, HookFails,
     Unmark, Clean, MarkFailed, DropNew, PutBack, MarkOld, Unhook, Drop, Killed, Concluded,
     StartRuntime, RemovalCutOff
<1> QED
  BY <1>1, <1>2, <1>3, <1>4, <1>5, <1>6

\* A job goes through the steps of its kind.
LEMMA JobKept ==
    ASSUME JobOK, OfferOK, [PfNext]_pfVars
    PROVE  JobOK'
<1> USE DEF JobOK, OfferOK, InstallSteps, RemoveSteps, PfMaybe
<1>1. CASE UNCHANGED fJob
  BY <1>1
<1>2. CASE Accept
  BY <1>2 DEF Accept, NoOffer
<1>3. CASE Uninstall
  BY <1>3 DEF Uninstall, PfAsked
<1>4. CASE JobBegins
  BY <1>4 DEF JobBegins, JobAt, JobTo, JobResult, Recover, RecoveredTree
<1>5. CASE Unpack
  BY <1>5 DEF Unpack, JobAt, JobTo, JobResult, ArchiveRead
<1>6. CASE Compare
  BY ZenonT(60), <1>6 DEF Compare, JobAt, JobTo, JobResult
<1>7. CASE ClearPrevious
  BY <1>7 DEF ClearPrevious, JobAt, JobTo, JobResult
<1>8. CASE SwapOut
  BY <1>8 DEF SwapOut, JobAt, JobTo, JobResult
<1>9. CASE SwapIn
  BY <1>9 DEF SwapIn, JobAt, JobTo, JobResult, NewTree
<1>10. CASE HookSucceeds
  BY <1>10 DEF HookSucceeds, JobAt, JobTo, JobResult
<1>11. CASE HookFails
  BY <1>11 DEF HookFails, JobAt, JobTo, JobResult, PfFails
<1>12. CASE Unmark
  BY <1>12 DEF Unmark, JobAt, JobTo, JobResult
<1>13. CASE Clean
  BY <1>13 DEF Clean, JobAt, JobTo, JobResult
<1>14. CASE MarkFailed
  BY ZenonT(60), <1>14 DEF MarkFailed, JobAt, JobTo, JobResult, GoesBack
<1>15. CASE DropNew
  BY <1>15 DEF DropNew, JobAt, JobTo, JobResult
<1>16. CASE PutBack
  BY <1>16 DEF PutBack, JobAt, JobTo, JobResult
<1>17. CASE MarkOld
  BY <1>17 DEF MarkOld, JobAt, JobTo, JobResult
<1>18. CASE Unhook
  BY <1>18 DEF Unhook, JobAt, JobTo, JobResult, PfFails
<1>19. CASE Drop
  BY <1>19 DEF Drop, JobAt, JobTo, JobResult
<1>20. CASE Killed
  BY <1>20 DEF Killed, JobAt, JobTo, JobResult, PfFails
<1>21. CASE Concluded
  BY <1>21 DEF Concluded, NoPfJob
<1>22. ASSUME NEW cut \in {"half", "bare"}, NEW marked \in BOOLEAN,
             NEW result \in {"failed", "killed"}, RemovalCutOff(cut, marked, result)
      PROVE  JobOK'
  BY <1>22 DEF RemovalCutOff, CutOff, JobAt, JobTo, JobResult, PfFails, PfRest
<1>23. \/ UNCHANGED fJob
      \/ Accept \/ Uninstall \/ JobBegins \/ Unpack \/ Compare \/ ClearPrevious
      \/ SwapOut \/ SwapIn \/ HookSucceeds \/ HookFails \/ Unmark \/ Clean \/ MarkFailed
      \/ DropNew \/ PutBack \/ MarkOld \/ Unhook \/ Drop \/ Killed \/ Concluded
      \/ CutOffStep
  BY DEF PfNext, CutOffStep, JobStep, pfVars, Upload, FeedChanges, Expires, FeedFetched,
     Prepare,
     PrepareCopies, PrepareInspects, StartRuntime
<1> QED
  BY <1>1, <1>2, <1>3, <1>4, <1>5, <1>6, <1>7, <1>8, <1>9, <1>10, <1>11, <1>12, <1>13, <1>14,
     <1>15, <1>16, <1>17, <1>18, <1>19, <1>20, <1>21, <1>22, <1>23 DEF CutOffStep

\* The trees hold archives' contents and markers.
LEMMA TreesKept ==
    ASSUME TreesOK, JobOK, [PfNext]_pfVars
    PROVE  TreesOK'
<1> USE DEF TreesOK, JobOK, PfTrees, NoTree, Whole, PfMaybe
<1>1. CASE UNCHANGED <<fDest, fPrev>>
  BY <1>1
<1>2. CASE PrepareInspects
  BY <1>2 DEF PrepareInspects, NoOffer, Recover, RecoveredTree, Unlocked
<1>3. CASE JobBegins
  BY <1>3 DEF JobBegins, JobAt, JobTo, JobResult, Recover, RecoveredTree
<1>4. CASE ClearPrevious
  BY <1>4 DEF ClearPrevious, JobAt, JobTo, JobResult
<1>5. CASE SwapOut
  BY <1>5 DEF SwapOut, JobAt, JobTo, JobResult
<1>6. CASE SwapIn
  BY <1>6 DEF SwapIn, JobAt, JobTo, JobResult, NewTree
<1>7. CASE HookSucceeds
  BY <1>7 DEF HookSucceeds, JobAt, JobTo, JobResult
<1>8. CASE Unmark
  BY <1>8 DEF Unmark, JobAt, JobTo, JobResult
<1>9. CASE Clean
  BY <1>9 DEF Clean, JobAt, JobTo, JobResult
<1>10. CASE MarkFailed
  BY <1>10 DEF MarkFailed, JobAt, JobTo, JobResult, GoesBack
<1>11. CASE DropNew
  BY <1>11 DEF DropNew, JobAt, JobTo, JobResult
<1>12. CASE PutBack
  BY <1>12 DEF PutBack, JobAt, JobTo, JobResult
<1>13. CASE MarkOld
  BY <1>13 DEF MarkOld, JobAt, JobTo, JobResult
<1>14. CASE Unhook
  <2>1. CASE UNCHANGED <<fDest, fPrev>>
    BY <2>1
  <2>2. CASE UNCHANGED fPrev /\ fDest' = [fDest EXCEPT !.broken = TRUE]
    BY <2>2
  <2>3. CASE UNCHANGED fDest /\ fPrev' = NoTree
    BY <2>3
  <2> QED
    BY <1>14, <2>1, <2>2, <2>3 DEF Unhook
<1>15. CASE Drop
  BY <1>15 DEF Drop, JobAt, JobTo, JobResult
<1>16. ASSUME NEW cut \in {"half", "bare"}, NEW marked \in BOOLEAN,
             NEW result \in {"failed", "killed"}, RemovalCutOff(cut, marked, result)
      PROVE  TreesOK'
  BY <1>16 DEF RemovalCutOff, CutOff, JobAt, JobTo, JobResult, PfFails, PfRest
<1>17. \/ UNCHANGED <<fDest, fPrev>>
      \/ PrepareInspects \/ JobBegins \/ ClearPrevious \/ SwapOut \/ SwapIn
      \/ HookSucceeds \/ Unmark \/ Clean \/ MarkFailed \/ DropNew \/ PutBack \/ MarkOld
      \/ Unhook \/ Drop
      \/ CutOffStep
  BY DEF PfNext, CutOffStep, JobStep, pfVars, PfRest, Upload, FeedChanges, Expires,
     FeedFetched, Prepare,
     PrepareCopies, Accept, Uninstall, Unpack, Compare, HookFails, Killed, Concluded,
     StartRuntime
<1> QED
  BY <1>1, <1>2, <1>3, <1>4, <1>5, <1>6, <1>7, <1>8, <1>9, <1>10, <1>11, <1>12, <1>13, <1>14,
     <1>15, <1>16, <1>17 DEF CutOffStep

\* The registry names versions.
LEMMA EntryKept ==
    ASSUME EntryOK, OfferOK, [PfNext]_pfVars
    PROVE  EntryOK'
<1> USE DEF EntryOK, OfferOK, PfMaybe
<1>1. CASE UNCHANGED fEntry
  BY <1>1
<1>2. CASE Accept
  BY <1>2 DEF Accept, NoOffer
<1>3. CASE Uninstall
  BY <1>3 DEF Uninstall, PfAsked
<1>4. CASE Concluded
  BY <1>4 DEF Concluded, NoPfJob
<1>5. \/ UNCHANGED fEntry
      \/ Accept \/ Uninstall \/ Concluded
  BY DEF PfNext, JobStep, pfVars, PfRest, Upload, FeedChanges, Expires, FeedFetched, Prepare,
     PrepareCopies, PrepareInspects, JobBegins, Unpack, Compare, ClearPrevious, SwapOut,
     SwapIn, HookSucceeds, HookFails, Unmark, Clean, MarkFailed, DropNew, PutBack, MarkOld,
     Unhook, Drop, Killed, StartRuntime, RemovalCutOff
<1> QED
  BY <1>1, <1>2, <1>3, <1>4, <1>5

\* No bound is passed.
LEMMA LeftKept ==
    ASSUME LeftOK, [PfNext]_pfVars
    PROVE  LeftOK'
<1> USE PfAssumption DEF LeftOK, PfAssumption
<1>1. CASE UNCHANGED pfLeft
  BY <1>1
<1>2. ASSUME NEW c \in PfContents, Upload(c)
      PROVE  LeftOK'
  BY <1>2 DEF Upload, PfFails
<1>3. ASSUME NEW c \in PfContents, FeedChanges(c)
      PROVE  LeftOK'
  BY <1>3 DEF FeedChanges, PfFails
<1>4. ASSUME NEW s \in {"upload", "feed"}, Prepare(s)
      PROVE  LeftOK'
  BY <1>4 DEF Prepare, PfAsked, Swept
<1>5. CASE Uninstall
  BY <1>5 DEF Uninstall, PfAsked
<1>6. CASE HookFails
  BY <1>6 DEF HookFails, JobAt, JobTo, JobResult, PfFails
<1>7. CASE Unhook
  BY <1>7 DEF Unhook, JobAt, JobTo, JobResult, PfFails
<1>8. CASE Killed
  BY <1>8 DEF Killed, JobAt, JobTo, JobResult, PfFails
<1>9. CASE StartRuntime
  BY <1>9 DEF StartRuntime, PfAsked
<1>10. ASSUME NEW cut \in {"half", "bare"}, NEW marked \in BOOLEAN,
             NEW result \in {"failed", "killed"}, RemovalCutOff(cut, marked, result)
      PROVE  LeftOK'
  BY <1>10 DEF RemovalCutOff, CutOff, JobAt, JobTo, JobResult, PfFails, PfRest
<1>11. \/ UNCHANGED pfLeft
      \/ (\E c \in PfContents : Upload(c)) \/ (\E c \in PfContents : FeedChanges(c))
      \/ (\E s \in {"upload", "feed"} : Prepare(s)) \/ Uninstall \/ HookFails \/ Unhook
      \/ Killed \/ StartRuntime
      \/ CutOffStep
  BY DEF PfNext, CutOffStep, JobStep, pfVars, PfRest, Expires, FeedFetched, PrepareCopies,
     PrepareInspects,
     Accept, JobBegins, Unpack, Compare, ClearPrevious, SwapOut, SwapIn, HookSucceeds, Unmark,
     Clean, MarkFailed, DropNew, PutBack, MarkOld, Drop, Concluded
<1> QED
  BY <1>1, <1>2, <1>3, <1>4, <1>5, <1>6, <1>7, <1>8, <1>9, <1>10, <1>11 DEF CutOffStep

\* What was shown are archives.
LEMMA ShownKept ==
    ASSUME ShownOK, ShownInv, OfferOK, [PfNext]_pfVars
    PROVE  ShownOK'
<1> USE DEF ShownOK, ShownInv
<1>1. CASE UNCHANGED fShown
  BY <1>1
<1>2. CASE PrepareInspects
  BY <1>2 DEF PrepareInspects, NoOffer, Recover, RecoveredTree, Unlocked
<1>3. \/ UNCHANGED fShown
      \/ PrepareInspects
  BY DEF PfNext, JobStep, pfVars, PfRest, Upload, FeedChanges, Expires, FeedFetched, Prepare,
     PrepareCopies, Accept, Uninstall, JobBegins, Unpack, Compare, ClearPrevious, SwapOut,
     SwapIn, HookSucceeds, HookFails, Unmark, Clean, MarkFailed, DropNew, PutBack, MarkOld,
     Unhook, Drop, Killed, Concluded, StartRuntime, RemovalCutOff
<1> QED
  BY <1>1, <1>2, <1>3

\* An install has succeeded, or not.
LEMMA GoodKept ==
    ASSUME fGood \in BOOLEAN, TreesOK, [PfNext]_pfVars
    PROVE  (fGood \in BOOLEAN)'
<1> USE DEF TreesOK, PfTrees, Present, Good
<1>1. CASE UNCHANGED fGood
  BY <1>1
<1>2. CASE ClearPrevious
  BY <1>2 DEF ClearPrevious, JobAt, JobTo, JobResult
<1>3. CASE HookSucceeds
  BY <1>3 DEF HookSucceeds, JobAt, JobTo, JobResult
<1>4. CASE Unhook
  BY <1>4 DEF Unhook, JobAt, JobTo, JobResult, PfFails
<1>5. CASE Drop
  BY <1>5 DEF Drop, JobAt, JobTo, JobResult
<1>6. ASSUME NEW cut \in {"half", "bare"}, NEW marked \in BOOLEAN,
             NEW result \in {"failed", "killed"}, RemovalCutOff(cut, marked, result)
      PROVE  (fGood \in BOOLEAN)'
  BY <1>6 DEF RemovalCutOff, CutOff, JobAt, JobTo, JobResult, PfFails, PfRest
<1>7. \/ UNCHANGED fGood
      \/ ClearPrevious \/ HookSucceeds \/ Unhook \/ Drop
      \/ CutOffStep
  BY DEF PfNext, CutOffStep, JobStep, pfVars, PfRest, Upload, FeedChanges, Expires,
     FeedFetched, Prepare,
     PrepareCopies, PrepareInspects, Accept, Uninstall, JobBegins, Unpack, Compare, SwapOut,
     SwapIn, HookFails, Unmark, Clean, MarkFailed, DropNew, PutBack, MarkOld, Killed,
     Concluded, StartRuntime
<1> QED
  BY <1>1, <1>2, <1>3, <1>4, <1>5, <1>6, <1>7 DEF CutOffStep

\* Every step keeps the types.
LEMMA TypesKept ==
    ASSUME PfTypeOK, ShownInv, [PfNext]_pfVars
    PROVE  PfTypeOK'
<1>1. FeedOK /\ StoreOK /\ OfferOK /\ JobOK /\ TreesOK /\ EntryOK /\ LeftOK /\ ShownOK
  BY DEF PfTypeOK, FeedOK, StoreOK, OfferOK, JobOK, TreesOK, EntryOK, LeftOK, ShownOK
<1>2. FeedOK' /\ StoreOK' /\ OfferOK' /\ JobOK' /\ TreesOK' /\ EntryOK' /\ LeftOK' /\ ShownOK'
  BY <1>1, FeedKept, StoreKept, OfferKept, JobKept, TreesKept, EntryKept, LeftKept, ShownKept
  DEF PfTypeOK
<1>3. fUpload' \in PfMaybe /\ fGood' \in BOOLEAN
  BY <1>1, UploadKept, GoodKept DEF PfTypeOK
<1> QED
  BY <1>2, <1>3
  DEF PfTypeOK, FeedOK, StoreOK, OfferOK, JobOK, TreesOK, EntryOK, LeftOK, ShownOK

-------------------------------------------------------------------------------
(* Every step keeps the invariant.                                             *)

\* What is offered, unpacked and moved into place was shown.
LEMMA ShownInvKept ==
    ASSUME ShownInv, OfferOK, JobOK, TreesOK, ShownOK, FeedOK, fUpload \in PfMaybe,
           [PfNext]_pfVars
    PROVE  ShownInv'
<1> USE PfAssumption DEF ShownInv, OfferOK, JobOK, TreesOK, ShownOK, PfMaybe, PfTrees, NoTree,
   Whole,
    Present, NoContent, PfAssumption
<1>1. CASE UNCHANGED <<fOffer, fJob, fDest, fPrev, fShown>>
  BY <1>1
<1>2. ASSUME NEW s \in {"upload", "feed"}, Prepare(s)
      PROVE  ShownInv'
  BY <1>2 DEF Prepare, PfAsked, Swept
<1>3. CASE PrepareCopies
  BY <1>3 DEF PrepareCopies, NoOffer, FeedOK
<1>4. CASE PrepareInspects
  BY <1>4 DEF PrepareInspects, NoOffer, Recover, RecoveredTree, Unlocked
<1>5. CASE Accept
  BY <1>5 DEF Accept, NoOffer
<1>6. CASE Uninstall
  BY <1>6 DEF Uninstall, PfAsked
<1>7. CASE JobBegins
  BY <1>7 DEF JobBegins, JobAt, JobTo, JobResult, Recover, RecoveredTree, PfRest
<1>8. CASE Unpack
  BY <1>8 DEF Unpack, JobAt, JobTo, JobResult, ArchiveRead, PfRest
<1>9. CASE Compare
  BY <1>9 DEF Compare, JobAt, JobTo, JobResult, PfRest
<1>10. CASE ClearPrevious
  BY <1>10 DEF ClearPrevious, JobAt, JobTo, JobResult, PfRest
<1>11. CASE SwapOut
  BY <1>11 DEF SwapOut, JobAt, JobTo, JobResult, PfRest
<1>12. CASE SwapIn
  BY <1>12 DEF SwapIn, JobAt, JobTo, JobResult, NewTree, PfRest
<1>13. CASE HookSucceeds
  BY <1>13 DEF HookSucceeds, JobAt, JobTo, JobResult, PfRest
<1>14. CASE HookFails
  BY <1>14 DEF HookFails, JobAt, JobTo, JobResult, PfFails, PfRest
<1>15. CASE Unmark
  BY <1>15 DEF Unmark, JobAt, JobTo, JobResult, PfRest
<1>16. CASE Clean
  BY <1>16 DEF Clean, JobAt, JobTo, JobResult, PfRest
<1>17. CASE MarkFailed
  BY <1>17 DEF MarkFailed, JobAt, JobTo, JobResult, GoesBack, PfRest
<1>18. CASE DropNew
  BY <1>18 DEF DropNew, JobAt, JobTo, JobResult, PfRest
<1>19. CASE PutBack
  BY <1>19 DEF PutBack, JobAt, JobTo, JobResult, PfRest
<1>20. CASE MarkOld
  BY <1>20 DEF MarkOld, JobAt, JobTo, JobResult, PfRest
<1>21. CASE Unhook
  <2>1. CASE fJob.kind = "remove" /\ fJob' = [fJob EXCEPT !.at = "drop"]
            /\ UNCHANGED <<fDest, fPrev, fShown, fOffer, fGood>>
    BY <2>1
  <2>2. CASE UNCHANGED <<fPrev, fShown, fOffer, fGood>>
            /\ fDest' = [fDest EXCEPT !.broken = TRUE]
            /\ fJob' = [fJob EXCEPT !.at = "over", !.result = "failed"]
    BY <2>2
  <2>3. CASE UNCHANGED <<fDest, fShown, fOffer>> /\ fPrev' = NoTree /\ ~fGood'
            /\ fJob' = [fJob EXCEPT !.at = "over", !.result = "ok"]
    BY <2>3
  <2>4. CASE fJob' = [fJob EXCEPT !.at = "over", !.result = "failed"]
            /\ UNCHANGED <<fDest, fPrev, fShown, fOffer, fGood>>
    BY <2>4
  <2> QED
    BY <1>21, <2>1, <2>2, <2>3, <2>4 DEF Unhook, JobAt, JobTo, JobResult, PfRest
<1>22. CASE Drop
  BY <1>22 DEF Drop, JobAt, JobTo, JobResult, PfRest
<1>23. CASE Killed
  BY <1>23 DEF Killed, JobAt, JobTo, JobResult, PfFails, PfRest
<1>24. CASE Concluded
  BY <1>24 DEF Concluded, NoPfJob
<1>25. ASSUME NEW cut \in {"half", "bare"}, NEW marked \in BOOLEAN,
             NEW result \in {"failed", "killed"}, RemovalCutOff(cut, marked, result)
      PROVE  ShownInv'
  BY <1>25 DEF RemovalCutOff, CutOff, JobAt, JobTo, JobResult, PfFails, PfRest
<1>26. \/ UNCHANGED <<fOffer, fJob, fDest, fPrev, fShown>>
      \/ (\E s \in {"upload", "feed"} : Prepare(s)) \/ PrepareCopies \/ PrepareInspects
      \/ Accept \/ Uninstall \/ JobBegins \/ Unpack \/ Compare \/ ClearPrevious
      \/ SwapOut \/ SwapIn \/ HookSucceeds \/ HookFails \/ Unmark \/ Clean \/ MarkFailed
      \/ DropNew \/ PutBack \/ MarkOld \/ Unhook \/ Drop \/ Killed \/ Concluded
      \/ CutOffStep
  BY DEF PfNext, CutOffStep, JobStep, pfVars, Upload, FeedChanges, Expires, FeedFetched,
     StartRuntime
<1> QED
  BY <1>1, <1>2, <1>3, <1>4, <1>5, <1>6, <1>7, <1>8, <1>9, <1>10, <1>11, <1>12, <1>13, <1>14,
     <1>15, <1>16, <1>17, <1>18, <1>19, <1>20, <1>21, <1>22, <1>23, <1>24, <1>25, <1>26 DEF
     CutOffStep

\* There is a good tree at every step once there is one.
LEMMA KeptInvKept ==
    ASSUME KeptInv, ShownInv, JobOK, TreesOK, ShownOK, [PfNext]_pfVars
    PROVE  KeptInv'
<1> USE PfAssumption DEF KeptInv, ShownInv, JobOK, TreesOK, ShownOK, PfTrees, NoTree, Whole,
   Good,
    Present, NoContent, PfAssumption
<1>1. CASE UNCHANGED <<fGood, fJob, fDest, fPrev>>
  BY <1>1
<1>2. CASE PrepareInspects
  BY <1>2 DEF PrepareInspects, NoOffer, Recover, RecoveredTree, Unlocked
<1>3. CASE Accept
  BY <1>3 DEF Accept, NoOffer
<1>4. CASE Uninstall
  BY <1>4 DEF Uninstall, PfAsked
<1>5. CASE JobBegins
  BY <1>5 DEF JobBegins, JobAt, JobTo, JobResult, Recover, RecoveredTree
<1>6. CASE Unpack
  BY <1>6 DEF Unpack, JobAt, JobTo, JobResult, ArchiveRead
<1>7. CASE Compare
  BY ZenonT(60), <1>7 DEF Compare, JobAt, JobTo, JobResult
<1>8. CASE ClearPrevious
  BY <1>8 DEF ClearPrevious, JobAt, JobTo, JobResult
<1>9. CASE SwapOut
  BY <1>9 DEF SwapOut, JobAt, JobTo, JobResult
<1>10. CASE SwapIn
  BY <1>10 DEF SwapIn, JobAt, JobTo, JobResult, NewTree
<1>11. CASE HookSucceeds
  BY <1>11 DEF HookSucceeds, JobAt, JobTo, JobResult
<1>12. CASE HookFails
  BY <1>12 DEF HookFails, JobAt, JobTo, JobResult, PfFails
<1>13. CASE Unmark
  BY <1>13 DEF Unmark, JobAt, JobTo, JobResult
<1>14. CASE Clean
  BY <1>14 DEF Clean, JobAt, JobTo, JobResult
<1>15. CASE MarkFailed
  BY <1>15 DEF MarkFailed, JobAt, JobTo, JobResult, GoesBack
<1>16. CASE DropNew
  BY <1>16 DEF DropNew, JobAt, JobTo, JobResult
<1>17. CASE PutBack
  BY <1>17 DEF PutBack, JobAt, JobTo, JobResult
<1>18. CASE MarkOld
  BY <1>18 DEF MarkOld, JobAt, JobTo, JobResult
<1>19. CASE Unhook
  <2>1. CASE fJob.kind = "remove" /\ fJob' = [fJob EXCEPT !.at = "drop"]
            /\ UNCHANGED <<fDest, fPrev, fShown, fOffer, fGood>>
    BY <2>1
  <2>2. CASE UNCHANGED <<fPrev, fShown, fOffer, fGood>>
            /\ fDest' = [fDest EXCEPT !.broken = TRUE]
            /\ fJob' = [fJob EXCEPT !.at = "over", !.result = "failed"]
    BY <2>2
  <2>3. CASE UNCHANGED <<fDest, fShown, fOffer>> /\ fPrev' = NoTree /\ ~fGood'
            /\ fJob' = [fJob EXCEPT !.at = "over", !.result = "ok"]
    BY <2>3
  <2>4. CASE fJob' = [fJob EXCEPT !.at = "over", !.result = "failed"]
            /\ UNCHANGED <<fDest, fPrev, fShown, fOffer, fGood>>
    BY <2>4
  <2> QED
    BY <1>19, <2>1, <2>2, <2>3, <2>4 DEF Unhook, JobAt, JobTo, JobResult, PfRest
<1>20. CASE Drop
  BY <1>20 DEF Drop, JobAt, JobTo, JobResult
<1>21. CASE Killed
  BY <1>21 DEF Killed, JobAt, JobTo, JobResult, PfFails
<1>22. CASE Concluded
  BY <1>22 DEF Concluded, NoPfJob
<1>23. ASSUME NEW cut \in {"half", "bare"}, NEW marked \in BOOLEAN,
             NEW result \in {"failed", "killed"}, RemovalCutOff(cut, marked, result)
      PROVE  KeptInv'
  <2>1. fJob' = [fJob EXCEPT !.at = "over", !.result = result] /\ fJob'.at = "over"
    BY <1>23 DEF RemovalCutOff, JobResult
  <2>2. CASE fPrev' = CutOff(fPrev, cut, marked) /\ UNCHANGED fDest
             /\ (fGood' => fGood) /\ (fGood' => Good(fDest))
    BY <2>1, <2>2
  <2>3. CASE ~fGood'
    BY <2>1, <2>3
  <2>4. CASE fGood /\ UNCHANGED fPrev /\ UNCHANGED fGood /\ fJob.at = "dropNew"
    BY <2>1, <2>4
  <2>5. fJob.at = "clean" => Good(fDest)
    OBVIOUS
  <2>6. \/ fPrev' = CutOff(fPrev, cut, marked) /\ UNCHANGED fDest
              /\ (fGood' <=> fGood /\ Good(fDest))
        \/ fPrev' = CutOff(fPrev, cut, marked) /\ UNCHANGED <<fDest, fGood>>
              /\ fJob.at = "clean"
        \/ UNCHANGED <<fPrev, fGood>> /\ fJob.at = "dropNew"
        \/ ~fGood'
    BY <1>23 DEF RemovalCutOff, JobAt
  <2> QED
    BY <2>2, <2>3, <2>4, <2>5, <2>6
<1>24. \/ UNCHANGED <<fGood, fJob, fDest, fPrev>>
      \/ PrepareInspects \/ Accept \/ Uninstall \/ JobBegins \/ Unpack \/ Compare
      \/ ClearPrevious \/ SwapOut \/ SwapIn \/ HookSucceeds \/ HookFails \/ Unmark
      \/ Clean \/ MarkFailed \/ DropNew \/ PutBack \/ MarkOld \/ Unhook \/ Drop
      \/ Killed \/ Concluded
      \/ CutOffStep
  BY DEF PfNext, CutOffStep, JobStep, pfVars, Upload, FeedChanges, Expires, FeedFetched,
     Prepare,
     PrepareCopies, StartRuntime
<1> QED
  BY <1>1, <1>2, <1>3, <1>4, <1>5, <1>6, <1>7, <1>8, <1>9, <1>10, <1>11, <1>12, <1>13, <1>14,
     <1>15, <1>16, <1>17, <1>18, <1>19, <1>20, <1>21, <1>22, <1>23, <1>24 DEF CutOffStep

\* Only a tree whose hook has succeeded loses the marker.
LEMMA WholeKept ==
    ASSUME WholeInv, KeptInv, TreesOK, [PfNext]_pfVars
    PROVE  WholeInv'
<1> USE DEF WholeInv, Marked, KeptInv, TreesOK, PfTrees, NoTree, Whole, Present, NoContent
<1>1. CASE UNCHANGED <<fDest, fPrev>>
  BY <1>1
<1>2. CASE PrepareInspects
  BY <1>2 DEF PrepareInspects, NoOffer, Recover, RecoveredTree, Unlocked
<1>3. CASE JobBegins
  BY <1>3 DEF JobBegins, JobAt, JobTo, JobResult, Recover, RecoveredTree
<1>4. CASE ClearPrevious
  BY <1>4 DEF ClearPrevious, JobAt, JobTo, JobResult
<1>5. CASE SwapOut
  BY <1>5 DEF SwapOut, JobAt, JobTo, JobResult
<1>6. CASE SwapIn
  BY <1>6 DEF SwapIn, JobAt, JobTo, JobResult, NewTree
<1>7. CASE HookSucceeds
  BY <1>7 DEF HookSucceeds, JobAt, JobTo, JobResult
<1>8. CASE Unmark
  BY <1>8 DEF Unmark, JobAt, JobTo, JobResult
<1>9. CASE Clean
  BY <1>9 DEF Clean, JobAt, JobTo, JobResult
<1>10. CASE MarkFailed
  BY <1>10 DEF MarkFailed, JobAt, JobTo, JobResult, GoesBack
<1>11. CASE DropNew
  BY <1>11 DEF DropNew, JobAt, JobTo, JobResult
<1>12. CASE PutBack
  BY <1>12 DEF PutBack, JobAt, JobTo, JobResult
<1>13. CASE MarkOld
  BY <1>13 DEF MarkOld, JobAt, JobTo, JobResult
<1>14. CASE Unhook
  BY <1>14 DEF Unhook, JobAt, JobTo, JobResult, PfFails
<1>15. CASE Drop
  BY <1>15 DEF Drop, JobAt, JobTo, JobResult
<1>16. ASSUME NEW cut \in {"half", "bare"}, NEW marked \in BOOLEAN,
             NEW result \in {"failed", "killed"}, RemovalCutOff(cut, marked, result)
      PROVE  WholeInv'
  BY <1>16 DEF RemovalCutOff, CutOff, JobAt, JobTo, JobResult, PfFails, PfRest
<1>17. \/ UNCHANGED <<fDest, fPrev>>
      \/ PrepareInspects \/ JobBegins \/ ClearPrevious \/ SwapOut \/ SwapIn
      \/ HookSucceeds \/ Unmark \/ Clean \/ MarkFailed \/ DropNew \/ PutBack \/ MarkOld
      \/ Unhook \/ Drop
      \/ CutOffStep
  BY DEF PfNext, CutOffStep, JobStep, pfVars, PfRest, Upload, FeedChanges, Expires,
     FeedFetched, Prepare,
     PrepareCopies, Accept, Uninstall, Unpack, Compare, HookFails, Killed, Concluded,
     StartRuntime
<1> QED
  BY <1>1, <1>2, <1>3, <1>4, <1>5, <1>6, <1>7, <1>8, <1>9, <1>10, <1>11, <1>12, <1>13, <1>14,
     <1>15, <1>16, <1>17 DEF CutOffStep

LEMMA PfInvKept ==
    ASSUME PfInv, [PfNext]_pfVars
    PROVE  PfInv'
<1>1. FeedOK /\ OfferOK /\ JobOK /\ TreesOK /\ ShownOK /\ fUpload \in PfMaybe
  BY DEF PfInv, PfTypeOK, FeedOK, OfferOK, JobOK, TreesOK, ShownOK
<1> QED
  BY <1>1, TypesKept, ShownInvKept, KeptInvKept, WholeKept DEF PfInv

\* The store begins empty.
LEMMA PfInvAtFirst ==
    ASSUME PfInit
    PROVE  PfInv
<1> USE PfAssumption DEF PfAssumption, PfInit
<1>1. FeedOK /\ StoreOK /\ fUpload \in PfMaybe
  BY DEF FeedOK, StoreOK, PfMaybe
<1>2. OfferOK /\ JobOK
  BY DEF OfferOK, JobOK, NoOffer, NoPfJob, PfMaybe
<1>3. TreesOK /\ EntryOK
  BY DEF TreesOK, EntryOK, PfTrees, NoTree, Whole, PfMaybe
<1>4. LeftOK /\ ShownOK
  BY DEF LeftOK, ShownOK
<1>5. fGood \in BOOLEAN
  OBVIOUS
<1>6. PfTypeOK
  BY <1>1, <1>2, <1>3, <1>4, <1>5
  DEF PfTypeOK, FeedOK, StoreOK, OfferOK, JobOK, TreesOK, EntryOK, LeftOK, ShownOK
<1>7. ShownInv
  BY DEF ShownInv, NoOffer, NoPfJob, NoTree, Whole, Present
<1>8. KeptInv
  BY DEF KeptInv, NoPfJob
<1>9. WholeInv
  BY DEF WholeInv, Marked, NoTree, Whole, Present
<1> QED
  BY <1>6, <1>7, <1>8, <1>9 DEF PfInv

-------------------------------------------------------------------------------
\* The invariant holds of every behaviour of the package store.
THEOREM PfInvHolds == PfSpec => []PfInv
<1> QED
  BY PfInvAtFirst, PfInvKept, PTL DEF PfSpec

\* The state keeps its types; no tree is in place, live or previous, that the
\* operator was not shown the manifest of; a version that was installed is on
\* disk with all its files, wherever an exchange or the removal of another tree is
\* cut off, until its own removal begins or it is replaced by one whose hook has
\* succeeded; and a plugin is started only from a tree whose hook has succeeded or
\* whose own removal was cut off (plugins.rs install, recover, remove_tree,
\* runtime.rs start).
THEOREM PackagePromisesHold == PfSpec => PackagePromises
<1>1. ASSUME PfInv
      PROVE  PfTypeOK /\ InstalledWasShown /\ InstalledIsKept
  BY <1>1 DEF PfInv, ShownInv, KeptInv, InstalledWasShown, InstalledIsKept, Good
<1>2. ASSUME PfInv, [PfNext]_pfVars
      PROVE  [StartRuntime => fDest.done \/ fDest.cut = "half"]_pfVars
  <2>1. StartRuntime => fDest.cut \in {"whole", "half"} /\ (fDest.done \/ fDest.cut # "whole")
    BY <1>2 DEF PfInv, PfTypeOK, PfTrees, WholeInv, Marked, StartRuntime, Startable
  <2> QED
    BY <2>1
<1> QED
  BY <1>1, <1>2, PfInvHolds, PTL DEF PfSpec, PackagePromises, StartedIsWhole

--------------------------------------------------------------------------------
(* Restore and undo.                                                           *)

\* Restore and undo by themselves.
BkSpec == BkInit /\ [][BkNext]_bkVars

-------------------------------------------------------------------------------
(* The inductive invariant.                                                    *)

\* The restore under way, one part at a time.
Operations ==
    [at : {"idle", "begin", "capture", "write", "send", "auth", "plugins", "stage", "reply"},
     kind : {"apply", "undo"}, doc : BkDocuments, base : Nat, seen : BkDocuments,
     prev : BkDocuments]
OpOK == bkOp \in Operations /\ bkRev \in Nat
DocOK == bkDoc \in [BkSections -> BkValues]
SnapsOK == bkSnaps \in Seq(BkDocuments) /\ Len(bkSnaps) <= SnapshotCap
ImportOK == bkImport \in [doc : BkDocuments, fresh : BOOLEAN, there : BOOLEAN]
PendingOK == bkPending \in BkValues \cup {Missing}

\* What was read is what the device has, as long as the revision is the one read.
SeenInv ==
    bkOp.at \in {"capture", "write", "send"} =>
        /\ bkOp.base <= bkRev
        /\ bkRev = bkOp.base =>
               bkOp.seen["settings"] = bkDoc["settings"] /\ bkOp.seen["net"] = bkDoc["net"]

\* What is about to be saved has the settings and the network that were read.
PrevInv ==
    bkOp.at \in {"write", "send"} =>
        /\ bkOp.prev["settings"] = bkOp.seen["settings"]
        /\ bkOp.prev["net"] = bkOp.seen["net"]

\* The newest snapshot is the one of the restore under way.
Newest == bkSnaps[Len(bkSnaps)]
SavedInv ==
    /\ bkOp.at = "send" => bkSnaps # <<>> /\ Newest = bkOp.prev
    /\ bkOp.at \in {"auth", "plugins", "stage", "reply"} =>
           bkSnaps # <<>> /\ Newest["settings"] = bkBefore

BkInv ==
    OpOK /\ DocOK /\ SnapsOK /\ ImportOK /\ PendingOK /\ SeenInv /\ PrevInv /\ SavedInv

-------------------------------------------------------------------------------
(* Facts about documents and snapshots.                                        *)

\* However many snapshots are kept, the newest one is.
LEMMA PrunedKeepsNewest ==
    ASSUME NEW S, NEW files \in Seq(S), files # <<>>
    PROVE  /\ Pruned(files) \in Seq(S) /\ Pruned(files) # <<>>
           /\ Len(Pruned(files)) <= SnapshotCap
           /\ Pruned(files)[Len(Pruned(files))] = files[Len(files)]
<1> DEFINE n == Len(files)
           m == IF n > SnapshotCap THEN n - SnapshotCap + 1 ELSE 1
<1>1. n \in Nat /\ n >= 1
  BY EmptySeq, LenProperties
<1>2. SnapshotCap \in Nat /\ SnapshotCap >= 1
  BY BkAssumption DEF BkAssumption
<1>3. m \in 1 .. n /\ n - m + 1 <= SnapshotCap /\ n - m + 1 >= 1
  BY <1>1, <1>2
<1> HIDE DEF m
<1>4. /\ SubSeq(files, m, n) \in Seq(S)
      /\ Len(SubSeq(files, m, n)) = n - m + 1
      /\ SubSeq(files, m, n)[n - m + 1] = files[m + (n - m + 1) - 1]
  <2>1. m \in 1 .. Len(files) + 1 /\ n \in m - 1 .. Len(files)
    BY <1>1, <1>3
  <2>2. n - m + 1 \in 1 .. n - m + 1
    BY <1>1, <1>3
  <2> QED
    BY <1>1, <1>3, <2>1, <2>2, SubSeqProperties
<1>5. m + (n - m + 1) - 1 = n
  BY <1>1, <1>3
<1>6. Pruned(files) = SubSeq(files, m, n)
  BY DEF Pruned, m
<1> QED
  BY <1>1, <1>3, <1>4, <1>5, <1>6

\* A document with some sections replaced is a document.
LEMMA DocumentWith ==
    ASSUME NEW doc \in BkDocuments, NEW s \in BkSections, NEW v \in BkValues \cup {Missing}
    PROVE  [doc EXCEPT ![s] = v] \in BkDocuments
  BY DEF BkDocuments

\* What an import puts into a section is a value.
LEMMA PutIsValue ==
    ASSUME OpOK, DocOK, NEW s \in BkSections
    PROVE  Put(s) \in BkValues
<1>1. bkOp.doc[s] \in BkValues \cup {Missing} /\ bkDoc[s] \in BkValues
  BY DEF OpOK, Operations, DocOK, BkDocuments
<1> QED
  BY <1>1 DEF Put

\* A document without any section is a document, and nothing under way is an
\* operation.
LEMMA NothingIsDocument == NoDocument \in BkDocuments /\ NoOp \in Operations
<1>1. NoDocument \in BkDocuments
  BY DEF NoDocument, BkDocuments
<1> QED
  BY <1>1 DEF NoOp, Operations

\* What is captured is a document.
LEMMA CapturedIsDocument ==
    ASSUME OpOK, DocOK, NEW plugin \in {bkDoc["plugin"], Missing}
    PROVE  Captured(plugin) \in BkDocuments
<1>1. bkOp.seen \in BkDocuments
  BY DEF OpOK, Operations
<1>2. bkDoc["plugin"] \in BkValues /\ bkDoc["auth"] \in BkValues
  BY DEF DocOK, BkSections
<1>3. plugin \in BkValues \cup {Missing} /\ "plugin" \in BkSections /\ "auth" \in BkSections
  BY <1>2 DEF BkSections
<1>4. [bkOp.seen EXCEPT !["plugin"] = plugin] \in BkDocuments
  BY <1>1, <1>3, DocumentWith
<1>5. [[bkOp.seen EXCEPT !["plugin"] = plugin] EXCEPT !["auth"] = bkDoc["auth"]] \in BkDocuments
  BY <1>2, <1>3, <1>4, DocumentWith
<1> QED
  BY <1>5 DEF Captured

\* So is what an inspection accepts.
LEMMA InspectedIsDocument ==
    ASSUME NEW v \in BkValues, NEW w \in BkValues \cup {Missing}
    PROVE  [settings |-> v, plugin |-> w, auth |-> w, net |-> w] \in BkDocuments
  BY DEF BkDocuments, BkSections

-------------------------------------------------------------------------------
(* Every step keeps the values in their sets.                                  *)

\* The device has a value in each section.
LEMMA DocKept ==
    ASSUME DocOK, OpOK, PendingOK, [BkNext]_bkVars
    PROVE  DocOK'
<1> USE PutIsValue DEF DocOK, PendingOK
<1>1. CASE UNCHANGED bkDoc
  BY <1>1
<1>2. ASSUME NEW v \in BkValues, OtherPassword(v)
      PROVE  DocOK'
  BY <1>2 DEF OtherPassword
<1>3. ASSUME NEW s \in BkSections, NEW v \in BkValues, OtherChange(s, v)
      PROVE  DocOK'
  BY <1>3 DEF OtherChange
<1>4. CASE NetworkDecided
  BY <1>4 DEF NetworkDecided
<1>5. CASE SendImport
  BY <1>5 DEF SendImport, RestoreAt, Goes, OpEnds, NoOp, AtRevisionRead
<1>6. CASE ImportAuth
  BY <1>6 DEF ImportAuth, RestoreAt, Goes, OpEnds, NoOp
<1>7. CASE ImportPlugin
  BY <1>7 DEF ImportPlugin, RestoreAt, Goes, OpEnds, NoOp
<1>8. \/ UNCHANGED bkDoc
      \/ (\E v \in BkValues : OtherPassword(v))
      \/ (\E v \in BkValues, s \in BkSections : OtherChange(s, v)) \/ NetworkDecided
      \/ SendImport \/ ImportAuth \/ ImportPlugin
  BY DEF BkNext, RestoreStep, bkVars, bkBounds, OtherStages, Inspect, ImportExpires,
     ApplyBackup, UndoRestore, Begin, ReadState, NotConfirmed, Capture, WriteSnapshot,
     ImportConflict, StageNetwork, Answer, StepFails, BkCrash, BkRest
<1> QED
  BY <1>1, <1>2, <1>3, <1>4, <1>5, <1>6, <1>7, <1>8

\* A staged network is a value.
LEMMA PendingKept ==
    ASSUME PendingOK, OpOK, [BkNext]_bkVars
    PROVE  PendingOK'
<1> USE DEF PendingOK
<1>1. CASE UNCHANGED bkPending
  BY <1>1
<1>2. CASE NetworkDecided
  BY <1>2 DEF NetworkDecided
<1>3. ASSUME NEW v \in BkValues, OtherStages(v)
      PROVE  PendingOK'
  BY <1>3 DEF OtherStages
<1>4. CASE StageNetwork
  <2>1. bkOp.doc["net"] \in BkValues \cup {Missing}
    BY DEF OpOK, Operations, BkDocuments, BkSections
  <2> QED
    BY <1>4, <2>1 DEF StageNetwork
<1>5. \/ UNCHANGED bkPending
      \/ NetworkDecided \/ (\E v \in BkValues : OtherStages(v)) \/ StageNetwork
  BY DEF BkNext, RestoreStep, bkVars, bkBounds, OtherPassword, OtherChange, Inspect,
     ImportExpires, ApplyBackup, UndoRestore, Begin, ReadState, NotConfirmed, Capture,
     WriteSnapshot, SendImport, ImportConflict, ImportAuth, ImportPlugin, Answer, StepFails,
     BkCrash, BkRest
<1> QED
  BY <1>1, <1>2, <1>3, <1>4, <1>5

\* The upload is a document.
LEMMA ImportKept ==
    ASSUME ImportOK, [BkNext]_bkVars
    PROVE  ImportOK'
<1> USE NothingIsDocument, InspectedIsDocument DEF ImportOK
<1>1. CASE UNCHANGED bkImport
  BY <1>1
<1>2. ASSUME NEW v \in BkValues, NEW w \in BkValues \cup {Missing}, Inspect([settings |-> v,
     plugin |-> w, auth |-> w, net |-> w])
      PROVE  ImportOK'
  BY <1>2 DEF Inspect
<1>3. CASE ImportExpires
  BY <1>3 DEF ImportExpires
<1>4. CASE Answer
  BY <1>4 DEF Answer, NoImport
<1>5. \/ UNCHANGED bkImport

      \/ (\E v \in BkValues, w \in BkValues \cup {Missing} :
           Inspect([settings |-> v, plugin |-> w, auth |-> w, net |-> w]))
      \/ ImportExpires \/ Answer
  BY DEF BkNext, RestoreStep, bkVars, bkBounds, OtherPassword, OtherChange, NetworkDecided,
     OtherStages, ApplyBackup, UndoRestore, Begin, ReadState, NotConfirmed, Capture,
     WriteSnapshot, SendImport, ImportConflict, ImportAuth, ImportPlugin, StageNetwork,
     StepFails, BkCrash, BkRest
<1> QED
  BY <1>1, <1>2, <1>3, <1>4, <1>5

\* A restore goes through its steps with documents.
LEMMA OpKept ==
    ASSUME OpOK, DocOK, ImportOK, SnapsOK, [BkNext]_bkVars
    PROVE  OpOK'
<1> USE NothingIsDocument DEF OpOK, Operations
<1>1. CASE UNCHANGED <<bkOp, bkRev>>
  BY <1>1
<1>2. ASSUME NEW s \in BkSections, NEW v \in BkValues, OtherChange(s, v)
      PROVE  OpOK'
  BY <1>2 DEF OtherChange
<1>3. CASE NetworkDecided
  BY <1>3 DEF NetworkDecided
<1>4. CASE ApplyBackup
  BY <1>4 DEF ApplyBackup, Begin, ImportOK
<1>5. CASE UndoRestore
  <2>1. bkSnaps[Len(bkSnaps)] \in BkDocuments
    BY <1>5, EmptySeq, LenProperties DEF UndoRestore, SnapsOK
  <2> QED
    BY <1>5, <2>1 DEF UndoRestore, Begin
<1>6. CASE ReadState
  <2>1. bkDoc \in BkDocuments
    BY DEF DocOK, BkDocuments
  <2> QED
    BY <1>6, <2>1 DEF ReadState, OpEnds
<1>7. CASE NotConfirmed
  BY <1>7 DEF NotConfirmed, RestoreAt, Goes, OpEnds
<1>8. CASE Capture
  <2>1. PICK plugin \in {bkDoc["plugin"], Missing} :
            bkOp' = [bkOp EXCEPT !.at = "write", !.prev = Captured(plugin)]
    BY <1>8 DEF Capture
  <2>2. Captured(plugin) \in BkDocuments
    BY CapturedIsDocument
  <2> QED
    BY <1>8, <2>1, <2>2 DEF Capture
<1>9. CASE WriteSnapshot
  BY <1>9 DEF WriteSnapshot, RestoreAt, Goes, OpEnds
<1>10. CASE SendImport
  BY <1>10 DEF SendImport, RestoreAt, Goes, OpEnds, AtRevisionRead
<1>11. CASE ImportConflict
  BY <1>11 DEF ImportConflict, RestoreAt, Goes, OpEnds
<1>12. CASE ImportAuth
  BY <1>12 DEF ImportAuth, RestoreAt, Goes, OpEnds
<1>13. CASE ImportPlugin
  BY <1>13 DEF ImportPlugin, RestoreAt, Goes, OpEnds
<1>14. CASE StageNetwork
  BY <1>14 DEF StageNetwork, RestoreAt, Goes, OpEnds
<1>15. CASE Answer
  BY <1>15 DEF Answer, RestoreAt, Goes, OpEnds
<1>16. CASE StepFails
  BY <1>16 DEF StepFails, OpEnds, Failing
<1>17. CASE BkCrash
  BY <1>17 DEF BkCrash, OpEnds, Failing
<1>18. \/ UNCHANGED <<bkOp, bkRev>>
      \/ (\E v \in BkValues, s \in BkSections : OtherChange(s, v)) \/ NetworkDecided
      \/ ApplyBackup \/ UndoRestore \/ ReadState \/ NotConfirmed \/ Capture
      \/ WriteSnapshot \/ SendImport \/ ImportConflict \/ ImportAuth \/ ImportPlugin
      \/ StageNetwork \/ Answer \/ StepFails \/ BkCrash
  BY DEF BkNext, RestoreStep, bkVars, bkBounds, OtherPassword, OtherStages, Inspect,
     ImportExpires, BkRest
<1> QED
  BY <1>1, <1>2, <1>3, <1>4, <1>5, <1>6, <1>7, <1>8, <1>9, <1>10, <1>11, <1>12, <1>13, <1>14,
     <1>15, <1>16, <1>17, <1>18

\* The snapshots are documents, and no more than are kept.
LEMMA SnapsKept ==
    ASSUME SnapsOK, OpOK, [BkNext]_bkVars
    PROVE  SnapsOK'
<1> USE DEF SnapsOK
<1>1. CASE UNCHANGED bkSnaps
  BY <1>1
<1>2. CASE WriteSnapshot
  <2>1. bkOp.prev \in BkDocuments
    BY DEF OpOK, Operations
  <2>2. Append(bkSnaps, bkOp.prev) \in Seq(BkDocuments) /\ Append(bkSnaps, bkOp.prev) # <<>>
    BY <2>1, AppendProperties
  <2> QED
    BY <1>2, <2>2, PrunedKeepsNewest DEF WriteSnapshot, SnapshotFirst
<1>3. \/ UNCHANGED bkSnaps
      \/ WriteSnapshot
  BY DEF BkNext, RestoreStep, bkVars, bkBounds, OtherPassword, OtherChange, NetworkDecided,
     OtherStages, Inspect, ImportExpires, ApplyBackup, UndoRestore, Begin, ReadState,
     NotConfirmed, Capture, SendImport, ImportConflict, ImportAuth, ImportPlugin, StageNetwork,
     Answer, StepFails, BkCrash, BkRest
<1> QED
  BY <1>1, <1>2, <1>3

-------------------------------------------------------------------------------
(* Every step keeps the invariant.                                             *)

\* A commit of another session takes a revision with it.
LEMMA SeenKept ==
    ASSUME SeenInv, OpOK, DocOK, [BkNext]_bkVars
    PROVE  SeenInv'
<1> USE DEF SeenInv, OpOK, Operations
<1>1. CASE UNCHANGED <<bkOp, bkRev, bkDoc>>
  BY <1>1
<1>2. ASSUME NEW v \in BkValues, OtherPassword(v)
      PROVE  SeenInv'
  BY <1>2 DEF OtherPassword
<1>3. ASSUME NEW s \in BkSections, NEW v \in BkValues, OtherChange(s, v)
      PROVE  SeenInv'
  BY <1>3 DEF OtherChange
<1>4. CASE NetworkDecided
  BY <1>4 DEF NetworkDecided
<1>5. CASE ApplyBackup
  BY <1>5 DEF ApplyBackup, Begin
<1>6. CASE UndoRestore
  BY <1>6 DEF UndoRestore, Begin
<1>7. CASE ReadState
  <2>1. CASE OpEnds
    BY <2>1 DEF OpEnds, NoOp
  <2>2. CASE bkOp' = [bkOp EXCEPT !.at = "capture", !.base = bkRev, !.seen = bkDoc]
    <3>1. bkOp'.at = "capture" /\ bkOp'.base = bkRev /\ bkOp'.seen = bkDoc
      BY <2>2 DEF OpOK, Operations
    <3>2. UNCHANGED <<bkRev, bkDoc>>
      BY <1>7 DEF ReadState
    <3> QED
      BY <3>1, <3>2
  <2> QED
    BY <1>7, <2>1, <2>2 DEF ReadState
<1>8. CASE NotConfirmed
  BY <1>8 DEF NotConfirmed, RestoreAt, Goes, OpEnds, NoOp
<1>9. CASE Capture
  BY <1>9 DEF Capture, RestoreAt, Goes, OpEnds, NoOp
<1>10. CASE WriteSnapshot
  BY <1>10 DEF WriteSnapshot, RestoreAt, Goes, OpEnds, NoOp
<1>11. CASE SendImport
  BY <1>11 DEF SendImport, RestoreAt, Goes, OpEnds, NoOp, AtRevisionRead
<1>12. CASE ImportConflict
  BY <1>12 DEF ImportConflict, RestoreAt, Goes, OpEnds, NoOp
<1>13. CASE ImportAuth
  BY <1>13 DEF ImportAuth, RestoreAt, Goes, OpEnds, NoOp
<1>14. CASE ImportPlugin
  BY <1>14 DEF ImportPlugin, RestoreAt, Goes, OpEnds, NoOp
<1>15. CASE StageNetwork
  BY <1>15 DEF StageNetwork, RestoreAt, Goes, OpEnds, NoOp
<1>16. CASE Answer
  BY <1>16 DEF Answer, RestoreAt, Goes, OpEnds, NoOp
<1>17. CASE StepFails
  BY <1>17 DEF StepFails, OpEnds, NoOp, Failing
<1>18. CASE BkCrash
  BY <1>18 DEF BkCrash, OpEnds, NoOp, Failing
<1>19. \/ UNCHANGED <<bkOp, bkRev, bkDoc>>
      \/ (\E v \in BkValues : OtherPassword(v))
      \/ (\E v \in BkValues, s \in BkSections : OtherChange(s, v)) \/ NetworkDecided
      \/ ApplyBackup \/ UndoRestore \/ ReadState \/ NotConfirmed \/ Capture
      \/ WriteSnapshot \/ SendImport \/ ImportConflict \/ ImportAuth \/ ImportPlugin
      \/ StageNetwork \/ Answer \/ StepFails \/ BkCrash
  BY DEF BkNext, RestoreStep, bkVars, bkBounds, OtherStages, Inspect, ImportExpires, BkRest
<1> QED
  BY <1>1, <1>2, <1>3, <1>4, <1>5, <1>6, <1>7, <1>8, <1>9, <1>10, <1>11, <1>12, <1>13, <1>14,
     <1>15, <1>16, <1>17, <1>18, <1>19

\* Capturing keeps the settings and the network that were read.
LEMMA PrevKept ==
    ASSUME PrevInv, OpOK, [BkNext]_bkVars
    PROVE  PrevInv'
<1> USE DEF PrevInv, OpOK, Operations
<1>1. CASE UNCHANGED bkOp
  BY <1>1
<1>2. CASE ApplyBackup
  BY <1>2 DEF ApplyBackup, Begin
<1>3. CASE UndoRestore
  BY <1>3 DEF UndoRestore, Begin
<1>4. CASE ReadState
  <2>1. CASE OpEnds
    BY <2>1 DEF OpEnds, NoOp
  <2>2. CASE bkOp' = [bkOp EXCEPT !.at = "capture", !.base = bkRev, !.seen = bkDoc]
    <3>1. bkOp'.at = "capture" /\ bkOp'.base = bkRev /\ bkOp'.seen = bkDoc
      BY <2>2 DEF OpOK, Operations
    <3>2. UNCHANGED <<bkRev, bkDoc>>
      BY <1>4 DEF ReadState
    <3> QED
      BY <3>1, <3>2
  <2> QED
    BY <1>4, <2>1, <2>2 DEF ReadState
<1>5. CASE NotConfirmed
  BY <1>5 DEF NotConfirmed, RestoreAt, Goes, OpEnds, NoOp
<1>6. CASE Capture
  <2>1. PICK plugin \in {bkDoc["plugin"], Missing} :
            bkOp' = [bkOp EXCEPT !.at = "write", !.prev = Captured(plugin)]
    BY <1>6 DEF Capture
  <2>2. bkOp'.prev = Captured(plugin) /\ bkOp'.seen = bkOp.seen
    BY <2>1
  <2>3. Captured(plugin)["settings"] = bkOp.seen["settings"]
        /\ Captured(plugin)["net"] = bkOp.seen["net"]
    BY DEF Captured, BkDocuments, BkSections
  <2> QED
    BY <2>2, <2>3
<1>7. CASE WriteSnapshot
  BY <1>7 DEF WriteSnapshot, RestoreAt, Goes, OpEnds, NoOp
<1>8. CASE SendImport
  BY <1>8 DEF SendImport, RestoreAt, Goes, OpEnds, NoOp, AtRevisionRead
<1>9. CASE ImportConflict
  BY <1>9 DEF ImportConflict, RestoreAt, Goes, OpEnds, NoOp
<1>10. CASE ImportAuth
  BY <1>10 DEF ImportAuth, RestoreAt, Goes, OpEnds, NoOp
<1>11. CASE ImportPlugin
  BY <1>11 DEF ImportPlugin, RestoreAt, Goes, OpEnds, NoOp
<1>12. CASE StageNetwork
  BY <1>12 DEF StageNetwork, RestoreAt, Goes, OpEnds, NoOp
<1>13. CASE Answer
  BY <1>13 DEF Answer, RestoreAt, Goes, OpEnds, NoOp
<1>14. CASE StepFails
  BY <1>14 DEF StepFails, OpEnds, NoOp, Failing
<1>15. CASE BkCrash
  BY <1>15 DEF BkCrash, OpEnds, NoOp, Failing
<1>16. \/ UNCHANGED bkOp
      \/ ApplyBackup \/ UndoRestore \/ ReadState \/ NotConfirmed \/ Capture
      \/ WriteSnapshot \/ SendImport \/ ImportConflict \/ ImportAuth \/ ImportPlugin
      \/ StageNetwork \/ Answer \/ StepFails \/ BkCrash
  BY DEF BkNext, RestoreStep, bkVars, bkBounds, OtherPassword, OtherChange, NetworkDecided,
     OtherStages, Inspect, ImportExpires, BkRest
<1> QED
  BY <1>1, <1>2, <1>3, <1>4, <1>5, <1>6, <1>7, <1>8, <1>9, <1>10, <1>11, <1>12, <1>13, <1>14,
     <1>15, <1>16

\* The snapshot written last stays the newest while its restore is under way.
LEMMA SavedKept ==
    ASSUME SavedInv, PrevInv, SeenInv, OpOK, SnapsOK, [BkNext]_bkVars
    PROVE  SavedInv'
<1> USE DEF SavedInv, PrevInv, SeenInv, OpOK, Operations, Newest
<1>1. CASE UNCHANGED <<bkOp, bkSnaps, bkBefore>>
  BY <1>1
<1>2. CASE ApplyBackup
  BY <1>2 DEF ApplyBackup, Begin
<1>3. CASE UndoRestore
  BY <1>3 DEF UndoRestore, Begin
<1>4. CASE ReadState
  <2>1. CASE OpEnds
    BY <2>1 DEF OpEnds, NoOp
  <2>2. CASE bkOp' = [bkOp EXCEPT !.at = "capture", !.base = bkRev, !.seen = bkDoc]
    <3>1. bkOp'.at = "capture" /\ bkOp'.base = bkRev /\ bkOp'.seen = bkDoc
      BY <2>2 DEF OpOK, Operations
    <3>2. UNCHANGED <<bkRev, bkDoc>>
      BY <1>4 DEF ReadState
    <3> QED
      BY <3>1, <3>2
  <2> QED
    BY <1>4, <2>1, <2>2 DEF ReadState
<1>5. CASE NotConfirmed
  BY <1>5 DEF NotConfirmed, RestoreAt, Goes, OpEnds, NoOp
<1>6. CASE Capture
  BY <1>6 DEF Capture, RestoreAt, Goes, OpEnds, NoOp
<1>7. CASE WriteSnapshot
  <2>1. Append(bkSnaps, bkOp.prev) \in Seq(BkDocuments) /\ Append(bkSnaps, bkOp.prev) # <<>>
        /\ Append(bkSnaps, bkOp.prev)[Len(Append(bkSnaps, bkOp.prev))] = bkOp.prev
    BY AppendProperties DEF SnapsOK
  <2>2. bkSnaps' # <<>> /\ Newest' = bkOp.prev
    BY ZenonT(60), <1>7, <2>1, PrunedKeepsNewest DEF WriteSnapshot, SnapshotFirst
  <2>3. bkOp'.at = "send" /\ bkOp'.prev = bkOp.prev
    BY <1>7 DEF WriteSnapshot, Goes
  <2> QED
    BY <2>2, <2>3
<1>8. CASE SendImport
  BY <1>8 DEF SendImport, RestoreAt, Goes, OpEnds, NoOp, AtRevisionRead
<1>9. CASE ImportConflict
  BY <1>9 DEF ImportConflict, RestoreAt, Goes, OpEnds, NoOp
<1>10. CASE ImportAuth
  BY <1>10 DEF ImportAuth, RestoreAt, Goes, OpEnds, NoOp
<1>11. CASE ImportPlugin
  BY <1>11 DEF ImportPlugin, RestoreAt, Goes, OpEnds, NoOp
<1>12. CASE StageNetwork
  BY <1>12 DEF StageNetwork, RestoreAt, Goes, OpEnds, NoOp
<1>13. CASE Answer
  BY <1>13 DEF Answer, RestoreAt, Goes, OpEnds, NoOp
<1>14. CASE StepFails
  BY <1>14 DEF StepFails, OpEnds, NoOp, Failing
<1>15. CASE BkCrash
  BY <1>15 DEF BkCrash, OpEnds, NoOp, Failing
<1>16. \/ UNCHANGED <<bkOp, bkSnaps, bkBefore>>
      \/ ApplyBackup \/ UndoRestore \/ ReadState \/ NotConfirmed \/ Capture
      \/ WriteSnapshot \/ SendImport \/ ImportConflict \/ ImportAuth \/ ImportPlugin
      \/ StageNetwork \/ Answer \/ StepFails \/ BkCrash
  BY DEF BkNext, RestoreStep, bkVars, bkBounds, OtherPassword, OtherChange, NetworkDecided,
     OtherStages, Inspect, ImportExpires, BkRest
<1> QED
  BY <1>1, <1>2, <1>3, <1>4, <1>5, <1>6, <1>7, <1>8, <1>9, <1>10, <1>11, <1>12, <1>13, <1>14,
     <1>15, <1>16

\* An import is committed at the revision that was read.
LEMMA OnlySendImports ==
    ASSUME OpOK, Importing, [BkNext]_bkVars
    PROVE  AtRevisionRead
<1> USE DEF Importing, OpOK, Operations
<1>1. CASE UNCHANGED bkOp
  BY <1>1
<1>2. CASE ApplyBackup
  BY <1>2 DEF ApplyBackup, Begin
<1>3. CASE UndoRestore
  BY <1>3 DEF UndoRestore, Begin
<1>4. CASE ReadState
  BY <1>4 DEF ReadState, RestoreAt
<1>5. CASE NotConfirmed
  BY <1>5 DEF NotConfirmed, RestoreAt, Goes, OpEnds, NoOp
<1>6. CASE Capture
  BY <1>6 DEF Capture, RestoreAt, Goes, OpEnds, NoOp
<1>7. CASE WriteSnapshot
  BY <1>7 DEF WriteSnapshot, RestoreAt, Goes, OpEnds, NoOp
<1>8. CASE SendImport
  BY <1>8 DEF SendImport, RestoreAt, Goes, OpEnds, NoOp, AtRevisionRead
<1>9. CASE ImportConflict
  BY <1>9 DEF ImportConflict, RestoreAt, Goes, OpEnds, NoOp
<1>10. CASE ImportAuth
  BY <1>10 DEF ImportAuth, RestoreAt, Goes, OpEnds, NoOp
<1>11. CASE ImportPlugin
  BY <1>11 DEF ImportPlugin, RestoreAt, Goes, OpEnds, NoOp
<1>12. CASE StageNetwork
  BY <1>12 DEF StageNetwork, RestoreAt, Goes, OpEnds, NoOp
<1>13. CASE Answer
  BY <1>13 DEF Answer, RestoreAt, Goes, OpEnds, NoOp
<1>14. CASE StepFails
  BY <1>14 DEF StepFails, OpEnds, NoOp, Failing
<1>15. CASE BkCrash
  BY <1>15 DEF BkCrash, OpEnds, NoOp, Failing
<1>16. \/ UNCHANGED bkOp
      \/ ApplyBackup \/ UndoRestore \/ ReadState \/ NotConfirmed \/ Capture
      \/ WriteSnapshot \/ SendImport \/ ImportConflict \/ ImportAuth \/ ImportPlugin
      \/ StageNetwork \/ Answer \/ StepFails \/ BkCrash
  BY DEF BkNext, RestoreStep, bkVars, bkBounds, OtherPassword, OtherChange, NetworkDecided,
     OtherStages, Inspect, ImportExpires, BkRest
<1> QED
  BY <1>1, <1>2, <1>3, <1>4, <1>5, <1>6, <1>7, <1>8, <1>9, <1>10, <1>11, <1>12, <1>13, <1>14,
     <1>15, <1>16

LEMMA BkInvKept ==
    ASSUME BkInv, [BkNext]_bkVars
    PROVE  BkInv'
  BY DocKept, PendingKept, ImportKept, OpKept, SnapsKept, SeenKept, PrevKept, SavedKept
     DEF BkInv

\* Nothing has been uploaded, saved or begun.
LEMMA BkInvAtFirst ==
    ASSUME BkInit
    PROVE  BkInv
<1> USE BkAssumption DEF BkAssumption, BkInit
<1>1. DocOK
  BY DEF DocOK
<1>2. PendingOK /\ ImportOK
  BY NothingIsDocument DEF PendingOK, ImportOK, NoImport
<1>3. OpOK
  BY NothingIsDocument DEF OpOK
<1>4. SnapsOK
  BY EmptySeq DEF SnapsOK
<1>5. SeenInv /\ PrevInv /\ SavedInv
  BY DEF SeenInv, PrevInv, SavedInv, NoOp
<1> QED
  BY <1>1, <1>2, <1>3, <1>4, <1>5 DEF BkInv

-------------------------------------------------------------------------------
\* The invariant holds of every behaviour of restore and undo.
THEOREM BkInvHolds == BkSpec => []BkInv
<1> QED
  BY BkInvAtFirst, BkInvKept, PTL DEF BkSpec

\* The state keeps its types; when an import is committed, the newest snapshot
\* holds the settings and the network it replaces; and until the restore
\* answers some snapshot holds the settings before it (coordinator.rs restore,
\* storage.rs prune).
THEOREM BackupPromisesHold == BkSpec => BackupPromises
<1>1. ASSUME BkInv
      PROVE  BkTypeOK /\ UnderWayUndoable
  <2>1. \A i \in DOMAIN bkSnaps : bkSnaps[i] \in BkDocuments
    BY <1>1, ElementOfSeq, LenProperties DEF BkInv, SnapsOK
  <2>2. bkOp.at = "idle" \/ \E i \in DOMAIN OpSteps : OpSteps[i] = bkOp.at
    <3>1. bkOp.at \in {"idle", "begin", "capture", "write", "send", "auth", "plugins", "stage",
                       "reply"}
      BY <1>1 DEF BkInv, OpOK, Operations
    <3> QED
      BY <3>1 DEF OpSteps
  <2>3. bkImport.doc \in BkDocuments
    BY <1>1 DEF BkInv, ImportOK
  <2>4. BkTypeOK
    BY <1>1, <2>1, <2>2, <2>3 DEF BkTypeOK, BkInv, DocOK, SnapsOK, PendingOK
  <2>5. UnderWayUndoable
    BY <1>1, LenProperties, EmptySeq DEF UnderWayUndoable, BkInv, SnapsOK, SavedInv, Newest
  <2> QED
    BY <2>4, <2>5
<1>2. ASSUME BkInv, [BkNext]_bkVars
      PROVE  [Importing => /\ bkSnaps # <<>>
                           /\ LET newest == bkSnaps[Len(bkSnaps)]
                              IN  newest["settings"] = bkDoc["settings"]
                                    /\ newest["net"] = bkDoc["net"]]_bkVars
  <2>1. ASSUME Importing
        PROVE  bkSnaps # <<>> /\ Newest["settings"] = bkDoc["settings"]
                 /\ Newest["net"] = bkDoc["net"]
    <3>1. AtRevisionRead
      BY <1>2, <2>1, OnlySendImports DEF BkInv
    <3> QED
      BY <1>2, <2>1, <3>1 DEF Importing, AtRevisionRead, BkInv, SeenInv, PrevInv, SavedInv
  <2> QED
    BY <2>1 DEF Newest
<1> QED
  BY <1>1, <1>2, BkInvHolds, PTL DEF BkSpec, BackupPromises, ReplacedIsSaved

--------------------------------------------------------------------------------
(* The rules of a network document.                                            *)

NrSpec == NrInit /\ [][NrNext]_nrVars

\* A number is the multiple below it and the rest.
LEMMA DivisionOfInt ==
    ASSUME NEW a \in Int, NEW s \in Int, s > 0
    PROVE  a = s * (a \div s) + (a % s)
  BY Z3

LEMMA Division ==
    ASSUME NEW a \in Nat, NEW s \in Nat \ {0}
    PROVE  /\ a \div s \in Nat
           /\ a % s \in 0 .. s - 1
           /\ a = s * (a \div s) + (a % s)
<1>1. a \in Int /\ s \in Int /\ s > 0
  OBVIOUS
<1>2. a \div s \in Int /\ a \div s >= 0
  BY <1>1
<1>3. a % s \in 0 .. s - 1
  BY <1>1
<1>4. a = s * (a \div s) + (a % s)
  BY <1>1, DivisionOfInt, Zenon
<1> QED
  BY <1>2, <1>3, <1>4

\* The multiple below a number is the only one within reach of it.
LEMMA Quotient ==
    ASSUME NEW g \in Nat, NEW q \in Nat, NEW s \in Nat \ {0},
           s * q <= g, g <= s * q + s - 1
    PROVE  g \div s = q
<1>1. PICK k \in Nat, r \in 0 .. s - 1 : k = g \div s /\ g = s * k + r
  BY Division
<1>2. ~(k + 1 <= q)
  <2> SUFFICES ASSUME k + 1 <= q PROVE FALSE
    OBVIOUS
  <2>1. PICK d \in Nat : q = k + 1 + d
    <3>1. q - k - 1 \in Nat
      OBVIOUS
    <3> QED
      BY <3>1
  <2>2. s * q = s * k + s + s * d
    BY <2>1
  <2>3. s * d >= 0 /\ s * d \in Int /\ s * k \in Int
    OBVIOUS
  <2> QED
    BY <1>1, <2>2, <2>3
<1>3. ~(q + 1 <= k)
  <2> SUFFICES ASSUME q + 1 <= k PROVE FALSE
    OBVIOUS
  <2>1. PICK d \in Nat : k = q + 1 + d
    <3>1. k - q - 1 \in Nat
      OBVIOUS
    <3> QED
      BY <3>1
  <2>2. s * k = s * q + s + s * d
    BY <2>1
  <2>3. s * d >= 0 /\ s * d \in Int /\ s * q \in Int
    OBVIOUS
  <2> QED
    BY <1>1, <2>2, <2>3
<1> QED
  BY <1>1, <1>2, <1>3

\* A subnet is the block of its addresses.
LEMMA SubnetIsBlock ==
    ASSUME NEW a \in Nat, NEW p \in NrPrefixes
    PROVE  /\ NetSize(p) \in Nat \ {0} /\ a \div NetSize(p) \in Nat
           /\ Subnet(a, p).low = NetSize(p) * (a \div NetSize(p))
           /\ Subnet(a, p).high = Subnet(a, p).low + NetSize(p) - 1
           /\ Subnet(a, p).low \in Nat /\ Subnet(a, p).high \in Nat
<1>1. PICK s \in Nat \ {0} : s = NetSize(p)
  BY NrAssumption DEF NrAssumption
<1>2. /\ a \div s \in Nat /\ a % s \in 0 .. s - 1
      /\ a = s * (a \div s) + (a % s)
  BY Division
<1>3. a - (a % s) = s * (a \div s) /\ a - (a % s) \in Nat
  <2> DEFINE r == a % s
             m == s * (a \div s)
  <2>1. r \in Nat /\ m \in Int /\ a = m + r
    BY <1>2
  <2>2. m >= 0
    BY <1>2
  <2> HIDE DEF r, m
  <2>3. a - r = m
    BY <2>1
  <2>4. a - r \in Nat
    BY <2>1, <2>2, <2>3
  <2> QED
    BY <2>3, <2>4, Zenon DEF r, m
<1> DEFINE low == a - (a % s)
           q == a \div s
<1>4. Subnet(a, p) = [low |-> low, high |-> low + s - 1]
  BY <1>1 DEF Subnet
<1>5. low \in Nat /\ low = s * q /\ q \in Nat
  BY <1>2, <1>3
<1> HIDE DEF low, q
<1>6. /\ Subnet(a, p).low = low /\ Subnet(a, p).high = low + s - 1
      /\ low + s - 1 \in Nat
  BY <1>4, <1>5
<1>7. /\ Subnet(a, p).low = s * q /\ Subnet(a, p).high = Subnet(a, p).low + s - 1
      /\ Subnet(a, p).low \in Nat /\ Subnet(a, p).high \in Nat
  BY <1>5, <1>6
<1> QED
  BY <1>1, <1>2, <1>7 DEF q

\* Two blocks that do not overlap have no address in common.
LEMMA BlocksDisjoint ==
    ASSUME NEW a \in Nat, NEW b \in Nat, NEW p \in NrPrefixes, NEW q \in NrPrefixes,
           ~Overlaps(Subnet(a, p), Subnet(b, q)),
           NEW x \in Nat, x \div NetSize(p) = a \div NetSize(p)
    PROVE  x \div NetSize(q) # b \div NetSize(q)
<1> SUFFICES ASSUME x \div NetSize(q) = b \div NetSize(q) PROVE FALSE
  OBVIOUS
<1>1. /\ Subnet(a, p).low <= x /\ x <= Subnet(a, p).high
  <2>1. PICK s \in Nat \ {0} : s = NetSize(p)
    BY NrAssumption DEF NrAssumption
  <2>2. x % s \in 0 .. s - 1 /\ x = s * (x \div s) + (x % s)
    BY Division
  <2>3. /\ Subnet(a, p).low = s * (x \div s) /\ Subnet(a, p).low \in Nat
        /\ Subnet(a, p).high = Subnet(a, p).low + s - 1
    BY <2>1, SubnetIsBlock
  <2> DEFINE l == Subnet(a, p).low
             h == Subnet(a, p).high
             r == x % s
  <2>4. r \in 0 .. s - 1 /\ x = l + r /\ h = l + s - 1 /\ l \in Nat
    BY <2>2, <2>3
  <2> HIDE DEF l, h, r
  <2>5. l <= x /\ x <= h
    BY <2>4
  <2> QED
    BY <2>5 DEF l, h
<1>2. /\ Subnet(b, q).low <= x /\ x <= Subnet(b, q).high
  <2>1. PICK s \in Nat \ {0} : s = NetSize(q)
    BY NrAssumption DEF NrAssumption
  <2>2. x % s \in 0 .. s - 1 /\ x = s * (x \div s) + (x % s)
    BY Division
  <2>3. /\ Subnet(b, q).low = s * (x \div s) /\ Subnet(b, q).low \in Nat
        /\ Subnet(b, q).high = Subnet(b, q).low + s - 1
    BY <2>1, SubnetIsBlock
  <2> DEFINE l == Subnet(b, q).low
             h == Subnet(b, q).high
             r == x % s
  <2>4. r \in 0 .. s - 1 /\ x = l + r /\ h = l + s - 1 /\ l \in Nat
    BY <2>2, <2>3
  <2> HIDE DEF l, h, r
  <2>5. l <= x /\ x <= h
    BY <2>4
  <2> QED
    BY <2>5 DEF l, h
<1>3. /\ Subnet(a, p).low \in Nat /\ Subnet(a, p).high \in Nat
      /\ Subnet(b, q).low \in Nat /\ Subnet(b, q).high \in Nat
  BY SubnetIsBlock
<1> QED
  BY <1>1, <1>2, <1>3 DEF Overlaps

-------------------------------------------------------------------------------
\* The document is as long as the count of rows says.
NrInv == NrTypeOK /\ Len(vDoc.rows) = vTried

LEMMA NrInvAtFirst == NrInit => NrInv
<1> SUFFICES ASSUME NrInit PROVE NrInv
  OBVIOUS
<1>1. vDoc.rows = <<>> /\ vDoc.management = 1 /\ vTried = 0
  BY DEF NrInit
<1>2. <<>> \in Seq(NrRowsOf) /\ Len(<<>>) = 0
  OBVIOUS
<1> QED
  BY <1>1, <1>2, NrAssumption DEF NrAssumption, NrInv, NrTypeOK

LEMMA NrInvKept == NrInv /\ [NrNext]_nrVars => NrInv'
<1> SUFFICES ASSUME NrInv, [NrNext]_nrVars PROVE NrInv'
  OBVIOUS
<1>0. NrRows \in Nat \ {0}
  BY NrAssumption DEF NrAssumption
<1>1. ASSUME NEW row \in NrRowsOf, AddRow(row)
      PROVE  NrInv'
  <2>1. vDoc'.rows = Append(vDoc.rows, row) /\ vDoc'.management = vDoc.management
        /\ vTried' = vTried + 1 /\ vTried < NrRows
    BY <1>1 DEF AddRow
  <2>2. /\ Append(vDoc.rows, row) \in Seq(NrRowsOf)
        /\ Len(Append(vDoc.rows, row)) = Len(vDoc.rows) + 1
    BY AppendProperties DEF NrInv, NrTypeOK
  <2> QED
    BY <1>0, <2>1, <2>2 DEF NrInv, NrTypeOK
<1>2. ASSUME NEW i \in DOMAIN vDoc.rows, TakeLease(i)
      PROVE  NrInv'
  <2>1. PICK row : row = [vDoc.rows[i] EXCEPT !.mode = "dhcp"]
    OBVIOUS
  <2>2. vDoc'.rows = [vDoc.rows EXCEPT ![i] = row] /\ vDoc'.management = vDoc.management
        /\ vTried' = vTried
    BY <1>2, <2>1 DEF TakeLease
  <2>3. row \in NrRowsOf
    <3>1. vDoc.rows[i] \in NrRowsOf
      BY <1>2 DEF NrInv, NrTypeOK
    <3> QED
      BY <2>1, <3>1 DEF NrRowsOf
  <2>4. /\ [vDoc.rows EXCEPT ![i] = row] \in Seq(NrRowsOf)
        /\ Len([vDoc.rows EXCEPT ![i] = row]) = Len(vDoc.rows)
    BY <1>2, <2>3, ExceptSeq, LenProperties DEF NrInv, NrTypeOK
  <2> QED
    BY <2>2, <2>4 DEF NrInv, NrTypeOK
<1>3. ASSUME NEW i \in DOMAIN vDoc.rows, MoveManagement(i)
      PROVE  NrInv'
  <2>1. vDoc'.rows = vDoc.rows /\ vDoc'.management = i /\ vTried' = vTried
    BY <1>3 DEF MoveManagement
  <2>2. i \in 1 .. NrRows
    BY <1>0, <1>3 DEF NrInv, NrTypeOK
  <2> QED
    BY <2>1, <2>2 DEF NrInv, NrTypeOK
<1>4. CASE UNCHANGED nrVars
  BY <1>4 DEF nrVars, NrInv, NrTypeOK
<1> QED
  BY <1>1, <1>2, <1>3, <1>4 DEF NrNext

THEOREM NrInvHolds == NrSpec => []NrInv
<1> QED
  BY NrInvAtFirst, NrInvKept, PTL DEF NrSpec

-------------------------------------------------------------------------------
\* What `validate` leaves of a document that it accepts.
LEMMA AcceptedRows ==
    ASSUME NrTypeOK, Validate(vDoc).ok, NEW i \in DOMAIN Validate(vDoc).rows
    PROVE  /\ i \in Nat /\ DOMAIN Validate(vDoc).rows = 1 .. Len(vDoc.rows)
           /\ Validate(vDoc).rows[i] \in NrRowsOf
           /\ Validate(vDoc).rows[i].mode = "dhcp" => Validate(vDoc).rows[i].gateway = 0
           /\ Judged(Validate(vDoc).rows, vDoc.management, i)
<1>1. PICK rows : rows = [k \in DOMAIN vDoc.rows |-> Normalised(vDoc.rows[k])]
  OBVIOUS
<1>2. /\ Validate(vDoc).rows = rows
      /\ \A k \in DOMAIN rows : Judged(rows, vDoc.management, k)
  BY <1>1 DEF Validate
<1>3. /\ DOMAIN vDoc.rows = 1 .. Len(vDoc.rows) /\ Len(vDoc.rows) \in Nat
      /\ i \in DOMAIN vDoc.rows /\ vDoc.rows[i] \in NrRowsOf
      /\ DOMAIN rows = DOMAIN vDoc.rows
  BY <1>1, <1>2, LenProperties DEF NrTypeOK
<1>4. rows[i] = Normalised(vDoc.rows[i])
  BY <1>1, <1>3
<1>5. rows[i] \in NrRowsOf /\ (rows[i].mode = "dhcp" => rows[i].gateway = 0)
  <2>1. CASE vDoc.rows[i].mode = "dhcp"
    <3>1. PICK row : row = vDoc.rows[i]
      OBVIOUS
    <3>2. [row EXCEPT !.address = 0, !.prefix = 0, !.gateway = 0] \in NrRowsOf
      BY <1>3, <3>1 DEF NrRowsOf
    <3>3. [row EXCEPT !.address = 0, !.prefix = 0, !.gateway = 0].gateway = 0
      BY <1>3, <3>1 DEF NrRowsOf
    <3> QED
      BY <1>4, <2>1, <3>1, <3>2, <3>3 DEF Normalised
  <2>2. CASE vDoc.rows[i].mode # "dhcp"
    BY <1>3, <1>4, <2>2 DEF Normalised
  <2> QED
    BY <2>1, <2>2
<1> QED
  BY <1>2, <1>3, <1>5

\* The numbers of a row are addresses and prefixes.
LEMMA RowNumbers ==
    ASSUME NEW row \in NrRowsOf
    PROVE  /\ row.address \in Nat
           /\ row.gateway # 0 => row.gateway \in NrAddresses /\ row.gateway \in Nat
           /\ row.mode # "dhcp" => row.mode = "static"
<1>1. \A a \in NrAddresses : a \in Nat
  BY DEF NrAddresses
<1> QED
  BY <1>1, NrAssumption DEF NrAssumption, NrRowsOf

\* Of two static rows of an accepted document the later one was judged against
\* the network of the earlier one.
LEMMA EarlierIsApart ==
    ASSUME NrTypeOK, Validate(vDoc).ok,
           NEW i \in DOMAIN Validate(vDoc).rows, NEW j \in DOMAIN Validate(vDoc).rows, i < j,
           Validate(vDoc).rows[i].mode = "static", Validate(vDoc).rows[j].mode = "static"
    PROVE  NrNetwork(Validate(vDoc).rows[i]) \cap NrNetwork(Validate(vDoc).rows[j]) = {}
<1>1. PICK rows : rows = Validate(vDoc).rows
  OBVIOUS
<1>2. PICK ri : ri = rows[i]
  OBVIOUS
<1>3. PICK rj : rj = rows[j]
  OBVIOUS
<1>4. /\ i \in Nat /\ j \in Nat /\ 1 <= i
      /\ ri \in NrRowsOf /\ rj \in NrRowsOf
      /\ Judged(rows, vDoc.management, i) /\ Judged(rows, vDoc.management, j)
  BY <1>1, <1>2, <1>3, AcceptedRows
<1>5. /\ GoodStatic(ri, vDoc.management = i, Before(rows, i))
      /\ GoodStatic(rj, vDoc.management = j, Before(rows, j))
  BY <1>1, <1>2, <1>3, <1>4 DEF Judged
<1>6. ri.prefix \in NrPrefixes /\ rj.prefix \in NrPrefixes
  BY <1>5 DEF GoodStatic
<1>7. Subnet(ri.address, ri.prefix) \in Before(rows, j)
  <2>1. i \in {k \in 1 .. j - 1 : rows[k].mode = "static" /\ rows[k].prefix \in NrPrefixes}
    BY <1>1, <1>2, <1>4, <1>6
  <2> QED
    BY <1>2, <2>1 DEF Before
<1>8. ~Overlaps(Subnet(rj.address, rj.prefix), Subnet(ri.address, ri.prefix))
  BY <1>5, <1>7 DEF GoodStatic
<1>9. \A x \in NrAddresses :
         x \div NetSize(rj.prefix) = rj.address \div NetSize(rj.prefix)
           => x \div NetSize(ri.prefix) # ri.address \div NetSize(ri.prefix)
  <2> TAKE x \in NrAddresses
  <2> HAVE x \div NetSize(rj.prefix) = rj.address \div NetSize(rj.prefix)
  <2>1. PICK a : a = rj.address
    OBVIOUS
  <2>2. PICK b : b = ri.address
    OBVIOUS
  <2>3. PICK p : p = rj.prefix
    OBVIOUS
  <2>4. PICK q : q = ri.prefix
    OBVIOUS
  <2>5. a \in Nat /\ b \in Nat /\ p \in NrPrefixes /\ q \in NrPrefixes /\ x \in Nat
    BY <1>4, <1>6, <2>1, <2>2, <2>3, <2>4, RowNumbers DEF NrAddresses
  <2> QED
    BY <1>8, <2>1, <2>2, <2>3, <2>4, <2>5, BlocksDisjoint
<1> QED
  BY <1>1, <1>2, <1>3, <1>9 DEF NrNetwork

LEMMA ApartAnyway == ASSUME NrTypeOK PROVE NetworksDisjoint
<1> SUFFICES ASSUME Validate(vDoc).ok,
                    NEW i \in DOMAIN Validate(vDoc).rows, NEW j \in DOMAIN Validate(vDoc).rows,
                    i # j, Validate(vDoc).rows[i].mode = "static",
                    Validate(vDoc).rows[j].mode = "static"
             PROVE  NrNetwork(Validate(vDoc).rows[i]) \cap NrNetwork(Validate(vDoc).rows[j]) = {}
  BY DEF NetworksDisjoint
<1>1. i \in Nat /\ j \in Nat
  BY AcceptedRows
<1>2. CASE i < j
  BY <1>2, EarlierIsApart
<1>3. CASE j < i
  <2>1. NrNetwork(Validate(vDoc).rows[j]) \cap NrNetwork(Validate(vDoc).rows[i]) = {}
    BY <1>3, EarlierIsApart
  <2> QED
    BY <2>1
<1> QED
  BY <1>1, <1>2, <1>3

LEMMA RoutesOfManagement == ASSUME NrTypeOK PROVE OnlyManagementRoutes
<1> SUFFICES ASSUME Validate(vDoc).ok, NEW i \in DOMAIN Validate(vDoc).rows,
                    Validate(vDoc).rows[i].gateway # 0
             PROVE  /\ i = vDoc.management
                    /\ Validate(vDoc).rows[i].gateway
                         \in NrNetwork(Validate(vDoc).rows[i]) \ {Validate(vDoc).rows[i].address}
  BY DEF OnlyManagementRoutes
<1>1. PICK rows : rows = Validate(vDoc).rows
  OBVIOUS
<1>2. PICK row : row = rows[i]
  OBVIOUS
<1>3. row \in NrRowsOf /\ row.mode # "dhcp" /\ Judged(rows, vDoc.management, i)
  BY <1>1, <1>2, AcceptedRows
<1>4. GoodStatic(row, vDoc.management = i, Before(rows, i))
  BY <1>2, <1>3, RowNumbers DEF Judged
<1>5. /\ row.prefix \in NrPrefixes /\ vDoc.management = i
      /\ Subnet(row.address, row.prefix).low <= row.gateway
      /\ row.gateway <= Subnet(row.address, row.prefix).high
      /\ row.gateway # row.address
  BY <1>1, <1>2, <1>4 DEF GoodStatic
<1>6. row.address \in Nat /\ row.gateway \in Nat /\ row.gateway \in NrAddresses
  BY <1>1, <1>2, <1>3, RowNumbers
<1>7. row.gateway \div NetSize(row.prefix) = row.address \div NetSize(row.prefix)
  <2>1. PICK a \in Nat : a = row.address
    BY <1>6
  <2>2. PICK p \in NrPrefixes : p = row.prefix
    BY <1>5
  <2>3. PICK g \in Nat : g = row.gateway
    BY <1>6
  <2>4. PICK s \in Nat \ {0} : s = NetSize(p)
    BY NrAssumption DEF NrAssumption
  <2>5. PICK q \in Nat : q = a \div s
    BY <2>4, SubnetIsBlock
  <2>6. /\ Subnet(a, p).low = s * q
        /\ Subnet(a, p).high = s * q + s - 1
    BY <2>4, <2>5, SubnetIsBlock
  <2>7. s * q <= g /\ g <= s * q + s - 1
    BY <1>5, <2>1, <2>2, <2>3, <2>6
  <2>8. g \div s = q
    BY <2>7, Quotient
  <2> QED
    BY <2>1, <2>2, <2>3, <2>4, <2>5, <2>8
<1> QED
  BY <1>1, <1>2, <1>5, <1>6, <1>7 DEF NrNetwork

THEOREM RulesPromisesHold == NrSpec => []RulesPromises
<1>1. NrInv => RulesPromises
  BY ApartAnyway, RoutesOfManagement DEF NrInv, RulesPromises
<1> QED
  BY <1>1, NrInvHolds, PTL

--------------------------------------------------------------------------------
(* A signed update.                                                           *)

(* The inductive invariant.                                                    *)

\* The type invariant, variable by variable.
UpPkgs == [UpPackages -> [v : UpVersions, status : {"installed", "unpacked"}, good : BOOLEAN]]
UpDatas == [old : BOOLEAN, copy : {"none", "part", "whole"}, reported : BOOLEAN, cut : BOOLEAN]
UpdateJobs == [at : {"none", "check", "manifest", "download", "dpkg"}, version : UpVersions,
               force : BOOLEAN, got : 0 .. 4, bad : BOOLEAN]
UpDpkgs == [at : {"none", "probe", "stop", "unpack", "configure", "end"} \cup MigrateSet,
            i : 1 .. 4, unpacked : SUBSET UpPackages,
            failed : SUBSET (MigrateSet \cup {"preinst", "depends"})]
UpLefts == [jobs : 0 .. UpJobs, faults : 0 .. UpFaults]
UpTypes ==
    /\ uPkg \in UpPkgs /\ uFirmware \in UpVersions /\ uStack \in BOOLEAN /\ uFull \in BOOLEAN
    /\ uData \in UpDatas /\ uJob \in UpdateJobs /\ uDpkg \in UpDpkgs /\ uLeft \in UpLefts

\* dpkg runs for the job, and what it unpacked is the job's.
DpkgInv ==
    /\ uJob.at = "dpkg" <=> uDpkg.at # "none"
    /\ uDpkg.at = "none" => uDpkg.unpacked = {}
    /\ \A p \in uDpkg.unpacked : uPkg[p].v = uJob.version

\* A package that dpkg is past is unpacked, or dpkg will report a failure.
UnpackInv ==
    \A k \in 1 .. 4 :
        (IF uDpkg.at \in {"probe", "stop", "unpack"} THEN k < uDpkg.i ELSE uDpkg.at # "none")
            => UpOrder[k] \in uDpkg.unpacked \/ "preinst" \in uDpkg.failed

\* A job past its checks goes back nowhere, unless it is forced.
Forward(p) == uJob.force \/ uPkg[p].v <= uJob.version
DowngradeInv ==
    /\ uJob.at \in {"none", "check", "manifest"} => uJob.got = 0
    /\ uJob.at = "dpkg" => uJob.got = 4
    /\ \A k \in 1 .. 4 : k <= uJob.got => Forward(UpOrder[k])

\* The version file is behind dpkg's database only while the runtime package waits
\* to be configured.
VersionInv == uPkg["runtime"].status = "installed" => uFirmware = uPkg["runtime"].v

\* The copy comes before the steps that give up the data, and what it left undone
\* was reported, or power was lost over it.
Copied == uData.copy = "whole" \/ uData.reported \/ (uData.copy = "part" /\ uData.cut)
CopyInv ==
    /\ uDpkg.at \in {"import", "network"} => ~uData.old \/ Copied
    /\ uData.copy = "part" => uData.reported \/ uData.cut \/ uDpkg.at = "copied"

UpInv ==
    /\ UpTypes /\ ~uJob.bad /\ InstalledIsSigned /\ OriginalsKept
    /\ DpkgInv /\ UnpackInv /\ DowngradeInv /\ VersionInv /\ CopyInv

-------------------------------------------------------------------------------
(* The packages and the steps of the migration.                                *)

LEMMA Orders ==
    /\ Len(UpOrder) = 4 /\ UpPackages = {"control", "privd", "runtime", "ui"}
    /\ \A k \in 1 .. 4 : UpOrder[k] \in UpPackages
    /\ \A p \in UpPackages : \E k \in 1 .. 4 : UpOrder[k] = p
<1>1. /\ Len(UpOrder) = 4 /\ DOMAIN UpOrder = 1 .. 4
      /\ UpOrder[1] = "control" /\ UpOrder[2] = "privd" /\ UpOrder[3] = "runtime" /\ UpOrder[4] = "ui"
  BY DEF UpOrder
<1>2. 1 .. 4 = {1, 2, 3, 4}
  OBVIOUS
<1> QED
  BY <1>1, <1>2 DEF UpPackages

LEMMA Steps ==
    MigrateSet = {"accounts", "copies", "copied", "import", "network", "retire", "start",
                  "version"}
<1>1. DOMAIN MigrateSteps = 1 .. 8 /\ 1 .. 8 = {1, 2, 3, 4, 5, 6, 7, 8}
  BY DEF MigrateSteps
<1> QED
  BY <1>1 DEF MigrateSet, MigrateSteps

LEMMA NextSteps ==
    /\ NextStep("accounts") = "copies" /\ NextStep("copies") = "copied"
    /\ NextStep("copied") = "import"
    /\ NextStep("import") = "network" /\ NextStep("network") = "retire"
    /\ NextStep("retire") = "start" /\ NextStep("start") = "version"
<1>1. DOMAIN MigrateSteps = 1 .. 8
  BY DEF MigrateSteps
<1>2. ASSUME NEW k \in 1 .. 7
      PROVE  NextStep(MigrateSteps[k]) = MigrateSteps[k + 1]
  <2>1. \A i \in 1 .. 8 : MigrateSteps[i] = MigrateSteps[k] => i = k
    BY DEF MigrateSteps
  <2>2. (CHOOSE i \in DOMAIN MigrateSteps : MigrateSteps[i] = MigrateSteps[k]) = k
    BY <1>1, <2>1
  <2> QED
    BY <2>2 DEF NextStep
<1>3. /\ MigrateSteps[1] = "accounts" /\ MigrateSteps[2] = "copies" /\ MigrateSteps[3] = "copied"
      /\ MigrateSteps[4] = "import" /\ MigrateSteps[5] = "network" /\ MigrateSteps[6] = "retire"
      /\ MigrateSteps[7] = "start" /\ MigrateSteps[8] = "version"
  BY DEF MigrateSteps
<1> QED
  BY <1>2, <1>3

LEMMA FirstVersion == UpFirst \in UpVersions
BY UpAssumption DEF UpFirst

LEMMA FaultTyped == ASSUME uLeft \in UpLefts, UpFault PROVE uLeft' \in UpLefts
BY UpAssumption DEF UpLefts, UpFault

LEMMA Blank == NoUpdate \in UpdateJobs /\ NoDpkg \in UpDpkgs
BY FirstVersion DEF NoUpdate, NoDpkg, UpdateJobs, UpDpkgs

\* The next package, whatever the failure of this one.
LEMMA UnpackNextTyped ==
    ASSUME uDpkg \in UpDpkgs, NEW F \in SUBSET {"preinst"}, UnpackNext(F)
    PROVE  /\ uDpkg' \in UpDpkgs /\ uDpkg'.unpacked = uDpkg.unpacked
           /\ uDpkg'.failed = uDpkg.failed \cup F
           /\ uDpkg.i = 4 => uDpkg'.at = "configure"
           /\ uDpkg.i # 4 => uDpkg'.at = "probe" /\ uDpkg'.i = uDpkg.i + 1
<1>1. CASE uDpkg.i = 4
  <2>1. PICK f : f = uDpkg.failed \cup F
    OBVIOUS
  <2>2. uDpkg' = [uDpkg EXCEPT !.at = "configure", !.i = 1, !.failed = f]
    BY <1>1, <2>1, Orders DEF UnpackNext
  <2>3. f \in SUBSET (MigrateSet \cup {"preinst", "depends"})
    BY <2>1 DEF UpDpkgs
  <2>4. uDpkg' = [at |-> "configure", i |-> 1, unpacked |-> uDpkg.unpacked, failed |-> f]
    BY <2>2 DEF UpDpkgs
  <2>5. 1 \in 1 .. 4 /\ uDpkg.unpacked \in SUBSET UpPackages
    BY DEF UpDpkgs
  <2>6. uDpkg' \in UpDpkgs
    BY <2>3, <2>4, <2>5 DEF UpDpkgs
  <2> QED
    BY <1>1, <2>1, <2>4, <2>6
<1>2. CASE uDpkg.i # 4
  <2>1. uDpkg.i + 1 \in 1 .. 4
    BY <1>2 DEF UpDpkgs
  <2> QED
    BY <1>2, <2>1, Orders DEF UpDpkgs, UnpackNext
<1> QED
  BY <1>1, <1>2

LEMMA ConfigureNextTyped ==
    ASSUME uDpkg \in UpDpkgs, NEW F \in SUBSET (MigrateSet \cup {"depends"}), ConfigureNext(F)
    PROVE  /\ uDpkg' \in UpDpkgs /\ uDpkg'.unpacked = uDpkg.unpacked
           /\ uDpkg'.failed = uDpkg.failed \cup F /\ uDpkg'.at \in {"configure", "end"}
<1>1. CASE uDpkg.i = 4
  BY <1>1, Orders DEF UpDpkgs, ConfigureNext
<1>2. CASE uDpkg.i # 4
  <2>1. uDpkg.i + 1 \in 1 .. 4
    BY <1>2 DEF UpDpkgs
  <2> QED
    BY <1>2, <2>1, Orders DEF UpDpkgs, ConfigureNext
<1> QED
  BY <1>1, <1>2

-------------------------------------------------------------------------------
(* The steps of the job.                                                       *)

LEMMA UpInvAtFirst == UpInit => UpInv
<1> SUFFICES ASSUME UpInit PROVE UpInv
  OBVIOUS
<1>1. /\ uJob = NoUpdate /\ uDpkg = NoDpkg /\ uDpkg.at = "none" /\ uDpkg.unpacked = {}
      /\ uJob.at = "none" /\ uJob.got = 0 /\ ~uJob.bad
  BY DEF UpInit, NoUpdate, NoDpkg
<1>2. uPkg \in UpPkgs /\ \A p \in UpPackages : uPkg[p].good /\ uPkg[p].v = UpFirst
  BY FirstVersion DEF UpInit, UpPkgs
<1>3. uData \in UpDatas /\ uData.old /\ uData.copy = "none"
  BY DEF UpInit, UpDatas
<1>4. uLeft \in UpLefts
  BY UpAssumption DEF UpInit, UpLefts
<1>5. UpTypes
  BY <1>1, <1>2, <1>3, <1>4, Blank, FirstVersion DEF UpInit, UpTypes
<1>6. VersionInv
  BY <1>2, Orders DEF UpInit, VersionInv
<1>7. DpkgInv /\ UnpackInv /\ DowngradeInv /\ CopyInv
  BY <1>1, <1>3 DEF DpkgInv, UnpackInv, DowngradeInv, CopyInv
<1> QED
  BY <1>1, <1>2, <1>3, <1>5, <1>6, <1>7 DEF UpInv, InstalledIsSigned, OriginalsKept

\* The job before dpkg, and when it ends there.
LEMMA JobKeeps ==
    ASSUME UpInv, UNCHANGED <<UpDevice, uDpkg>>, uDpkg.at = "none", uLeft' \in UpLefts,
           uJob' \in UpdateJobs, uJob'.at # "dpkg", ~uJob'.bad, DowngradeInv'
    PROVE  UpInv'
<1>1. UNCHANGED <<uPkg, uFirmware, uStack, uFull, uData, uDpkg>>
  BY DEF UpDevice
<1> QED
  BY <1>1 DEF UpInv, UpTypes, InstalledIsSigned, OriginalsKept, DpkgInv, UnpackInv, VersionInv, CopyInv

LEMMA EndKeeps ==
    ASSUME UpInv, UNCHANGED <<UpDevice, uDpkg>>, uJob.at # "dpkg", uLeft' \in UpLefts,
           uJob' = NoUpdate
    PROVE  UpInv'
<1>1. uJob'.at = "none" /\ uJob'.got = 0 /\ ~uJob'.bad
  BY DEF NoUpdate
<1>2. uDpkg.at = "none"
  BY DEF UpInv, DpkgInv
<1>3. DowngradeInv'
  BY <1>1 DEF DowngradeInv
<1> QED
  BY <1>1, <1>2, <1>3, JobKeeps, Blank

LEMMA RequestKeeps ==
    ASSUME UpInv, NEW v \in UpVersions, NEW force \in BOOLEAN, RequestUpdate(v, force)
    PROVE  UpInv'
<1>1. PICK bad \in BOOLEAN : bad = FALSE
  OBVIOUS
<1>2. uJob' = [at |-> "check", version |-> v, force |-> force, got |-> 0, bad |-> bad]
  BY <1>1 DEF RequestUpdate
<1>3. uJob' \in UpdateJobs /\ uJob'.at = "check" /\ ~uJob'.bad /\ uJob'.got = 0
  BY <1>1, <1>2 DEF UpdateJobs
<1>4. uDpkg.at = "none"
  BY DEF UpInv, DpkgInv, RequestUpdate
<1>5. uLeft' \in UpLefts
  BY UpAssumption DEF RequestUpdate, UpInv, UpTypes, UpLefts
<1>6. DowngradeInv'
  BY <1>3 DEF DowngradeInv
<1> QED
  BY <1>3, <1>4, <1>5, <1>6, JobKeeps DEF RequestUpdate

LEMMA CheckKeeps == ASSUME UpInv, CheckVersion PROVE UpInv'
<1>1. UNCHANGED <<UpDevice, uDpkg, uLeft>> /\ uJob.at = "check" /\ uLeft' \in UpLefts
  BY DEF CheckVersion, UpInv, UpTypes
<1>2. CASE uJob' = NoUpdate
  BY <1>1, <1>2, EndKeeps
<1>3. CASE uJob' = [uJob EXCEPT !.at = "manifest"]
  <2>1. /\ uJob' \in UpdateJobs /\ uJob'.at = "manifest" /\ ~uJob'.bad /\ uJob'.got = 0
        /\ uDpkg.at = "none"
    BY <1>1, <1>3 DEF UpInv, UpTypes, UpdateJobs, DowngradeInv, DpkgInv
  <2>2. DowngradeInv'
    BY <2>1 DEF DowngradeInv
  <2> QED
    BY <1>1, <2>1, <2>2, JobKeeps
<1> QED
  BY <1>2, <1>3 DEF CheckVersion

LEMMA FetchKeeps ==
    ASSUME UpInv, NEW signer, NEW v, FetchManifest(signer, v)
    PROVE  UpInv'
<1>1. UNCHANGED <<UpDevice, uDpkg>> /\ uJob.at = "manifest" /\ uLeft' \in UpLefts
  BY FaultTyped DEF FetchManifest, UpInv, UpTypes
<1>2. CASE uJob' = NoUpdate
  BY <1>1, <1>2, EndKeeps
<1>3. CASE uJob' # NoUpdate
  <2>1. PICK bad \in BOOLEAN : bad = FALSE
    OBVIOUS
  <2>2. uJob' = [uJob EXCEPT !.at = "download", !.bad = bad]
    BY <1>3, <2>1 DEF FetchManifest, Authentic
  <2>3. /\ uJob' \in UpdateJobs /\ uJob'.at = "download" /\ ~uJob'.bad /\ uJob'.got = 0
        /\ uDpkg.at = "none"
    BY <1>1, <2>1, <2>2 DEF UpInv, UpTypes, UpdateJobs, DowngradeInv, DpkgInv
  <2>4. DowngradeInv'
    BY <2>3 DEF DowngradeInv
  <2> QED
    BY <1>1, <2>3, <2>4, JobKeeps
<1> QED
  BY <1>2, <1>3

LEMMA RefusedKeeps == ASSUME UpInv, JobRefused PROVE UpInv'
<1>1. uLeft' \in UpLefts /\ uJob.at # "dpkg"
  BY FaultTyped DEF JobRefused, UpInv, UpTypes
<1> QED
  BY <1>1, EndKeeps DEF JobRefused

LEMMA DownloadKeeps == ASSUME UpInv, NEW bytes, Download(bytes) PROVE UpInv'
<1>1. UNCHANGED <<UpDevice, uDpkg>> /\ uJob.at = "download" /\ uLeft' \in UpLefts /\ uJob.got < 4
  BY FaultTyped, Orders DEF Download, UpInv, UpTypes
<1>2. CASE uJob' = NoUpdate
  BY <1>1, <1>2, EndKeeps
<1>3. CASE uJob' # NoUpdate
  <2>1. PICK p : p = UpOrder[uJob.got + 1]
    OBVIOUS
  <2>2. ~PackageDowngrade(p) /\ bytes = "listed"
    BY <1>3, <2>1 DEF Download, Verified
  <2>3. uJob' = [uJob EXCEPT !.got = @ + 1, !.bad = @ \/ bytes # "listed"]
    BY <1>3 DEF Download
  <2>4. uJob \in UpdateJobs /\ uJob.got + 1 \in 0 .. 4 /\ uJob.got + 1 \in 1 .. 4 /\ ~uJob.bad
    BY <1>1 DEF UpInv, UpTypes, UpdateJobs
  <2>5. PICK bad \in BOOLEAN : bad = (uJob.bad \/ bytes # "listed")
    OBVIOUS
  <2>6. uJob' = [uJob EXCEPT !.got = @ + 1, !.bad = bad]
    BY <2>3, <2>5
  <2>7. /\ uJob' \in UpdateJobs /\ uJob'.at = "download" /\ ~uJob'.bad /\ uJob'.got = uJob.got + 1
        /\ uJob'.force = uJob.force /\ uJob'.version = uJob.version /\ uDpkg.at = "none"
    BY <1>1, <2>2, <2>4, <2>5, <2>6 DEF UpInv, UpdateJobs, DpkgInv
  <2>8. Forward(p)
    <3>1. p \in UpPackages
      BY <2>1, <2>4, Orders
    <3>2. uPkg[p].v \in Nat /\ uJob.version \in Nat
      BY <2>4, <3>1, UpAssumption DEF UpInv, UpTypes, UpPkgs, UpdateJobs
    <3> QED
      BY <2>2, <3>2 DEF PackageDowngrade, Downgrade, Forward
  <2>9. DowngradeInv'
    <3>1. uPkg' = uPkg
      BY <1>1 DEF UpDevice
    <3>2. \A k \in 1 .. 4 : k <= uJob.got + 1 => Forward(UpOrder[k])
      BY <2>1, <2>4, <2>8 DEF UpInv, DowngradeInv, UpdateJobs
    <3> QED
      BY <2>7, <3>1, <3>2 DEF DowngradeInv, Forward
  <2> QED
    BY <1>1, <2>7, <2>9, JobKeeps
<1> QED
  BY <1>2, <1>3

LEMMA StartKeeps == ASSUME UpInv, StartDpkg PROVE UpInv'
<1>1. /\ UNCHANGED <<uPkg, uFirmware, uStack, uFull, uData, uLeft>> /\ uJob.at = "download"
      /\ uJob.got = 4 /\ uJob' = [uJob EXCEPT !.at = "dpkg"] /\ uDpkg' = [NoDpkg EXCEPT !.at = "probe"]
  BY Orders DEF StartDpkg, UpDevice
<1>2. /\ uJob' \in UpdateJobs /\ uJob'.at = "dpkg" /\ ~uJob'.bad /\ uJob'.got = 4
      /\ uJob'.force = uJob.force /\ uJob'.version = uJob.version
  BY <1>1 DEF UpInv, UpTypes, UpdateJobs
<1>3. /\ uDpkg' \in UpDpkgs /\ uDpkg'.at = "probe" /\ uDpkg'.i = 1 /\ uDpkg'.unpacked = {}
  BY <1>1, Blank DEF UpDpkgs, NoDpkg
<1>4. DowngradeInv'
  BY <1>1, <1>2 DEF UpInv, DowngradeInv, Forward
<1>5. DpkgInv' /\ UnpackInv' /\ CopyInv'
  BY <1>1, <1>2, <1>3 DEF UpInv, DpkgInv, UnpackInv, CopyInv
<1> QED
  BY <1>1, <1>2, <1>3, <1>4, <1>5 DEF UpInv, UpTypes, InstalledIsSigned, OriginalsKept, VersionInv

\* dpkg is over: its exit code tells whether the device has the new version.
LEMMA FinishKeeps == ASSUME UpInv, FinishUpdate \/ PowerFails PROVE UpInv'
<1>1. /\ UNCHANGED <<uPkg, uFull>> /\ uJob' = NoUpdate /\ uDpkg' = NoDpkg
      /\ uLeft' \in UpLefts /\ uStack' \in BOOLEAN /\ uData \in UpDatas
  BY FaultTyped DEF FinishUpdate, PowerFails, UpInv, UpTypes
<1>2. /\ uJob'.at = "none" /\ uJob'.got = 0 /\ ~uJob'.bad /\ uDpkg'.at = "none"
      /\ uDpkg'.unpacked = {}
  BY <1>1 DEF NoUpdate, NoDpkg
<1>3. VersionInv' /\ uFirmware' \in UpVersions
  <2>1. CASE uFirmware' = uFirmware
    BY <1>1, <2>1 DEF UpInv, UpTypes, VersionInv
  <2>2. CASE uFirmware' # uFirmware
    <3>1. /\ uDpkg.at = "end" /\ uFirmware' = uJob.version
          /\ uDpkg.failed \ MigrateSet = {}
      BY <2>2 DEF FinishUpdate, PowerFails
    <3>2. "preinst" \notin uDpkg.failed
      BY <3>1, Steps
    <3>3. \A p \in UpPackages : p \in uDpkg.unpacked
      <4>1. \A k \in 1 .. 4 : UpOrder[k] \in uDpkg.unpacked
        BY <3>1, <3>2 DEF UpInv, UnpackInv
      <4> QED
        BY <4>1, Orders
    <3>4. uPkg["runtime"].v = uJob.version
      BY <3>3, Orders DEF UpInv, DpkgInv
    <3>5. uJob.version \in UpVersions
      BY DEF UpInv, UpTypes, UpdateJobs
    <3> QED
      BY <1>1, <3>1, <3>4, <3>5 DEF VersionInv
  <2> QED
    BY <2>1, <2>2
<1>4. DowngradeInv' /\ DpkgInv' /\ UnpackInv'
  BY <1>2 DEF DowngradeInv, DpkgInv, UnpackInv
<1>5. uData' \in UpDatas /\ OriginalsKept' /\ CopyInv'
  <2>1. PICK cut \in BOOLEAN : /\ uData' = [uData EXCEPT !.cut = cut]
                              /\ (uData.cut => cut) /\ (uDpkg.at = "copied" => cut)
    <3>1. CASE FinishUpdate
      <4>1. PICK cut \in BOOLEAN : cut = uData.cut
        BY <1>1 DEF UpDatas
      <4>2. uData' = [uData EXCEPT !.cut = cut] /\ uDpkg.at # "copied"
        BY <1>1, <3>1, <4>1 DEF FinishUpdate, UpDatas
      <4> QED
        BY <4>1, <4>2
    <3>2. CASE PowerFails
      <4>1. PICK cut \in BOOLEAN : cut = (uData.cut \/ uDpkg.at = "copied")
        OBVIOUS
      <4>2. uData' = [uData EXCEPT !.cut = cut]
        BY <3>2, <4>1 DEF PowerFails
      <4> QED
        BY <4>1, <4>2
    <3> QED
      BY <3>1, <3>2
  <2>2. /\ uData' \in UpDatas /\ uData'.cut = cut /\ uData'.old = uData.old
        /\ uData'.copy = uData.copy /\ uData'.reported = uData.reported
    BY <1>1, <2>1 DEF UpDatas
  <2> QED
    BY <1>2, <2>1, <2>2 DEF UpInv, OriginalsKept, CopyInv
<1> QED
  BY <1>1, <1>2, <1>3, <1>4, <1>5, Blank DEF UpInv, UpTypes, InstalledIsSigned

-------------------------------------------------------------------------------
(* dpkg and the scripts it runs.                                               *)

\* The steps that unpack nothing.
LEMMA ScriptKeeps ==
    ASSUME UpInv, uDpkg.at # "none", UNCHANGED <<uJob, uFull>>,
           uPkg' \in UpPkgs, uFirmware' \in UpVersions, uStack' \in BOOLEAN, uData' \in UpDatas,
           uDpkg' \in UpDpkgs, uLeft' \in UpLefts,
           \A p \in UpPackages : uPkg'[p].v = uPkg[p].v /\ uPkg'[p].good = uPkg[p].good,
           uDpkg'.at # "none", uDpkg'.unpacked = uDpkg.unpacked,
           OriginalsKept', VersionInv', CopyInv', UnpackInv'
    PROVE  UpInv'
<1>1. DpkgInv'
  <2>1. uDpkg \in UpDpkgs
    BY DEF UpInv, UpTypes
  <2> QED
    BY <2>1 DEF UpInv, DpkgInv, UpDpkgs
<1>2. DowngradeInv'
  BY Orders DEF UpInv, DowngradeInv, Forward
<1> QED
  BY <1>1, <1>2 DEF UpInv, UpTypes, InstalledIsSigned

\* The same, where the data, the packages and the version are not touched.
LEMMA PlainKeeps ==
    ASSUME UpInv, uDpkg.at # "none", UNCHANGED <<uJob, uFull, uPkg, uFirmware, uData>>,
           uStack' \in BOOLEAN, uDpkg' \in UpDpkgs, uLeft' \in UpLefts,
           uDpkg'.at \notin {"none", "import", "network"}, uDpkg.at # "copied",
           uDpkg'.unpacked = uDpkg.unpacked, UnpackInv'
    PROVE  UpInv'
<1>1. OriginalsKept' /\ VersionInv' /\ CopyInv'
  BY DEF UpInv, OriginalsKept, VersionInv, CopyInv
<1> QED
  BY <1>1, ScriptKeeps DEF UpInv, UpTypes

\* Once all are unpacked or have failed, nothing changes that.
LEMMA PastUnpack ==
    ASSUME UnpackInv, uDpkg.at \notin {"none", "probe", "stop", "unpack"},
           uDpkg'.unpacked = uDpkg.unpacked, uDpkg.failed \subseteq uDpkg'.failed
    PROVE  UnpackInv'
BY DEF UnpackInv

LEMMA DpkgToTyped ==
    ASSUME uDpkg \in UpDpkgs, NEW at \in {"stop", "unpack"} \cup MigrateSet, DpkgTo(at)
    PROVE  /\ uDpkg' \in UpDpkgs /\ uDpkg'.at = at /\ uDpkg'.i = uDpkg.i
           /\ uDpkg'.unpacked = uDpkg.unpacked /\ uDpkg'.failed = uDpkg.failed
BY DEF DpkgTo, UpDpkgs

LEMMA PreinstKeeps == ASSUME UpInv, Probe \/ ProbeFails \/ Quiesce \/ QuiesceFails PROVE UpInv'
<1>1. /\ UNCHANGED <<uJob, uFull, uPkg, uFirmware, uData>> /\ uDpkg.at \in {"probe", "stop"}
      /\ uDpkg \in UpDpkgs /\ uStack' \in BOOLEAN /\ uLeft' \in UpLefts
  BY FaultTyped DEF Probe, ProbeFails, Quiesce, QuiesceFails, UpDevice, UpInv, UpTypes
<1>2. CASE Probe \/ Quiesce
  <2>1. PICK at \in {"stop", "unpack"} : DpkgTo(at)
    BY <1>2 DEF Probe, Quiesce
  <2>2. /\ uDpkg' \in UpDpkgs /\ uDpkg'.at = at /\ uDpkg'.i = uDpkg.i
        /\ uDpkg'.unpacked = uDpkg.unpacked /\ uDpkg'.failed = uDpkg.failed
    BY <1>1, <2>1, DpkgToTyped
  <2>3. UnpackInv'
    BY <1>1, <2>2 DEF UpInv, UnpackInv
  <2> QED
    BY <1>1, <2>2, <2>3, PlainKeeps
<1>3. CASE ProbeFails \/ QuiesceFails
  <2>1. UnpackNext({"preinst"}) /\ {"preinst"} \in SUBSET {"preinst"}
    BY <1>3 DEF ProbeFails, QuiesceFails
  <2>2. /\ uDpkg' \in UpDpkgs /\ uDpkg'.unpacked = uDpkg.unpacked
        /\ uDpkg'.failed = uDpkg.failed \cup {"preinst"}
        /\ uDpkg.i = 4 => uDpkg'.at = "configure"
        /\ uDpkg.i # 4 => uDpkg'.at = "probe"
    BY <1>1, <2>1, UnpackNextTyped
  <2>3. uDpkg'.at \in {"configure", "probe"}
    BY <2>2
  <2>4. UnpackInv'
    BY <2>2 DEF UnpackInv
  <2> QED
    BY <1>1, <2>2, <2>3, <2>4, PlainKeeps
<1> QED
  BY <1>2, <1>3

LEMMA UnpackKeeps == ASSUME UpInv, UnpackPackage PROVE UpInv'
<1> DEFINE p == UpOrder[uDpkg.i]
           version == uJob.version
<1>1. /\ UNCHANGED <<uFirmware, uStack, uFull, uData, uJob, uLeft>> /\ uDpkg.at = "unpack"
      /\ uDpkg \in UpDpkgs /\ uPkg \in UpPkgs /\ ~uJob.bad /\ uJob.at = "dpkg"
      /\ version \in UpVersions
  BY DEF UnpackPackage, UpInv, UpTypes, DpkgInv, UpdateJobs
<1>2. uDpkg.i \in 1 .. 4 /\ p \in UpPackages
  BY <1>1, Orders DEF UpDpkgs
<1>3. PICK good \in BOOLEAN : good = TRUE
  OBVIOUS
<1>4. uPkg' = [uPkg EXCEPT ![p] = [v |-> version, status |-> "unpacked", good |-> good]]
  BY <1>1, <1>3 DEF UnpackPackage, UpPackage
<1>5. /\ uPkg' \in UpPkgs /\ uPkg'[p].v = version /\ uPkg'[p].status = "unpacked" /\ uPkg'[p].good
      /\ \A q \in UpPackages : q # p => uPkg'[q] = uPkg[q]
  BY <1>1, <1>2, <1>3, <1>4 DEF UpPkgs
<1>6. PICK at \in {"configure", "probe"}, i \in 1 .. 4 :
          /\ uDpkg' = [uDpkg EXCEPT !.at = at, !.i = i, !.unpacked = @ \cup {p}]
          /\ at = "probe" => i = uDpkg.i + 1
          /\ at = "configure" => uDpkg.i = 4
  <2>1. CASE uDpkg.i = 4
    <3>1. uDpkg' = [uDpkg EXCEPT !.at = "configure", !.i = 1, !.unpacked = @ \cup {p}]
      BY <2>1, Orders DEF UnpackPackage, UpPackage
    <3> QED
      BY <2>1, <3>1
  <2>2. CASE uDpkg.i # 4
    <3>1. PICK j : j = uDpkg.i + 1
      OBVIOUS
    <3>2. uDpkg' = [uDpkg EXCEPT !.at = "probe", !.i = j, !.unpacked = @ \cup {p}]
      <4>1. [at |-> "probe", i |-> j].at = "probe" /\ [at |-> "probe", i |-> j].i = j
        OBVIOUS
      <4> QED
        BY <2>2, <3>1, <4>1, Orders DEF UnpackPackage, UpPackage
    <3>3. j \in 1 .. 4
      BY <1>2, <2>2, <3>1
    <3> QED
      BY <3>1, <3>2, <3>3
  <2> QED
    BY <2>1, <2>2
<1>7. PICK u : u = uDpkg.unpacked \cup {p}
  OBVIOUS
<1>8. uDpkg' = [at |-> at, i |-> i, unpacked |-> u, failed |-> uDpkg.failed]
  BY <1>1, <1>6, <1>7 DEF UpDpkgs
<1>9. u \in SUBSET UpPackages /\ uDpkg.failed \in SUBSET (MigrateSet \cup {"preinst", "depends"})
  BY <1>1, <1>2, <1>7 DEF UpDpkgs
<1>10. /\ uDpkg' \in UpDpkgs /\ uDpkg'.at = at /\ uDpkg'.i = i /\ uDpkg'.unpacked = u
       /\ uDpkg'.failed = uDpkg.failed
  BY <1>8, <1>9 DEF UpDpkgs
<1>11. InstalledIsSigned' /\ OriginalsKept' /\ CopyInv'
  BY <1>1, <1>5, <1>10 DEF UpInv, InstalledIsSigned, OriginalsKept, CopyInv
<1>12. VersionInv'
  BY <1>1, <1>5, Orders DEF UpInv, VersionInv
<1>13. DpkgInv'
  <2>1. \A q \in u : uPkg'[q].v = version
    BY <1>5, <1>7, <1>9 DEF UpInv, DpkgInv
  <2> QED
    BY <1>1, <1>10, <2>1 DEF DpkgInv
<1>14. UnpackInv'
  <2> SUFFICES ASSUME NEW k \in 1 .. 4,
                      IF uDpkg'.at \in {"probe", "stop", "unpack"} THEN k < uDpkg'.i
                      ELSE uDpkg'.at # "none"
               PROVE  UpOrder[k] \in uDpkg'.unpacked \/ "preinst" \in uDpkg'.failed
    BY DEF UnpackInv
  <2>1. k <= uDpkg.i
    BY <1>2, <1>6, <1>10
  <2>2. CASE k = uDpkg.i
    BY <1>7, <1>10, <2>2
  <2>3. CASE k < uDpkg.i
    BY <1>1, <1>7, <1>10, <2>3 DEF UpInv, UnpackInv
  <2> QED
    BY <1>2, <2>1, <2>2, <2>3
<1>15. DowngradeInv'
  <2>1. \A k \in 1 .. 4 : k <= uJob.got => UpOrder[k] \in UpPackages /\ Forward(UpOrder[k])
    BY Orders DEF UpInv, DowngradeInv
  <2>2. version <= version
    <3>1. version \in Nat
      BY <1>1, UpAssumption
    <3> QED
      BY <3>1
  <2>3. \A k \in 1 .. 4 : k <= uJob.got => Forward(UpOrder[k])'
    BY <1>1, <1>5, <2>1, <2>2 DEF Forward
  <2> QED
    BY <1>1, <2>3 DEF UpInv, DowngradeInv
<1> QED
  BY <1>1, <1>5, <1>10, <1>11, <1>12, <1>13, <1>14, <1>15 DEF UpInv, UpTypes

LEMMA ConfigureKeeps == ASSUME UpInv, Configure PROVE UpInv'
<1> DEFINE p == ConfiguredPackage
<1>1. /\ UNCHANGED <<uFirmware, uStack, uFull, uData, uJob, uLeft>> /\ uDpkg.at = "configure"
      /\ uDpkg \in UpDpkgs /\ uPkg \in UpPkgs /\ uStack \in BOOLEAN /\ uLeft \in UpLefts
      /\ uFirmware \in UpVersions /\ uData \in UpDatas
  BY DEF Configure, UpInv, UpTypes
<1>2. CASE DpkgTo(MigrateSteps[1]) /\ UNCHANGED uPkg
  <2>1. MigrateSteps[1] = "accounts" /\ "accounts" \in MigrateSet
    BY Steps DEF MigrateSteps
  <2>2. /\ uDpkg' \in UpDpkgs /\ uDpkg'.at = "accounts" /\ uDpkg'.unpacked = uDpkg.unpacked
        /\ uDpkg'.failed = uDpkg.failed
    BY <1>1, <1>2, <2>1, DpkgToTyped
  <2>3. UnpackInv'
    BY <1>1, <2>2, PastUnpack DEF UpInv
  <2> QED
    BY <1>1, <1>2, <2>2, <2>3, PlainKeeps
<1>3. ASSUME NEW F \in SUBSET (MigrateSet \cup {"depends"}), ConfigureNext(F)
      PROVE  /\ uDpkg' \in UpDpkgs /\ uDpkg'.at \in {"configure", "end"}
             /\ uDpkg'.unpacked = uDpkg.unpacked /\ UnpackInv'
  <2>1. /\ uDpkg' \in UpDpkgs /\ uDpkg'.unpacked = uDpkg.unpacked
        /\ uDpkg'.failed = uDpkg.failed \cup F /\ uDpkg'.at \in {"configure", "end"}
    BY <1>1, <1>3, ConfigureNextTyped
  <2>2. UnpackInv'
    BY <1>1, <2>1, PastUnpack DEF UpInv
  <2> QED
    BY <2>1, <2>2
<1>4. {} \in SUBSET (MigrateSet \cup {"depends"}) /\ {"depends"} \in SUBSET (MigrateSet \cup {"depends"})
  OBVIOUS
<1>5. CASE (ConfigureNext({}) \/ ConfigureNext({"depends"})) /\ UNCHANGED uPkg
  <2>1. /\ uDpkg' \in UpDpkgs /\ uDpkg'.at \in {"configure", "end"}
        /\ uDpkg'.unpacked = uDpkg.unpacked /\ UnpackInv'
    BY <1>3, <1>4, <1>5
  <2> QED
    BY <1>1, <1>5, <2>1, PlainKeeps
<1>6. CASE /\ p \in uDpkg.unpacked /\ p # "runtime" /\ ConfigureNext({})
           /\ uPkg' = [uPkg EXCEPT ![p].status = "installed"]
  <2>1. /\ uDpkg' \in UpDpkgs /\ uDpkg'.at \in {"configure", "end"}
        /\ uDpkg'.unpacked = uDpkg.unpacked /\ UnpackInv'
    BY <1>3, <1>4, <1>6
  <2>2. p \in UpPackages
    BY <1>1, <1>6 DEF UpDpkgs
  <2>3. /\ uPkg' \in UpPkgs
        /\ \A q \in UpPackages : uPkg'[q].v = uPkg[q].v /\ uPkg'[q].good = uPkg[q].good
        /\ uPkg'["runtime"] = uPkg["runtime"]
    BY <1>1, <1>6, <2>2, Orders DEF UpPkgs
  <2>4. OriginalsKept' /\ VersionInv' /\ CopyInv'
    BY <1>1, <2>1, <2>3 DEF UpInv, OriginalsKept, VersionInv, CopyInv
  <2> QED
    BY <1>1, <2>1, <2>3, <2>4, ScriptKeeps
<1> QED
  BY <1>2, <1>5, <1>6 DEF Configure

LEMMA MigrateKeeps == ASSUME UpInv, NEW s \in MigrateSet, Migrate(s) PROVE UpInv'
<1>1. /\ UNCHANGED <<uFull, uJob, uLeft>> /\ uDpkg.at = s /\ s \notin {"none", "probe", "stop", "unpack"}
      /\ uDpkg \in UpDpkgs /\ uPkg \in UpPkgs /\ uLeft' \in UpLefts
      /\ uFirmware \in UpVersions /\ uData \in UpDatas
  BY Steps DEF Migrate, UpInv, UpTypes
<1>2. uStack' \in BOOLEAN
  BY DEF Migrate
<1>3. PICK copy \in {"none", "part", "whole"}, old \in BOOLEAN :
          /\ copy = (CASE s = "copies" /\ NoCopyYet -> "part" [] s = "copied" -> "whole"
                       [] OTHER -> uData.copy)
          /\ old = (uData.old /\ s # "network")
  <2>1. PICK old \in BOOLEAN : old = (uData.old /\ s # "network")
    OBVIOUS
  <2> QED
    BY <1>1, <2>1 DEF UpDatas
<1>4. uData' = [uData EXCEPT !.copy = copy, !.old = old]
  BY <1>3 DEF Migrate, DataAfter
<1>5. /\ uData' \in UpDatas /\ uData'.copy = copy /\ uData'.old = old
      /\ uData'.reported = uData.reported /\ uData'.cut = uData.cut
  BY <1>1, <1>4 DEF UpDatas
<1>6. OriginalsKept'
  <2>1. s = "network" => ~uData.old \/ Copied
    BY <1>1 DEF UpInv, CopyInv
  <2>2. ~old => ~uData.old \/ s = "network"
    BY <1>3
  <2>3. copy = uData.copy \/ copy = "whole" \/ (uData.old /\ s = "copies")
    BY <1>3 DEF NoCopyYet
  <2>4. ~old => Copied
    BY <2>1, <2>2 DEF UpInv, OriginalsKept, Copied
  <2> QED
    BY <1>3, <1>5, <2>2, <2>3, <2>4 DEF OriginalsKept, Copied
<1>7. CASE s = "version"
  <2>1. ConfigureNext({}) /\ {} \in SUBSET (MigrateSet \cup {"depends"})
    BY <1>7 DEF Migrate
  <2>2. /\ uDpkg' \in UpDpkgs /\ uDpkg'.unpacked = uDpkg.unpacked
        /\ uDpkg'.failed = uDpkg.failed \cup {} /\ uDpkg'.at \in {"configure", "end"}
    BY <1>1, <2>1, ConfigureNextTyped
  <2>3. UnpackInv'
    BY <1>1, <2>2, PastUnpack DEF UpInv
  <2>4. /\ uFirmware' = uPkg["runtime"].v
        /\ uPkg' = [uPkg EXCEPT !["runtime"].status = "installed"]
    BY <1>7 DEF Migrate, VersionAfter
  <2>5. /\ uPkg' \in UpPkgs /\ uFirmware' \in UpVersions
        /\ \A q \in UpPackages : uPkg'[q].v = uPkg[q].v /\ uPkg'[q].good = uPkg[q].good
        /\ uFirmware' = uPkg'["runtime"].v
    BY <1>1, <2>4, Orders DEF UpPkgs
  <2>6. VersionInv' /\ CopyInv'
    BY <1>1, <1>3, <1>5, <1>7, <2>2, <2>5 DEF UpInv, VersionInv, CopyInv
  <2> QED
    BY <1>1, <1>2, <1>5, <1>6, <2>2, <2>3, <2>5, <2>6, ScriptKeeps
<1>8. CASE s # "version"
  <2>1. /\ uFirmware' = uFirmware /\ uPkg' = uPkg /\ DpkgTo(StepAfter(s))
    BY <1>8 DEF Migrate, VersionAfter
  <2>2. /\ StepAfter(s) \in MigrateSet /\ StepAfter(s) # "none"
        /\ StepAfter(s) = "import" => s = "copied" \/ (s = "copies" /\ ~NoCopyYet)
        /\ StepAfter(s) = "network" => s = "import"
        /\ s = "copies" /\ NoCopyYet => StepAfter(s) = "copied"
    BY <1>8, Steps, NextSteps DEF StepAfter
  <2>3. /\ uDpkg' \in UpDpkgs /\ uDpkg'.at = StepAfter(s)
        /\ uDpkg'.unpacked = uDpkg.unpacked /\ uDpkg'.failed = uDpkg.failed
    BY <1>1, <2>1, <2>2, DpkgToTyped
  <2>4. UnpackInv'
    BY <1>1, <2>3, PastUnpack DEF UpInv
  <2>5. VersionInv'
    BY <2>1 DEF UpInv, VersionInv
  <2>6. CopyInv'
    <3>1. uDpkg.at = "import" => ~uData.old \/ Copied
      BY DEF UpInv, CopyInv
    <3>2. uData.copy = "part" /\ s # "copied" => uData.reported \/ uData.cut
      BY <1>1 DEF UpInv, CopyInv
    <3>3. uData.copy \in {"none", "part", "whole"}
      BY <1>1 DEF UpDatas
    <3>4. copy = "part" => uData'.reported \/ uData'.cut \/ uDpkg'.at = "copied"
      BY <1>3, <1>5, <2>2, <2>3, <3>2
    <3>5. CASE s = "copied"
      BY <1>3, <1>5, <3>4, <3>5 DEF CopyInv, Copied
    <3>6. CASE s = "copies" /\ ~NoCopyYet
      <4>1. copy = uData.copy /\ (old <=> uData.old)
        BY <1>3, <3>6
      <4>2. ~uData.old \/ Copied
        BY <3>2, <3>3, <3>6 DEF NoCopyYet, Copied
      <4> QED
        BY <1>5, <3>4, <4>1, <4>2 DEF CopyInv, Copied
    <3>7. CASE s = "import"
      <4>1. copy = uData.copy /\ (old <=> uData.old)
        BY <1>3, <3>7
      <4> QED
        BY <1>1, <1>5, <3>1, <3>4, <3>7, <4>1 DEF CopyInv, Copied
    <3>8. CASE uDpkg'.at \notin {"import", "network"}
      BY <1>5, <3>4, <3>8 DEF CopyInv
    <3> QED
      BY <2>2, <2>3, <3>5, <3>6, <3>7, <3>8
  <2> QED
    BY <1>1, <1>2, <1>5, <1>6, <2>1, <2>2, <2>3, <2>4, <2>5, <2>6, ScriptKeeps
<1> QED
  BY <1>7, <1>8

LEMMA MigrateFailsKeeps == ASSUME UpInv, NEW s \in MigrateSet, MigrateFails(s) PROVE UpInv'
<1>1. /\ UNCHANGED <<uPkg, uFirmware, uStack, uFull, uJob>> /\ uDpkg.at = s
      /\ s \notin {"none", "probe", "stop", "unpack"}
      /\ uDpkg \in UpDpkgs /\ uPkg \in UpPkgs /\ uStack \in BOOLEAN /\ uLeft' \in UpLefts
      /\ uFirmware \in UpVersions /\ uData \in UpDatas
  BY Steps, FaultTyped DEF MigrateFails, UpInv, UpTypes
<1>2. PICK reported \in BOOLEAN, old \in BOOLEAN :
          /\ uData' = [uData EXCEPT !.old = old, !.reported = reported]
          /\ uData.reported => reported
          /\ s = "copied" \/ (s = "copies" /\ NoCopyYet) => reported
          /\ old \/ ~uData.old \/ s = "network"
          /\ ~uData.old => ~old
  <2>1. PICK yes \in BOOLEAN, no \in BOOLEAN : yes = TRUE /\ no = FALSE
    OBVIOUS
  <2>2. uData = [uData EXCEPT !.old = uData.old, !.reported = uData.reported]
    BY <1>1 DEF UpDatas
  <2>3. CASE s = "network"
    <3>1. uData' = uData \/ uData' = [uData EXCEPT !.old = no]
      BY <2>1, <2>3 DEF MigrateFails, DataAfterFailure
    <3>2. uData' = uData \/ uData' = [uData EXCEPT !.old = no, !.reported = uData.reported]
      BY <1>1, <3>1 DEF UpDatas
    <3>3. uData.old \in BOOLEAN /\ uData.reported \in BOOLEAN
      BY <1>1 DEF UpDatas
    <3> QED
      BY <2>1, <2>2, <2>3, <3>2, <3>3
  <2>4. CASE s = "copied" \/ (s = "copies" /\ NoCopyYet)
    <3>1. uData' = [uData EXCEPT !.reported = yes]
      BY <2>1, <2>4 DEF MigrateFails, DataAfterFailure
    <3>2. uData' = [uData EXCEPT !.old = uData.old, !.reported = yes] /\ uData.old \in BOOLEAN
      BY <1>1, <3>1 DEF UpDatas
    <3> QED
      BY <2>1, <3>2
  <2>5. CASE s # "network" /\ s # "copied" /\ ~(s = "copies" /\ NoCopyYet)
    <3>1. uData' = uData
      BY <2>5 DEF MigrateFails, DataAfterFailure
    <3>2. uData.old \in BOOLEAN /\ uData.reported \in BOOLEAN
      BY <1>1 DEF UpDatas
    <3> QED
      BY <2>2, <2>5, <3>1, <3>2
  <2> QED
    BY <2>3, <2>4, <2>5
<1>4. /\ uData' \in UpDatas /\ uData'.copy = uData.copy /\ uData'.old = old
      /\ uData'.reported = reported /\ uData'.cut = uData.cut
  BY <1>1, <1>2 DEF UpDatas
<1>5. OriginalsKept' /\ VersionInv'
  <2>1. s = "network" => ~uData.old \/ Copied
    BY <1>1 DEF UpInv, CopyInv
  <2> QED
    BY <1>1, <1>2, <1>4, <2>1 DEF UpInv, OriginalsKept, VersionInv, Copied
<1>6. CASE FailsPackage(s)
  <2>1. ConfigureNext({s}) /\ {s} \in SUBSET (MigrateSet \cup {"depends"})
    BY <1>6 DEF MigrateFails
  <2>2. /\ uDpkg' \in UpDpkgs /\ uDpkg'.unpacked = uDpkg.unpacked
        /\ uDpkg'.failed = uDpkg.failed \cup {s} /\ uDpkg'.at \in {"configure", "end"}
    BY <1>1, <2>1, ConfigureNextTyped
  <2>3. UnpackInv'
    BY <1>1, <2>2, PastUnpack DEF UpInv
  <2>4. s # "copied"
    BY <1>6 DEF FailsPackage, Essential
  <2>5. CopyInv'
    BY <1>1, <1>2, <1>4, <2>2, <2>4 DEF UpInv, CopyInv
  <2> QED
    BY <1>1, <1>4, <1>5, <2>2, <2>3, <2>5, ScriptKeeps
<1>7. CASE ~FailsPackage(s)
  <2>1. s = "copies" \/ s = "copied" \/ s = "retire"
    BY <1>7, Steps DEF FailsPackage, Essential
  <2>2. /\ StepAfterFailure(s) \in {"import", "start"} /\ StepAfterFailure(s) \in MigrateSet
        /\ StepAfterFailure(s) = "import" => s = "copies" \/ s = "copied"
    BY <2>1, Steps, NextSteps DEF StepAfterFailure
  <2>3. PICK at, f : at = StepAfterFailure(s) /\ f = uDpkg.failed \cup {s}
    OBVIOUS
  <2>4. uDpkg' = [uDpkg EXCEPT !.at = at, !.failed = f]
    BY <1>7, <2>3 DEF MigrateFails
  <2>5. f \in SUBSET (MigrateSet \cup {"preinst", "depends"})
    BY <1>1, <2>3 DEF UpDpkgs
  <2>6. /\ uDpkg' \in UpDpkgs /\ uDpkg'.at = at /\ uDpkg'.unpacked = uDpkg.unpacked
        /\ uDpkg'.failed = f
    BY <1>1, <2>2, <2>3, <2>4, <2>5 DEF UpDpkgs
  <2>7. UnpackInv'
    BY <1>1, <2>3, <2>6, PastUnpack DEF UpInv
  <2>8. CopyInv'
    <3>1. uData.copy = "part" /\ s # "copied" => uData.reported \/ uData.cut
      BY <1>1 DEF UpInv, CopyInv
    <3>2. uData.copy \in {"none", "part", "whole"}
      BY <1>1 DEF UpDatas
    <3>3. at = "import" => ~uData.old \/ Copied \/ reported
      BY <1>2, <2>2, <2>3, <3>1, <3>2 DEF NoCopyYet, Copied
    <3>4. at # "network"
      BY <2>2, <2>3
    <3>5. uData.copy = "part" => reported \/ uData.cut
      BY <1>2, <3>1
    <3> QED
      BY <1>2, <1>4, <2>6, <3>3, <3>4, <3>5 DEF CopyInv, Copied
  <2> QED
    BY <1>1, <1>4, <1>5, <2>2, <2>3, <2>6, <2>7, <2>8, ScriptKeeps
<1> QED
  BY <1>6, <1>7

\* The disk fills and is freed; or nothing happens.
LEMMA DiskKeeps == ASSUME UpInv, DiskFills \/ DiskFreed \/ UNCHANGED upVars PROVE UpInv'
<1>1. UNCHANGED <<uPkg, uFirmware, uStack, uData, uJob, uDpkg>> /\ uFull' \in BOOLEAN /\ uLeft' \in UpLefts
  BY FaultTyped DEF DiskFills, DiskFreed, upVars, UpInv, UpTypes
<1> QED
  BY <1>1 DEF UpInv, UpTypes, InstalledIsSigned, OriginalsKept, DpkgInv, UnpackInv, DowngradeInv, Forward,
             VersionInv, CopyInv, Copied

-------------------------------------------------------------------------------
(* The theorems.                                                               *)

LEMMA UpInvKept == ASSUME UpInv, [UpNext]_upVars PROVE UpInv'
<1>1. CASE \E v \in UpVersions, force \in BOOLEAN : RequestUpdate(v, force)
  BY <1>1, RequestKeeps
<1>2. CASE CheckVersion \/ JobRefused \/ StartDpkg \/ FinishUpdate \/ PowerFails
  BY <1>2, CheckKeeps, RefusedKeeps, StartKeeps, FinishKeeps
<1>3. CASE \E signer \in {"trusted", "other"}, v \in UpVersions : FetchManifest(signer, v)
  BY <1>3, FetchKeeps
<1>4. CASE \E bytes \in {"listed", "other", "cut"} : Download(bytes)
  BY <1>4, DownloadKeeps
<1>5. CASE DpkgStep \/ QuiesceFails
  BY <1>5, PreinstKeeps, UnpackKeeps, ConfigureKeeps, MigrateKeeps DEF DpkgStep
<1>6. CASE \E s \in MigrateSet : MigrateFails(s)
  BY <1>6, MigrateFailsKeeps
<1>7. CASE DiskFills \/ DiskFreed \/ UNCHANGED upVars
  BY <1>7, DiskKeeps
<1> QED
  BY <1>1, <1>2, <1>3, <1>4, <1>5, <1>6, <1>7 DEF UpNext

\* The state of an update and of the device stays consistent, whatever fails or is
\* killed: dpkg's database against the job, and the version file and the recovery
\* copy against the step of the migration that is being run.
THEOREM UpInvHolds == UpSpec => []UpInv
<1>1. UpInit => UpInv
  BY UpInvAtFirst
<1>2. UpInv /\ [UpNext]_upVars => UpInv'
  BY UpInvKept
<1> QED
  BY <1>1, <1>2, PTL DEF UpSpec

\* Only unpacking changes a version, and a job that was not forced unpacks what
\* it compared with the package that is there.
LEMMA NoPackageGoesBack ==
    ASSUME UpInv, [UpNext]_upVars, NEW p \in UpPackages, uPkg'[p].v < uPkg[p].v
    PROVE  uJob.force
<1>1. uPkg \in UpPkgs /\ uPkg[p].v \in Nat /\ ~(uPkg[p].v < uPkg[p].v)
  <2>1. uPkg \in UpPkgs
    BY DEF UpInv, UpTypes
  <2>2. uPkg[p].v \in UpVersions
    BY <2>1 DEF UpPkgs
  <2>3. uPkg[p].v \in Nat
    BY <2>2, UpAssumption
  <2> QED
    BY <2>1, <2>3
<1>2. CASE uPkg' = uPkg
  BY <1>1, <1>2
<1>3. CASE UnpackPackage
  <2>1. uDpkg.i \in 1 .. 4 /\ uJob.at = "dpkg" /\ uJob.got = 4 /\ uJob.version \in Nat
    BY <1>3, UpAssumption DEF UnpackPackage, UpInv, UpTypes, UpDpkgs, UpdateJobs, DpkgInv, DowngradeInv
  <2>2. Forward(UpOrder[uDpkg.i])
    BY <2>1 DEF UpInv, DowngradeInv
  <2>3. p = UpOrder[uDpkg.i] /\ uPkg'[p].v = uJob.version
    BY <1>1, <1>3 DEF UnpackPackage, UpPackage, UpPkgs
  <2> QED
    BY <1>1, <2>1, <2>2, <2>3 DEF Forward
<1>4. CASE Configure
  BY <1>1, <1>4 DEF Configure, UpPkgs
<1>5. CASE \E s \in MigrateSet : Migrate(s)
  BY <1>1, <1>5 DEF Migrate, UpPkgs
<1> QED
  BY <1>2, <1>3, <1>4, <1>5
  DEF UpNext, DpkgStep, RequestUpdate, CheckVersion, JobRefused, StartDpkg, FinishUpdate, FetchManifest,
      Download, Probe, ProbeFails, Quiesce, QuiesceFails, MigrateFails, DiskFills, DiskFreed, PowerFails,
      UpDevice, upVars

\* What an update promises (Update::run, the package scripts): every package on the
\* device is one that a trusted key signed for its version; no version goes back
\* unless it is forced; between updates the version file names the configured
\* runtime package; and the old network data is copied before it is given up, in full
\* unless the copy failed and that was reported or power was lost over it.
THEOREM UpdatesKeepTheirWord == UpSpec => UpdatePromises
<1>1. UpInv => UpTypeOK /\ InstalledIsSigned /\ VersionIsRuntimes /\ OriginalsKept
  <2> SUFFICES ASSUME UpInv PROVE UpTypeOK /\ VersionIsRuntimes
    BY DEF UpInv
  <2>1. UpTypeOK
    BY Orders DEF UpInv, UpTypes, UpTypeOK, UpPkgs, UpDatas, UpdateJobs, UpDpkgs, UpLefts
  <2>2. VersionIsRuntimes
    BY DEF UpInv, VersionInv, VersionIsRuntimes
  <2> QED
    BY <2>1, <2>2
<1>2. UpInv /\ [UpNext]_upVars =>
          [\A p \in UpPackages : uPkg'[p].v < uPkg[p].v => uJob.force]_upVars
  BY NoPackageGoesBack
<1> QED
  BY <1>1, <1>2, UpInvHolds, PTL DEF UpSpec, UpdatePromises, NoSilentDowngrade
================================================================================
