---------------------------- MODULE PluginFiles ----------------------------
(* The files of a plugin.  The control process prepares an archive, from an   *)
(* upload or from a feed, as a file named after its digest; privd inspects it *)
(* for the operator, who confirms; a root job then unpacks the archive and    *)
(* exchanges it with the installed tree, keeping the previous tree until the  *)
(* install hook has succeeded.  A job can be killed between any two steps.    *)
(* Sources: ndimon-state domains/plugins/host.rs, domains/plugins.rs and      *)
(* ndimon-privd plugins.rs, plugins/runtime.rs, store.rs.                     *)
(*                                                                            *)
(* One plugin.  An archive's content stands for its digest and its version:   *)
(* a larger one is a newer version.                                           *)
EXTENDS Naturals

CONSTANTS PfContents,  \* contents of archives, also their versions
          PfRequests,  \* prepared archives, jobs and starts
          PfFaults     \* failed hooks, killed jobs, changed sources

ASSUME PfAssumption ==
    PfContents \subseteq Nat \ {0} /\ PfRequests \in Nat /\ PfFaults \in Nat

VARIABLES fUpload,  \* content of the upload file, NoContent if there is none
          fFeed,    \* [serves: what the feed's URL answers, cached: what the cached feed lists]
          fStore,   \* prepared archives by digest
          fOffer,   \* the archive being prepared for the operator
          fJob,     \* the root job
          fDest,    \* the installed tree
          fPrev,    \* .previous-<name>
          fEntry,   \* the registry: accepted version, and the one before the job
          fShown,   \* ghost: contents whose manifest the operator was shown
          fGood,    \* ghost: an install has succeeded, and nothing since gave it up
          pfLeft    \* the bounds still unspent

pfVars == <<fUpload, fFeed, fStore, fOffer, fJob, fDest, fPrev, fEntry, fShown, fGood, pfLeft>>
-----------------------------------------------------------------------------
NoContent == 0
PfMaybe == PfContents \cup {NoContent}

\* Of a tree whose removal was cut off, files are missing, among them perhaps the
\* marker and the manifest ("bare").
Whole(v, broken) == [v |-> v, broken |-> broken, done |-> FALSE, cut |-> "whole"]
NoTree == Whole(NoContent, FALSE)
PfTrees == [v : PfMaybe, broken : BOOLEAN, done : BOOLEAN, cut : {"whole", "half", "bare"}]

NoOffer == [at |-> "none", listed |-> NoContent, content |-> NoContent]
NoPfJob == [at |-> "none", kind |-> "install", archive |-> NoContent, result |-> "none"]

InstallSteps == {"begin", "unpack", "compare", "clear", "swapOut", "swapIn", "hook", "unmark", "clean",
                 "mark", "dropNew", "putBack", "markOld"}
RemoveSteps == {"begin", "unhook", "drop"}

PfTypeOK ==
    /\ fUpload \in PfMaybe
    /\ fFeed \in [serves : PfContents, cached : PfMaybe]
    /\ fStore \in [PfContents -> {"none", "fresh", "old"}]
    /\ fOffer \in [at : {"none", "copy", "stored", "offered"}, listed : PfMaybe, content : PfMaybe]
    /\ fJob \in [at : {"none", "over"} \cup InstallSteps \cup RemoveSteps,
                 kind : {"install", "remove"}, archive : PfMaybe,
                 result : {"none", "ok", "failed", "killed"}]
    /\ fDest \in PfTrees /\ fPrev \in PfTrees
    /\ fEntry \in [version : PfMaybe, before : PfMaybe]
    /\ fShown \in SUBSET PfContents
    /\ fGood \in BOOLEAN
    /\ pfLeft \in [requests : 0 .. PfRequests, faults : 0 .. PfFaults]

PfInit ==
    /\ fUpload = NoContent
    /\ fFeed \in [serves : PfContents, cached : {NoContent}]
    /\ fStore = [c \in PfContents |-> "none"]
    /\ fOffer = NoOffer /\ fJob = NoPfJob
    /\ fDest = NoTree /\ fPrev = NoTree
    /\ fEntry = [version |-> NoContent, before |-> NoContent]
    /\ fShown = {} /\ fGood = FALSE
    /\ pfLeft = [requests |-> PfRequests, faults |-> PfFaults]

Present(tree) == tree.v # NoContent
Good(tree) == Present(tree) /\ tree.done /\ tree.cut = "whole"
PfAsked == pfLeft.requests > 0 /\ pfLeft' = [pfLeft EXCEPT !.requests = @ - 1]
PfFails == pfLeft.faults > 0 /\ pfLeft' = [pfLeft EXCEPT !.faults = @ - 1]

\* .operation-lock: one job, inspection, start or service request at a time.
Unlocked == fJob.at \in {"none", "begin", "over"}

\* Every operation first puts the previous tree back if the live one is missing.
RecoveredTree(tree) == IF ~Present(tree) THEN fPrev ELSE tree
Recover == fDest' = RecoveredTree(fDest) /\ fPrev' = IF RecoveredTree(fDest) # fDest THEN NoTree ELSE fPrev
-----------------------------------------------------------------------------
(* Preparing an archive (NativeHost::feed, prepare; the prepare query).       *)

Upload(c) ==
    /\ c # fUpload /\ PfFails
    /\ fUpload' = c
    /\ UNCHANGED <<fFeed, fStore, fOffer, fJob, fDest, fPrev, fEntry, fShown, fGood>>

\* The feed's owner replaces the file behind the URL.
FeedChanges(c) ==
    /\ c # fFeed.serves /\ PfFails
    /\ fFeed' = [fFeed EXCEPT !.serves = c]
    /\ UNCHANGED <<fUpload, fStore, fOffer, fJob, fDest, fPrev, fEntry, fShown, fGood>>

\* The feed is fetched, on request or because the cached one is old or was
\* fetched under other device settings.
FeedFetched ==
    /\ fFeed' = [fFeed EXCEPT !.cached = fFeed.serves]
    /\ fFeed' # fFeed
    /\ UNCHANGED <<fUpload, fStore, fOffer, fJob, fDest, fPrev, fEntry, fShown, fGood, pfLeft>>

\* Fifteen minutes pass.
Expires(c) ==
    /\ fStore[c] = "fresh"
    /\ fStore' = [fStore EXCEPT ![c] = "old"]
    /\ UNCHANGED <<fUpload, fFeed, fOffer, fJob, fDest, fPrev, fEntry, fShown, fGood, pfLeft>>

\* Prepared archives that are too old are swept when another one is prepared.
Swept == [c \in PfContents |-> IF fStore[c] = "old" THEN "none" ELSE fStore[c]]

Prepare(source) ==
    /\ fOffer.at \in {"none", "offered"} /\ PfAsked
    /\ source = "feed" => fFeed.cached # NoContent
    /\ fOffer' = [at |-> "copy", listed |-> IF source = "feed" THEN fFeed.cached ELSE NoContent,
                  content |-> NoContent]
    /\ fStore' = Swept
    /\ UNCHANGED <<fUpload, fFeed, fJob, fDest, fPrev, fEntry, fShown, fGood>>

\* The bytes are copied and hashed; those of a feed must have the listed digest.
PrepareCopies ==
    /\ fOffer.at = "copy"
    /\ LET c == IF fOffer.listed # NoContent THEN fFeed.serves ELSE fUpload
           good == c # NoContent /\ fOffer.listed \in {NoContent, c}
       IN /\ fOffer' = IF good THEN [fOffer EXCEPT !.at = "stored", !.content = c] ELSE NoOffer
          /\ fStore' = IF good THEN [fStore EXCEPT ![c] = "fresh"] ELSE fStore
    /\ UNCHANGED <<fUpload, fFeed, fJob, fDest, fPrev, fEntry, fShown, fGood, pfLeft>>

\* privd reads the archive again, unpacks it in a tree of its own and answers
\* its manifest, which the operator is shown.
PrepareInspects ==
    /\ fOffer.at = "stored" /\ Unlocked
    /\ Recover
    /\ IF fStore[fOffer.content] = "none"
       THEN fOffer' = NoOffer /\ UNCHANGED fShown
       ELSE fOffer' = [fOffer EXCEPT !.at = "offered"] /\ fShown' = fShown \cup {fOffer.content}
    /\ UNCHANGED <<fUpload, fFeed, fStore, fJob, fEntry, fGood, pfLeft>>
-----------------------------------------------------------------------------
(* Jobs.                                                                      *)

\* The confirmed install or update is committed with its job.
Accept ==
    /\ fOffer.at = "offered" /\ fJob.at = "none"
    /\ fOffer.content >= fEntry.version
    /\ fEntry' = [version |-> fOffer.content, before |-> fEntry.version]
    /\ fJob' = [at |-> "begin", kind |-> "install", archive |-> fOffer.content, result |-> "none"]
    /\ fOffer' = NoOffer
    /\ UNCHANGED <<fUpload, fFeed, fStore, fDest, fPrev, fShown, fGood, pfLeft>>

Uninstall ==
    /\ fJob.at = "none" /\ fEntry.version # NoContent /\ PfAsked
    /\ fEntry' = [version |-> NoContent, before |-> fEntry.version]
    /\ fJob' = [at |-> "begin", kind |-> "remove", archive |-> NoContent, result |-> "none"]
    /\ UNCHANGED <<fUpload, fFeed, fStore, fOffer, fDest, fPrev, fShown, fGood>>

JobAt(kind, at) == fJob.kind = kind /\ fJob.at = at
JobTo(at) == fJob' = [fJob EXCEPT !.at = at]
JobResult(r) == fJob' = [fJob EXCEPT !.at = "over", !.result = r]
PfRest == UNCHANGED <<fUpload, fFeed, fOffer, fEntry, fShown>>

\* The content of the archive the job names, if it is still there.
ArchiveRead == IF fJob.archive # NoContent /\ fStore[fJob.archive] # "none"
               THEN fJob.archive ELSE NoContent

\* The lock is taken and an interrupted exchange put right.
JobBegins ==
    /\ fJob.at = "begin"
    /\ Recover
    /\ JobTo(IF fJob.kind = "install" THEN "unpack" ELSE "unhook")
    /\ PfRest /\ UNCHANGED <<fStore, fGood, pfLeft>>

Unpack ==
    /\ JobAt("install", "unpack")
    /\ fJob' = IF ArchiveRead = NoContent THEN [fJob EXCEPT !.at = "over", !.result = "failed"]
               ELSE [fJob EXCEPT !.at = "compare", !.archive = ArchiveRead]
    /\ PfRest /\ UNCHANGED <<fStore, fDest, fPrev, fGood, pfLeft>>

\* A downgrade of the installed tree is refused, and one that cannot be read.
Compare ==
    /\ JobAt("install", "compare")
    /\ IF Present(fDest) /\ (fJob.archive < fDest.v \/ fDest.cut = "bare")
       THEN JobResult("failed") ELSE JobTo("clear")
    /\ PfRest /\ UNCHANGED <<fStore, fDest, fPrev, fGood, pfLeft>>

\* A previous tree is given up when the live one is about to take its place.
ClearPrevious ==
    /\ JobAt("install", "clear")
    /\ fPrev' = NoTree
    /\ fGood' = (fGood /\ Good(fDest))
    /\ JobTo("swapOut")
    /\ PfRest /\ UNCHANGED <<fStore, fDest, pfLeft>>

SwapOut ==
    /\ JobAt("install", "swapOut")
    /\ fPrev' = IF Present(fDest) THEN fDest ELSE fPrev
    /\ fDest' = NoTree
    /\ JobTo("swapIn")
    /\ PfRest /\ UNCHANGED <<fStore, fGood, pfLeft>>

\* A mutant: the tree is marked after it is in place.
MarkedLater(v) == Whole(v, FALSE)

\* The new tree carries its .broken marker before it is moved into place.
NewTree(v) == Whole(v, TRUE)

SwapIn ==
    /\ JobAt("install", "swapIn")
    /\ fDest' = NewTree(fJob.archive)
    /\ JobTo("hook")
    /\ PfRest /\ UNCHANGED <<fStore, fPrev, fGood, pfLeft>>

\* The install hook (or Tessera's installer) and the check of the groups.
HookSucceeds ==
    /\ JobAt("install", "hook")
    /\ fDest' = [fDest EXCEPT !.done = TRUE]
    /\ fGood' = TRUE
    /\ JobTo("unmark")
    /\ PfRest /\ UNCHANGED <<fStore, fPrev, pfLeft>>

HookFails ==
    /\ JobAt("install", "hook") /\ PfFails
    /\ JobTo("mark")
    /\ PfRest /\ UNCHANGED <<fStore, fDest, fPrev, fGood>>

Unmark ==
    /\ JobAt("install", "unmark")
    /\ fDest' = [fDest EXCEPT !.broken = FALSE]
    /\ JobTo("clean")
    /\ PfRest /\ UNCHANGED <<fStore, fPrev, fGood, pfLeft>>

\* The previous tree goes, and with the result the prepared archive.
Clean ==
    /\ JobAt("install", "clean")
    /\ fPrev' = NoTree
    /\ fStore' = [fStore EXCEPT ![fJob.archive] = "none"]
    /\ JobResult("ok")
    /\ PfRest /\ UNCHANGED <<fDest, fGood, pfLeft>>

\* Is there a tree to go back to?
GoesBack == Present(fPrev)

MarkFailed ==
    /\ JobAt("install", "mark")
    /\ fDest' = [fDest EXCEPT !.broken = TRUE]
    /\ IF GoesBack THEN JobTo("dropNew") ELSE JobResult("failed")
    /\ PfRest /\ UNCHANGED <<fStore, fPrev, fGood, pfLeft>>

DropNew ==
    /\ JobAt("install", "dropNew")
    /\ fDest' = NoTree
    /\ JobTo("putBack")
    /\ PfRest /\ UNCHANGED <<fStore, fPrev, fGood, pfLeft>>

PutBack ==
    /\ JobAt("install", "putBack")
    /\ fDest' = fPrev /\ fPrev' = NoTree
    /\ JobTo("markOld")
    /\ PfRest /\ UNCHANGED <<fStore, fGood, pfLeft>>

MarkOld ==
    /\ JobAt("install", "markOld")
    /\ fDest' = [fDest EXCEPT !.broken = TRUE]
    /\ JobResult("failed")
    /\ PfRest /\ UNCHANGED <<fStore, fPrev, fGood, pfLeft>>

\* The uninstall hook, or none if the removal is forced; a plugin that is not there
\* is removed already, and one without a manifest is not removed.
Unhook ==
    /\ JobAt("remove", "unhook")
    /\ \/ Present(fDest) /\ JobTo("drop") /\ UNCHANGED <<fDest, fPrev, fGood, pfLeft>>
       \/ Present(fDest) /\ fDest.cut = "bare" /\ JobResult("failed")
              /\ UNCHANGED <<fDest, fPrev, fGood, pfLeft>>
       \/ Present(fDest) /\ PfFails /\ fDest' = [fDest EXCEPT !.broken = TRUE]
              /\ JobResult("failed") /\ UNCHANGED <<fPrev, fGood>>
       \/ ~Present(fDest) /\ fPrev' = NoTree /\ fGood' = FALSE /\ JobResult("ok")
              /\ UNCHANGED <<fDest, pfLeft>>
    /\ PfRest /\ UNCHANGED fStore

Drop ==
    /\ JobAt("remove", "drop")
    /\ fDest' = NoTree /\ fGood' = FALSE
    /\ JobResult("ok")
    /\ PfRest /\ UNCHANGED <<fStore, fPrev, pfLeft>>

\* fs::remove_dir_all fails or is killed inside a tree: what it had not come to is left.
CutOff(tree, cut, marked) == [tree EXCEPT !.cut = cut, !.broken = @ /\ marked]

RemovalCutOff(cut, marked, result) ==
    /\ PfFails
    /\ \/ /\ JobAt("install", "clear") /\ Present(fPrev)
          /\ fPrev' = CutOff(fPrev, cut, marked) /\ UNCHANGED fDest
          /\ fGood' = (fGood /\ Good(fDest))
       \/ /\ JobAt("install", "clean") /\ Present(fPrev)
          /\ fPrev' = CutOff(fPrev, cut, marked) /\ UNCHANGED <<fDest, fGood>>
       \/ /\ JobAt("install", "dropNew")
          /\ fDest' = CutOff(fDest, cut, marked) /\ UNCHANGED <<fPrev, fGood>>
       \/ /\ JobAt("remove", "drop")
          /\ fDest' = CutOff(fDest, cut, marked) /\ fGood' = FALSE /\ UNCHANGED fPrev
    /\ JobResult(result)
    /\ PfRest /\ UNCHANGED fStore

\* The job is cancelled, or the device goes down.
Killed ==
    /\ fJob.at \notin {"none", "over"} /\ PfFails
    /\ JobResult("killed")
    /\ PfRest /\ UNCHANGED <<fStore, fDest, fPrev, fGood>>

\* The result reaches the state actor (PluginJobs): a failed or cancelled job
\* restores the registry entry it changed.
Concluded ==
    /\ fJob.at = "over"
    /\ fEntry' = IF fJob.result = "ok" THEN fEntry ELSE [fEntry EXCEPT !.version = fEntry.before]
    /\ fJob' = NoPfJob
    /\ UNCHANGED <<fUpload, fFeed, fStore, fOffer, fDest, fPrev, fShown, fGood, pfLeft>>

JobStep ==
    JobBegins \/ Unpack \/ Compare \/ ClearPrevious \/ SwapOut \/ SwapIn \/ HookSucceeds \/ Unmark
        \/ Clean \/ MarkFailed \/ DropNew \/ PutBack \/ MarkOld \/ Unhook \/ Drop \/ Concluded
-----------------------------------------------------------------------------

\* runtime::start and service: a tree that is there, with a manifest and no marker.
Startable == Present(fDest) /\ ~fDest.broken /\ fDest.cut # "bare"

\* The runtime unit is started, from the tree of the accepted version.
StartRuntime ==
    /\ Unlocked /\ Startable /\ fDest.v = fEntry.version /\ PfAsked
    /\ UNCHANGED <<fUpload, fFeed, fStore, fOffer, fJob, fDest, fPrev, fEntry, fShown, fGood>>

PfNext ==
    \/ \E c \in PfContents : Upload(c) \/ FeedChanges(c) \/ Expires(c)
    \/ FeedFetched
    \/ \E source \in {"upload", "feed"} : Prepare(source)
    \/ PrepareCopies \/ PrepareInspects
    \/ Accept \/ Uninstall \/ JobStep \/ HookFails \/ Killed
    \/ \E cut \in {"half", "bare"}, marked \in BOOLEAN, result \in {"failed", "killed"} :
         RemovalCutOff(cut, marked, result)
    \/ StartRuntime

\* By themselves, without a promise that anything goes on.
PfSpec == PfInit /\ [][PfNext]_pfVars
-----------------------------------------------------------------------------
(* Properties.                                                                *)

\* No tree is moved into place that the operator was not shown the manifest of,
\* although uploads are replaced, feeds change and archives expire meanwhile.
InstalledWasShown ==
    \A tree \in {fDest, fPrev} : Present(tree) => tree.v \in fShown

\* A plugin is only ever started from a tree whose install hook has succeeded,
\* whatever killed the job that put it there.  The exception is a tree whose own
\* removal was cut off, which no later operation knows from a whole one.
StartedIsWhole == [][StartRuntime => fDest.done \/ fDest.cut = "half"]_pfVars

\* A version that was installed is on disk with all its files, live or as the
\* previous tree, wherever an exchange, a roll-back or the removal of another tree is
\* cut off, until its own removal begins, it is replaced by one whose hook has
\* succeeded, or a second install begins over an exchange that was killed.
InstalledIsKept == fGood => Good(fDest) \/ Good(fPrev)

\* "On failure the files stay with a `.broken` marker": what a removal left behind
\* when it was cut off does not.
CutOffIsMarked == fJob.at = "none" /\ fDest.cut # "whole" => fDest.broken

\* "A failed or cancelled job restores only the plugin registry entry it
\* changed; unrelated commits are kept, and package files are rolled back by
\* privd."  With no job in progress, the live tree is the accepted version.
FilesRolledBack ==
    fJob.at = "none" /\ fEntry.version # NoContent /\ Present(fDest) => fDest.v = fEntry.version

\* What the package store promises about the trees it moves into place.
PackagePromises ==
    []PfTypeOK /\ []InstalledWasShown /\ []InstalledIsKept /\ StartedIsWhole
=============================================================================
