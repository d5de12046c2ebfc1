------------------------------- MODULE Migration -------------------------------
(***************************************************************************)
(* The import of a 1.3 device's network (ndimon-netengine, migration.rs).  *)
(* What the Python helpers left behind, a committed document, a journal of *)
(* a change in flight, a VLAN index, becomes the first decision of the     *)
(* authority: the change in flight is undone first, the import is one      *)
(* replacement of the decision, and the sources are removed after it.  An  *)
(* upgrade journal carries the import over deaths, failures and reboots.   *)
(* The boot job runs it before anything else starts; a store it will not   *)
(* take over is reported and the device starts.                            *)
(***************************************************************************)
EXTENDS Naturals

CONSTANTS
    MigFaults,     \* bound on steps that fail
    MigCrashes,    \* bound on jobs that die and on reboots
    MigWrites      \* bound on unrelated settings saved meanwhile

ASSUME MigrationAssumption == MigFaults \in Nat /\ MigCrashes \in Nat /\ MigWrites \in Nat

VARIABLES
    sources,    \* which 1.3 files are there
    inFlight,   \* phase of the journal among them
    live,       \* the network the host runs: "old", "new", or "mixed" halfway
    auth,       \* the authority's decision: the state's revision and its network
    upgrade,    \* upgrade.json
    unsound,    \* does the host hold something the engine cannot represent?
    job,        \* the job in progress: its step, its copy of the upgrade, is it the boot's?
    retrying,   \* is the repeating upgrade timer armed?
    stack,      \* has the boot job succeeded, so that the device has started?
    migFaults, migCrashes, migWrites    \* counters of the bounds

migVars == <<sources, inFlight, live, auth, upgrade, unsound, job, retrying, stack, migFaults,
             migCrashes, migWrites>>
migLimits == <<migFaults, migCrashes, migWrites>>
migDisk == <<sources, inFlight, upgrade>>

NoUpgrade == [base |-> 0, target |-> "none", undo |-> FALSE, recovered |-> FALSE,
              replacement |-> "none"]
NoJob == [at |-> "idle", u |-> NoUpgrade, boot |-> FALSE]
Stopped == job = NoJob
To(step) == [job EXCEPT !.at = step]

\* What 1.3 can have left: a journal of the profiles or of the base transaction,
\* never both, with or without a committed document and an index.
MigInit ==
    /\ \E journals \in {{}, {"profile"}, {"base"}}, rest \in SUBSET {"committed", "index"} :
        /\ sources = journals \cup rest /\ sources # {}
        /\ inFlight \in IF journals = {} THEN {"none"} ELSE {"scheduled", "applied", "confirmed"}
        /\ "base" \in journals \/ inFlight # "confirmed" \/ "committed" \in sources
    /\ live \in IF inFlight = "none" THEN {"old", "new"}      \* kept, or changed by hand since
                ELSE {IF inFlight = "scheduled" THEN "old" ELSE "new"}
    /\ auth = [revision |-> 0, net |-> "none"]
    /\ upgrade = NoUpgrade /\ unsound \in BOOLEAN /\ job = NoJob
    /\ retrying = FALSE /\ stack = FALSE
    /\ migFaults = 0 /\ migCrashes = 0 /\ migWrites = 0

\* `restore_plan`: a change that was begun and not confirmed is undone.
UndoPlan == inFlight = "applied"

\* `make`: a change that completed is what is imported, one in flight is undone
\* first; with neither a document nor a profile journal the host is adopted.
Make ==
    [NoUpgrade EXCEPT
        !.base = auth.revision,
        !.target = IF sources \cap {"committed", "profile"} = {} THEN "adopt"
                   ELSE IF inFlight = "confirmed" THEN "new" ELSE "old",
        !.undo = UndoPlan]

\* `needed`: anything of 1.3, or an upgrade that was interrupted.
Needed == sources # {} \/ upgrade # NoUpgrade

Start(boot) ==
    /\ Stopped /\ Needed
    /\ upgrade' = IF upgrade = NoUpgrade THEN Make ELSE upgrade
    /\ job' = [at |-> "arm", u |-> upgrade', boot |-> boot]
    /\ UNCHANGED <<sources, inFlight, live, auth, unsound, retrying, stack, migLimits>>
BootJob == ~stack /\ Start(TRUE)
RetryJob == retrying /\ upgrade # NoUpgrade /\ Start(FALSE)
MigrateLegacy == stack /\ Start(FALSE)     \* the package's explicit request
BootClean ==
    /\ Stopped /\ ~stack /\ ~Needed
    /\ stack' = TRUE
    /\ UNCHANGED <<migDisk, live, auth, unsound, job, retrying, migLimits>>

\* `decision_matches`: the replacement is already the decision, whatever the
\* revision has become since.
Decided == job.u.replacement # "none" /\ auth.net = job.u.replacement
ArmRetry ==
    /\ job.at = "arm"
    /\ retrying' = TRUE
    /\ job' = To(IF Decided THEN "clean" ELSE IF job.u.recovered THEN "review" ELSE "undo")
    /\ UNCHANGED <<migDisk, live, auth, unsound, stack, migLimits>>
Undo ==
    /\ job.at = "undo"
    /\ IF job.u.undo THEN live' = "mixed" /\ job' = To("reactivate")
                     ELSE UNCHANGED live /\ job' = To("recovered")
    /\ UNCHANGED <<migDisk, auth, unsound, retrying, stack, migLimits>>
UndoActivate ==
    /\ job.at = "reactivate"
    /\ live' = "old" /\ job' = To("recovered")
    /\ UNCHANGED <<migDisk, auth, unsound, retrying, stack, migLimits>>
\* The undo is over once and for all before anything is imported.
Recovered == [job.u EXCEPT !.recovered = TRUE]
RecordRecovered ==
    /\ job.at = "recovered"
    /\ upgrade' = Recovered /\ job' = [To("review") EXCEPT !.u = Recovered]
    /\ UNCHANGED <<sources, inFlight, live, auth, unsound, retrying, stack, migLimits>>

\* What is imported must be what the host runs (`readiness`), and the engine
\* must be able to represent it: otherwise the store is refused.
Imported(u) == IF u.target = "adopt" THEN live ELSE u.target
Ready == Imported(job.u) = live
RecordReplacement ==
    /\ job.at = "review" /\ ~unsound /\ Ready
    /\ upgrade' = [job.u EXCEPT !.replacement = IF @ = "none" THEN Imported(job.u) ELSE @]
    /\ job' = [To("commit") EXCEPT !.u = upgrade']
    /\ UNCHANGED <<sources, inFlight, live, auth, unsound, retrying, stack, migLimits>>
NotReady ==         \* any other error: the boot job fails and is run again
    /\ job.at = "review" /\ ~unsound /\ ~Ready
    /\ job' = NoJob
    /\ UNCHANGED <<migDisk, live, auth, unsound, retrying, stack, migLimits>>
RefuseStore ==      \* an Unsupported error: the boot job reports it and succeeds
    /\ job.at = "review" /\ unsound
    /\ job' = NoJob /\ stack' = (stack \/ job.boot)
    /\ UNCHANGED <<migDisk, live, auth, unsound, retrying, migLimits>>
\* `compare_and_commit` against the decision the upgrade began from.
Commit ==
    /\ job.at = "commit" /\ auth.revision = job.u.base
    /\ auth' = [revision |-> auth.revision + 1, net |-> job.u.replacement] /\ job' = To("clean")
    /\ UNCHANGED <<migDisk, live, unsound, retrying, stack, migLimits>>
RevisionConflict ==     \* the boot job fails and is run again
    /\ job.at = "commit" /\ auth.revision # job.u.base
    /\ job' = NoJob
    /\ UNCHANGED <<migDisk, live, auth, unsound, retrying, stack, migLimits>>

\* The sources go one by one after the decision, the upgrade journal last.
CleanFirst == job.at \in {"review", "clean"}     \* Defect: the sources go before the import
Cleans == job.at = "clean"
CleanOrder == <<"profile", "base", "index", "committed">>
RemoveSource ==
    /\ Cleans /\ sources # {}
    /\ \E i \in DOMAIN CleanOrder :
        /\ CleanOrder[i] \in sources /\ \A k \in 1 .. i - 1 : CleanOrder[k] \notin sources
        /\ sources' = sources \ {CleanOrder[i]}
        /\ inFlight' = IF CleanOrder[i] \in {"profile", "base"} THEN "none" ELSE inFlight
    /\ UNCHANGED <<live, auth, upgrade, unsound, job, retrying, stack, migLimits>>
RemoveUpgrade ==
    /\ job.at = "clean" /\ sources = {}
    /\ upgrade' = NoUpgrade /\ job' = To("stop")
    /\ UNCHANGED <<sources, inFlight, live, auth, unsound, retrying, stack, migLimits>>
StopRetry ==
    /\ job.at = "stop"
    /\ retrying' = FALSE /\ job' = NoJob /\ stack' = (stack \/ job.boot)
    /\ UNCHANGED <<migDisk, live, auth, unsound, migLimits>>

\* A step fails: the job ends with an error, and the upgrade is written again as
\* the job has it, also after its removal.
FailStep ==
    /\ ~Stopped /\ migFaults < MigFaults
    /\ migFaults' = migFaults + 1
    /\ upgrade' = job.u /\ job' = NoJob
    /\ UNCHANGED <<sources, inFlight, live, auth, unsound, retrying, stack, migCrashes, migWrites>>
\* The replacement of the decision reports an error after its effect: it is
\* read again before it counts as refused.
CommitUnsure ==
    /\ job.at = "commit" /\ auth.revision = job.u.base /\ migFaults < MigFaults
    /\ migFaults' = migFaults + 1
    /\ auth' = [revision |-> auth.revision + 1, net |-> job.u.replacement] /\ job' = To("clean")
    /\ UNCHANGED <<migDisk, live, unsound, retrying, stack, migCrashes, migWrites>>
JobDies ==
    /\ ~Stopped /\ migCrashes < MigCrashes
    /\ migCrashes' = migCrashes + 1 /\ job' = NoJob
    /\ UNCHANGED <<migDisk, live, auth, unsound, retrying, stack, migFaults, migWrites>>
DeviceReboots ==
    /\ migCrashes < MigCrashes
    /\ migCrashes' = migCrashes + 1 /\ job' = NoJob /\ retrying' = FALSE /\ stack' = FALSE
    /\ UNCHANGED <<migDisk, live, auth, unsound, migFaults, migWrites>>
Repair ==
    /\ unsound /\ unsound' = FALSE
    /\ UNCHANGED <<migDisk, live, auth, job, retrying, stack, migLimits>>
SaveSetting ==      \* another domain's command moves the state's revision
    /\ stack /\ migWrites < MigWrites
    /\ migWrites' = migWrites + 1 /\ auth' = [auth EXCEPT !.revision = @ + 1]
    /\ UNCHANGED <<migDisk, live, unsound, job, retrying, stack, migFaults, migCrashes>>

JobSteps ==
    \/ ArmRetry \/ Undo \/ UndoActivate \/ RecordRecovered \/ RecordReplacement \/ NotReady
    \/ RefuseStore \/ Commit \/ RevisionConflict \/ RemoveSource \/ RemoveUpgrade \/ StopRetry
MigNext ==
    \/ BootJob \/ RetryJob \/ MigrateLegacy \/ BootClean \/ JobSteps
    \/ FailStep \/ CommitUnsure \/ JobDies \/ DeviceReboots \/ Repair \/ SaveSetting

MigFair ==
    /\ WF_migVars(JobSteps) /\ WF_migVars(BootJob \/ BootClean)
    /\ WF_migVars(RetryJob)

MigSpec == MigInit /\ [][MigNext]_migVars /\ MigFair

-----------------------------------------------------------------------------
MigTypeOK ==
    /\ sources \subseteq {"committed", "profile", "base", "index"}
    /\ inFlight \in {"none", "scheduled", "applied", "confirmed"}
    /\ live \in {"old", "new", "mixed"}
    /\ auth \in [revision : 0 .. 1 + MigWrites, net : {"none", "old", "new"}]
    /\ upgrade \in [base : Nat, target : {"none", "old", "new", "adopt"}, undo : BOOLEAN,
                    recovered : BOOLEAN, replacement : {"none", "old", "new"}]
    /\ unsound \in BOOLEAN /\ retrying \in BOOLEAN /\ stack \in BOOLEAN

\* The decision that was imported is the network the host runs, through every
\* repeated attempt: an undo is never replayed after the import.
DecisionIsLive == auth.net # "none" => live = auth.net

\* A 1.3 file is removed only when the network it tells of has been decided:
\* until then an interrupted import can begin again.
SourcesOutliveImport ==
    [][sources' # sources => auth.net # "none" /\ auth.net = upgrade.replacement]_migVars

\* The import of a store the engine can represent is finished by the timer or
\* by the boot, whatever died before (unless the host runs another network, or
\* a setting was saved meanwhile, see NextBootTakesOver).
Drifted == upgrade.recovered /\ Imported(upgrade) # live
ImportFinishes ==
    []<>(~Needed \/ unsound \/ Drifted \/ migWrites > 0 \/ (stack /\ ~retrying))

\* A refused store "is reported in the journal of ndimon-net-boot; [...] the
\* next boot tries again" (README): once it has been repaired, a boot takes it
\* over and the device starts.
NextBootTakesOver == (~stack /\ ~unsound) ~> (stack \/ Drifted)

\* What the import of a 1.3 store promises.
MigrationPromises ==
    []MigTypeOK /\ []DecisionIsLive /\ SourcesOutliveImport
================================================================================
