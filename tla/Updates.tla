------------------------------ MODULE Updates ------------------------------
(* A signed update: the root job of ndimon-privd (update.rs, with the release *)
(* verification of ndimon-release) and the package scripts it makes dpkg run  *)
(* (ndimon-package).  The job checks versions, downloads and verifies the     *)
(* four packages of one release and hands them to dpkg, whose preinst stops   *)
(* the stack and whose postinst migrates the device and starts it again.      *)
(* Anything can fail or be killed on the way, and the next update then finds  *)
(* a device that is half new.                                                 *)
EXTENDS Naturals, Sequences

CONSTANTS UpVersions,  \* versions of releases; the device starts with the least
          UpJobs,      \* updates that are requested
          UpFaults     \* failed downloads, failed steps, full disks, kills

\* The least version exists in every set of numbers that is not empty.
ASSUME UpAssumption ==
    /\ UpVersions \subseteq Nat /\ UpJobs \in Nat /\ UpFaults \in Nat
    /\ \E v \in UpVersions : \A w \in UpVersions : v <= w

VARIABLES uPkg,       \* dpkg's database: version and status of each package
          uFirmware,  \* /etc/ndimon-firmware-version
          uStack,     \* is the stack running?
          uFull,      \* is there no room on the disk?
          uData,      \* network data of the old stack, its recovery copy, what became of that
          uJob,       \* the update job
          uDpkg,      \* dpkg, with the package script it is in
          uLeft       \* the bounds still unspent

upVars == <<uPkg, uFirmware, uStack, uFull, uData, uJob, uDpkg, uLeft>>
-----------------------------------------------------------------------------
\* The four packages, in the order of the manifest's names and of dpkg's work.
UpOrder == <<"control", "privd", "runtime", "ui">>
UpPackages == {UpOrder[i] : i \in DOMAIN UpOrder}
UpFirst == CHOOSE v \in UpVersions : \A w \in UpVersions : v <= w

NoUpdate == [at |-> "none", version |-> UpFirst, force |-> FALSE, got |-> 0, bad |-> FALSE]
NoDpkg == [at |-> "none", i |-> 1, unpacked |-> {}, failed |-> {}]

\* What a package is only configured after, at its own version: the runtime
\* package comes last.
ConfigureOrder == <<"privd", "control", "ui", "runtime">>
Depends == [p \in UpPackages |-> CASE p = "control" -> {"privd"}
                                   [] p = "runtime" -> UpPackages \ {"runtime"}
                                   [] OTHER -> {}]

\* The steps of `migrate`, in order: those that must succeed, and those whose
\* failure is reported while the rest is configured and started.
MigrateSteps ==
    <<"accounts", "copies", "copied", "import", "network", "retire", "start", "version">>
MigrateSet == {MigrateSteps[i] : i \in DOMAIN MigrateSteps}
Essential == {"accounts", "import", "network", "start", "version"}
NextStep(s) == MigrateSteps[(CHOOSE i \in DOMAIN MigrateSteps : MigrateSteps[i] = s) + 1]

UpTypeOK ==
    /\ uPkg \in [UpPackages -> [v : UpVersions, status : {"installed", "unpacked"}, good : BOOLEAN]]
    /\ uFirmware \in UpVersions /\ uStack \in BOOLEAN /\ uFull \in BOOLEAN
    /\ uData \in [old : BOOLEAN, copy : {"none", "part", "whole"}, reported : BOOLEAN, cut : BOOLEAN]
    /\ uJob \in [at : {"none", "check", "manifest", "download", "dpkg"}, version : UpVersions,
                 force : BOOLEAN, got : 0 .. Len(UpOrder), bad : BOOLEAN]
    /\ uDpkg \in [at : {"none", "probe", "stop", "unpack", "configure", "end"}
                          \cup MigrateSet,
                  i : 1 .. Len(UpOrder), unpacked : SUBSET UpPackages,
                  failed : SUBSET (MigrateSet \cup {"preinst", "depends"})]
    /\ uLeft \in [jobs : 0 .. UpJobs, faults : 0 .. UpFaults]

UpInit ==
    /\ uPkg = [p \in UpPackages |-> [v |-> UpFirst, status |-> "installed", good |-> TRUE]]
    /\ uFirmware = UpFirst /\ uStack = TRUE /\ uFull = FALSE
    /\ uData = [old |-> TRUE, copy |-> "none", reported |-> FALSE, cut |-> FALSE]
    /\ uJob = NoUpdate /\ uDpkg = NoDpkg
    /\ uLeft = [jobs |-> UpJobs, faults |-> UpFaults]

UpFault == uLeft.faults > 0 /\ uLeft' = [uLeft EXCEPT !.faults = @ - 1]
UpDevice == <<uPkg, uFirmware, uStack, uFull, uData>>
-----------------------------------------------------------------------------
(* The job (Update::run).                                                     *)

\* One at a time: a second job finds .signed-update-lock held and is refused.
RequestUpdate(v, force) ==
    /\ uJob.at = "none" /\ uLeft.jobs > 0
    /\ uLeft' = [uLeft EXCEPT !.jobs = @ - 1]
    /\ uJob' = [at |-> "check", version |-> v, force |-> force, got |-> 0, bad |-> FALSE]
    /\ UNCHANGED <<UpDevice, uDpkg>>

\* refuse_downgrade against a version of the device.
Downgrade(v) == ~uJob.force /\ uJob.version < v

CheckVersion ==
    /\ uJob.at = "check"
    /\ uJob' = IF Downgrade(uFirmware) THEN NoUpdate ELSE [uJob EXCEPT !.at = "manifest"]
    /\ UNCHANGED <<UpDevice, uDpkg, uLeft>>

\* verify_manifest: the checksum list is signed by a trusted key, and the signed
\* comment names the requested version.
Authentic(signer, v) == signer = "trusted" /\ v = uJob.version

\* The release the server names, with its checksum list of version v.
FetchManifest(signer, v) ==
    /\ uJob.at = "manifest"
    /\ IF signer = "trusted" /\ v = uJob.version THEN UNCHANGED uLeft ELSE UpFault
    /\ uJob' = IF ~Authentic(signer, v) THEN NoUpdate
               ELSE [uJob EXCEPT !.at = "download", !.bad = signer # "trusted" \/ v # uJob.version]
    /\ UNCHANGED <<UpDevice, uDpkg>>

\* A request fails, is answered with another status than 200, leads to a host
\* that is not allowed, or names a release without packages for this device:
\* the job ends, and nothing has changed.
JobRefused ==
    /\ uJob.at \in {"manifest", "download"} /\ UpFault
    /\ uJob' = NoUpdate
    /\ UNCHANGED <<UpDevice, uDpkg>>

\* copy_bounded: the body has the announced length and is within the limits.
Received(bytes) == bytes # "cut"

\* Manifest::verify_file on the staged copy that dpkg will be given.
Verified(bytes) == bytes = "listed"

\* A mutant: only the version file is compared.
FirmwareOnly(p) == FALSE

\* The installed package is compared as well: an interrupted update leaves
\* packages that are newer than the version file.
PackageDowngrade(p) == Downgrade(uPkg[p].v)

Download(bytes) ==
    /\ uJob.at = "download" /\ uJob.got < Len(UpOrder)
    /\ IF bytes = "listed" THEN UNCHANGED uLeft ELSE UpFault
    /\ LET p == UpOrder[uJob.got + 1]
       IN uJob' = IF ~Received(bytes) \/ ~Verified(bytes) \/ PackageDowngrade(p) THEN NoUpdate
                  ELSE [uJob EXCEPT !.got = @ + 1, !.bad = @ \/ bytes # "listed"]
    /\ UNCHANGED <<UpDevice, uDpkg>>

\* All four packages are staged; dpkg -i is given their paths.
StartDpkg ==
    /\ uJob.at = "download" /\ uJob.got = Len(UpOrder)
    /\ uJob' = [uJob EXCEPT !.at = "dpkg"]
    /\ uDpkg' = [NoDpkg EXCEPT !.at = "probe"]
    /\ UNCHANGED <<UpDevice, uLeft>>

\* dpkg's exit code decides; the version is only written after a success.
FinishUpdate ==
    /\ uJob.at = "dpkg" /\ uDpkg.at = "end"
    /\ uFirmware' = IF uDpkg.failed \ MigrateSet # {} \/ uDpkg.failed \cap Essential # {}
                    THEN uFirmware ELSE uJob.version
    /\ uJob' = NoUpdate /\ uDpkg' = NoDpkg
    /\ UNCHANGED <<uPkg, uStack, uFull, uData, uLeft>>
-----------------------------------------------------------------------------
(* dpkg and the package scripts.  dpkg unpacks all packages, then configures  *)
(* those it has unpacked; a script that fails only fails its package.         *)

DpkgTo(at) == uDpkg' = [uDpkg EXCEPT !.at = at]

\* The next package to unpack, or the first to configure.
UnpackNext(failed) ==
    uDpkg' = IF uDpkg.i = Len(UpOrder)
             THEN [uDpkg EXCEPT !.at = "configure", !.i = 1, !.failed = @ \cup failed]
             ELSE [uDpkg EXCEPT !.at = "probe", !.i = @ + 1, !.failed = @ \cup failed]

ConfigureNext(failed) ==
    uDpkg' = IF uDpkg.i = Len(UpOrder)
             THEN [uDpkg EXCEPT !.at = "end", !.failed = @ \cup failed]
             ELSE [uDpkg EXCEPT !.at = "configure", !.i = @ + 1, !.failed = @ \cup failed]

UpPackage == UpOrder[uDpkg.i]
ConfiguredPackage == ConfigureOrder[uDpkg.i]

\* preinst, check_writable: is there room for what the migration will write?
Probe ==
    /\ uDpkg.at = "probe" /\ ~uFull
    /\ DpkgTo("stop")
    /\ UNCHANGED <<UpDevice, uJob, uLeft>>

ProbeFails ==
    /\ uDpkg.at = "probe" /\ uFull
    /\ UnpackNext({"preinst"})
    /\ UNCHANGED <<UpDevice, uJob, uLeft>>

\* preinst, quiesce and retire_manual_units.
Quiesce ==
    /\ uDpkg.at = "stop"
    /\ uStack' = FALSE
    /\ DpkgTo("unpack")
    /\ UNCHANGED <<uPkg, uFirmware, uFull, uData, uJob, uLeft>>

QuiesceFails ==
    /\ uDpkg.at = "stop" /\ UpFault
    /\ uStack' \in {uStack, FALSE}
    /\ UnpackNext({"preinst"})
    /\ UNCHANGED <<uPkg, uFirmware, uFull, uData, uJob>>

UnpackPackage ==
    /\ uDpkg.at = "unpack"
    /\ uPkg' = [uPkg EXCEPT ![UpPackage] =
                    [v |-> uJob.version, status |-> "unpacked", good |-> ~uJob.bad]]
    /\ LET next == IF uDpkg.i = Len(UpOrder) THEN [at |-> "configure", i |-> 1]
                   ELSE [at |-> "probe", i |-> uDpkg.i + 1]
       IN uDpkg' = [uDpkg EXCEPT !.at = next.at, !.i = next.i, !.unpacked = @ \cup {UpPackage}]
    /\ UNCHANGED <<uFirmware, uStack, uFull, uData, uJob, uLeft>>

\* The dependencies of an unpacked package that are configured at its version.
Met(p) == \A d \in Depends[p] : uPkg[d].status = "installed" /\ uPkg[d].v = uPkg[p].v

\* postinst configure: only that of the runtime package does anything.
Configure ==
    /\ uDpkg.at = "configure"
    /\ LET p == ConfiguredPackage
       IN \/ p \notin uDpkg.unpacked /\ ConfigureNext({}) /\ UNCHANGED uPkg
          \/ p \in uDpkg.unpacked /\ ~Met(p) /\ ConfigureNext({"depends"}) /\ UNCHANGED uPkg
          \/ p \in uDpkg.unpacked /\ Met(p) /\ p = "runtime"
                /\ DpkgTo(MigrateSteps[1]) /\ UNCHANGED uPkg
          \/ p \in uDpkg.unpacked /\ Met(p) /\ p # "runtime"
                /\ uPkg' = [uPkg EXCEPT ![p].status = "installed"] /\ ConfigureNext({})
    /\ UNCHANGED <<uFirmware, uStack, uFull, uData, uJob, uLeft>>

\* The last step of migrate records the packaged version.
VersionAfter(s) == IF s = "version" THEN uPkg["runtime"].v ELSE uFirmware

\* preserve: there is something to copy, and no earlier recovery copy.
NoCopyYet == uData.old /\ uData.copy = "none"

\* cp -a goes through the tree ("copies" to "copied"), before the boot job of the
\* network imports the data and removes it.
DataAfter(s) ==
    [uData EXCEPT !.copy = CASE s = "copies" /\ NoCopyYet -> "part"
                             [] s = "copied" -> "whole"
                             [] OTHER -> @,
                  !.old = @ /\ s # "network"]
StepAfter(s) == IF s = "copies" /\ ~NoCopyYet THEN "import" ELSE NextStep(s)

Migrate(s) ==
    /\ uDpkg.at = s
    /\ uData' = DataAfter(s)
    /\ uStack' = (uStack \/ s = "start")
    /\ uFirmware' = VersionAfter(s)
    /\ IF s = "version"
       THEN uPkg' = [uPkg EXCEPT !["runtime"].status = "installed"] /\ ConfigureNext({})
       ELSE DpkgTo(StepAfter(s)) /\ UNCHANGED uPkg
    /\ UNCHANGED <<uFull, uJob, uLeft>>

\* Does a failure of this step fail the package?
AnyFailure(s) == TRUE    \* mutant of FailsPackage
FailsPackage(s) == s \in Essential

\* The boot job may have removed the data before it failed, and a copy that failed
\* stays as far as it got: the next update takes it for the recovery copy.
DataAfterFailure(s) ==
    CASE s = "network" -> {uData, [uData EXCEPT !.old = FALSE]}
      [] s = "copied" \/ (s = "copies" /\ NoCopyYet) -> {[uData EXCEPT !.reported = TRUE]}
      [] OTHER -> {uData}
StepAfterFailure(s) == IF s = "copies" THEN "import" ELSE NextStep(s)

\* A step fails: the package is left unconfigured, or what was not migrated is
\* reported and the next step runs.
MigrateFails(s) ==
    /\ uDpkg.at = s /\ UpFault
    /\ IF FailsPackage(s) THEN ConfigureNext({s})
       ELSE uDpkg' = [uDpkg EXCEPT !.at = StepAfterFailure(s), !.failed = @ \cup {s}]
    /\ uData' \in DataAfterFailure(s)
    /\ UNCHANGED <<uPkg, uFirmware, uStack, uFull, uJob>>

DiskFills ==
    /\ ~uFull /\ UpFault
    /\ uFull' = TRUE
    /\ UNCHANGED <<uPkg, uFirmware, uStack, uData, uJob, uDpkg>>

DiskFreed ==
    /\ uFull /\ uJob.at = "none"
    /\ uFull' = FALSE
    /\ UNCHANGED <<uPkg, uFirmware, uStack, uData, uJob, uDpkg, uLeft>>

\* The device loses power; at the next boot the enabled units start.
PowerFails ==
    /\ uJob.at # "none" /\ UpFault
    /\ uJob' = NoUpdate /\ uDpkg' = NoDpkg
    /\ uStack' = TRUE
    /\ uData' = [uData EXCEPT !.cut = @ \/ uDpkg.at = "copied"]
    /\ UNCHANGED <<uPkg, uFirmware, uFull>>

DpkgStep ==
    \/ Probe \/ ProbeFails \/ Quiesce \/ UnpackPackage \/ Configure
    \/ (\E s \in MigrateSet : Migrate(s))

UpNext ==
    \/ \E v \in UpVersions, force \in BOOLEAN : RequestUpdate(v, force)
    \/ CheckVersion \/ JobRefused \/ StartDpkg \/ FinishUpdate
    \/ \E signer \in {"trusted", "other"}, v \in UpVersions : FetchManifest(signer, v)
    \/ \E bytes \in {"listed", "other", "cut"} : Download(bytes)
    \/ DpkgStep \/ QuiesceFails \/ (\E s \in MigrateSet : MigrateFails(s))
    \/ DiskFills \/ DiskFreed \/ PowerFails

UpSpec == UpInit /\ [][UpNext]_upVars

\* A job runs to its end: downloads have time limits, scripts terminate.
UpFair ==
    /\ WF_upVars(DpkgStep)
    /\ WF_upVars((CheckVersion \/ FetchManifest("trusted", uJob.version)
                               \/ Download("listed") \/ StartDpkg \/ FinishUpdate))
-----------------------------------------------------------------------------
(* Properties.                                                                *)

\* No package goes back to an older version unless the operator forces it, also
\* after updates that were interrupted between packages.
NoSilentDowngrade == [][\A p \in UpPackages : uPkg'[p].v < uPkg[p].v => uJob.force]_upVars

\* Every package on the device has the bytes that the list of its own version
\* names, signed by a trusted key: no answer of a server gets around that.
InstalledIsSigned == \A p \in UpPackages : uPkg[p].good

\* With no update in progress, the version the device says it runs is that of
\* its runtime package, if that package is configured: a job that died after
\* dpkg must not leave the device asking for the same update again.
VersionIsRuntimes ==
    uJob.at = "none" /\ uPkg["runtime"].status = "installed" => uFirmware = uPkg["runtime"].v

\* The data of the old network stack is not given up without a whole recovery copy,
\* whatever fails in between and whichever update gives it up.  The exceptions: making
\* the copy failed and that was reported, or the device lost power over it.
OriginalsKept ==
    ~uData.old => \/ uData.copy = "whole" \/ uData.reported
                  \/ uData.copy = "part" /\ uData.cut

\* "Keep the originals independently for a release rollback": a copy that a loss of
\* power cut off is taken for a whole one by the update that follows.
OriginalsWhole == ~uData.old => uData.copy = "whole" \/ uData.reported

\* Once the runtime package's script runs, the stack comes up again, unless a step
\* fails that the new stack cannot do without: what it reports as not migrated keeps
\* nothing down.
ConfiguredComesUp ==
    uDpkg.at \in MigrateSet ~> uStack \/ uDpkg.failed \cap Essential # {}

\* "The preinst writes and syncs a probe in each first, before it stops
\* anything; a failing preinst aborts the unpack and the old version keeps
\* running."
FailedProbeStopsNothing == [][ProbeFails => uStack]_upVars

\* What an update promises, whatever interrupts it.
UpdatePromises ==
    /\ []UpTypeOK /\ []InstalledIsSigned /\ []VersionIsRuntimes /\ []OriginalsKept
    /\ NoSilentDowngrade
=============================================================================
