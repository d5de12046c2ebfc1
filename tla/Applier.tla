------------------------------ MODULE Applier ------------------------------
(***************************************************************************)
(* The boundary between the state actor and the machine: ProductionApplier *)
(* (ndimon-state apply.rs) with what it remembers between calls, the       *)
(* domain hooks it drives (device, tessera, network), and the side of      *)
(* ndimon-privd that carries the requests out.                             *)
(*                                                                         *)
(* A command changes some domains of the document.  The actor writes the   *)
(* candidate, privd renders the artifacts, each changed domain is applied, *)
(* the whole document is replayed, and the candidate is accepted; any      *)
(* failure restores the accepted document the same way.  Privd runs a      *)
(* request to its end even when the client has given it up after 30 s, so  *)
(* a given-up request takes effect later, in any order.                    *)
(***************************************************************************)
EXTENDS Naturals

CONSTANTS AplWrites,    \* commands submitted
          AplFaults,    \* failed or given-up requests
          AplEvents     \* daemon restarts, publications and stages

ASSUME AplAssumption == AplWrites \in Nat /\ AplFaults \in Nat /\ AplEvents \in Nat

Domains == {"dev", "tes"}
NoneYet == [none |-> TRUE]
Version(v) == [none |-> FALSE, of |-> v]

VARIABLES
    aWant,      \* the accepted document: a version per domain
    aCand,      \* the candidate of the transaction under way
    aPlan,      \* the domains the candidate changes
    aPhase,     \* "idle", "apply", "rollback", "replay", "boot"
    aStep,      \* the step of the phase
    aArt,       \* the artifacts on disk: document, and the network's own file
    aSet,       \* the privileged device setting in effect
    aApplied,   \* AppliedSettings: what this process applied last
    aDaemon,    \* tesserad: running, which process, the files it has read
    aLast,      \* Reloads: what the last reload acted on
    aSeen,      \* the reading made before the reload under way
    aDecoder,   \* whether the follower answers
    aObs,       \* ObservationCache: a settled observation is kept
    aPending,   \* the network engine holds a pending change
    aLate,      \* requests the client gave up that privd still runs
    aStray,     \* history: one of those has taken effect since the last start
    aAgreed,    \* history: the last transaction's rollback was not reported failed
    aSpent      \* bounds
aplVars == <<aWant, aCand, aPlan, aPhase, aStep, aArt, aSet, aApplied, aDaemon,
             aLast, aSeen, aDecoder, aObs, aPending, aLate, aStray, aAgreed, aSpent>>

world == <<aArt, aSet, aDaemon, aDecoder, aPending>>
memory == <<aApplied, aLast, aObs>>
history == <<aStray, aAgreed>>

AplInit ==
    /\ aWant = [d \in Domains |-> 0] /\ aCand = aWant /\ aPlan = {}
    /\ aPhase = "idle" /\ aStep = "idle"
    /\ aArt = [doc |-> aWant, net |-> 0]
    /\ aSet = 0 /\ aApplied = NoneYet
    /\ aDaemon = [up |-> TRUE, life |-> 1, loaded |-> aArt]
    /\ aLast = NoneYet /\ aSeen = NoneYet
    /\ aDecoder = TRUE /\ aObs = FALSE /\ aPending = FALSE
    /\ aLate = {} /\ aStray = FALSE /\ aAgreed = TRUE
    /\ aSpent = [writes |-> 0, faults |-> 0, events |-> 0]

(* The document the phase brings about. *)
Target == IF aPhase = "apply" THEN aCand ELSE aWant

(* The step after `s`: a transaction renders, applies its domains and      *)
(* replays; a rollback renders once more at the end; a replay starts with  *)
(* the network's delivery to the follower.                                 *)
After(s) ==
    CASE s = "render" -> IF aPhase = "boot" THEN "idle" ELSE "dev"
      [] s = "dev" -> "tes"
      [] s = "tes" -> "net"
      [] s = "net" -> "tesReplay"
      [] s = "tesReplay" -> "devReplay"
      [] s = "devReplay" -> IF aPhase = "rollback" THEN "last" ELSE "idle"
      [] OTHER -> "idle"

AplSpend(k, bound) == aSpent[k] < bound /\ aSpent' = [aSpent EXCEPT ![k] = @ + 1]

Goto(s) ==
    /\ aStep' = s
    /\ IF s = "idle"
       THEN aPhase' = "idle" /\ aWant' = Target
       ELSE UNCHANGED <<aPhase, aWant>>
    /\ UNCHANGED <<aCand, aPlan, aAgreed>>

(* A failed step: a transaction is taken back, a rollback goes on to its   *)
(* last render and is reported as failed, a replay ends where it is.       *)
AfterFailure ==
    /\ UNCHANGED <<aCand, aPlan, aWant>>
    /\ CASE aPhase = "apply" -> aPhase' = "rollback" /\ aStep' = "render" /\ UNCHANGED aAgreed
         [] aPhase = "rollback" /\ aStep # "last" ->
                aPhase' = "rollback" /\ aStep' = "last" /\ aAgreed' = FALSE
         [] aPhase = "rollback" /\ aStep = "last" ->
                aPhase' = "idle" /\ aStep' = "idle" /\ aAgreed' = FALSE
         [] aPhase = "boot" -> aPhase' = "boot" /\ aStep' = "render" /\ UNCHANGED aAgreed
         [] OTHER -> aPhase' = "idle" /\ aStep' = "idle" /\ UNCHANGED aAgreed

----------------------------------------------------------------------------
(* Commands and replays enter from the actor's queue. *)

(* What an observation of the network leaves in the cache: a settled one   *)
(* is kept, one of a network in transition is not.                         *)
Kept(pending) == ~pending

(* A command other than the network's own waits for a pending change; the  *)
(* guard looks at the kept observation, or makes one.                      *)
NetworkGuard ==
    \/ aObs /\ UNCHANGED aObs
    \/ ~aObs /\ ~aPending /\ aObs' = Kept(aPending)

Submit ==
    /\ aPhase = "idle" /\ NetworkGuard
    /\ AplSpend("writes", AplWrites)
    /\ \E plan \in SUBSET Domains \ {{}} :
           /\ aPlan' = plan
           /\ aCand' = [d \in Domains |-> IF d \in plan THEN aSpent.writes + 1 ELSE aWant[d]]
    /\ aPhase' = "apply" /\ aStep' = "render" /\ aAgreed' = TRUE
    /\ UNCHANGED <<aWant, world, aApplied, aLast, aSeen, aLate, aStray>>

StartReplay ==
    /\ aPhase = "idle" /\ aPhase' = "replay" /\ aStep' = "net"
    /\ UNCHANGED <<aWant, aCand, aPlan, world, memory, aSeen, aLate, history, aSpent>>

(* The observer's poll: answered from the cache, or a fresh probe. *)
Poll ==
    /\ aPhase = "idle" /\ ~aObs /\ aObs' = Kept(aPending)
    /\ UNCHANGED <<aWant, aCand, aPlan, aPhase, aStep, world, aApplied, aLast, aSeen,
                   aLate, history, aSpent>>

ObservationAges ==
    /\ aObs /\ aObs' = FALSE
    /\ UNCHANGED <<aWant, aCand, aPlan, aPhase, aStep, world, aApplied, aLast, aSeen,
                   aLate, history, aSpent>>

(* Whatever may change the network drops what was observed before it, when *)
(* it is sent and again when it is answered or given up.                   *)
Invalidated == aObs' = FALSE

(* A network command: staged and answered, decided and answered, or given  *)
(* up with privd still at work on it.                                      *)
Stage ==
    /\ aPhase = "idle" /\ ~aPending /\ AplSpend("events", AplEvents)
    /\ Invalidated
    /\ \/ aPending' = TRUE /\ UNCHANGED aLate
       \/ aLate' = aLate \union {[kind |-> "stage", of |-> aWant]} /\ UNCHANGED aPending
    /\ UNCHANGED <<aWant, aCand, aPlan, aPhase, aStep, aArt, aSet, aDaemon, aDecoder,
                   aApplied, aLast, aSeen, history>>

Decide ==
    /\ aPhase = "idle" /\ aPending /\ aPending' = FALSE
    /\ Invalidated
    /\ UNCHANGED <<aWant, aCand, aPlan, aPhase, aStep, aArt, aSet, aDaemon, aDecoder,
                   aApplied, aLast, aSeen, aLate, history, aSpent>>

----------------------------------------------------------------------------
(* The steps.  Privd renders the whole set under the configuration lock.   *)
RenderFiles ==
    /\ aStep \in {"render", "last"}
    /\ aArt' = [aArt EXCEPT !.doc = Target]
    /\ Goto(After(aStep))
    /\ UNCHANGED <<aSet, aDaemon, aDecoder, aPending, memory, aSeen, aLate, aStray, aSpent>>

(* A refused render has written nothing (the set is rendered before a file *)
(* is replaced); a given-up one has read the candidate and writes it when  *)
(* it gets the lock.                                                       *)
RenderFails ==
    /\ aStep \in {"render", "last"} /\ AplSpend("faults", AplFaults)
    /\ aLate' \in {aLate, aLate \union {[kind |-> "render", of |-> Target]}}
    /\ AfterFailure
    /\ UNCHANGED <<world, memory, aSeen, aStray>>

(* A mutant: a replay skips a setting it has ever applied.                 *)
SkipsApplied(s) ==
    \/ s \in Domains /\ s \notin aPlan
    \/ s = "devReplay" /\ aApplied # NoneYet
    \/ s = "tesReplay" /\ ~aDaemon.up /\ aSeen = NoneYet

(* A step of a domain the plan does not name, and a replay of a setting    *)
(* this process has applied to the same value, send nothing; nor does the  *)
(* replay of a daemon that does not answer for its status.                 *)
Skips(s) ==
    \/ s \in Domains /\ s \notin aPlan
    \/ s = "devReplay" /\ aApplied = Version(Target["dev"])
    \/ s = "tesReplay" /\ ~aDaemon.up /\ aSeen = NoneYet

Skip ==
    /\ Skips(aStep)
    /\ aLast' = IF aStep = "tesReplay" THEN NoneYet ELSE aLast
    /\ Goto(After(aStep))
    /\ UNCHANGED <<world, aApplied, aObs, aSeen, aLate, aStray, aSpent>>

Configure ==
    /\ aStep \in {"dev", "devReplay"} /\ ~Skips(aStep)
    /\ aSet' = Target["dev"] /\ aApplied' = Version(Target["dev"])
    /\ Goto(After(aStep))
    /\ UNCHANGED <<aArt, aDaemon, aDecoder, aPending, aLast, aObs, aSeen, aLate, aStray, aSpent>>

(* A failed request leaves the system in an unknown state: it is forgotten.*)
ConfigureFails ==
    /\ aStep \in {"dev", "devReplay"} /\ ~Skips(aStep) /\ AplSpend("faults", AplFaults)
    /\ \/ aSet' \in {aSet, Target["dev"]} /\ UNCHANGED aLate
       \/ aLate' = aLate \union {[kind |-> "set", of |-> Target]} /\ UNCHANGED aSet
    /\ aApplied' = NoneYet
    /\ AfterFailure
    /\ UNCHANGED <<aArt, aDaemon, aDecoder, aPending, aLast, aObs, aSeen, aStray>>

(* The files, and which process will read them; a daemon that does not      *)
(* answer is none that is known (0).                                       *)
Reading == [none |-> FALSE, files |-> aArt, life |-> IF aDaemon.up THEN aDaemon.life ELSE 0]
Due(seen) == aLast # seen

(* Reloads::look: read before the reload is sent. *)
Look ==
    /\ aStep \in {"tes", "tesReplay"} /\ ~Skips(aStep)
    /\ aSeen = NoneYet /\ aSeen' = Reading
    /\ UNCHANGED <<aWant, aCand, aPlan, aPhase, aStep, world, memory, aLate, history, aSpent>>

NothingDue ==
    /\ aStep = "tesReplay" /\ aSeen # NoneYet /\ ~Due(aSeen)
    /\ aSeen' = NoneYet /\ Goto(After(aStep))
    /\ UNCHANGED <<world, memory, aLate, aStray, aSpent>>

SentStep(s) == IF s = "tes" THEN "tesSent" ELSE "tesReplaySent"

ReloadDue ==
    /\ aStep \in {"tes", "tesReplay"} /\ aSeen # NoneYet /\ aDaemon.up
    /\ aStep = "tesReplay" => Due(aSeen)
    /\ aDaemon' = [aDaemon EXCEPT !.loaded = aArt]
    /\ aStep' = SentStep(aStep)
    /\ UNCHANGED <<aWant, aCand, aPlan, aPhase, aArt, aSet, aDecoder, aPending, memory, aSeen,
                   aLate, history, aSpent>>

(* A mutant: remembered by what there is to read when the answer arrives.  *)
ReloadedAsIs ==
    /\ aStep \in {"tesSent", "tesReplaySent"}
    /\ aLast' = Reading /\ aSeen' = NoneYet
    /\ Goto(After(IF aStep = "tesSent" THEN "tes" ELSE "tesReplay"))
    /\ UNCHANGED <<world, aApplied, aObs, aLate, aStray, aSpent>>

(* The reload is answered, and remembered by the reading made before it.    *)
Reloaded ==
    /\ aStep \in {"tesSent", "tesReplaySent"}
    /\ aLast' = aSeen /\ aSeen' = NoneYet
    /\ Goto(After(IF aStep = "tesSent" THEN "tes" ELSE "tesReplay"))
    /\ UNCHANGED <<world, aApplied, aObs, aLate, aStray, aSpent>>

(* The daemon refuses the reload, does not answer, or is not there; a      *)
(* replay fails also when it is refused the daemon's status.               *)
ReloadFails ==
    /\ aStep \in {"tes", "tesReplay"} /\ ~Skips(aStep)
    /\ aSeen # NoneYet \/ aStep = "tesReplay"
    /\ IF aDaemon.up THEN AplSpend("faults", AplFaults) ELSE UNCHANGED aSpent
    /\ aSeen' = NoneYet /\ AfterFailure
    /\ UNCHANGED <<world, memory, aLate, aStray>>

(* The network's replay delivers to the follower; its failure ends the     *)
(* replay before the domains that come after it.                           *)
Deliver ==
    /\ aStep = "net" /\ aDecoder /\ Goto(After(aStep))
    /\ aObs' = (aObs \/ Kept(aPending))
    /\ UNCHANGED <<world, aApplied, aLast, aSeen, aLate, aStray, aSpent>>
DeliverFails ==
    /\ aStep = "net" /\ ~aDecoder /\ AfterFailure
    /\ UNCHANGED <<world, memory, aSeen, aLate, aStray, aSpent>>

----------------------------------------------------------------------------
(* What happens outside the actor. *)

LateLands ==
    \E r \in aLate :
        /\ aLate' = aLate \ {r}
        /\ aStray' = TRUE
        /\ CASE r.kind = "render" -> aArt' = [aArt EXCEPT !.doc = r.of] /\ UNCHANGED <<aSet, aPending>>
             [] r.kind = "set" -> aSet' = r.of["dev"] /\ UNCHANGED <<aArt, aPending>>
             [] OTHER -> aPending' = TRUE /\ UNCHANGED <<aArt, aSet>>
        /\ UNCHANGED <<aWant, aCand, aPlan, aPhase, aStep, aDaemon, aDecoder, memory, aSeen,
                       aAgreed, aSpent>>

(* The network engine publishes its own file for the daemon, in its own    *)
(* process.                                                                *)
Publishes ==
    /\ AplSpend("events", AplEvents)
    /\ aArt' = [aArt EXCEPT !.net = @ + 1]
    /\ UNCHANGED <<aWant, aCand, aPlan, aPhase, aStep, aSet, aDaemon, aDecoder, aPending,
                   memory, aSeen, aLate, history>>

(* tesserad stops, and starts as another process that reads its files. *)
DaemonStops ==
    /\ aDaemon.up /\ AplSpend("events", AplEvents)
    /\ aDaemon' = [aDaemon EXCEPT !.up = FALSE]
    /\ UNCHANGED <<aWant, aCand, aPlan, aPhase, aStep, aArt, aSet, aDecoder, aPending,
                   memory, aSeen, aLate, history>>
DaemonStarts ==
    /\ ~aDaemon.up
    /\ aDaemon' = [up |-> TRUE, life |-> aDaemon.life + 1, loaded |-> aArt]
    /\ UNCHANGED <<aWant, aCand, aPlan, aPhase, aStep, aArt, aSet, aDecoder, aPending,
                   memory, aSeen, aLate, history, aSpent>>

DecoderStops ==
    /\ aDecoder /\ aDecoder' = FALSE /\ AplSpend("faults", AplFaults)
    /\ UNCHANGED <<aWant, aCand, aPlan, aPhase, aStep, aArt, aSet, aDaemon, aPending,
                   memory, aSeen, aLate, history>>
DecoderStarts ==
    /\ ~aDecoder /\ aDecoder' = TRUE
    /\ UNCHANGED <<aWant, aCand, aPlan, aPhase, aStep, aArt, aSet, aDaemon, aPending,
                   memory, aSeen, aLate, history, aSpent>>

(* The control process dies: what it remembered is gone, the stored state  *)
(* is the accepted one, and the next process renders it before it serves.  *)
ControlRestarts ==
    /\ AplSpend("faults", AplFaults)
    /\ aPhase' = "boot" /\ aStep' = "render"
    /\ aApplied' = NoneYet /\ aLast' = NoneYet /\ aObs' = FALSE /\ aSeen' = NoneYet
    /\ aStray' = FALSE /\ aAgreed' = FALSE
    /\ UNCHANGED <<aWant, aCand, aPlan, world, aLate>>

----------------------------------------------------------------------------
ActorStep == \/ RenderFiles \/ RenderFails \/ Skip \/ Configure \/ ConfigureFails \/ Look
             \/ NothingDue \/ ReloadDue \/ Reloaded \/ ReloadFails \/ Deliver \/ DeliverFails
AplNext == \/ Submit \/ StartReplay \/ Poll \/ ObservationAges \/ Stage \/ Decide
           \/ ActorStep \/ LateLands \/ Publishes \/ DaemonStops \/ DaemonStarts
           \/ DecoderStops \/ DecoderStarts \/ ControlRestarts

(* The actor finishes what it started, the reconcile timer replays, privd  *)
(* ends every request, and systemd restarts both services.                 *)
AplFair ==
    /\ WF_aplVars(ActorStep)
    /\ SF_aplVars(StartReplay)
    /\ WF_aplVars(LateLands)
    /\ WF_aplVars(DaemonStarts)
    /\ WF_aplVars(DecoderStarts)

AplTypeOK ==
    /\ aPhase \in {"idle", "apply", "rollback", "replay", "boot"}
    /\ aStep \in {"idle", "render", "last", "dev", "tes", "net", "tesReplay", "devReplay",
                "tesSent", "tesReplaySent"}
    /\ aPhase = "idle" <=> aStep = "idle"
    /\ aSet \in 0..AplWrites /\ aPlan \subseteq Domains

----------------------------------------------------------------------------
(* A transaction that ended as reported (accepted, or taken back without a *)
(* reported rollback failure) leaves the machine at the accepted document: *)
(* the artifacts, the privileged setting and what the daemon has read -    *)
(* whichever step failed.  Given-up requests are outside this promise.     *)
ReportedIsReal ==
    (aPhase = "idle" /\ aAgreed /\ ~aStray /\ aLate = {}) =>
        /\ aArt.doc = aWant
        /\ aSet = aWant["dev"]
        /\ aDaemon.up => aDaemon.loaded.doc = aWant

(* A setting that replay would skip is the one in effect.                  *)
SkippedIsInEffect ==
    (~aStray /\ aApplied # NoneYet) => aApplied = Version(aSet)

(* A replay that finds nothing due leaves no file the daemon has not read, *)
(* whatever the engine published and whenever the daemon restarted.        *)
NotDueIsLoaded ==
    (aDaemon.up /\ ~aStray /\ aLast = Reading) => aDaemon.loaded = aArt

(* A kept observation never hides a change this process staged and was     *)
(* answered for: only a request it gave up can start one behind the cache. *)
KeptMeansSettled == (aObs /\ aPending) => aStray

(* Once faults end, the replays bring the setting and the daemon to the    *)
(* accepted document and the files, unless a given-up request interfered.  *)
ReplayConverges ==
    <>[](aStray \/ (aSet = aWant["dev"] /\ aDaemon.loaded = aArt))

(* What the applier promises of the caches that let it skip work (apply.rs, *)
(* domains/device.rs, domains/tessera.rs).                                  *)
ApplierPromises ==
    AplTypeOK /\ ReportedIsReal /\ SkippedIsInEffect /\ NotDueIsLoaded /\ KeptMeansSettled
=============================================================================
