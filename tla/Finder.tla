------------------------------- MODULE Finder -------------------------------
(* The finder (finder/main.cpp): one loop that serves the settings the        *)
(* control process sends, obeys the trigger file, watches the selected        *)
(* network and publishes the list of sources, on an SDK instance that has to  *)
(* be torn down and created again for every change of settings.               *)
EXTENDS Naturals

CONSTANTS FinWorld,    \* changes of sources, of the network and of the trigger file
          FinRequests, \* apply_config requests
          FinFaults    \* failing SDK calls, failing writes, crashes

ASSUME FinAssumption == {FinWorld, FinRequests, FinFaults} \subseteq Nat

VARIABLES fSees,   \* what the network shows to a finder with each of the settings
          fSig,    \* the address of the selected network, 0 for none
          fAt,     \* where the loop is
          fProc,   \* the memory of the process
          fDisk,   \* the SDK's configuration file
          fCache,  \* finder-config.json
          fPast,   \* (history) what was acknowledged, and which writes got through
          fFile,   \* the published list
          fParam,  \* the trigger file
          fLeft    \* the bounds still unspent

finVars == <<fSees, fSig, fAt, fProc, fDisk, fCache, fPast, fFile, fParam, fLeft>>
-----------------------------------------------------------------------------
FinSettings == {1, 2}
\* A list of sources: none, or the source at its first or at its second address.
FinLists == 0 .. 2
FinBoot == 1    \* the settings in the credentials that the unit loads

\* sel: the network it started on; set: `settings`; sdk: the file that the SDK
\* read; by: the settings of the instance, 0 for none; list: what the instance
\* has found; mem: g_follower.config, 0 for none; last: last_list.
NoFinder == [sel |-> 0, set |-> 0, sdk |-> 0, by |-> 0, list |-> 0, mem |-> 0, last |-> 0]

\* acked: the settings last acknowledged, 0 if caching them failed; open: the cache
\* has settings whose request was not answered yet; sdk, list: the last write of the
\* SDK's file, and of the list, got through.
FinPasts == [acked : 0 .. 2, open : BOOLEAN, sdk : BOOLEAN, list : BOOLEAN]

FinTypeOK ==
    /\ fSees \in [FinSettings -> FinLists] /\ fSig \in 0 .. 2
    /\ fAt \in {"down", "poll", "cache", "reply", "tick", "wait"}
    /\ fProc \in [DOMAIN NoFinder -> 0 .. 2]
    /\ fDisk \in 0 .. 2 /\ fCache \in 0 .. 2 /\ fPast \in FinPasts /\ fFile \in FinLists
    /\ fParam \in {"none", "run", "rs"}
    /\ fLeft \in [world : 0 .. FinWorld, requests : 0 .. FinRequests, faults : 0 .. FinFaults]

FinInit ==
    /\ fSees \in [FinSettings -> FinLists] /\ fSig = 1
    /\ fAt = "down" /\ fProc = NoFinder
    /\ fDisk = 0 /\ fCache = 0 /\ fFile = 0 /\ fParam = "none"
    /\ fPast = [acked |-> 0, open |-> FALSE, sdk |-> TRUE, list |-> TRUE]
    /\ fLeft = [world |-> FinWorld, requests |-> FinRequests, faults |-> FinFaults]

FinOutside == UNCHANGED <<fSees, fSig>>
\* The process ends; systemd starts it again.
Exits == fAt' = "down" /\ fProc' = NoFinder
-----------------------------------------------------------------------------
\* A write that fails is only warned of, or not even that; one of what the file
\* has already is not made.
Write(file, s, ok) == IF ok THEN s ELSE file
MayFail(file, s) == IF file = s \/ fLeft.faults = 0 THEN {TRUE} ELSE BOOLEAN
Cost(ok) == IF ok THEN 0 ELSE 1

\* write_ndi_sdk_config, once more after the SDK is initialised: it reads the
\* transport keys only then, from what the file has after the first write.
WriteSdkConfig(file, s, first, again) ==
    /\ fDisk' = Write(file, s, first \/ again)
    /\ fPast' = [fPast EXCEPT !.sdk = first]

\* The source list, for both of its readers.
WriteSourceList(list, ok) ==
    fFile' = Write(fFile, list, ok) /\ fPast' = [fPast EXCEPT !.list = ok]

\* An instance with these settings starts with an empty list.
Initialised(p, s, read) == [p EXCEPT !.set = s, !.sdk = read, !.by = s, !.list = 0]

\* main, run_continuous: the cached settings if there are any, the credentials
\* otherwise; nothing starts before the selected network has an address.
CredentialsOnly(mem) == FinBoot    \* mutant of LoadSettings
LoadSettings(mem) == IF mem # 0 THEN mem ELSE FinBoot
StartFinder ==
    /\ fAt = "down" /\ fSig # 0
    /\ LET s == LoadSettings(fCache)
       IN \E first \in MayFail(fDisk, s), again \in BOOLEAN :
            /\ fProc' = Initialised([NoFinder EXCEPT !.mem = fCache, !.sel = fSig], s, Write(fDisk, s, first))
            /\ WriteSdkConfig(fDisk, s, first, again)
            /\ fLeft' = [fLeft EXCEPT !.faults = @ - Cost(first)]
    /\ fAt' = "poll"
    /\ FinOutside /\ UNCHANGED <<fCache, fFile, fParam>>

NothingAsked ==
    /\ fAt = "poll" /\ fAt' = "tick"
    /\ FinOutside /\ UNCHANGED <<fProc, fDisk, fCache, fPast, fFile, fParam, fLeft>>

\* apply_config: for other settings the instance and the SDK go and come back.
AcceptConfig(new) ==
    /\ fAt = "poll" /\ fLeft.requests > 0
    /\ IF fProc.mem = new
       THEN fLeft' = [fLeft EXCEPT !.requests = @ - 1] /\ UNCHANGED <<fProc, fDisk, fPast>>
       ELSE \E first \in MayFail(fDisk, new), again \in BOOLEAN :
            /\ fProc' = [Initialised(fProc, new, Write(fDisk, new, first)) EXCEPT !.mem = new, !.last = 0]
            /\ WriteSdkConfig(fDisk, new, first, again)
            /\ fLeft' = [fLeft EXCEPT !.requests = @ - 1, !.faults = @ - Cost(first)]
    /\ fAt' = "cache"
    /\ FinOutside /\ UNCHANGED <<fCache, fFile, fParam>>

\* A failure, after the new settings were written, goes back to the previous ones;
\* if that fails too, the loop ends.
RefuseConfig(new) ==
    /\ fAt = "poll" /\ fLeft.requests > 0 /\ fLeft.faults > 0 /\ fProc.mem # new
    /\ LET s == fProc.set
       IN \E tried \in {fDisk, new}, again \in BOOLEAN : \E first \in BOOLEAN :
            /\ ~first => tried # s /\ fLeft.faults > 1
            /\ WriteSdkConfig(tried, s, first, again)
            /\ \/ fProc' = Initialised(fProc, s, Write(tried, s, first)) /\ fAt' = "tick"
               \/ Exits
            /\ fLeft' = [fLeft EXCEPT !.requests = @ - 1, !.faults = @ - 1 - Cost(first)]
    /\ FinOutside /\ UNCHANGED <<fCache, fFile, fParam>>

\* What was accepted is cached, or could not be; then the request is answered.
Cached(ok) == fCache' = Write(fCache, fProc.mem, ok)
CacheConfig(ok) ==
    /\ fAt = "cache" /\ (ok \/ fLeft.faults > 0)
    /\ Cached(ok)
    /\ fPast' = [fPast EXCEPT !.open = @ \/ ok]
    /\ fLeft' = [fLeft EXCEPT !.faults = @ - Cost(ok)]
    /\ fAt' = "reply"
    /\ FinOutside /\ UNCHANGED <<fProc, fDisk, fFile, fParam>>
AnswerKept(mem) == IF fCache = mem THEN mem ELSE 0
Reply ==
    /\ fAt = "reply" /\ fAt' = "tick"
    /\ fPast' = [fPast EXCEPT !.acked = AnswerKept(fProc.mem), !.open = FALSE]
    /\ FinOutside /\ UNCHANGED <<fProc, fDisk, fCache, fFile, fParam, fLeft>>
-----------------------------------------------------------------------------
\* A tick: the process ends when the network is no longer the one it started on;
\* then the trigger file is obeyed.
NetworkStays == fSig = fProc.sel
Rescan ==
    LET s == LoadSettings(fProc.mem)
    IN \E ok \in MayFail(fDisk, s) :
        /\ fProc' = [fProc EXCEPT !.set = s, !.by = s, !.list = 0, !.last = 0]
        /\ fDisk' = Write(fDisk, s, ok)
        /\ fLeft' = [fLeft EXCEPT !.faults = @ - Cost(ok)]
        /\ UNCHANGED <<fFile, fPast>>
Reset ==
    \E ok \in MayFail(fFile, 0) :
        /\ WriteSourceList(0, ok)
        /\ fProc' = [fProc EXCEPT !.last = 0]
        /\ fLeft' = [fLeft EXCEPT !.faults = @ - Cost(ok)]
        /\ UNCHANGED fDisk
FinTick ==
    /\ fAt = "tick"
    /\ IF ~NetworkStays THEN Exits /\ UNCHANGED <<fFile, fParam, fDisk, fPast, fLeft>>
       ELSE /\ fAt' = "wait" /\ fParam' = "none"
            /\ \/ fParam = "run" /\ Rescan
               \/ fParam = "rs" /\ Reset
               \/ fParam = "none" /\ UNCHANGED <<fProc, fFile, fDisk, fPast, fLeft>>
    /\ FinOutside /\ UNCHANGED fCache

\* The list is written when it differs from the last one, in a name or in an
\* address; a write that fails is not made again for the same list.
NamesDiffer(list) == (list = 0) # (fProc.last = 0)    \* mutant of Differs
Differs(list) == list # fProc.last
CompareList ==
    /\ fAt = "wait" /\ fAt' = "poll"
    /\ IF Differs(fProc.list)
       THEN \E ok \in MayFail(fFile, fProc.list) :
                /\ fProc' = [fProc EXCEPT !.last = fProc.list]
                /\ WriteSourceList(fProc.list, ok)
                /\ fLeft' = [fLeft EXCEPT !.faults = @ - Cost(ok)]
       ELSE UNCHANGED <<fFile, fProc, fPast, fLeft>>
    /\ FinOutside /\ UNCHANGED <<fDisk, fCache, fParam>>
-----------------------------------------------------------------------------
\* The SDK notices what the network shows, at any time.
Discover ==
    /\ fProc.by # 0 /\ fProc.list # fSees[fProc.by]
    /\ fProc' = [fProc EXCEPT !.list = fSees[fProc.by]]
    /\ FinOutside /\ UNCHANGED <<fAt, fDisk, fCache, fPast, fFile, fParam, fLeft>>

\* The world: sources, the network, and the control process's trigger.
FinChanges ==
    /\ fLeft.world > 0 /\ fLeft' = [fLeft EXCEPT !.world = @ - 1]
    /\ \/ \E s \in FinSettings, l \in FinLists : fSees' = [fSees EXCEPT ![s] = l] /\ UNCHANGED <<fSig, fParam>>
       \/ \E a \in 0 .. 2 : fSig' = a /\ UNCHANGED <<fSees, fParam>>
       \/ \E c \in {"run", "rs"} : fParam' = c /\ UNCHANGED <<fSees, fSig>>
    /\ UNCHANGED <<fAt, fProc, fDisk, fCache, fPast, fFile>>

FinderCrash ==
    /\ fAt # "down" /\ fLeft.faults > 0
    /\ fLeft' = [fLeft EXCEPT !.faults = @ - 1]
    /\ Exits /\ FinOutside /\ UNCHANGED <<fDisk, fCache, fPast, fFile, fParam>>

FinLoop ==
    \/ StartFinder \/ NothingAsked \/ Reply \/ FinTick \/ CompareList
    \/ \E ok \in BOOLEAN : CacheConfig(ok)
FinNext ==
    \/ FinLoop \/ Discover \/ FinChanges \/ FinderCrash
    \/ \E new \in FinSettings : AcceptConfig(new) \/ RefuseConfig(new)

\* The loop runs (Restart=always, StartLimitIntervalSec=0), and the SDK notices.
FinFair == WF_finVars(FinLoop) /\ WF_finVars(Discover)
-----------------------------------------------------------------------------
\* While the loop looks for sources, the instance and the settings in memory are
\* those that were accepted last, after any mixture of accepted, refused and
\* half-applied requests and of rescans; the SDK below and its file are of them too,
\* unless the write of that file failed before the SDK was initialised.
RunsOnAccepted ==
    fAt \in {"tick", "wait"} =>
        /\ fProc.by = fProc.set
        /\ fProc.mem # 0 => fProc.set = fProc.mem
        /\ fPast.sdk => fProc.sdk = fProc.set /\ fDisk = fProc.set

\* Settings that were acknowledged are in the cache that the next start reads, unless
\* writing it failed: the control process does not send them again.  Only a later
\* request, cached and cut off before its answer, takes their place.
AckedSurvives == fPast.acked # 0 => fCache = fPast.acked \/ fPast.open

\* Once things are quiet, the published list has the source and the address that
\* the network shows, also after a source kept its name and moved, unless the write
\* of that very list failed: it is not repeated.
SourcesPublished ==
    <>[](fProc.by # 0 /\ fSees[fProc.by] # 0 /\ fPast.list => fFile = fSees[fProc.by])

\* The finder ends up on the selected network, not on one that it lost.
OnSelectedNetwork == <>[](fSig # 0 /\ fAt # "down" => fProc.sel = fSig)

\* The list that is published becomes that of the network, whatever it is ("Writes
\* the source list below /run/ndimon/finder when it changes", README.md).
ListFollowsNetwork == <>[](fProc.by # 0 => fFile = fSees[fProc.by])

\* What the finder promises of its settings.
FinderPromises == FinTypeOK /\ RunsOnAccepted /\ AckedSurvives

\* What it gets done: the list becomes that of the selected network.
ListIsCurrent == SourcesPublished /\ OnSelectedNetwork
=============================================================================
