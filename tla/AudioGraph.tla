----------------------------- MODULE AudioGraph -----------------------------
(* The audio engine of the decoder (src/audio/AudioEngine.cpp): a real-time   *)
(* thread plays the graph it has adopted, period by period, and the control   *)
(* calls (a reload, the recovery of lost endpoints, the revocation of a       *)
(* receiver, stop) build the next graph under control_mutex_, publish it and  *)
(* wait until the real-time thread has adopted it before they let the old one *)
(* go.  Playback devices are exclusive: a PCM is open for at most one handle, *)
(* which graphs share, and is closed with the last graph that holds it.       *)
(*                                                                            *)
(* Two playback endpoints are modelled, "m" (the HDMI master, which paces the *)
(* engine) and "s", and one NDI source with its fallback queue; of the        *)
(* settings, those that decide whether a device can be kept (period, PCM),    *)
(* and the one live control that matters, whether the source is heard: its    *)
(* enabled flag in version 1, its routes in version 2.  The version stays     *)
(* that of the start: the decoder restarts when the engine changes.           *)
EXTENDS Naturals

CONSTANTS AuPcms,      \* PCM names endpoint "s" can be given; "hdmi" is m's
          AuEvents     \* how many changes of the settings, faults of a device,
                       \* display changes and failed builds there are

ASSUME AudioAssumption == "none" \notin AuPcms /\ AuEvents \in Nat

VARIABLES aHeap,   \* the graphs that have not been destroyed
          aCtl,    \* what the control side is doing, and its members
          aRt,     \* the real-time thread
          aDev,    \* devices, display and the receiver with its queue
          aLeft    \* how many of AuEvents are left

auVars == <<aHeap, aCtl, aRt, aDev, aLeft>>
-----------------------------------------------------------------------------
AuSinks == {"m", "s"}
Hdmi == "hdmi"
AllPcms == AuPcms \cup {Hdmi}
NoDevice == "none"               \* ReleasedMaster, UnavailableSink

\* Graph objects are told apart by small numbers, used again once destroyed.
GraphIds == 1 .. 5
NoGraph == 0
Live(i) == i \in DOMAIN aHeap
With(heap, i, graph) == [j \in DOMAIN heap \cup {i} |-> IF j = i THEN graph ELSE heap[j]]
Without(i) == [j \in DOMAIN aHeap \ {i} |-> aHeap[j]]

AuSettings == [version : {1, 2}, period : {1, 2},
               routed : BOOLEAN, pcm : [m : {Hdmi}, s : AuPcms]]
AuGraphs == [settings : AuSettings, dev : [AuSinks -> AllPcms \cup {NoDevice}], ndi : BOOLEAN]

AuTypeOK ==
    /\ DOMAIN aHeap \subseteq GraphIds /\ \A i \in DOMAIN aHeap : aHeap[i] \in AuGraphs
    /\ aCtl \in [call : {"idle", "reload", "recover", "revoke", "stop"},
                 step : {"idle", "swap", "release", "reopen", "join"},
                 graph : GraphIds, next : GraphIds \cup {NoGraph},
                 pending : GraphIds \cup {NoGraph}, adopted : GraphIds,
                 running : BOOLEAN, registered : BOOLEAN, asked : BOOLEAN,
                 shown : BOOLEAN, reopen : SUBSET AuSinks]
    /\ aRt \in [at : {"off", "top", "adopt", "wait", "pull", "push"}, g : GraphIds, real : BOOLEAN]
    /\ aDev \in [plugged : [AllPcms -> {"ok", "gone", "busy"}], healthy : [AllPcms -> BOOLEAN],
                 display : BOOLEAN, receiver : BOOLEAN, native : BOOLEAN,
                 fifo : {"empty", "old", "new"}, discard : BOOLEAN, played : {"none", "old", "new"}]
    /\ aLeft \in 0 .. AuEvents

\* A PCM is held by every graph that is still there: the lease and the handle
\* go with the last reference.
Held(heap) == {heap[i].dev[s] : i \in DOMAIN heap, s \in AuSinks} \ {NoDevice}
PcmReady(dev) == dev # NoDevice /\ aDev.healthy[dev]

\* The source is pulled, and pushed to: enabled (version 1), routed (version 2).
Audible(graph) == graph.ndi /\ graph.settings.routed

\* The flag `selected` of the source, which inputs() clears in version 2 only.
Selected(graph) == graph.ndi /\ (graph.settings.version = 1 \/ graph.settings.routed)
Now == aHeap[aCtl.graph]

\* A number no graph in use has.
FreshId == CHOOSE i \in GraphIds :
    /\ ~Live(i)
    /\ i \notin {aRt.g, aCtl.adopted, aCtl.pending, aCtl.next, aCtl.graph}

AuInit ==
    \E version \in {1, 2}, q \in AuPcms :
        LET s0 == [version |-> version, period |-> 1, routed |-> TRUE,
                   pcm |-> [m |-> Hdmi, s |-> q]]
        IN /\ aHeap = [i \in {1} |-> [settings |-> s0, dev |-> s0.pcm, ndi |-> TRUE]]
           /\ aCtl = [call |-> "idle", step |-> "idle", graph |-> 1, next |-> NoGraph,
                      pending |-> NoGraph, adopted |-> 1, running |-> FALSE,
                      registered |-> TRUE, asked |-> FALSE, shown |-> TRUE, reopen |-> {}]
           /\ aRt = [at |-> "off", g |-> 1, real |-> FALSE]
           /\ aDev = [plugged |-> [p \in AllPcms |-> "ok"], healthy |-> [p \in AllPcms |-> p \in {Hdmi, q}],
                      display |-> TRUE, receiver |-> TRUE, native |-> FALSE,
                      fifo |-> "empty", discard |-> TRUE, played |-> "none"]
           /\ aLeft = AuEvents
-----------------------------------------------------------------------------
(* Building a graph (apply_locked).                                           *)

\* The running handle is kept when neither the engine's geometry nor the
\* endpoint's PCM changes and no recovery asks for it to be opened again.
Reuses(prior, want, s, reopen) ==
    /\ prior.settings.period = want.period
    /\ s \notin reopen
    /\ prior.dev[s] # NoDevice
    /\ prior.settings.pcm[s] = want.pcm[s]

Opens(want, reopen) == {s \in AuSinks : ~Reuses(Now, want, s, reopen)}

\* The lease of a PCM that any graph holds, or that another endpoint of this
\* one opens, is refused; so is a device another program holds, unless a
\* recovery is opening it again.
PcmBusy(want, reopen) ==
    \E s \in Opens(want, reopen) :
        \/ want.pcm[s] \in Held(aHeap)
        \/ \E t \in Opens(want, reopen) \ {s} : want.pcm[t] = want.pcm[s]
        \/ reopen = {} /\ aDev.plugged[want.pcm[s]] = "busy"

\* A mutant: the new endpoint is taken whether it could be opened or not.
AlwaysTaken(want, reopen) == FALSE

\* Without a recovery, a working endpoint is not given up for one that cannot
\* be opened.
Unavailable(want, reopen) ==
    /\ reopen = {}
    /\ \E s \in Opens(want, reopen) : aDev.plugged[want.pcm[s]] # "ok" /\ PcmReady(Now.dev[s])

Accepted(want, reopen) == ~PcmBusy(want, reopen) /\ ~Unavailable(want, reopen)

\* The graph that is published: kept handles, and those opened, ready or not.
Built(want) == [settings |-> want, dev |-> want.pcm, ndi |-> aCtl.registered]
Opened(want, reopen) ==
    [p \in AllPcms |->
        IF \E s \in Opens(want, reopen) : want.pcm[s] = p THEN aDev.plugged[p] = "ok"
        ELSE aDev.healthy[p]]

\* Controls the graph in place can take while a device is refused.
LiveSubset(cur, want) == [cur EXCEPT !.routed = want.routed]

\* No source survives another period: it is made anew, with an empty queue.
NewSource(old, new) == old.settings.period # new.settings.period

\* What the real-time thread does on adopting a graph: a source that was not
\* selected before throws away what its queue still holds.
Adoption(old, new) == Selected(new) /\ (NewSource(old, new) \/ ~Selected(old))

\* The control side waits for the thread only while one runs.
Waits == aCtl.running

\* Hands a graph over: to the running thread, which must acknowledge it, or,
\* with none running, directly.
HandOver(ctl, graph, then) ==
    LET i == FreshId
    IN IF Waits
       THEN /\ aHeap' = With(aHeap, i, graph)
            /\ aCtl' = [ctl EXCEPT !.next = i, !.pending = i, !.step = then]
       ELSE /\ aHeap' = With(Without(aCtl.graph), i, graph)
            /\ aCtl' = [ctl EXCEPT !.graph = i, !.adopted = i,
                                   !.step = IF then = "release" THEN "reopen" ELSE "idle",
                                   !.call = IF then = "release" THEN @ ELSE "idle",
                                   !.reopen = IF then = "release" THEN @ ELSE {}]

\* What adopting a graph does to the queue of its source: what it still holds
\* when the source is no longer heard is old.
AdoptedBy(dev, old, new) ==
    [dev EXCEPT !.discard = @ \/ Adoption(old, new),
                !.native = @ /\ ~NewSource(old, new),
                !.fifo = IF NewSource(old, new) THEN "empty"
                         ELSE IF @ = "new" /\ ~Audible(new) THEN "old" ELSE @]

\* With no thread running the calling thread adopts the graph itself.
Handed(dev, graph) == IF Waits THEN dev ELSE AdoptedBy(dev, aHeap[aCtl.adopted], graph)
-----------------------------------------------------------------------------
(* Control calls; each holds control_mutex_ from its start to its end.        *)

AuIdle == aCtl.step = "idle"

Changed(cur) == {want \in AuSettings : want.version = cur.version /\ want # cur}

AuReload ==
    /\ AuIdle
    /\ aCtl.registered
    /\ aLeft > 0
    /\ \E want \in Changed(Now.settings) :
        /\ Accepted(want, {})
        /\ HandOver([aCtl EXCEPT !.call = "reload"], Built(want), "swap")
        /\ aDev' = Handed([aDev EXCEPT !.healthy = Opened(want, {})], Built(want))
    /\ aLeft' = aLeft - 1
    /\ UNCHANGED aRt

\* A busy device: the settings of version 1 still take the live controls.
AuReloadPartly ==
    /\ AuIdle
    /\ aCtl.registered
    /\ aLeft > 0
    /\ \E want \in Changed(Now.settings) :
        LET live == LiveSubset(Now.settings, want)
        IN /\ PcmBusy(want, {})
           /\ want.version = 1
           /\ live # Now.settings
           /\ Accepted(live, {})
           /\ HandOver([aCtl EXCEPT !.call = "reload"], Built(live), "swap")
           /\ aDev' = Handed([aDev EXCEPT !.healthy = Opened(live, {})], Built(live))
    /\ aLeft' = aLeft - 1
    /\ UNCHANGED aRt

\* Anything else that cannot be done is refused, and nothing changes.
AuRefuse ==
    /\ AuIdle
    /\ aCtl.registered
    /\ aLeft > 0
    /\ \E want \in Changed(Now.settings) : ~Accepted(want, {})
    /\ aLeft' = aLeft - 1
    /\ UNCHANGED <<aHeap, aCtl, aRt, aDev>>

\* The real-time thread holds the new graph: the old one is destroyed.
Acknowledged == aCtl.adopted = aCtl.next

AuSwapped ==
    /\ aCtl.step = "swap"
    /\ Acknowledged
    /\ aHeap' = Without(aCtl.graph)
    /\ aCtl' = [aCtl EXCEPT !.graph = aCtl.next, !.next = NoGraph, !.reopen = {},
                            !.step = "idle", !.call = "idle"]
    /\ UNCHANGED <<aRt, aDev, aLeft>>

\* A mutant: only the master is opened again, when the thread has asked for it.
MasterOnly(due) == IF aDev.display /\ due /\ aCtl.asked THEN {"m"} ELSE {}

\* Which endpoints a tick recovers (set_master_fallback): the master when the
\* display is back, or when the thread asked for it and a retry is due; with a
\* retry due, every endpoint that is not ready, unless its display is gone.
Targets(due) ==
    LET back == aDev.display /\ ~aCtl.shown
        asked == aDev.display /\ due /\ aCtl.asked
        lost == {s \in AuSinks : ~PcmReady(Now.dev[s]) /\ (s = "m" => aDev.display)}
    IN (IF back \/ asked THEN {"m"} ELSE {}) \cup (IF due THEN lost ELSE {})

\* The tick of an output.  The graph in between holds no handle of the targets,
\* so that those are closed once the thread has adopted it.
Tick(due) ==
    /\ AuIdle
    /\ aCtl.registered
    /\ LET to == Targets(due)
           between == [Now EXCEPT !.dev = [s \in AuSinks |-> IF s \in to THEN NoDevice ELSE @[s]]]
           ctl == [aCtl EXCEPT !.asked = FALSE, !.shown = aDev.display]
       IN IF to = {}
          THEN aCtl' = ctl /\ UNCHANGED <<aHeap, aDev>>
          ELSE /\ HandOver([ctl EXCEPT !.call = "recover", !.reopen = to], between, "release")
               /\ aDev' = Handed(aDev, between)
    /\ UNCHANGED <<aRt, aLeft>>

AuReleased ==
    /\ aCtl.step = "release"
    /\ Acknowledged
    /\ aHeap' = Without(aCtl.graph)
    /\ aCtl' = [aCtl EXCEPT !.graph = aCtl.next, !.next = NoGraph, !.step = "reopen"]
    /\ UNCHANGED <<aRt, aDev, aLeft>>

\* The same settings again, with the targets opened anew.
AuReopen ==
    /\ aCtl.step = "reopen"
    /\ Accepted(Now.settings, aCtl.reopen)
    /\ HandOver(aCtl, Built(Now.settings), "swap")
    /\ aDev' = Handed([aDev EXCEPT !.healthy = Opened(Now.settings, aCtl.reopen)],
                       Built(Now.settings))
    /\ UNCHANGED <<aRt, aLeft>>

\* A failed recovery (a factory that throws) leaves the graph in between; a
\* later tick tries again.
AuReopenFails ==
    /\ aCtl.step = "reopen"
    /\ aLeft > 0
    /\ aCtl' = [aCtl EXCEPT !.step = "idle", !.call = "idle", !.reopen = {}]
    /\ aLeft' = aLeft - 1
    /\ UNCHANGED <<aHeap, aRt, aDev>>

\* The engine is stopped and its thread joined.
Halted(ctl) == [ctl EXCEPT !.running = FALSE, !.step = "join"]

\* An output is stopped: the graph is built again without its source; when that
\* fails the engine is stopped instead.
AuUnregister ==
    /\ AuIdle
    /\ aCtl.registered
    /\ LET ctl == [aCtl EXCEPT !.registered = FALSE, !.call = "revoke"]
           graph == [Built(Now.settings) EXCEPT !.ndi = FALSE]
       IN \/ /\ Accepted(Now.settings, {})
             /\ HandOver(ctl, graph, "swap")
             /\ aDev' = Handed([aDev EXCEPT !.healthy = Opened(Now.settings, {})], graph)
             /\ UNCHANGED aLeft
          \/ /\ \/ ~Accepted(Now.settings, {}) /\ UNCHANGED aLeft
                \/ aLeft > 0 /\ aLeft' = aLeft - 1
             /\ aCtl' = Halted(ctl)
             /\ UNCHANGED <<aHeap, aDev>>
    /\ UNCHANGED aRt

\* The output goes on to destroy its receiver.
ReceiverGone ==
    /\ AuIdle
    /\ ~aCtl.registered
    /\ aDev.receiver
    /\ aDev' = [aDev EXCEPT !.receiver = FALSE]
    /\ UNCHANGED <<aHeap, aCtl, aRt, aLeft>>

AuStart ==
    /\ AuIdle
    /\ ~aCtl.running
    /\ aCtl.registered
    /\ aCtl' = [aCtl EXCEPT !.running = TRUE]
    /\ aRt' = [at |-> "top", g |-> aCtl.adopted, real |-> FALSE]
    /\ UNCHANGED <<aHeap, aDev, aLeft>>

AuStop ==
    /\ AuIdle
    /\ aCtl.running
    /\ ~aDev.receiver
    /\ aCtl' = [aCtl EXCEPT !.running = FALSE, !.call = "stop", !.step = "join"]
    /\ UNCHANGED <<aHeap, aRt, aDev, aLeft>>

AuJoined ==
    /\ aCtl.step = "join"
    /\ aRt.at = "off"
    /\ aCtl' = [aCtl EXCEPT !.step = "idle", !.call = "idle"]
    /\ UNCHANGED <<aHeap, aRt, aDev, aLeft>>

\* The receive thread hands samples to the queue while native frames are not
\* pulled (push_ndi, under the same mutex).
PushNdi ==
    /\ AuIdle
    /\ aDev.receiver
    /\ Audible(Now)
    /\ ~aDev.native
    /\ aDev.fifo = "empty"
    /\ aDev' = [aDev EXCEPT !.fifo = "new"]
    /\ UNCHANGED <<aHeap, aCtl, aRt, aLeft>>
-----------------------------------------------------------------------------
(* The real-time thread (run).                                                *)

\* It looks for a graph to adopt once a period.
RtTake ==
    /\ aRt.at = "top"
    /\ aCtl.running
    /\ IF aCtl.pending # NoGraph
       THEN /\ aRt' = [aRt EXCEPT !.at = "adopt", !.g = aCtl.pending]
            /\ aCtl' = [aCtl EXCEPT !.pending = NoGraph]
       ELSE aRt' = [aRt EXCEPT !.at = "wait"] /\ UNCHANGED aCtl
    /\ UNCHANGED <<aHeap, aDev, aLeft>>

\* adopt(): the old graph is read before the new one is acknowledged.
RtAdopt ==
    /\ aRt.at = "adopt"
    /\ Live(aCtl.adopted) /\ Live(aRt.g)
    /\ aDev' = AdoptedBy(aDev, aHeap[aCtl.adopted], aHeap[aRt.g])
    /\ aCtl' = [aCtl EXCEPT !.adopted = aRt.g]
    /\ aRt' = [aRt EXCEPT !.at = "wait"]
    /\ UNCHANGED <<aHeap, aLeft>>

\* Waits for the master's period; a handle that fails stays failed, a wait may
\* time out, and without a real master the timer paces and a recovery is asked.
RtWait ==
    /\ aRt.at = "wait"
    /\ Live(aRt.g)
    /\ LET p == aHeap[aRt.g].dev["m"]
           works == aDev.display /\ p # NoDevice /\ aDev.healthy[p] /\ aDev.plugged[p] = "ok"
       IN \E real \in {works} \cup (IF aLeft > 0 THEN {FALSE} ELSE {}) :
            /\ aRt' = [aRt EXCEPT !.at = "pull", !.real = real]
            /\ aCtl' = [aCtl EXCEPT !.asked = @ \/ (~real /\ aCtl.shown)]
            /\ aDev' = IF aDev.display /\ p # NoDevice /\ aDev.plugged[p] # "ok"
                       THEN [aDev EXCEPT !.healthy[p] = FALSE] ELSE aDev
            /\ aLeft' = IF real = works THEN aLeft ELSE aLeft - 1
    /\ UNCHANGED aHeap

\* Pulls the source: the receiver's own frames, which empty the queue, or what
\* the queue holds; a source that is not heard is not pulled.
RtPull ==
    /\ aRt.at = "pull"
    /\ Live(aRt.g)
    /\ IF Audible(aHeap[aRt.g])
       THEN \E native \in BOOLEAN :
                aDev' = [aDev EXCEPT !.native = native, !.discard = FALSE, !.fifo = "empty",
                                     !.played = IF native \/ aDev.discard \/ aDev.fifo = "empty"
                                                THEN "none" ELSE aDev.fifo]
       ELSE aDev' = [aDev EXCEPT !.played = "none"]
    /\ aRt' = [aRt EXCEPT !.at = "push"]
    /\ UNCHANGED <<aHeap, aCtl, aLeft>>

\* Plays the period on every endpoint; writing to a lost device fails it.
RtPush ==
    /\ aRt.at = "push"
    /\ Live(aRt.g)
    /\ LET used == {aHeap[aRt.g].dev["s"]} \cup (IF aRt.real THEN {aHeap[aRt.g].dev["m"]} ELSE {})
       IN aDev' = [aDev EXCEPT !.healthy =
                     [p \in AllPcms |-> @[p] /\ (p \in used => aDev.plugged[p] = "ok")],
                               !.played = "none"]
    /\ aRt' = [aRt EXCEPT !.at = "top"]
    /\ UNCHANGED <<aHeap, aCtl, aLeft>>

RtEnds ==
    /\ aRt.at = "top"
    /\ ~aCtl.running
    /\ aRt' = [aRt EXCEPT !.at = "off"]
    /\ UNCHANGED <<aHeap, aCtl, aDev, aLeft>>

RtStep == RtTake \/ RtAdopt \/ RtWait \/ RtPull \/ RtPush \/ RtEnds
-----------------------------------------------------------------------------
(* The world.                                                                 *)

\* A device is unplugged, taken by another program while closed, or comes back.
DeviceChanges ==
    /\ aLeft > 0
    /\ \E p \in AllPcms, to \in {"ok", "gone", "busy"} :
        /\ to # aDev.plugged[p]
        /\ to = "busy" => p \notin Held(aHeap) \/ ~aDev.healthy[p]
        /\ aDev' = [aDev EXCEPT !.plugged[p] = to]
    /\ aLeft' = aLeft - 1
    /\ UNCHANGED <<aHeap, aCtl, aRt>>

DisplayChanges ==
    /\ aLeft > 0
    /\ aDev' = [aDev EXCEPT !.display = ~@]
    /\ aLeft' = aLeft - 1
    /\ UNCHANGED <<aHeap, aCtl, aRt>>

AuControl == AuSwapped \/ AuReleased \/ AuReopen \/ AuReopenFails \/ AuJoined

AuNext ==
    \/ AuReload \/ AuReloadPartly \/ AuRefuse
    \/ Tick(TRUE) \/ Tick(FALSE)
    \/ AuUnregister \/ ReceiverGone \/ AuStart \/ AuStop
    \/ AuControl \/ RtStep \/ PushNdi
    \/ DeviceChanges \/ DisplayChanges

\* Each output ticks ten times a second and a retry falls due every two; the
\* real-time thread is SCHED_FIFO and its waits are bounded; a call goes on.
AuFair ==
    /\ WF_auVars(RtStep)
    /\ WF_auVars(AuControl)
    /\ SF_auVars(Tick(TRUE))
    /\ WF_auVars(AuStart)
-----------------------------------------------------------------------------
(* Properties.                                                                *)

\* The thread never works on a graph, or reads one it is replacing, that the
\* control side has destroyed: handed over, acknowledged, and only then freed.
GraphInUseIsAlive ==
    /\ aRt.at \in {"adopt", "wait", "pull", "push"} => Live(aRt.g)
    /\ aRt.at = "adopt" => Live(aCtl.adopted)

\* Once an output has revoked its source and destroyed its receiver, no period
\* pulls that receiver any more, however the revocation went.
RevokedIsNotPulled ==
    ~aDev.receiver /\ aRt.at \in {"adopt", "wait", "pull"} => ~aHeap[aRt.g].ndi

\* Of version 2: what was queued before the routes of a source were switched off
\* is not heard when they are on again.  (Version 1 does not promise it: there a
\* source that is disabled and enabled again plays what its queue still holds.)
OldSoundUnheard == aDev.played = "old" => Now.settings.version = 1

\* Neither a reload, in whole or in part, nor the recovery of the other
\* endpoint, nor a revocation hands over a graph in which an endpoint that
\* works, and is not itself to be opened again, has no device that does.  (Only
\* the master is ever opened again while it works, when the display is back or
\* the thread has missed its period.)
StillHeld(i, s) == aHeap'[i].dev[s] # NoDevice /\ aDev'.healthy[aHeap'[i].dev[s]]
WorkingEndpointStays ==
    [][\A i \in DOMAIN aHeap' \ DOMAIN aHeap :
        /\ PcmReady(Now.dev["s"]) => StillHeld(i, "s")
        /\ PcmReady(Now.dev["m"]) /\ "m" \notin aCtl'.reopen => StillHeld(i, "m")]_auVars

\* A device that is there for good, with its display, comes to be played again
\* without an operator, as long as the engine runs.
EndpointsRecover ==
    \A s \in AuSinks :
        <>[](aDev.display /\ aDev.plugged[Now.settings.pcm[s]] = "ok" /\ aCtl.registered)
            => []<>PcmReady(Now.dev[s])

\* Every control call ends: the thread acknowledges, or has been joined.
CallEnds == []<>(aCtl.call = "idle")

\* What the audio engine promises across its two threads.
AudioPromises ==
    /\ []AuTypeOK /\ []GraphInUseIsAlive /\ []RevokedIsNotPulled /\ []OldSoundUnheard
    /\ WorkingEndpointStays

\* What it gets done: calls end, and devices that are back are played.
AudioComesBack == EndpointsRecover /\ CallEnds
=============================================================================
