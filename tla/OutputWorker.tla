----------------------------- MODULE OutputWorker -----------------------------
(***************************************************************************)
(* One output's `DisplayWorker` (main.cpp) between the receiver and the     *)
(* control plane.  The IPC thread serves one request at a time: it applies  *)
(* a configuration and connects or forgets the source.  The main loop's     *)
(* tick also connects (a display was attached) and disconnects (a route     *)
(* without a display).  The receive thread calls back: connected, lost,     *)
(* routed by a Discovery Server, a frame to queue.  A route is pushed to    *)
(* the control plane, which saves it as the output's source and applies it. *)
(* The receiver itself (module Receiver) is one step here: a switch joins   *)
(* the receive thread, and with it a callback that is running.              *)
(***************************************************************************)
EXTENDS Naturals, Sequences

CONSTANTS
    WkSources,      \* sources on the network
    WkChoices,      \* bound on sources the operator chooses
    WkRoutes,       \* bound on routes of the Discovery Server
    WkWorld,        \* bound on senders that come and go
    WkUnlinks       \* bound on subscribers lost

ASSUME WorkerAssumption ==
    "" \notin WkSources /\ {WkChoices, WkRoutes, WkWorld, WkUnlinks} \subseteq Nat

VARIABLES
    wname,      \* `source_name_`
    worigin,    \* `remote_origin_`: was that source routed?
    wconn,      \* `connected_`
    wsaved,     \* the output's source in `Config`
    wdisplay,   \* `drm_ready()`
    wrecv,      \* the receiver: its source, the SDK's, is it live, was that told
    wcall,      \* the callback the receive thread is in
    wqueue,     \* queued frames: is each of an earlier connection?
    wop,        \* what the IPC thread and the main loop are doing
    wctl,       \* the control plane: the source it wants, is it still to be applied
    wlink,      \* is the control plane subscribed?
    wevents,    \* routes on their way to it
    wkSpent     \* counters of the bounds

wkVars == <<wname, worigin, wconn, wsaved, wdisplay, wrecv, wcall, wqueue, wop, wctl, wlink,
            wevents, wkSpent>>
wstatus == <<wname, worigin, wconn>>
wcontrol == <<wctl, wlink, wevents>>

Callers == {"ipc", "main"}
AtRest == [at |-> "rest", source |-> "", forget |-> FALSE]
NoCall == [at |-> "none", source |-> ""]
QueueDepth == 2
WkCosts(kind, bound) ==
    wkSpent[kind] < bound /\ wkSpent' = [wkSpent EXCEPT ![kind] = @ + 1]

WkInit ==
    /\ wname = "" /\ worigin = FALSE /\ wconn = FALSE /\ wsaved = "" /\ wdisplay \in BOOLEAN
    /\ wrecv = [source |-> "", sdk |-> "", live |-> FALSE, told |-> FALSE]
    /\ wcall = NoCall /\ wqueue = <<>> /\ wop = [c \in Callers |-> AtRest]
    /\ wctl = [wants |-> "", due |-> FALSE] /\ wlink = TRUE /\ wevents = <<>>
    /\ wkSpent = [choice |-> 0, route |-> 0, world |-> 0, unlink |-> 0]

-----------------------------------------------------------------------------
(* `connect_source`, `disconnect_source` and `forget_source`. *)

Doing(c, step) == wop' = [wop EXCEPT ![c].at = step]
Starts(c, step, source, forget) ==
    wop' = [wop EXCEPT ![c] = [at |-> step, source |-> source, forget |-> forget]]
Rests(c) == wop' = [wop EXCEPT ![c] = AtRest]

\* A real source is refused while there is no display.
ConnectRefused(c) ==
    /\ wop[c].at = "connect" /\ ~wdisplay /\ Rests(c)
    /\ UNCHANGED <<wstatus, wsaved, wdisplay, wrecv, wcall, wqueue, wcontrol, wkSpent>>
\* Not connected, the new name, and the origin of a source that was routed.
ConnectMarks(c) ==
    /\ wop[c].at = "connect" /\ wdisplay /\ Doing(c, "switch")
    /\ wconn' = FALSE /\ wname' = wop[c].source
    /\ worigin' = (worigin /\ wop[c].source = wname)
    /\ UNCHANGED <<wqueue, wsaved, wdisplay, wrecv, wcall, wcontrol, wkSpent>>
\* The receiver joins its thread before it takes the new source, or none.
Switch(c) ==
    /\ wop[c].at = "switch" /\ wcall = NoCall
    /\ wrecv' = [source |-> wop[c].source, sdk |-> wop[c].source, live |-> FALSE, told |-> FALSE]
    /\ wqueue' = [i \in 1 .. Len(wqueue) |-> TRUE]
    /\ Doing(c, "leave")
    /\ UNCHANGED <<wstatus, wsaved, wdisplay, wcall, wcontrol, wkSpent>>
\* Frames of the previous connection are dropped only now that the receiver was
\* switched.  A connected source is saved; a disconnect keeps the saved source, clears the
\* flag and tells the control plane.
Leaves(c) ==
    /\ wop[c].at = "leave" /\ wqueue' = <<>>
    /\ wsaved' = IF wop[c].source = "" THEN wsaved ELSE wop[c].source
    /\ wconn' = IF wop[c].source = "" THEN FALSE ELSE wconn
    /\ IF wop[c].forget THEN Doing(c, "forget") ELSE Rests(c)
    /\ UNCHANGED <<wname, worigin, wdisplay, wrecv, wcall, wcontrol, wkSpent>>
Forgets(c) ==
    /\ wop[c].at = "forget" /\ Rests(c)
    /\ wname' = "" /\ worigin' = FALSE /\ wsaved' = ""
    /\ UNCHANGED <<wconn, wdisplay, wrecv, wcall, wqueue, wcontrol, wkSpent>>
CallerSteps(c) ==
    ConnectRefused(c) \/ ConnectMarks(c) \/ Switch(c) \/ Leaves(c) \/ Forgets(c)

-----------------------------------------------------------------------------
(* The IPC thread: `apply_config` and a new subscriber. *)

\* Only a source that changed is acted on.
ApplyConfig ==
    /\ wctl.due /\ wop["ipc"] = AtRest /\ wctl' = [wctl EXCEPT !.due = FALSE]
    /\ wsaved' = wctl.wants
    /\ \/ wctl.wants = wsaved /\ UNCHANGED wop
       \/ wctl.wants # wsaved /\ wctl.wants = "" /\ Starts("ipc", "switch", "", TRUE)
       \/ wctl.wants # wsaved /\ wctl.wants # "" /\ Starts("ipc", "check", wctl.wants, FALSE)
    /\ UNCHANGED <<wstatus, wdisplay, wrecv, wcall, wqueue, wlink, wevents, wkSpent>>
\* `on_remote_source`: a route that comes back as configuration is in place.
AnySource == FALSE    \* mutant of InPlace
InPlace == worigin /\ wop["ipc"].source = wname
Checks ==
    /\ wop["ipc"].at = "check"
    /\ IF InPlace THEN Rests("ipc") ELSE Doing("ipc", "connect")
    /\ UNCHANGED <<wstatus, wsaved, wdisplay, wrecv, wcall, wqueue, wcontrol, wkSpent>>
\* A subscriber is told a route it may have missed.
Replays == IF worigin THEN <<wname>> ELSE <<>>
Subscribes ==
    /\ ~wlink /\ wop["ipc"] = AtRest /\ wlink' = TRUE /\ wevents' = Replays
    /\ UNCHANGED <<wstatus, wsaved, wdisplay, wrecv, wcall, wqueue, wop, wctl, wkSpent>>

-----------------------------------------------------------------------------
(* The main loop's `tick`. *)

NeverDropped == FALSE    \* mutant of DropDue
DropDue == wconn /\ ~wdisplay
DropsUnshown ==
    /\ DropDue /\ wop["main"] = AtRest /\ Starts("main", "switch", "", FALSE)
    /\ UNCHANGED <<wstatus, wsaved, wdisplay, wrecv, wcall, wqueue, wcontrol, wkSpent>>
\* The name is read here, and connected to in the next steps.
DisplayAttached ==
    /\ ~wdisplay /\ wop["main"] = AtRest /\ wdisplay' = TRUE
    /\ IF wname # "" THEN Starts("main", "connect", wname, FALSE) ELSE UNCHANGED wop
    /\ UNCHANGED <<wstatus, wsaved, wrecv, wcall, wqueue, wcontrol, wkSpent>>

-----------------------------------------------------------------------------
(* The receive thread's callbacks. *)

Calling(step) == wcall' = [at |-> step, source |-> wrecv.source]
CallConnected ==
    /\ wcall = NoCall /\ wrecv.live /\ ~wrecv.told /\ wrecv' = [wrecv EXCEPT !.told = TRUE]
    /\ Calling("connected")
    /\ UNCHANGED <<wstatus, wsaved, wdisplay, wqueue, wop, wcontrol, wkSpent>>
OnConnected ==
    /\ wcall.at = "connected" /\ wconn' = TRUE /\ wcall' = [wcall EXCEPT !.at = "name"]
    /\ UNCHANGED <<wname, worigin, wsaved, wdisplay, wrecv, wqueue, wop, wcontrol, wkSpent>>
OnConnectedName ==
    /\ wcall.at = "name" /\ wname' = wcall.source /\ wcall' = NoCall
    /\ UNCHANGED <<worigin, wconn, wsaved, wdisplay, wrecv, wqueue, wop, wcontrol, wkSpent>>
CallLost ==
    /\ wcall = NoCall /\ ~wrecv.live /\ wrecv.told /\ wrecv' = [wrecv EXCEPT !.told = FALSE]
    /\ Calling("lost")
    /\ UNCHANGED <<wstatus, wsaved, wdisplay, wqueue, wop, wcontrol, wkSpent>>
OnLostCall ==
    /\ wcall.at = "lost" /\ wconn' = FALSE /\ wcall' = NoCall
    /\ UNCHANGED <<wname, worigin, wsaved, wdisplay, wrecv, wqueue, wop, wcontrol, wkSpent>>
\* `on_source_change`: the SDK is on a source this receiver did not ask for.
CallRouted ==
    /\ wcall = NoCall /\ wrecv.sdk # wrecv.source
    /\ wrecv' = [wrecv EXCEPT !.source = wrecv.sdk]
    /\ wcall' = [at |-> "routed", source |-> wrecv.sdk]
    /\ UNCHANGED <<wstatus, wsaved, wdisplay, wqueue, wop, wcontrol, wkSpent>>
\* The route is noted and pushed, when somebody is subscribed.
OnRouted ==
    /\ wcall.at = "routed" /\ wcall' = NoCall
    /\ wname' = wcall.source /\ worigin' = (wcall.source # "")
    /\ wevents' = IF wlink THEN Append(wevents, wcall.source) ELSE wevents
    /\ UNCHANGED <<wconn, wsaved, wdisplay, wrecv, wqueue, wop, wctl, wlink, wkSpent>>
\* A frame is queued; a full queue drops its oldest.
OnVideo ==
    /\ wcall = NoCall /\ wrecv.live /\ wrecv.told /\ wdisplay
    /\ wqueue' = Append(IF Len(wqueue) < QueueDepth THEN wqueue ELSE Tail(wqueue), FALSE)
    /\ UNCHANGED <<wstatus, wsaved, wdisplay, wrecv, wcall, wop, wcontrol, wkSpent>>
\* The display thread.
DisplayTakes ==
    /\ wqueue # <<>> /\ wqueue' = Tail(wqueue)
    /\ UNCHANGED <<wstatus, wsaved, wdisplay, wrecv, wcall, wop, wcontrol, wkSpent>>

-----------------------------------------------------------------------------
(* The control plane, the Discovery Server and the senders. *)

\* The control plane makes one change at a time, and waits for the reply.
Served == ~wctl.due /\ wop["ipc"] = AtRest
Chooses == \E s \in WkSources \cup {""} :
    /\ s # wctl.wants /\ Served /\ WkCosts("choice", WkChoices)
    /\ wctl' = [wants |-> s, due |-> TRUE]
    /\ UNCHANGED <<wstatus, wsaved, wdisplay, wrecv, wcall, wqueue, wop, wlink, wevents>>
\* The last writer wins.
RecordsRoute ==
    /\ wevents # <<>> /\ Served /\ wevents' = Tail(wevents)
    /\ wctl' = IF Head(wevents) = wctl.wants THEN wctl
               ELSE [wants |-> Head(wevents), due |-> TRUE]
    /\ UNCHANGED <<wstatus, wsaved, wdisplay, wrecv, wcall, wqueue, wop, wlink, wkSpent>>
Unlinked ==
    /\ wlink /\ WkCosts("unlink", WkUnlinks) /\ wlink' = FALSE /\ wevents' = <<>>
    /\ UNCHANGED <<wstatus, wsaved, wdisplay, wrecv, wcall, wqueue, wop, wctl>>
Routes == \E s \in WkSources \cup {""} :
    /\ s # wrecv.sdk /\ WkCosts("route", WkRoutes)
    /\ wrecv' = [wrecv EXCEPT !.sdk = s, !.live = FALSE]
    /\ UNCHANGED <<wstatus, wsaved, wdisplay, wcall, wqueue, wop, wcontrol>>
SenderTurns ==
    /\ wrecv.sdk # "" /\ WkCosts("world", WkWorld) /\ wrecv' = [wrecv EXCEPT !.live = ~@]
    /\ UNCHANGED <<wstatus, wsaved, wdisplay, wcall, wqueue, wop, wcontrol>>

-----------------------------------------------------------------------------
CallSteps == CallConnected \/ OnConnected \/ OnConnectedName \/ CallLost \/ OnLostCall
               \/ CallRouted \/ OnRouted
WkNext ==
    \/ \E c \in Callers : CallerSteps(c)
    \/ ApplyConfig \/ Checks \/ Subscribes \/ DropsUnshown \/ DisplayAttached
    \/ CallSteps \/ OnVideo \/ DisplayTakes
    \/ Chooses \/ RecordsRoute \/ Unlinked \/ Routes \/ SenderTurns

\* Every thread runs, the control plane subscribes again and applies what is due.
WkFair ==
    /\ \A c \in Callers : WF_wkVars(CallerSteps(c)) /\ SF_wkVars(Switch(c))
    /\ WF_wkVars(Checks) /\ WF_wkVars(ApplyConfig) /\ WF_wkVars(Subscribes)
    /\ WF_wkVars(DropsUnshown) /\ WF_wkVars(CallSteps) /\ WF_wkVars(RecordsRoute)

-----------------------------------------------------------------------------
(* Properties. *)

\* Every variable keeps its type.
WkTypeOK ==
    /\ {wname, wsaved, wctl.wants, wrecv.source, wrecv.sdk} \subseteq WkSources \cup {""}
    /\ {worigin, wconn, wdisplay, wlink, wrecv.live, wrecv.told, wctl.due} \subseteq BOOLEAN
    /\ wcall.at \in {"none", "connected", "name", "lost", "routed"}
    /\ wqueue \in Seq(BOOLEAN) /\ Len(wqueue) <= QueueDepth
    /\ \A c \in Callers : wop[c].at \in {"rest", "check", "connect", "switch", "leave", "forget"}

\* Once a source was switched or disconnected, by the IPC thread or by the main
\* loop, no frame of the previous one waits to be shown: the queue is drained
\* after the receive thread was joined, not before (connect_source).
NoOldPicture ==
    (\A c \in Callers : wop[c].at # "leave") => \A i \in 1 .. Len(wqueue) : ~wqueue[i]

\* An output without a display does not stay connected: "we don't want to consume
\* an NDI slot with no output" (tick).
UnshownIsDropped == []<>(~wconn \/ wdisplay)

\* A route nobody competes with, and that nothing takes back, ends up saved by the
\* control plane and by the worker, subscribed to its events or not when it came.
RouteIsKept ==
    \A s \in WkSources :
        <>[](wkSpent.choice = 0 /\ wkSpent.route = 1 /\ wrecv.sdk = s)
            => <>[](wctl.wants = s /\ wsaved = s /\ wrecv.source = s)

\* A route that comes back as the output's configuration does not make the worker
\* switch the receiver: "it must never be answered with a connect".
RouteUnanswered ==
    wkSpent.choice = 0 /\ wkSpent.route <= 1 => wop["ipc"].at \notin {"connect", "switch"}

\* "Save that source, last writer wins": whatever the operator chose and the
\* Discovery Server routed, the receiver ends on the source the control plane has.
LastWriterWins == []wdisplay => <>[](wctl.wants = wrecv.source)

\* What an output worker promises about its source.
WorkerPromises == WkTypeOK /\ NoOldPicture /\ RouteUnanswered

\* What it gets done with it.
SourceSettles == UnshownIsDropped /\ RouteIsKept
=============================================================================
