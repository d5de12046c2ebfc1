------------------------------- MODULE Receiver -------------------------------
(***************************************************************************)
(* One NDI receiver of the decoder (NDIReceiver.cpp): the control thread's *)
(* commands, serialised by `control_mutex_`; the receive thread, which a   *)
(* command stops and joins and starts again; the audio engine's pull,      *)
(* which only tries `framesync_mutex_`; the thread that keeps the receiver *)
(* registered with a Discovery Server, whose create call runs outside the  *)
(* lock; and the NDI SDK, which a Discovery Server may route to another    *)
(* source by itself.  A handle of the SDK is named by the number of the    *)
(* receive instance it was made for.                                       *)
(***************************************************************************)
EXTENDS Naturals

CONSTANTS
    RcvSources,     \* names of sources
    RcvServers,     \* addresses of Discovery Servers
    RcvCommands,    \* bound on connect, disconnect and rename
    RcvSettings,    \* bound on changes of the advertising settings
    RcvWorld,       \* bound on routes, lost connections and servers that come and go
    RcvRefusals     \* bound on objects the SDK fails to create

\* No source, no server: the empty string of the code.
NoName == "none"

ASSUME ReceiverAssumption ==
    RcvCommands \in Nat /\ RcvSettings \in Nat /\ RcvWorld \in Nat /\ RcvRefusals \in Nat
        /\ NoName \notin RcvSources /\ NoName \notin RcvServers

VARIABLES
    command,      \* the command that holds `control_mutex_`, its step and source
    current,      \* `current_source_`
    instance,     \* `recv_`, numbered; 0 is null
    framesync,    \* the instance `framesync_` was made for
    running,      \* `running_`
    audio,        \* `audio_connected_`
    thread,       \* the receive thread: its step and its locals
    pulling,      \* is the audio engine inside a pull?
    sdk,          \* the SDK: source, the name it still reports, connection, event frame
    server,       \* the Discovery Server that answers, NoName when none does
    discovery,    \* `discovery_server_`
    advertise,    \* `advertise_`
    advertiser,   \* the server `advertiser_` was created for
    registered,   \* the instance registered with it
    keeper,       \* the advertiser thread: its step, address and result
    routed,       \* has a controller set the SDK's source since the last command?
    delivered,    \* how this turn's video frame came: "pull", "push" or not at all
    failed,       \* has a creation failed: FrameSync on this connection, an instance
    rcvSpent      \* counters of the bounds

rcvVars == <<command, current, instance, framesync, running, audio, thread, pulling, sdk, server,
             discovery, advertise, advertiser, registered, keeper, routed, delivered, failed,
             rcvSpent>>
media == <<framesync, running, audio, thread, delivered>>
presence == <<discovery, advertise, advertiser, registered, keeper>>
outside == <<sdk, server, routed>>

Unused == [command |-> 0, setting |-> 0, world |-> 0, refusal |-> 0]
\* A behaviour has every command and no change of the settings, or one command
\* and every change.
Budgets == {[Unused EXCEPT !.setting = RcvSettings],
            [Unused EXCEPT !.command = IF RcvCommands = 0 THEN 0 ELSE RcvCommands - 1]}
Costs(kind, bound) ==
    rcvSpent[kind] < bound /\ rcvSpent' = [rcvSpent EXCEPT ![kind] = @ + 1]
NoCommand == [kind |-> "none", at |-> "none", source |-> NoName]
NoThread == [at |-> "none", was |-> FALSE, first |-> FALSE, young |-> FALSE, seen |-> FALSE]

\* `recv_thread` begins: nothing seen of this connection yet.
Started == [at |-> "top", was |-> FALSE, first |-> FALSE, young |-> TRUE, seen |-> FALSE]

RcvInit ==
    /\ command = NoCommand /\ current = NoName /\ instance = 1 /\ framesync = 0
    /\ running = TRUE /\ audio = FALSE /\ thread = [NoThread EXCEPT !.at = "top", !.young = TRUE]
    /\ pulling = FALSE
    /\ sdk = [source |-> NoName, named |-> NoName, conn |-> FALSE, event |-> FALSE]
    /\ server \in RcvServers \cup {NoName} /\ discovery \in RcvServers /\ advertise = TRUE
    /\ advertiser = NoName /\ registered = 0
    /\ keeper = [at |-> "wait", url |-> NoName, made |-> FALSE]
    /\ routed = FALSE /\ delivered = "none"
    /\ failed = [framesync |-> FALSE, instance |-> FALSE] /\ rcvSpent \in Budgets

-----------------------------------------------------------------------------
(* Commands.  The destructor runs the same steps without `control_mutex_`. *)

Locked == command.kind \notin {"none", "shutdown"}

Order(kind, source) ==
    /\ command = NoCommand /\ Costs("command", RcvCommands)
    /\ command' = [kind |-> kind, at |-> "stop", source |-> source]
    /\ UNCHANGED <<current, instance, media, pulling, outside, presence, failed>>
Connect == \E s \in RcvSources : Order("connect", s)
Disconnect == Order("disconnect", NoName)
Rename == Order("rename", current)
Shutdown ==
    /\ command = NoCommand
    /\ command' = [kind |-> "shutdown", at |-> "stop", source |-> NoName]
    /\ UNCHANGED <<current, instance, media, pulling, outside, presence, failed, rcvSpent>>

\* `stop_thread`: `running_` falls under `framesync_mutex_`, so no pull is under
\* way when it does and none begins afterwards.
StopThread ==
    /\ command.at = "stop" /\ ~pulling
    /\ running' = FALSE /\ audio' = FALSE /\ command' = [command EXCEPT !.at = "join"]
    /\ UNCHANGED <<current, instance, framesync, thread, delivered, pulling, outside, presence,
                   failed, rcvSpent>>
Ended == thread.at \in {"none", "done"}
Join ==
    /\ command.at = "join" /\ Ended
    /\ command' = [command EXCEPT !.at = IF command.kind = "shutdown" THEN "leave" ELSE "point"]
    /\ UNCHANGED <<current, instance, media, pulling, outside, presence, failed, rcvSpent>>

\* The SDK is pointed at a source.  It goes on naming the last one for a while,
\* and may or may not report its own switch with an event frame.
Pointed(s) == \E e \in BOOLEAN :
    sdk' = [source |-> s, named |-> sdk.source, conn |-> FALSE, event |-> e]

\* connect and disconnect: FrameSync goes first, then the thread starts again.
Point ==
    /\ command.at = "point" /\ command.kind \in {"connect", "disconnect"} /\ instance # 0
    /\ framesync' = 0 /\ audio' = FALSE /\ current' = command.source /\ Pointed(command.source)
    /\ running' = TRUE /\ thread' = Started /\ routed' = FALSE
    /\ failed' = [failed EXCEPT !.framesync = FALSE] /\ command' = NoCommand
    /\ UNCHANGED <<instance, delivered, pulling, server, presence, rcvSpent>>

\* `create_recv` within connect after an instance was lost; disconnect lives
\* with none.  A refusal leaves the receiver without a thread.
PointAnew ==
    /\ command.at = "point" /\ command.kind = "connect" /\ instance = 0
    /\ current' = command.source /\ framesync' = 0 /\ routed' = FALSE /\ command' = NoCommand
    /\ \/ /\ instance' = 1 + rcvSpent.command /\ Pointed(command.source)
          /\ running' = TRUE /\ thread' = Started
          /\ failed' = [failed EXCEPT !.framesync = FALSE] /\ UNCHANGED rcvSpent
       \/ /\ Costs("refusal", RcvRefusals)
          /\ thread' = NoThread /\ UNCHANGED <<instance, sdk, running, failed>>
    /\ UNCHANGED <<audio, delivered, pulling, server, presence>>
PointNothing ==
    /\ command.at = "point" /\ command.kind = "disconnect" /\ instance = 0
    /\ framesync' = 0 /\ current' = NoName /\ running' = TRUE /\ thread' = NoThread
    /\ routed' = FALSE /\ command' = NoCommand
    /\ UNCHANGED <<instance, audio, delivered, pulling, sdk, server, presence, failed, rcvSpent>>

\* `register_receiver`, `unregister_receiver`.
Registers(url, wanted, number) == IF url # NoName /\ wanted THEN number ELSE 0

\* `recreate_recv_preserving_source`: a new instance under the new name, with the
\* source this receiver had.
Recreate ==
    /\ command.at = "point" /\ command.kind = "rename"
    /\ framesync' = 0 /\ audio' = FALSE /\ command' = NoCommand /\ routed' = FALSE
    /\ \/ /\ instance' = 1 + rcvSpent.command
          /\ registered' = Registers(advertiser, advertise, instance')
          /\ Pointed(command.source) /\ current' = command.source
          /\ running' = TRUE /\ thread' = Started
          /\ failed' = [failed EXCEPT !.framesync = FALSE] /\ UNCHANGED rcvSpent
       \/ /\ Costs("refusal", RcvRefusals)
          /\ instance' = 0 /\ registered' = 0 /\ thread' = NoThread
          /\ failed' = [failed EXCEPT !.instance = TRUE]
          /\ sdk' = [source |-> NoName, named |-> NoName, conn |-> FALSE, event |-> FALSE]
          /\ UNCHANGED <<running, current>>
    /\ UNCHANGED <<delivered, pulling, server, discovery, advertise, advertiser, keeper>>

\* `destroy_recv`: the advertiser thread is stopped before what it uses is gone.
Leave ==
    /\ command.at = "leave" /\ keeper.at = "done"
    /\ framesync' = 0 /\ advertiser' = NoName /\ registered' = 0 /\ instance' = 0
    /\ thread' = NoThread /\ command' = [command EXCEPT !.at = "gone"]
    /\ sdk' = [source |-> NoName, named |-> NoName, conn |-> FALSE, event |-> FALSE]
    /\ UNCHANGED <<current, running, audio, delivered, pulling, server, routed, discovery,
                   advertise, keeper, failed, rcvSpent>>

-----------------------------------------------------------------------------
(* The receive thread, one turn of its loop in steps. *)

At_(step) == [thread EXCEPT !.at = step]

Ends ==
    /\ thread.at = "top" /\ ~running
    /\ thread' = At_("done") /\ delivered' = "none"
    /\ UNCHANGED <<command, current, instance, framesync, running, audio, pulling, outside,
                   presence, failed, rcvSpent>>
\* `running_` and the connection count are read here and stored in the next step.
Counts ==
    /\ thread.at = "top" /\ running
    /\ thread' = [thread EXCEPT !.at = "store", !.seen = sdk.conn] /\ delivered' = "none"
    /\ UNCHANGED <<command, current, instance, framesync, running, audio, pulling, outside,
                   presence, failed, rcvSpent>>
Stores ==
    /\ thread.at = "store"
    /\ audio' = thread.seen
    /\ thread' = IF thread.seen = thread.was THEN At_("capture")
                 ELSE IF thread.seen THEN [thread EXCEPT !.at = "capture", !.was = TRUE]
                 ELSE At_("lost")
    /\ UNCHANGED <<command, current, instance, framesync, running, delivered, pulling,
                   outside, presence, failed, rcvSpent>>

\* The connection is gone: FrameSync with it, and the next first frame decides
\* again.  The receiver stays on its source.
Lost ==
    /\ thread.at = "lost" /\ ~pulling
    /\ framesync' = 0 /\ audio' = IF framesync # 0 THEN FALSE ELSE audio
    /\ thread' = [thread EXCEPT !.at = "capture", !.was = FALSE, !.first = FALSE]
    /\ failed' = [failed EXCEPT !.framesync = FALSE]
    /\ UNCHANGED <<command, current, instance, running, delivered, pulling, outside, presence,
                   rcvSpent>>

\* `on_source_change` every half second, but not in the thread's first two
\* seconds; a name other than `current_source_` is a controller's.
AnyAge == TRUE    \* mutant of CheckDue
CheckDue == ~thread.young
SourceCheck ==
    /\ thread.at = "capture" /\ CheckDue
    /\ current' \in {sdk.source, sdk.named}
    /\ UNCHANGED <<command, instance, media, pulling, outside, presence, failed, rcvSpent>>
\* Standard mode: FrameSync is used without its mutex; only this thread makes
\* it, and others destroy it after joining this thread.
Pull ==
    /\ thread.at = "capture" /\ framesync # 0
    /\ thread' = At_("pull") /\ delivered' = "pull"
    /\ UNCHANGED <<command, current, instance, framesync, running, audio, pulling, outside,
                   presence, failed, rcvSpent>>
Pulled ==
    /\ thread.at = "pull" /\ ~sdk.event
    /\ thread' = At_("top")
    /\ UNCHANGED <<command, current, instance, framesync, running, audio, delivered, pulling,
                   outside, presence, failed, rcvSpent>>

\* Detection: the first frame makes FrameSync; if the SDK refuses it, this and
\* the following frames are pushed.
Detect ==
    /\ thread.at = "capture" /\ framesync = 0 /\ sdk.conn /\ ~thread.first /\ ~pulling
    /\ thread' = At_("top") /\ framesync' = instance
    /\ UNCHANGED <<command, current, instance, running, audio, delivered, pulling, outside,
                   presence, failed, rcvSpent>>
DetectFails ==
    /\ thread.at = "capture" /\ framesync = 0 /\ sdk.conn /\ ~thread.first
    /\ Costs("refusal", RcvRefusals)
    /\ thread' = [thread EXCEPT !.at = "top", !.first = TRUE] /\ delivered' = "push"
    /\ failed' = [failed EXCEPT !.framesync = TRUE]
    /\ UNCHANGED <<command, current, instance, framesync, running, audio, pulling, outside,
                   presence>>
Push ==
    /\ thread.at = "capture" /\ framesync = 0 /\ sdk.conn /\ thread.first
    /\ thread' = At_("top") /\ delivered' = "push"
    /\ UNCHANGED <<command, current, instance, framesync, running, audio, pulling, outside,
                   presence, failed, rcvSpent>>
CaptureNothing ==
    /\ thread.at = "capture" /\ framesync = 0 /\ ~sdk.event
    /\ thread' = At_("top")
    /\ UNCHANGED <<command, current, instance, framesync, running, audio, delivered, pulling,
                   outside, presence, failed, rcvSpent>>

\* An event frame: the SDK has made its switch and names the new source.
SourceEvent ==
    /\ thread.at \in {"capture", "pull"} /\ sdk.event
    /\ thread.at = "capture" => framesync = 0
    /\ current' = sdk.source /\ sdk' = [sdk EXCEPT !.event = FALSE, !.named = sdk.source]
    /\ thread' = At_("top")
    /\ UNCHANGED <<command, instance, framesync, running, audio, delivered, pulling, server,
                   routed, presence, failed, rcvSpent>>

-----------------------------------------------------------------------------
(* The audio engine's pull. *)

Pullable == framesync # 0 /\ running /\ audio
PullAudio ==
    /\ ~pulling /\ audio /\ Pullable /\ command.at # "gone"
    /\ pulling' = TRUE
    /\ UNCHANGED <<command, current, instance, media, outside, presence, failed, rcvSpent>>
AudioPulled ==
    /\ pulling /\ pulling' = FALSE
    /\ UNCHANGED <<command, current, instance, media, outside, presence, failed, rcvSpent>>

-----------------------------------------------------------------------------
(* Registration with the Discovery Server. *)

Keeper(step) == [keeper EXCEPT !.at = step]

\* `set_advertising`, `reload_discovery`: whole under `control_mutex_`.
SetAdvertising ==
    /\ command = NoCommand /\ Costs("setting", RcvSettings)
    /\ advertise' = ~advertise
    /\ advertiser' = IF advertise' THEN advertiser ELSE NoName
    /\ registered' = Registers(advertiser', advertise', instance)
    /\ UNCHANGED <<command, current, instance, media, pulling, outside, discovery, keeper, failed>>
ReloadDiscovery == \E url \in RcvServers \cup {NoName} :
    /\ command = NoCommand /\ url # discovery /\ Costs("setting", RcvSettings)
    /\ discovery' = url /\ advertiser' = NoName /\ registered' = 0
    /\ UNCHANGED <<command, current, instance, media, pulling, outside, advertise, keeper, failed>>

\* Woken by a change, or ten seconds later, it looks under the lock.
GivesUp == keeper.url # discovery    \* mutant of TriesAgain: one attempt for each address
TriesAgain == TRUE
KeeperLooks ==
    /\ keeper.at = "wait" /\ ~Locked /\ command.at # "leave"
    /\ advertise /\ discovery # NoName /\ advertiser = NoName /\ TriesAgain
    /\ keeper' = [at |-> "create", url |-> discovery, made |-> FALSE]
    /\ UNCHANGED <<command, current, instance, media, pulling, outside, discovery, advertise,
                   advertiser, registered, failed, rcvSpent>>
\* The create call waits for the server without the lock.
KeeperCreates ==
    /\ keeper.at = "create"
    /\ keeper' = [keeper EXCEPT !.at = "settle", !.made = (keeper.url = server)]
    /\ UNCHANGED <<command, current, instance, media, pulling, outside, discovery, advertise,
                   advertiser, registered, failed, rcvSpent>>
Accepts == advertise /\ advertiser = NoName /\ keeper.url = discovery
KeeperSettles ==
    /\ keeper.at = "settle" /\ ~Locked
    /\ IF keeper.made /\ Accepts
       THEN /\ advertiser' = keeper.url
            /\ registered' = Registers(keeper.url, advertise, instance)
       ELSE UNCHANGED <<advertiser, registered>>
    /\ keeper' = [keeper EXCEPT !.at = "wait", !.made = FALSE]
    /\ UNCHANGED <<command, current, instance, media, pulling, outside, discovery, advertise,
                   failed, rcvSpent>>
KeeperStops ==
    /\ keeper.at = "wait" /\ command.at = "leave"
    /\ keeper' = Keeper("done")
    /\ UNCHANGED <<command, current, instance, media, pulling, outside, discovery, advertise,
                   advertiser, registered, failed, rcvSpent>>

-----------------------------------------------------------------------------
(* The SDK, the sender and the Discovery Server. *)

\* A controller routes the registered receiver; the event frame may be missed.
Route == \E s \in RcvSources \cup {NoName} : \E e \in BOOLEAN :
    /\ registered # 0 /\ s # sdk.source /\ Costs("world", RcvWorld)
    /\ sdk' = [source |-> s, named |-> s, conn |-> FALSE, event |-> e] /\ routed' = TRUE
    /\ UNCHANGED <<command, current, instance, media, pulling, server, presence, failed>>
SenderAnswers ==
    /\ sdk.source # NoName /\ ~sdk.conn
    /\ sdk' = [sdk EXCEPT !.conn = TRUE]
    /\ UNCHANGED <<command, current, instance, media, pulling, server, routed, presence, failed,
                   rcvSpent>>
SenderLost ==
    /\ sdk.conn /\ Costs("world", RcvWorld)
    /\ sdk' = [sdk EXCEPT !.conn = FALSE]
    /\ UNCHANGED <<command, current, instance, media, pulling, server, routed, presence, failed>>
ServerChanges == \E url \in RcvServers \cup {NoName} :
    /\ url # server /\ Costs("world", RcvWorld) /\ server' = url
    /\ UNCHANGED <<command, current, instance, media, pulling, sdk, routed, presence, failed>>
\* Two seconds after the thread began; by then the SDK names its source.
Grows ==
    /\ thread.young /\ thread.at \notin {"none", "done"}
    /\ thread' = [thread EXCEPT !.young = FALSE] /\ sdk' = [sdk EXCEPT !.named = sdk.source]
    /\ UNCHANGED <<command, current, instance, framesync, running, audio, delivered, pulling,
                   server, routed, presence, failed, rcvSpent>>

-----------------------------------------------------------------------------
ControlSteps == StopThread \/ Join \/ Point \/ PointAnew \/ PointNothing \/ Recreate \/ Leave
ThreadSteps == Ends \/ Counts \/ Stores \/ Lost \/ SourceCheck \/ Pull \/ Pulled
                 \/ Detect \/ DetectFails \/ Push \/ CaptureNothing \/ SourceEvent
KeeperSteps == KeeperLooks \/ KeeperCreates \/ KeeperSettles \/ KeeperStops
RcvNext ==
    \/ Connect \/ Disconnect \/ Rename \/ Shutdown \/ ControlSteps \/ ThreadSteps
    \/ PullAudio \/ AudioPulled \/ SetAdvertising \/ ReloadDiscovery \/ KeeperSteps
    \/ Route \/ SenderAnswers \/ SenderLost \/ ServerChanges \/ Grows

\* Threads run and time passes; the half-second check comes due again and again,
\* and `framesync_mutex_` is free between two pulls of the audio engine.
\* Nobody makes a sender or a server answer, or a command be given.
RcvFair ==
    /\ WF_rcvVars(ControlSteps) /\ WF_rcvVars(ThreadSteps)
    /\ SF_rcvVars(SourceCheck) /\ WF_rcvVars(AudioPulled)
    /\ SF_rcvVars(StopThread \/ Lost \/ Detect)
    /\ WF_rcvVars(KeeperSteps) /\ WF_rcvVars(Grows)

-----------------------------------------------------------------------------
(* Properties. *)

\* Every variable keeps its type; handles are null or of an instance made so far.
RcvTypeOK ==
    /\ command.kind \in {"none", "connect", "disconnect", "rename", "shutdown"}
    /\ command.at \in {"none", "stop", "join", "point", "leave", "gone"}
    /\ current \in RcvSources \cup {NoName}
    /\ {instance, framesync, registered} \subseteq 0 .. 1 + RcvCommands
    /\ running \in BOOLEAN /\ audio \in BOOLEAN /\ pulling \in BOOLEAN /\ routed \in BOOLEAN
    /\ thread.at \in {"none", "top", "store", "lost", "capture", "pull", "done"}
    /\ {sdk.source, sdk.named} \subseteq RcvSources \cup {NoName}
    /\ {server, discovery, advertiser, keeper.url} \subseteq RcvServers \cup {NoName}
    /\ keeper.at \in {"create", "settle", "wait", "done"}
    /\ delivered \in {"none", "pull", "push"}

\* FrameSync is never used after it was destroyed, nor outlives the receive
\* instance it is bound to: whoever is inside a capture, the receive thread
\* (without the mutex) or the audio engine (with it), has a live handle of the
\* instance in use (framesync_mutex_, stop_thread, "FrameSync must be destroyed
\* before recv").
FrameSyncInUseIsAlive ==
    /\ framesync # 0 => framesync = instance
    /\ thread.at = "pull" \/ pulling => framesync # 0

\* What is registered with the Discovery Server is the instance in use, with the
\* server configured now and only while advertising is on: neither a rename nor
\* a change of the address while the create call of the old one is waiting leaves
\* an old registration (advertiser_thread, register_receiver).
RegistrationIsCurrent ==
    /\ registered # 0 => registered = instance /\ advertiser # NoName
    /\ advertiser # NoName => advertise /\ advertiser = discovery

\* The receiver takes a source for a controller's choice only if a controller
\* chose since the last command: the name the SDK still reports just after
\* connect is not recorded as a route (recv_thread's two seconds).
OwnSwitchIsNotARoute ==
    [][current' # current => command.at = "point" \/ routed]_rcvVars

\* An uncompressed frame is pushed, past FrameSync, only where the SDK refused a
\* FrameSync for this very connection: no flag of an earlier connection skips
\* the set-up (NI-18).
FirstFrameDecides == delivered = "push" => failed.framesync

\* A controller's route is recorded, even when its event frame was missed.
RouteIsRecorded ==
    []<>(~routed \/ current = sdk.source \/ command.kind = "shutdown")

\* A command ends: joining the receive thread while holding the control lock
\* never waits for a thread that waits for that lock.
CommandEnds == []<>(command = NoCommand \/ command.at = "gone")

\* A receiver that may be advertised comes to be registered with a server that
\* answers, however often settings, names and servers changed before; unless
\* the SDK refused it an instance.
ComesToBeRegistered ==
    <>[](advertise /\ discovery # NoName /\ server = discovery /\ ~failed.instance
            /\ command.kind # "shutdown") => []<>(registered # 0)

\* What the receiver promises about its handles, its registration and its routes.
ReceiverPromises ==
    /\ []RcvTypeOK /\ []FrameSyncInUseIsAlive /\ []RegistrationIsCurrent
    /\ []FirstFrameDecides /\ OwnSwitchIsNotARoute

\* What it promises to get done: routes, commands and its registration.
ReceiverGetsDone == RouteIsRecorded /\ CommandEnds /\ ComesToBeRegistered
=============================================================================
