------------------------------- MODULE Display -------------------------------
(***************************************************************************)
(* One output's display (DRMDisplay.cpp, AutoResolutionPolicy.h,           *)
(* ResolutionControl.h and their callers in main.cpp).  The display thread *)
(* paints frames into a ring of three buffers and flips; the receive       *)
(* thread matches the mode to the source; the IPC thread sets a mode, the  *)
(* automatic mode or a rotation before a deadline; the main loop draws the *)
(* splash, looks for a display and watches for a freeze.  `frame_mutex_`   *)
(* serialises painting and mode changes, the policy's mutex the decisions. *)
(* The kernel completes a flip later and announces it with an event.       *)
(***************************************************************************)
EXTENDS Integers

CONSTANTS
    DispModes,      \* modes, one per source format
    DispRequests,   \* bound on IPC requests
    DispChanges,    \* bound on changes of the source's format
    DispFaults,     \* bound on commits, allocations and tests the kernel refuses
    DispLosses      \* bound on flip events that never come

ASSUME DisplayAssumption ==
    DispModes \subseteq Nat \ {0} /\ DispRequests \in Nat /\ DispChanges \in Nat
        /\ DispFaults \in Nat /\ DispLosses \in Nat

VARIABLES
    holder,     \* who holds `frame_mutex_`
    ready,      \* `initialized_`
    mode,       \* `mode_`, 0 before the first
    active,     \* `crtc_active_`
    cur,        \* `cur_buf_`
    flip,       \* `flip_pending_`
    kernel,     \* the CRTC: buffer scanned out, buffer queued, unread event, rotation
    turn,       \* rotation asked for, and whether a reset is due (`rotation_dirty_`)
    painter,    \* the display thread
    splash,     \* `splash_requested_`, or a splash being drawn
    waiting,    \* `mode_waiting_` or `rotation_waiting_`
    matcher,    \* the receive thread
    policy,     \* the resolution policy: automatic?, matched, failed, its mutex
    format,     \* the source's format, 0 when nothing is received
    request,    \* the IPC request in progress
    stale,      \* has no frame been handed to the display for three seconds?
    dispSpent   \* counters of the bounds

dispVars == <<holder, ready, mode, active, cur, flip, kernel, turn, painter, splash,
              waiting, matcher, policy, format, request, stale, dispSpent>>
crtc == <<mode, active, cur, flip, kernel, turn>>
threads == <<painter, splash, matcher, request, format, stale>>

Buffers == 0 .. 2
NoBuffer == -1
NoRequest == [kind |-> "none", mode |-> 0, late |-> FALSE]
DispCosts(kind, bound) ==
    dispSpent[kind] < bound /\ dispSpent' = [dispSpent EXCEPT ![kind] = @ + 1]

DispInit ==
    /\ holder = "nobody" /\ ready = FALSE
    /\ mode = 0 /\ active = FALSE /\ cur = 0 /\ flip = FALSE
    /\ kernel = [front |-> NoBuffer, queued |-> NoBuffer, event |-> FALSE, turned |-> FALSE]
    /\ turn = [wanted |-> FALSE, dirty |-> FALSE]
    /\ painter = "idle" /\ splash = "none" /\ waiting = FALSE /\ matcher = "idle"
    /\ policy = [auto |-> TRUE, matched |-> 0, failed |-> 0, lock |-> "nobody"]
    /\ format = 0 /\ request = NoRequest /\ stale = FALSE
    /\ dispSpent = [request |-> 0, change |-> 0, fault |-> 0, loss |-> 0]

-----------------------------------------------------------------------------
(* `commit_fb`: the painted buffer goes to the CRTC. *)

\* `wait_for_flip` reads an event that has come, if one is waited for.
StillFlipping == flip /\ ~kernel.event
Unread == kernel.event /\ ~flip
Advanced == (cur + 1) % 3
Unturned == [wanted |-> FALSE, dirty |-> TRUE]
MayGiveUp == IF turn.wanted THEN {Unturned} ELSE {}

\* Rotated, or a rotation to be reset: the commit is an atomic one.  Otherwise the
\* legacy calls are used, which leave the plane's rotation alone, unless a frame of the
\* decoder went to the plane as it was (`atomic_plane_state_`), which may be at any time.
Atomic == turn.wanted \/ turn.dirty

\* The kernel shows the buffer at once; a queued flip is over.
SetCrtc ==
    /\ kernel' = [kernel EXCEPT !.front = cur, !.queued = NoBuffer,
                                !.event = kernel.event \/ kernel.queued # NoBuffer]
    /\ active' = TRUE /\ cur' = Advanced /\ UNCHANGED <<flip, turn, dispSpent>>
\* PageFlip is refused as busy, SetCrtc is not.
Fallback ==
    /\ kernel' = [kernel EXCEPT !.front = cur, !.queued = NoBuffer, !.event = TRUE]
    /\ flip' = FALSE /\ cur' = Advanced /\ UNCHANGED <<active, turn, dispSpent>>
PageFlip ==
    /\ kernel' = [kernel EXCEPT !.queued = cur, !.event = Unread]
    /\ flip' = TRUE /\ cur' = Advanced /\ UNCHANGED <<active, turn, dispSpent>>
AtomicFlip(turned) ==
    /\ kernel' = [kernel EXCEPT !.queued = cur, !.event = Unread, !.turned = turned]
    /\ flip' = TRUE /\ cur' = Advanced /\ active' = TRUE
    /\ turn' = [wanted |-> turned, dirty |-> FALSE]
\* A dropped frame: the buffer is painted again, the index does not move.
AfterDrop == cur
Dropped ==
    /\ active /\ StillFlipping /\ cur' = AfterDrop /\ UNCHANGED <<kernel, flip, active, turn, dispSpent>>
\* A flip is still queued although nobody waits for it.
Busy ==
    /\ flip' = FALSE /\ kernel' = [kernel EXCEPT !.event = Unread]
    /\ UNCHANGED <<cur, active, turn, dispSpent>>
\* The kernel refuses the frame, or only its rotation, which is given up.
NotTaken ==
    /\ DispCosts("fault", DispFaults)
    /\ flip' = FALSE /\ kernel' = [kernel EXCEPT !.event = Unread]
    /\ turn' \in {turn} \cup MayGiveUp
    /\ UNCHANGED <<cur, active>>
RotationGivenUp == turn.wanted /\ DispCosts("fault", DispFaults) /\ AtomicFlip(FALSE)

Legacy ==
    \/ ~active /\ SetCrtc
    \/ active /\ kernel.queued = NoBuffer /\ PageFlip
    \/ active /\ kernel.queued # NoBuffer /\ Fallback
AtomicCommit ==
    \/ kernel.queued = NoBuffer /\ AtomicFlip(turn.wanted) /\ UNCHANGED dispSpent
    \/ kernel.queued = NoBuffer /\ RotationGivenUp
    \/ kernel.queued # NoBuffer /\ Busy
CommitFb ==
    \/ Dropped
    \/ ~(active /\ StillFlipping) /\ (AtomicCommit \/ (~Atomic /\ Legacy))
    \/ ~(active /\ StillFlipping) /\ NotTaken

-----------------------------------------------------------------------------
(* The display thread, and the splash of the main loop. *)

FrameDue ==
    /\ painter = "idle" /\ format # 0 /\ ready
    /\ painter' = "due"
    /\ UNCHANGED <<holder, ready, crtc, splash, waiting, policy, format, request, stale,
                   dispSpent, matcher>>
\* A thread that waits for the mutex to change the mode has the frame skipped.
FrameSkipped ==
    /\ painter = "due" /\ waiting
    /\ painter' = "idle" /\ stale' = FALSE
    /\ UNCHANGED <<holder, ready, crtc, splash, waiting, policy, format, request, dispSpent, matcher>>
Paint ==
    /\ painter = "due" /\ ~waiting /\ holder = "nobody"
    /\ holder' = "painter" /\ painter' = "painting"
    /\ UNCHANGED <<ready, crtc, splash, waiting, policy, format, request, stale, dispSpent, matcher>>
\* The time of the last frame is noted whether it was committed or dropped.
Painted ==
    /\ painter = "painting" /\ CommitFb
    /\ holder' = "nobody" /\ painter' = "idle" /\ stale' = FALSE
    /\ UNCHANGED <<ready, mode, splash, waiting, policy, format, request, matcher>>

WantSplash ==
    /\ splash = "none" /\ format = 0 /\ ready /\ splash' = "wanted"
    /\ UNCHANGED <<holder, ready, crtc, painter, waiting, policy, format, request, stale,
                   dispSpent, matcher>>
\* `show_splash` only tries the mutex; the main loop comes back.
Splash ==
    /\ splash = "wanted" /\ holder = "nobody"
    /\ holder' = "splash" /\ splash' = "drawing"
    /\ UNCHANGED <<ready, crtc, painter, waiting, policy, format, request, stale, dispSpent, matcher>>
Splashed ==
    /\ splash = "drawing" /\ CommitFb
    /\ holder' = "nobody" /\ splash' = "none"
    /\ UNCHANGED <<ready, mode, painter, waiting, policy, format, request, stale, matcher>>

-----------------------------------------------------------------------------
(* `set_mode`, once the caller holds `frame_mutex_`: the buffers of the old  *)
(* mode are freed, black is committed, and only a CRTC that runs counts.     *)

AlreadySet(m) == active /\ mode = m
Applied(m) == active' /\ mode' = m

SetMode(m) ==
    \/ AlreadySet(m) /\ UNCHANGED <<crtc, dispSpent>>
    \/ ~AlreadySet(m) /\ ~Atomic /\ mode' = m /\ SetCrtc
    \/ ~AlreadySet(m) /\ Atomic /\ mode' = m /\ UNCHANGED dispSpent
          /\ kernel' = [front |-> NoBuffer, queued |-> cur, event |-> Unread, turned |-> turn.wanted]
          /\ flip' = TRUE /\ cur' = Advanced /\ active' = TRUE
          /\ turn' = [turn EXCEPT !.dirty = FALSE]
    \* No such mode, or no resources to look it up: nothing is changed.
    \/ DispCosts("fault", DispFaults) /\ UNCHANGED crtc
    \* No buffer, or the commit is refused: the old mode is gone as well.
    \/ ~AlreadySet(m) /\ mode' = m /\ active' = FALSE /\ DispCosts("fault", DispFaults)
          /\ kernel' = [kernel EXCEPT !.front = NoBuffer, !.queued = NoBuffer]
          /\ turn' \in {turn} \cup MayGiveUp
          /\ UNCHANGED <<cur, flip>>

-----------------------------------------------------------------------------
(* The receive thread: `match_source`. *)

\* A mutant: what was read before the mutex was had is trusted.
CheckedOutside == TRUE
\* Read again under the mutex.
StillAutomatic == policy.auto
Unmatched == policy.matched # format /\ policy.failed # format

\* The setting is read, for every frame, before the mutex is tried.
MatchSeen ==
    /\ matcher = "idle" /\ format # 0 /\ ready /\ policy.auto /\ matcher' = "seen"
    /\ UNCHANGED <<holder, ready, crtc, painter, splash, request, format, stale, waiting,
                   policy, dispSpent>>
\* Busy, no longer automatic, matched already or failed a moment ago.
MatchSkipped ==
    /\ matcher = "seen" /\ matcher' = "idle"
    /\ policy.lock # "nobody" \/ ~StillAutomatic \/ ~Unmatched
    /\ UNCHANGED <<holder, ready, crtc, painter, splash, request, format, stale, waiting,
                   policy, dispSpent>>
\* `set_mode` is called with the policy's mutex held.
MatchBegins ==
    /\ matcher = "seen" /\ policy.lock = "nobody" /\ StillAutomatic /\ Unmatched
    /\ matcher' = "setting" /\ waiting' = TRUE /\ policy' = [policy EXCEPT !.lock = "receiver"]
    /\ UNCHANGED <<holder, ready, crtc, painter, splash, request, format, stale, dispSpent>>
\* `set_mode` gets the mutex, or gives up after a quarter of a second.
MatchLocks ==
    /\ matcher = "setting" /\ holder = "nobody" /\ holder' = "receiver"
    /\ UNCHANGED <<ready, crtc, threads, waiting, policy, dispSpent>>
MatchBusy ==
    /\ matcher = "setting" /\ holder \notin {"nobody", "receiver"}
    /\ waiting' = FALSE /\ matcher' = "idle" /\ DispCosts("fault", DispFaults)
    /\ policy' = [policy EXCEPT !.lock = "nobody", !.matched = 0, !.failed = format]
    /\ UNCHANGED <<holder, ready, crtc, painter, splash, request, format, stale>>
Match ==
    /\ holder = "receiver" /\ SetMode(format)
    /\ policy' = [policy EXCEPT !.lock = "nobody",
                     !.matched = IF Applied(format) THEN format ELSE 0,
                     !.failed = IF Applied(format) THEN 0 ELSE format]
    /\ holder' = "nobody" /\ waiting' = FALSE /\ matcher' = "idle"
    /\ UNCHANGED <<ready, painter, splash, request, format, stale>>
\* A mutant: a failure is remembered for ever.
NeverAgain == FALSE
\* One second after a failure.
RetryAllowed ==
    /\ policy.failed # 0 /\ policy.lock = "nobody"
    /\ policy' = [policy EXCEPT !.failed = 0]
    /\ UNCHANGED <<holder, ready, crtc, threads, waiting, dispSpent>>

-----------------------------------------------------------------------------
(* The IPC thread.  A request has a deadline, checked when each mutex was    *)
(* acquired; waiting for one ends after a quarter of a second.               *)

Ask ==
    /\ request = NoRequest /\ ready /\ DispCosts("request", DispRequests)
    /\ \E kind \in {"manual", "auto", "rotate"}, m \in DispModes :
          request' = [kind |-> kind, mode |-> IF kind = "manual" THEN m ELSE 0, late |-> FALSE]
    /\ UNCHANGED <<holder, ready, crtc, painter, splash, waiting, policy, format, stale, matcher>>
RequestExpires ==
    /\ request.kind \in {"manual", "auto"} /\ ~request.late
    /\ request' = [request EXCEPT !.late = TRUE]
    /\ UNCHANGED <<holder, ready, crtc, painter, splash, waiting, policy, format, stale,
                   dispSpent, matcher>>
Answered == request' = NoRequest

\* `lock_resolution_control` on the policy's mutex.
AskLocks ==
    /\ request.kind \in {"manual", "auto"} /\ policy.lock = "nobody" /\ ~request.late
    /\ policy' = [policy EXCEPT !.lock = "request"]
    /\ waiting' = (request.kind = "manual")
    /\ UNCHANGED <<holder, ready, crtc, threads, dispSpent>>
\* Expired or busy, before or after the policy's mutex was had.
AskFails ==
    /\ request.kind \in {"manual", "auto"} /\ holder # "request"
    /\ request.late \/ policy.lock = "receiver" \/ holder # "nobody"
    /\ policy' = IF policy.lock = "request" THEN [policy EXCEPT !.lock = "nobody"] ELSE policy
    /\ waiting' = IF policy.lock = "request" THEN FALSE ELSE waiting
    /\ Answered
    /\ UNCHANGED <<holder, ready, crtc, painter, splash, format, stale, dispSpent, matcher>>
AutoOn ==
    /\ request.kind = "auto" /\ policy.lock = "request"
    /\ policy' = [auto |-> TRUE, matched |-> 0, failed |-> 0, lock |-> "nobody"] /\ Answered
    /\ UNCHANGED <<holder, ready, crtc, painter, splash, waiting, format, stale, dispSpent, matcher>>
ManualLocks ==
    /\ request.kind = "manual" /\ policy.lock = "request" /\ holder = "nobody" /\ ~request.late
    /\ holder' = "request"
    /\ UNCHANGED <<ready, crtc, threads, waiting, policy, dispSpent>>
BeforeDeadline == ~request.late
Manual ==
    /\ holder = "request" /\ request.kind = "manual" /\ BeforeDeadline
    /\ SetMode(request.mode)
    /\ policy' = IF Applied(request.mode) THEN [auto |-> FALSE, matched |-> 0, failed |-> 0, lock |-> "nobody"]
                 ELSE [policy EXCEPT !.lock = "nobody"]
    /\ holder' = "nobody" /\ waiting' = FALSE /\ Answered
    /\ UNCHANGED <<ready, painter, splash, format, stale, matcher>>
ManualLate ==
    /\ holder = "request" /\ request.kind = "manual" /\ ~BeforeDeadline
    /\ policy' = [policy EXCEPT !.lock = "nobody"]
    /\ holder' = "nobody" /\ waiting' = FALSE /\ Answered
    /\ UNCHANGED <<ready, crtc, painter, splash, format, stale, dispSpent, matcher>>

\* `set_rotation`: tested against the plane, applied by the next commit.
Rotate ==
    /\ request.kind = "rotate" /\ holder = "nobody"
    /\ turn' = [wanted |-> ~turn.wanted, dirty |-> TRUE] /\ Answered
    /\ UNCHANGED <<holder, ready, mode, active, cur, flip, kernel, painter, splash,
                   waiting, policy, format, stale, dispSpent, matcher>>
RotateRefused ==
    /\ request.kind = "rotate"
    /\ \/ holder # "nobody" /\ UNCHANGED dispSpent
       \/ DispCosts("fault", DispFaults)
    /\ Answered
    /\ UNCHANGED <<holder, ready, crtc, painter, splash, waiting, policy, format, stale, matcher>>

-----------------------------------------------------------------------------
(* The main loop and the world. *)

\* A display is attached; `check_hotplug` under the policy's mutex: the preferred mode, no CRTC yet.
Hotplug ==
    /\ ~ready /\ policy.lock = "nobody"
    /\ ready' = TRUE /\ mode' \in DispModes /\ active' = FALSE
    /\ policy' = [policy EXCEPT !.matched = 0, !.failed = 0] /\ splash' = "wanted"
    /\ UNCHANGED <<holder, cur, flip, kernel, turn, painter, waiting, format, request,
                   stale, dispSpent, matcher>>
FormatChanges == \E f \in DispModes \cup {0} :
    /\ f # format /\ matcher = "idle" /\ DispCosts("change", DispChanges)
    /\ format' = f
    /\ UNCHANGED <<holder, ready, crtc, painter, splash, waiting, policy, request, stale, matcher>>
FlipDone ==
    /\ kernel.queued # NoBuffer
    /\ kernel' = [kernel EXCEPT !.front = kernel.queued, !.queued = NoBuffer, !.event = TRUE]
    /\ UNCHANGED <<holder, ready, mode, active, cur, flip, turn, threads, waiting, policy,
                   dispSpent>>
FlipLost ==
    /\ kernel.queued # NoBuffer /\ DispCosts("loss", DispLosses)
    /\ kernel' = [kernel EXCEPT !.front = kernel.queued, !.queued = NoBuffer]
    /\ UNCHANGED <<holder, ready, mode, active, cur, flip, turn, threads, waiting, policy>>
\* Three seconds in which the display thread finished no frame.
Ages ==
    /\ painter # "idle" /\ ~stale /\ stale' = TRUE
    /\ UNCHANGED <<holder, ready, crtc, painter, splash, waiting, policy, format, request,
                   dispSpent, matcher>>
\* `health_check`: a freeze resets the flip flag.
HealthCheck ==
    /\ stale /\ flip /\ flip' = FALSE
    /\ UNCHANGED <<holder, ready, mode, active, cur, kernel, turn, threads, waiting,
                   policy, dispSpent>>

-----------------------------------------------------------------------------
PainterSteps == FrameDue \/ FrameSkipped \/ Paint \/ Painted
MatchSteps == MatchSeen \/ MatchSkipped \/ MatchBegins \/ MatchLocks \/ MatchBusy \/ Match
AskSteps == AskLocks \/ AskFails \/ AutoOn \/ ManualLocks \/ Manual \/ ManualLate \/ Rotate
              \/ RotateRefused
DispNext ==
    \/ PainterSteps \/ WantSplash \/ Splash \/ Splashed
    \/ MatchSteps \/ RetryAllowed
    \/ Ask \/ RequestExpires \/ AskSteps
    \/ Hotplug \/ FormatChanges \/ FlipDone \/ FlipLost \/ Ages \/ HealthCheck

\* Every thread runs, the kernel completes its flips, a second passes.  The
\* receive thread only tries its mutexes, once for every frame.
DispFair ==
    /\ WF_dispVars(PainterSteps) /\ WF_dispVars(Splashed)
    /\ WF_dispVars(MatchSteps) /\ SF_dispVars(MatchBegins)
    /\ SF_dispVars(MatchLocks) /\ WF_dispVars(AskSteps)
    /\ WF_dispVars(RetryAllowed) /\ WF_dispVars(FlipDone)
    /\ WF_dispVars(HealthCheck)

-----------------------------------------------------------------------------
(* Properties. *)

\* Every variable keeps its type.
DispTypeOK ==
    /\ holder \in {"nobody", "painter", "splash", "receiver", "request"}
    /\ {ready, active, flip, waiting, stale} \subseteq BOOLEAN
    /\ mode \in DispModes \cup {0} /\ cur \in Buffers
    /\ kernel \in [front : Buffers \cup {NoBuffer}, queued : Buffers \cup {NoBuffer},
                   event : BOOLEAN, turned : BOOLEAN]
    /\ turn \in [wanted : BOOLEAN, dirty : BOOLEAN]
    /\ painter \in {"idle", "due", "painting"} /\ splash \in {"none", "wanted", "drawing"}
    /\ matcher \in {"idle", "seen", "setting"} /\ policy.lock \in {"nobody", "receiver", "request"}
    /\ request.kind \in {"none", "manual", "auto", "rotate"}

\* A buffer is painted only while the screen neither shows it nor is about to:
\* dropped frames, mode changes, a splash between frames and a flip flag reset by
\* the health check do not bring the ring out of step (commit_fb, show_splash).
PaintsUnseenBuffer ==
    holder \in {"painter", "splash"} => cur \notin {kernel.front, kernel.queued}

\* What is put on the screen has the rotation the renderer believes in: after a
\* return to 0 degrees no legacy flip shows a picture that is still turned
\* ("One atomic reset is required before legacy flips resume").
ShownAsTurned ==
    [][cur' # cur => kernel'.turned = turn'.wanted]_dispVars

\* An automatic match never changes a mode somebody set by hand: the decision is
\* taken, and the setting read, under the policy's mutex (AutoResolutionPolicy.h).
ManualModeStays ==
    [][mode' # mode /\ ready => policy.auto \/ holder = "request"]_dispVars

\* A request past its deadline, whose caller has given up, changes no mode
\* (ResolutionControl.h: nothing revives an expired queued request).
LateRequestsChangeNothing ==
    [][mode' # mode /\ holder = "request" => ~request.late]_dispVars

\* A format comes to be remembered as matched only with the CRTC running the mode
\* chosen for it: "A mode that never reached the CRTC is not a changed mode", and
\* a frame that was only rendered does not count for one (set_mode, match_source).
MatchedIsOnScreen ==
    [][policy'.matched \notin {0, policy.matched} => active' /\ mode' = policy'.matched]_dispVars

\* While the policy is automatic a source comes to be matched, whatever was
\* refused, busy or changed before (match_source retries a second later).
SourceIsMatched ==
    \A f \in DispModes :
        <>[](format = f /\ ready /\ policy.auto) => <>[](policy.matched = f)

\* "Reset stuck flip state (called by health monitor on display freeze)": while
\* frames arrive, a freeze ends.
FreezeEnds ==
    \A f \in DispModes :
        <>[](format = f /\ ready /\ mode = f /\ active) => []<>(~StillFlipping \/ ~flip)

\* What the display promises: untorn pictures, and the mode that was meant.
DisplayPromises ==
    /\ []DispTypeOK /\ []PaintsUnseenBuffer /\ ShownAsTurned /\ ManualModeStays
    /\ LateRequestsChangeNothing /\ MatchedIsOnScreen
=============================================================================
