----------------------------- MODULE DecoderProofs -----------------------------
(*****************************************************************************)
(* Proofs about the decoder (the receiver, the display, the delay queues,    *)
(* the output worker and the audio engine) and about the finder. Receiver,   *)
(* for any sources, servers, commands, settings, routes and refusals of the  *)
(* SDK: nobody uses a FrameSync that is gone, the registration is that of    *)
(* the instance in use, no frame is pushed past a FrameSync that could be    *)
(* had, and the receiver never takes its own switch for a controller's       *)
(* (RcvInv). Display, for any modes, requests, changes of the source,        *)
(* refusals of the kernel and lost flip events: no buffer is painted that is *)
(* shown or queued, what is on the screen has the rotation the renderer      *)
(* believes in, and a mode is changed only by who may change it (DispInv).   *)
(* VideoDelay, for any queues, delays, memory and changes: frames leave in   *)
(* order and not early, and together the queues stay within the memory that  *)
(* was left (VdInv). OutputWorker, for any sources, routes, senders and      *)
(* subscribers: a source that was left shows no frame, and a route that      *)
(* comes back as configuration is not connected to again (WkInv).            *)
(* AudioGraph, for any devices, settings, faults and failed calls: the real- *)
(* time thread touches no graph that was destroyed and pulls no receiver     *)
(* that is gone, and a working endpoint keeps a device that works (AuInv).   *)
(* Finder, for any requests, refusals, rescans and crashes: it searches on   *)
(* the settings it accepted last, and what it acknowledged is what its next  *)
(* start reads (FinInv).                                                     *)
(*****************************************************************************)
EXTENDS Receiver, Display, VideoDelay, OutputWorker, AudioGraph, Finder, FiniteSetTheorems,
        SequenceTheorems, TLAPS

--------------------------------------------------------------------------------
(* The receiver.                                                               *)

\* The receiver by itself.
RcvSpec == RcvInit /\ [][RcvNext]_rcvVars

-------------------------------------------------------------------------------
(* The inductive invariant.                                                    *)

KnownSources == RcvSources \cup {NoName}
KnownServers == RcvServers \cup {NoName}

\* The values of the variables: what a command, the threads, the SDK and the
\* servers may hold.
CommandOK ==
    command \in [kind : {"none", "connect", "disconnect", "rename", "shutdown"},
                 at : {"none", "stop", "join", "point", "leave", "gone"}, source : KnownSources]
ThreadOK ==
    thread \in [at : {"none", "top", "store", "lost", "capture", "pull", "done"},
                was : BOOLEAN, first : BOOLEAN, young : BOOLEAN, seen : BOOLEAN]
SdkOK == sdk \in [source : KnownSources, named : KnownSources, conn : BOOLEAN, event : BOOLEAN]
KeeperOK ==
    keeper \in [at : {"create", "settle", "wait", "done"}, url : KnownServers, made : BOOLEAN]
SpentOK ==
    /\ rcvSpent \in [command : Nat, setting : Nat, world : Nat, refusal : Nat]
    /\ rcvSpent.command <= RcvCommands
HandlesOK ==
    /\ instance \in Nat /\ instance <= 1 + RcvCommands
    /\ framesync \in Nat /\ framesync <= 1 + RcvCommands
    /\ registered \in Nat /\ registered <= 1 + RcvCommands
ServersOK == server \in KnownServers /\ discovery \in KnownServers /\ advertiser \in KnownServers
FlagsOK ==
    /\ running \in BOOLEAN /\ audio \in BOOLEAN /\ pulling \in BOOLEAN
    /\ routed \in BOOLEAN /\ advertise \in BOOLEAN
FailedOK == failed \in [framesync : BOOLEAN, instance : BOOLEAN]
DeliveredOK == delivered \in {"none", "pull", "push"}

RecordsOK ==
    /\ CommandOK /\ ThreadOK /\ SdkOK /\ KeeperOK /\ SpentOK
    /\ HandlesOK /\ ServersOK /\ FlagsOK /\ FailedOK /\ DeliveredOK
    /\ current \in KnownSources

\* A command that has stopped the thread has the handles for itself.
HandleInv ==
    /\ command.at \in {"join", "point", "leave", "gone"} => ~running /\ ~pulling
    /\ command.at \in {"point", "leave", "gone"} => Ended
    /\ FrameSyncInUseIsAlive

\* What the thread remembers it has seen on the connection it serves.
FrameInv ==
    /\ thread.at \notin {"top", "pull"} => delivered = "none"
    /\ thread.at = "pull" => delivered = "pull"
    /\ thread.first => failed.framesync
    /\ FirstFrameDecides

\* Unless a controller chose, the SDK has the source of the last command, and
\* names it once the thread has grown.
RouteInv ==
    thread.at # "none" /\ ~routed =>
        /\ sdk.source = current
        /\ ~thread.young => sdk.named = current

RcvInv == RecordsOK /\ HandleInv /\ RegistrationIsCurrent /\ FrameInv /\ RouteInv


-------------------------------------------------------------------------------
(* Every step keeps the values in their sets.                                  *)

\* Whatever is spent stays within its bound.
LEMMA CostsKept ==
    ASSUME SpentOK
    PROVE  /\ Costs("command", RcvCommands) => SpentOK' /\ rcvSpent.command < RcvCommands
           /\ \A kind \in {"setting", "world", "refusal"}, bound \in Nat :
                Costs(kind, bound) => SpentOK'
<1> USE ReceiverAssumption DEF ReceiverAssumption
<1>1. ASSUME Costs("command", RcvCommands)
      PROVE  SpentOK' /\ rcvSpent.command < RcvCommands
  <2>1. rcvSpent.command < RcvCommands /\ rcvSpent' = [rcvSpent EXCEPT !.command = @ + 1]
    BY <1>1 DEF Costs
  <2>2. rcvSpent.command \in Nat /\ rcvSpent.command + 1 <= RcvCommands
    BY <2>1 DEF SpentOK
  <2> QED
    BY <2>1, <2>2 DEF SpentOK
<1>2. ASSUME NEW kind \in {"setting", "world", "refusal"}, NEW bound \in Nat, Costs(kind,
       bound)
      PROVE  SpentOK'
  <2>1. rcvSpent' = [rcvSpent EXCEPT ![kind] = @ + 1]
    BY <1>2 DEF Costs
  <2>2. CASE kind = "setting"
    BY <2>1, <2>2 DEF SpentOK
  <2>3. CASE kind = "world"
    BY <2>1, <2>3 DEF SpentOK
  <2>4. CASE kind = "refusal"
    BY <2>1, <2>4 DEF SpentOK
  <2> QED
    BY <2>2, <2>3, <2>4
<1> QED
  BY <1>1, <1>2

\* A command goes through its steps; its source is known, or none.
LEMMA CommandKept ==
    ASSUME CommandOK, current \in KnownSources, [RcvNext]_rcvVars
    PROVE  CommandOK'
<1> USE DEF CommandOK, KnownSources
<1>1. CASE UNCHANGED command
  BY <1>1
<1>2. CASE Connect
  BY <1>2 DEF Connect, Order, Costs
<1>3. CASE Disconnect
  BY <1>3 DEF Disconnect, Order, Costs
<1>4. CASE Rename
  BY <1>4 DEF Rename, Order, Costs
<1>5. CASE Shutdown
  BY <1>5 DEF Shutdown
<1>6. CASE StopThread
  BY <1>6 DEF StopThread
<1>7. CASE Join
  BY <1>7 DEF Join
<1>8. CASE Point
  BY <1>8 DEF Point, Pointed, Started, NoCommand
<1>9. CASE PointAnew
  BY <1>9 DEF PointAnew, Pointed, Started, NoThread, NoCommand, Costs
<1>10. CASE PointNothing
  BY <1>10 DEF PointNothing, NoThread, NoCommand
<1>11. CASE Recreate
  BY <1>11 DEF Recreate, Pointed, Started, NoThread, NoCommand, Costs, Registers
<1>12. CASE Leave
  BY <1>12 DEF Leave, NoThread
<1>13. \/ UNCHANGED command
      \/ Connect \/ Disconnect \/ Rename \/ Shutdown \/ StopThread \/ Join \/ Point
      \/ PointAnew \/ PointNothing \/ Recreate \/ Leave
  BY DEF RcvNext, ControlSteps, ThreadSteps, KeeperSteps, rcvVars, media, presence, outside,
     Ends, Counts, Stores, Lost, SourceCheck, Pull, Pulled, Detect, DetectFails, Push,
     CaptureNothing, SourceEvent, PullAudio, AudioPulled, SetAdvertising, ReloadDiscovery,
     KeeperLooks, KeeperCreates, KeeperSettles, KeeperStops, Route, SenderAnswers, SenderLost,
     ServerChanges, Grows
<1> QED
  BY <1>1, <1>2, <1>3, <1>4, <1>5, <1>6, <1>7, <1>8, <1>9, <1>10, <1>11, <1>12, <1>13

\* The recorded source is one the command or the SDK names.
LEMMA CurrentKept ==
    ASSUME current \in KnownSources, CommandOK, SdkOK, [RcvNext]_rcvVars
    PROVE  (current \in KnownSources)'
<1> USE DEF CommandOK, SdkOK, KnownSources
<1>1. CASE UNCHANGED current
  BY <1>1
<1>2. CASE Point
  BY <1>2 DEF Point, Pointed, Started, NoCommand
<1>3. CASE PointAnew
  BY <1>3 DEF PointAnew, Pointed, Started, NoThread, NoCommand, Costs
<1>4. CASE PointNothing
  BY <1>4 DEF PointNothing, NoThread, NoCommand
<1>5. CASE Recreate
  BY <1>5 DEF Recreate, Pointed, Started, NoThread, NoCommand, Costs, Registers
<1>6. CASE SourceCheck
  BY <1>6 DEF SourceCheck
<1>7. CASE SourceEvent
  BY <1>7 DEF SourceEvent, At_
<1>8. \/ UNCHANGED current
      \/ Point \/ PointAnew \/ PointNothing \/ Recreate \/ SourceCheck \/ SourceEvent
  BY DEF RcvNext, ControlSteps, ThreadSteps, KeeperSteps, rcvVars, media, presence, outside,
     Connect, Disconnect, Rename, Shutdown, StopThread, Join, Leave, Ends, Counts, Stores,
     Lost, Pull, Pulled, Detect, DetectFails, Push, CaptureNothing, PullAudio, AudioPulled,
     SetAdvertising, ReloadDiscovery, KeeperLooks, KeeperCreates, KeeperSettles, KeeperStops,
     Route, SenderAnswers, SenderLost, ServerChanges, Grows, Order
<1> QED
  BY <1>1, <1>2, <1>3, <1>4, <1>5, <1>6, <1>7, <1>8

\* The receive thread starts, turns, loses its connection and ends.
LEMMA ThreadKept ==
    ASSUME ThreadOK, SdkOK, [RcvNext]_rcvVars
    PROVE  ThreadOK'
<1> USE DEF ThreadOK, SdkOK
<1>1. CASE UNCHANGED thread
  BY <1>1
<1>2. CASE Point
  BY <1>2 DEF Point, Pointed, Started, NoCommand
<1>3. CASE PointAnew
  <2>1. CASE thread' = Started
    BY <2>1 DEF Started
  <2>2. CASE thread' = NoThread
    BY <2>2 DEF NoThread
  <2> QED
    BY <1>3, <2>1, <2>2 DEF PointAnew
<1>4. CASE PointNothing
  BY <1>4 DEF PointNothing, NoThread, NoCommand
<1>5. CASE Recreate
  <2>1. CASE thread' = Started
    BY <2>1 DEF Started
  <2>2. CASE thread' = NoThread
    BY <2>2 DEF NoThread
  <2> QED
    BY <1>5, <2>1, <2>2 DEF Recreate
<1>6. CASE Leave
  BY <1>6 DEF Leave, NoThread
<1>7. CASE Ends
  BY <1>7 DEF Ends, At_
<1>8. CASE Counts
  BY <1>8 DEF Counts
<1>9. CASE Stores
  BY <1>9 DEF Stores, At_
<1>10. CASE Lost
  BY <1>10 DEF Lost
<1>11. CASE Pull
  BY <1>11 DEF Pull, At_
<1>12. CASE Pulled
  BY <1>12 DEF Pulled, At_
<1>13. CASE Detect
  BY <1>13 DEF Detect, At_
<1>14. CASE DetectFails
  BY <1>14 DEF DetectFails, Costs
<1>15. CASE Push
  BY <1>15 DEF Push, At_
<1>16. CASE CaptureNothing
  BY <1>16 DEF CaptureNothing, At_
<1>17. CASE SourceEvent
  BY <1>17 DEF SourceEvent, At_
<1>18. CASE Grows
  BY <1>18 DEF Grows
<1>19. \/ UNCHANGED thread
      \/ Point \/ PointAnew \/ PointNothing \/ Recreate \/ Leave \/ Ends \/ Counts
      \/ Stores \/ Lost \/ Pull \/ Pulled \/ Detect \/ DetectFails \/ Push
      \/ CaptureNothing \/ SourceEvent \/ Grows
  BY DEF RcvNext, ControlSteps, ThreadSteps, KeeperSteps, rcvVars, media, presence, outside,
     Connect, Disconnect, Rename, Shutdown, StopThread, Join, SourceCheck, PullAudio,
     AudioPulled, SetAdvertising, ReloadDiscovery, KeeperLooks, KeeperCreates, KeeperSettles,
     KeeperStops, Route, SenderAnswers, SenderLost, ServerChanges, Order
<1> QED
  BY <1>1, <1>2, <1>3, <1>4, <1>5, <1>6, <1>7, <1>8, <1>9, <1>10, <1>11, <1>12, <1>13, <1>14,
     <1>15, <1>16, <1>17, <1>18, <1>19

\* The SDK names sources that exist, or none.
LEMMA SdkKept ==
    ASSUME SdkOK, CommandOK, [RcvNext]_rcvVars
    PROVE  SdkOK'
<1> USE DEF SdkOK, CommandOK, KnownSources
<1>1. CASE UNCHANGED sdk
  BY <1>1
<1>2. CASE Point
  BY <1>2 DEF Point, Pointed, Started, NoCommand
<1>3. CASE PointAnew
  <2>1. CASE UNCHANGED sdk
    BY <2>1
  <2>2. CASE Pointed(command.source)
    BY <2>2 DEF Pointed
  <2> QED
    BY <1>3, <2>1, <2>2 DEF PointAnew
<1>4. CASE Recreate
  <2>1. CASE sdk' = [source |-> NoName, named |-> NoName, conn |-> FALSE, event |-> FALSE]
    BY <2>1
  <2>2. CASE Pointed(command.source)
    BY <2>2 DEF Pointed
  <2> QED
    BY <1>4, <2>1, <2>2 DEF Recreate
<1>5. CASE Leave
  BY <1>5 DEF Leave, NoThread
<1>6. CASE SourceEvent
  BY <1>6 DEF SourceEvent, At_
<1>7. CASE Route
  BY <1>7 DEF Route, Costs
<1>8. CASE SenderAnswers
  BY <1>8 DEF SenderAnswers
<1>9. CASE SenderLost
  BY <1>9 DEF SenderLost, Costs
<1>10. CASE Grows
  BY <1>10 DEF Grows
<1>11. \/ UNCHANGED sdk
      \/ Point \/ PointAnew \/ Recreate \/ Leave \/ SourceEvent \/ Route \/ SenderAnswers
      \/ SenderLost \/ Grows
  BY DEF RcvNext, ControlSteps, ThreadSteps, KeeperSteps, rcvVars, media, presence, outside,
     Connect, Disconnect, Rename, Shutdown, StopThread, Join, PointNothing, Ends, Counts,
     Stores, Lost, SourceCheck, Pull, Pulled, Detect, DetectFails, Push, CaptureNothing,
     PullAudio, AudioPulled, SetAdvertising, ReloadDiscovery, KeeperLooks, KeeperCreates,
     KeeperSettles, KeeperStops, ServerChanges, Order
<1> QED
  BY <1>1, <1>2, <1>3, <1>4, <1>5, <1>6, <1>7, <1>8, <1>9, <1>10, <1>11

\* The advertiser thread looks, creates and settles.
LEMMA KeeperKept ==
    ASSUME KeeperOK, discovery \in KnownServers, [RcvNext]_rcvVars
    PROVE  KeeperOK'
<1> USE DEF KeeperOK
<1>1. CASE UNCHANGED keeper
  BY <1>1
<1>2. CASE KeeperLooks
  BY <1>2 DEF KeeperLooks
<1>3. CASE KeeperCreates
  BY <1>3 DEF KeeperCreates
<1>4. CASE KeeperSettles
  BY <1>4 DEF KeeperSettles, Accepts, Registers
<1>5. CASE KeeperStops
  BY <1>5 DEF KeeperStops, Keeper
<1>6. \/ UNCHANGED keeper
      \/ KeeperLooks \/ KeeperCreates \/ KeeperSettles \/ KeeperStops
  BY DEF RcvNext, ControlSteps, ThreadSteps, KeeperSteps, rcvVars, media, presence, outside,
     Connect, Disconnect, Rename, Shutdown, StopThread, Join, Point, PointAnew, PointNothing,
     Recreate, Leave, Ends, Counts, Stores, Lost, SourceCheck, Pull, Pulled, Detect,
     DetectFails, Push, CaptureNothing, SourceEvent, PullAudio, AudioPulled, SetAdvertising,
     ReloadDiscovery, Route, SenderAnswers, SenderLost, ServerChanges, Grows, Order
<1> QED
  BY <1>1, <1>2, <1>3, <1>4, <1>5, <1>6

\* No bound is passed.
LEMMA SpentKept ==
    ASSUME SpentOK, [RcvNext]_rcvVars
    PROVE  SpentOK'
<1> USE ReceiverAssumption, CostsKept DEF ReceiverAssumption
<1>1. CASE UNCHANGED rcvSpent
  BY <1>1 DEF SpentOK
<1>2. CASE Connect
  BY <1>2 DEF Connect, Order
<1>3. CASE Disconnect
  BY <1>3 DEF Disconnect, Order
<1>4. CASE Rename
  BY <1>4 DEF Rename, Order
<1>5. CASE PointAnew
  <2>1. CASE UNCHANGED rcvSpent
    BY <2>1 DEF SpentOK
  <2>2. CASE Costs("refusal", RcvRefusals)
    BY <2>2
  <2> QED
    BY <1>5, <2>1, <2>2 DEF PointAnew
<1>6. CASE Recreate
  <2>1. CASE UNCHANGED rcvSpent
    BY <2>1 DEF SpentOK
  <2>2. CASE Costs("refusal", RcvRefusals)
    BY <2>2
  <2> QED
    BY <1>6, <2>1, <2>2 DEF Recreate
<1>7. CASE DetectFails
  BY <1>7 DEF DetectFails
<1>8. CASE SetAdvertising
  BY <1>8 DEF SetAdvertising, Costs, Registers
<1>9. CASE ReloadDiscovery
  BY <1>9 DEF ReloadDiscovery
<1>10. CASE Route
  BY <1>10 DEF Route
<1>11. CASE SenderLost
  BY <1>11 DEF SenderLost
<1>12. CASE ServerChanges
  BY <1>12 DEF ServerChanges
<1>13. \/ UNCHANGED rcvSpent
      \/ Connect \/ Disconnect \/ Rename \/ PointAnew \/ Recreate \/ DetectFails
      \/ SetAdvertising \/ ReloadDiscovery \/ Route \/ SenderLost \/ ServerChanges
  BY DEF RcvNext, ControlSteps, ThreadSteps, KeeperSteps, rcvVars, media, presence, outside,
     Shutdown, StopThread, Join, Point, PointNothing, Leave, Ends, Counts, Stores, Lost,
     SourceCheck, Pull, Pulled, Detect, Push, CaptureNothing, SourceEvent, PullAudio,
     AudioPulled, KeeperLooks, KeeperCreates, KeeperSettles, KeeperStops, SenderAnswers, Grows
<1> QED
  BY <1>1, <1>2, <1>3, <1>4, <1>5, <1>6, <1>7, <1>8, <1>9, <1>10, <1>11, <1>12, <1>13

\* Every handle is null or of an instance made so far.
LEMMA HandlesKept ==
    ASSUME HandlesOK, SpentOK, [RcvNext]_rcvVars
    PROVE  HandlesOK'
<1> USE ReceiverAssumption DEF HandlesOK, SpentOK, ReceiverAssumption
<1>1. CASE UNCHANGED <<instance, framesync, registered>>
  BY <1>1
<1>2. CASE Point
  BY <1>2 DEF Point, Pointed, Started, NoCommand, presence
<1>3. CASE PointAnew
  BY <1>3 DEF PointAnew, Pointed, Started, NoThread, NoCommand, Costs, presence
<1>4. CASE PointNothing
  BY <1>4 DEF PointNothing, NoThread, NoCommand, presence
<1>5. CASE Recreate
  BY <1>5 DEF Recreate, Pointed, Started, NoThread, NoCommand, Costs, Registers
<1>6. CASE Leave
  BY <1>6 DEF Leave, NoThread
<1>7. CASE Lost
  BY <1>7 DEF Lost, presence
<1>8. CASE Detect
  BY <1>8 DEF Detect, At_, presence
<1>9. CASE SetAdvertising
  BY <1>9 DEF SetAdvertising, Costs, Registers, media
<1>10. CASE ReloadDiscovery
  BY <1>10 DEF ReloadDiscovery, Costs, media
<1>11. CASE KeeperSettles
  BY <1>11 DEF KeeperSettles, Accepts, Registers, media
<1>12. \/ UNCHANGED <<instance, framesync, registered>>
      \/ Point \/ PointAnew \/ PointNothing \/ Recreate \/ Leave \/ Lost \/ Detect
      \/ SetAdvertising \/ ReloadDiscovery \/ KeeperSettles
  BY DEF RcvNext, ControlSteps, ThreadSteps, KeeperSteps, rcvVars, media, presence, outside,
     Connect, Disconnect, Rename, Shutdown, StopThread, Join, Ends, Counts, Stores,
     SourceCheck, Pull, Pulled, DetectFails, Push, CaptureNothing, SourceEvent, PullAudio,
     AudioPulled, KeeperLooks, KeeperCreates, KeeperStops, Route, SenderAnswers, SenderLost,
     ServerChanges, Grows, Order
<1> QED
  BY <1>1, <1>2, <1>3, <1>4, <1>5, <1>6, <1>7, <1>8, <1>9, <1>10, <1>11, <1>12

\* The addresses are of servers that exist, or none.
LEMMA ServersKept ==
    ASSUME ServersOK, KeeperOK, [RcvNext]_rcvVars
    PROVE  ServersOK'
<1> USE DEF ServersOK, KeeperOK, KnownServers
<1>1. CASE UNCHANGED <<server, discovery, advertiser>>
  BY <1>1
<1>2. CASE Leave
  BY <1>2 DEF Leave, NoThread
<1>3. CASE SetAdvertising
  BY <1>3 DEF SetAdvertising, Costs, Registers, outside
<1>4. CASE ReloadDiscovery
  BY <1>4 DEF ReloadDiscovery, Costs, outside
<1>5. CASE KeeperSettles
  BY <1>5 DEF KeeperSettles, Accepts, Registers, outside
<1>6. CASE ServerChanges
  BY <1>6 DEF ServerChanges, Costs, presence
<1>7. \/ UNCHANGED <<server, discovery, advertiser>>
      \/ Leave \/ SetAdvertising \/ ReloadDiscovery \/ KeeperSettles \/ ServerChanges
  BY DEF RcvNext, ControlSteps, ThreadSteps, KeeperSteps, rcvVars, media, presence, outside,
     Connect, Disconnect, Rename, Shutdown, StopThread, Join, Point, PointAnew, PointNothing,
     Recreate, Ends, Counts, Stores, Lost, SourceCheck, Pull, Pulled, Detect, DetectFails,
     Push, CaptureNothing, SourceEvent, PullAudio, AudioPulled, KeeperLooks, KeeperCreates,
     KeeperStops, Route, SenderAnswers, SenderLost, Grows, Order
<1> QED
  BY <1>1, <1>2, <1>3, <1>4, <1>5, <1>6, <1>7

\* The flags stay Boolean.
LEMMA FlagsKept ==
    ASSUME FlagsOK, ThreadOK, [RcvNext]_rcvVars
    PROVE  FlagsOK'
<1> USE DEF FlagsOK, ThreadOK
<1>1. CASE UNCHANGED <<running, audio, pulling, routed, advertise>>
  BY <1>1
<1>2. CASE StopThread
  BY <1>2 DEF StopThread, presence, outside
<1>3. CASE Point
  BY <1>3 DEF Point, Pointed, Started, NoCommand, presence
<1>4. CASE PointAnew
  BY <1>4 DEF PointAnew, Pointed, Started, NoThread, NoCommand, Costs, presence
<1>5. CASE PointNothing
  BY <1>5 DEF PointNothing, NoThread, NoCommand, presence
<1>6. CASE Recreate
  BY <1>6 DEF Recreate, Pointed, Started, NoThread, NoCommand, Costs, Registers
<1>7. CASE Stores
  BY <1>7 DEF Stores, At_, presence, outside
<1>8. CASE Lost
  BY <1>8 DEF Lost, presence, outside
<1>9. CASE PullAudio
  BY <1>9 DEF PullAudio, Pullable, media, presence, outside
<1>10. CASE AudioPulled
  BY <1>10 DEF AudioPulled, media, presence, outside
<1>11. CASE SetAdvertising
  BY <1>11 DEF SetAdvertising, Costs, Registers, media, outside
<1>12. CASE Route
  BY <1>12 DEF Route, Costs, media, presence
<1>13. \/ UNCHANGED <<running, audio, pulling, routed, advertise>>
      \/ StopThread \/ Point \/ PointAnew \/ PointNothing \/ Recreate \/ Stores \/ Lost
      \/ PullAudio \/ AudioPulled \/ SetAdvertising \/ Route
  BY DEF RcvNext, ControlSteps, ThreadSteps, KeeperSteps, rcvVars, media, presence, outside,
     Connect, Disconnect, Rename, Shutdown, Join, Leave, Ends, Counts, SourceCheck, Pull,
     Pulled, Detect, DetectFails, Push, CaptureNothing, SourceEvent, ReloadDiscovery,
     KeeperLooks, KeeperCreates, KeeperSettles, KeeperStops, SenderAnswers, SenderLost,
     ServerChanges, Grows, Order
<1> QED
  BY <1>1, <1>2, <1>3, <1>4, <1>5, <1>6, <1>7, <1>8, <1>9, <1>10, <1>11, <1>12, <1>13

\* What failed is remembered as such.
LEMMA FailedKept ==
    ASSUME FailedOK, [RcvNext]_rcvVars
    PROVE  FailedOK'
<1> USE DEF FailedOK
<1>1. CASE UNCHANGED failed
  BY <1>1
<1>2. CASE Point
  BY <1>2 DEF Point, Pointed, Started, NoCommand
<1>3. CASE PointAnew
  BY <1>3 DEF PointAnew, Pointed, Started, NoThread, NoCommand, Costs
<1>4. CASE Recreate
  BY <1>4 DEF Recreate, Pointed, Started, NoThread, NoCommand, Costs, Registers
<1>5. CASE Lost
  BY <1>5 DEF Lost
<1>6. CASE DetectFails
  BY <1>6 DEF DetectFails, Costs
<1>7. \/ UNCHANGED failed
      \/ Point \/ PointAnew \/ Recreate \/ Lost \/ DetectFails
  BY DEF RcvNext, ControlSteps, ThreadSteps, KeeperSteps, rcvVars, media, presence, outside,
     Connect, Disconnect, Rename, Shutdown, StopThread, Join, PointNothing, Leave, Ends,
     Counts, Stores, SourceCheck, Pull, Pulled, Detect, Push, CaptureNothing, SourceEvent,
     PullAudio, AudioPulled, SetAdvertising, ReloadDiscovery, KeeperLooks, KeeperCreates,
     KeeperSettles, KeeperStops, Route, SenderAnswers, SenderLost, ServerChanges, Grows, Order
<1> QED
  BY <1>1, <1>2, <1>3, <1>4, <1>5, <1>6, <1>7

\* A frame is pulled, pushed or not delivered.
LEMMA DeliveredKept ==
    ASSUME DeliveredOK, [RcvNext]_rcvVars
    PROVE  DeliveredOK'
<1> USE DEF DeliveredOK
<1>1. CASE UNCHANGED delivered
  BY <1>1
<1>2. CASE Ends
  BY <1>2 DEF Ends, At_
<1>3. CASE Counts
  BY <1>3 DEF Counts
<1>4. CASE Pull
  BY <1>4 DEF Pull, At_
<1>5. CASE DetectFails
  BY <1>5 DEF DetectFails, Costs
<1>6. CASE Push
  BY <1>6 DEF Push, At_
<1>7. \/ UNCHANGED delivered
      \/ Ends \/ Counts \/ Pull \/ DetectFails \/ Push
  BY DEF RcvNext, ControlSteps, ThreadSteps, KeeperSteps, rcvVars, media, presence, outside,
     Connect, Disconnect, Rename, Shutdown, StopThread, Join, Point, PointAnew, PointNothing,
     Recreate, Leave, Stores, Lost, SourceCheck, Pulled, Detect, CaptureNothing, SourceEvent,
     PullAudio, AudioPulled, SetAdvertising, ReloadDiscovery, KeeperLooks, KeeperCreates,
     KeeperSettles, KeeperStops, Route, SenderAnswers, SenderLost, ServerChanges, Grows, Order
<1> QED
  BY <1>1, <1>2, <1>3, <1>4, <1>5, <1>6, <1>7

\* The values stay in their sets.
LEMMA RecordsKept ==
    ASSUME RecordsOK, [RcvNext]_rcvVars
    PROVE  RecordsOK'
  BY CommandKept, CurrentKept, ThreadKept, SdkKept, KeeperKept, SpentKept, HandlesKept,
     ServersKept, FlagsKept, FailedKept, DeliveredKept
  DEF RecordsOK, ServersOK

-------------------------------------------------------------------------------
(* Every step keeps the invariant.                                             *)

\* Whoever destroys a handle has joined the thread and found no pull under way.
LEMMA HandleKept ==
    ASSUME CommandOK, ThreadOK, HandlesOK, SpentOK, FlagsOK, HandleInv, [RcvNext]_rcvVars
    PROVE  HandleInv'
<1> USE DEF CommandOK, ThreadOK, HandlesOK, SpentOK, HandleInv, Ended, FrameSyncInUseIsAlive
<1>1. CASE UNCHANGED <<command, running, pulling, thread, framesync, instance>>
  BY <1>1
<1>2. CASE Connect
  BY <1>2 DEF Connect, Order, Costs, media
<1>3. CASE Disconnect
  BY <1>3 DEF Disconnect, Order, Costs, media
<1>4. CASE Rename
  BY <1>4 DEF Rename, Order, Costs, media
<1>5. CASE Shutdown
  BY <1>5 DEF Shutdown, media
<1>6. CASE StopThread
  BY <1>6 DEF StopThread
<1>7. CASE Join
  BY <1>7 DEF Join, media
<1>8. CASE Point
  BY <1>8 DEF Point, Pointed, Started, NoCommand
<1>9. CASE PointAnew
  BY <1>9 DEF PointAnew, Pointed, Started, NoThread, NoCommand, Costs
<1>10. CASE PointNothing
  BY <1>10 DEF PointNothing, NoThread, NoCommand
<1>11. CASE Recreate
  BY <1>11 DEF Recreate, Pointed, Started, NoThread, NoCommand, Costs, Registers
<1>12. CASE Leave
  BY <1>12 DEF Leave, NoThread
<1>13. CASE Ends
  BY <1>13 DEF Ends, At_
<1>14. CASE Counts
  BY <1>14 DEF Counts
<1>15. CASE Stores
  BY <1>15 DEF Stores, At_
<1>16. CASE Lost
  BY <1>16 DEF Lost
<1>17. CASE Pull
  BY <1>17 DEF Pull, At_
<1>18. CASE Pulled
  BY <1>18 DEF Pulled, At_
<1>19. CASE Detect
  BY <1>19 DEF Detect, At_
<1>20. CASE DetectFails
  BY <1>20 DEF DetectFails, Costs
<1>21. CASE Push
  BY <1>21 DEF Push, At_
<1>22. CASE CaptureNothing
  BY <1>22 DEF CaptureNothing, At_
<1>23. CASE SourceEvent
  BY <1>23 DEF SourceEvent, At_
<1>24. CASE PullAudio
  BY <1>24 DEF PullAudio, Pullable, media
<1>25. CASE AudioPulled
  BY <1>25 DEF AudioPulled, media
<1>26. CASE Grows
  BY <1>26 DEF Grows
<1>27. \/ UNCHANGED <<command, running, pulling, thread, framesync, instance>>
      \/ Connect \/ Disconnect \/ Rename \/ Shutdown \/ StopThread \/ Join \/ Point
      \/ PointAnew \/ PointNothing \/ Recreate \/ Leave \/ Ends \/ Counts \/ Stores \/ Lost
      \/ Pull \/ Pulled \/ Detect \/ DetectFails \/ Push \/ CaptureNothing \/ SourceEvent
      \/ PullAudio \/ AudioPulled \/ Grows
  BY DEF RcvNext, ControlSteps, ThreadSteps, KeeperSteps, rcvVars, media, presence, outside,
     SourceCheck, SetAdvertising, ReloadDiscovery, KeeperLooks, KeeperCreates, KeeperSettles,
     KeeperStops, Route, SenderAnswers, SenderLost, ServerChanges
<1> QED
  BY <1>1, <1>2, <1>3, <1>4, <1>5, <1>6, <1>7, <1>8, <1>9, <1>10, <1>11, <1>12, <1>13, <1>14,
     <1>15, <1>16, <1>17, <1>18, <1>19, <1>20, <1>21, <1>22, <1>23, <1>24, <1>25, <1>26, <1>27

\* What withdraws an instance or an address withdraws its registration.
LEMMA RegistrationKept ==
    ASSUME HandlesOK, SpentOK, FlagsOK, ServersOK, RegistrationIsCurrent, [RcvNext]_rcvVars
    PROVE  RegistrationIsCurrent'
<1> USE DEF HandlesOK, SpentOK, RegistrationIsCurrent
<1>1. CASE UNCHANGED <<registered, instance, advertiser, advertise, discovery>>
  BY <1>1
<1>2. CASE PointAnew
  BY <1>2 DEF PointAnew, Pointed, Started, NoThread, NoCommand, Costs, presence
<1>3. CASE Recreate
  BY <1>3 DEF Recreate, Pointed, Started, NoThread, NoCommand, Costs, Registers
<1>4. CASE Leave
  BY <1>4 DEF Leave, NoThread
<1>5. CASE SetAdvertising
  BY <1>5 DEF SetAdvertising, Costs, Registers
<1>6. CASE ReloadDiscovery
  BY <1>6 DEF ReloadDiscovery, Costs
<1>7. CASE KeeperSettles
  BY <1>7 DEF KeeperSettles, Accepts, Registers
<1>8. \/ UNCHANGED <<registered, instance, advertiser, advertise, discovery>>
      \/ PointAnew \/ Recreate \/ Leave \/ SetAdvertising \/ ReloadDiscovery
      \/ KeeperSettles
  BY DEF RcvNext, ControlSteps, ThreadSteps, KeeperSteps, rcvVars, media, presence, outside,
     Connect, Disconnect, Rename, Shutdown, StopThread, Join, Point, PointNothing, Ends,
     Counts, Stores, Lost, SourceCheck, Pull, Pulled, Detect, DetectFails, Push,
     CaptureNothing, SourceEvent, PullAudio, AudioPulled, KeeperLooks, KeeperCreates,
     KeeperStops, Route, SenderAnswers, SenderLost, ServerChanges, Grows, Order
<1> QED
  BY <1>1, <1>2, <1>3, <1>4, <1>5, <1>6, <1>7, <1>8

\* A connection's refusal of FrameSync is forgotten with its first frame.
LEMMA FrameKept ==
    ASSUME ThreadOK, FailedOK, CommandOK, HandleInv, FrameInv, [RcvNext]_rcvVars
    PROVE  FrameInv'
<1> USE DEF ThreadOK, FailedOK, CommandOK, HandleInv, FrameInv, FirstFrameDecides, Ended
<1>1. CASE UNCHANGED <<thread, failed, delivered>>
  BY <1>1
<1>2. CASE Point
  BY <1>2 DEF Point, Pointed, Started, NoCommand
<1>3. CASE PointAnew
  BY <1>3 DEF PointAnew, Pointed, Started, NoThread, NoCommand, Costs
<1>4. CASE PointNothing
  BY <1>4 DEF PointNothing, NoThread, NoCommand
<1>5. CASE Recreate
  BY <1>5 DEF Recreate, Pointed, Started, NoThread, NoCommand, Costs, Registers
<1>6. CASE Leave
  BY <1>6 DEF Leave, NoThread
<1>7. CASE Ends
  BY <1>7 DEF Ends, At_
<1>8. CASE Counts
  BY <1>8 DEF Counts
<1>9. CASE Stores
  BY <1>9 DEF Stores, At_
<1>10. CASE Lost
  BY <1>10 DEF Lost
<1>11. CASE Pull
  BY <1>11 DEF Pull, At_
<1>12. CASE Pulled
  BY <1>12 DEF Pulled, At_
<1>13. CASE Detect
  BY <1>13 DEF Detect, At_
<1>14. CASE DetectFails
  BY <1>14 DEF DetectFails, Costs
<1>15. CASE Push
  BY <1>15 DEF Push, At_
<1>16. CASE CaptureNothing
  BY <1>16 DEF CaptureNothing, At_
<1>17. CASE SourceEvent
  BY <1>17 DEF SourceEvent, At_
<1>18. CASE Grows
  BY <1>18 DEF Grows
<1>19. \/ UNCHANGED <<thread, failed, delivered>>
      \/ Point \/ PointAnew \/ PointNothing \/ Recreate \/ Leave \/ Ends \/ Counts
      \/ Stores \/ Lost \/ Pull \/ Pulled \/ Detect \/ DetectFails \/ Push
      \/ CaptureNothing \/ SourceEvent \/ Grows
  BY DEF RcvNext, ControlSteps, ThreadSteps, KeeperSteps, rcvVars, media, presence, outside,
     Connect, Disconnect, Rename, Shutdown, StopThread, Join, SourceCheck, PullAudio,
     AudioPulled, SetAdvertising, ReloadDiscovery, KeeperLooks, KeeperCreates, KeeperSettles,
     KeeperStops, Route, SenderAnswers, SenderLost, ServerChanges, Order
<1> QED
  BY <1>1, <1>2, <1>3, <1>4, <1>5, <1>6, <1>7, <1>8, <1>9, <1>10, <1>11, <1>12, <1>13, <1>14,
     <1>15, <1>16, <1>17, <1>18, <1>19

\* Only a controller makes the SDK's source another than the command's.
LEMMA RouteKept ==
    ASSUME CommandOK, ThreadOK, SdkOK, FlagsOK, HandleInv, RouteInv, [RcvNext]_rcvVars
    PROVE  RouteInv'
<1> USE DEF CommandOK, ThreadOK, SdkOK, HandleInv, RouteInv, Ended, CheckDue
<1>1. CASE UNCHANGED <<thread, routed, sdk, current>>
  BY <1>1
<1>2. CASE Point
  BY <1>2 DEF Point, Pointed, Started, NoCommand
<1>3. CASE PointAnew
  BY <1>3 DEF PointAnew, Pointed, Started, NoThread, NoCommand, Costs
<1>4. CASE PointNothing
  BY <1>4 DEF PointNothing, NoThread, NoCommand
<1>5. CASE Recreate
  BY <1>5 DEF Recreate, Pointed, Started, NoThread, NoCommand, Costs, Registers
<1>6. CASE Leave
  BY <1>6 DEF Leave, NoThread
<1>7. CASE Ends
  BY <1>7 DEF Ends, At_, outside
<1>8. CASE Counts
  BY <1>8 DEF Counts, outside
<1>9. CASE Stores
  BY <1>9 DEF Stores, At_, outside
<1>10. CASE Lost
  BY <1>10 DEF Lost, outside
<1>11. CASE SourceCheck
  BY <1>11 DEF SourceCheck, media, outside
<1>12. CASE Pull
  BY <1>12 DEF Pull, At_, outside
<1>13. CASE Pulled
  BY <1>13 DEF Pulled, At_, outside
<1>14. CASE Detect
  BY <1>14 DEF Detect, At_, outside
<1>15. CASE DetectFails
  BY <1>15 DEF DetectFails, Costs, outside
<1>16. CASE Push
  BY <1>16 DEF Push, At_, outside
<1>17. CASE CaptureNothing
  BY <1>17 DEF CaptureNothing, At_, outside
<1>18. CASE SourceEvent
  BY <1>18 DEF SourceEvent, At_
<1>19. CASE Route
  BY <1>19 DEF Route, Costs, media
<1>20. CASE SenderAnswers
  BY <1>20 DEF SenderAnswers, media
<1>21. CASE SenderLost
  BY <1>21 DEF SenderLost, Costs, media
<1>22. CASE Grows
  BY <1>22 DEF Grows
<1>23. \/ UNCHANGED <<thread, routed, sdk, current>>
      \/ Point \/ PointAnew \/ PointNothing \/ Recreate \/ Leave \/ Ends \/ Counts
      \/ Stores \/ Lost \/ SourceCheck \/ Pull \/ Pulled \/ Detect \/ DetectFails \/ Push
      \/ CaptureNothing \/ SourceEvent \/ Route \/ SenderAnswers \/ SenderLost \/ Grows
  BY DEF RcvNext, ControlSteps, ThreadSteps, KeeperSteps, rcvVars, media, presence, outside,
     Connect, Disconnect, Rename, Shutdown, StopThread, Join, PullAudio, AudioPulled,
     SetAdvertising, ReloadDiscovery, KeeperLooks, KeeperCreates, KeeperSettles, KeeperStops,
     ServerChanges, Order
<1> QED
  BY <1>1, <1>2, <1>3, <1>4, <1>5, <1>6, <1>7, <1>8, <1>9, <1>10, <1>11, <1>12, <1>13, <1>14,
     <1>15, <1>16, <1>17, <1>18, <1>19, <1>20, <1>21, <1>22, <1>23

\* What is recorded of the SDK outside of a command is a route.
LEMMA OwnSwitchUnseen ==
    ASSUME CommandOK, ThreadOK, RouteInv, [RcvNext]_rcvVars
    PROVE  current' # current => command.at = "point" \/ routed
<1> USE DEF RouteInv
<1>1. CASE UNCHANGED current
  BY <1>1
<1>2. CASE Point
  BY <1>2 DEF Point, Pointed, Started, NoCommand
<1>3. CASE PointAnew
  BY <1>3 DEF PointAnew, Pointed, Started, NoThread, NoCommand, Costs
<1>4. CASE PointNothing
  BY <1>4 DEF PointNothing, NoThread, NoCommand
<1>5. CASE Recreate
  BY <1>5 DEF Recreate, Pointed, Started, NoThread, NoCommand, Costs, Registers
<1>6. CASE SourceCheck
  BY <1>6 DEF SourceCheck, CheckDue, ThreadOK
<1>7. CASE SourceEvent
  BY <1>7 DEF SourceEvent, At_
<1>8. \/ UNCHANGED current
      \/ Point \/ PointAnew \/ PointNothing \/ Recreate \/ SourceCheck \/ SourceEvent
  BY DEF RcvNext, ControlSteps, ThreadSteps, KeeperSteps, rcvVars, media, presence, outside,
     Connect, Disconnect, Rename, Shutdown, StopThread, Join, Leave, Ends, Counts, Stores,
     Lost, Pull, Pulled, Detect, DetectFails, Push, CaptureNothing, PullAudio, AudioPulled,
     SetAdvertising, ReloadDiscovery, KeeperLooks, KeeperCreates, KeeperSettles, KeeperStops,
     Route, SenderAnswers, SenderLost, ServerChanges, Grows, Order
<1> QED
  BY <1>1, <1>2, <1>3, <1>4, <1>5, <1>6, <1>7, <1>8

\* Every step keeps the invariant.
LEMMA RcvInvKept ==
    ASSUME RcvInv, [RcvNext]_rcvVars
    PROVE  RcvInv'
  BY RecordsKept, HandleKept, RegistrationKept, FrameKept, RouteKept DEF RcvInv, RecordsOK

\* The receiver begins without a source and with a thread that has seen nothing.
LEMMA RcvInvAtFirst ==
    ASSUME RcvInit
    PROVE  RcvInv
<1> USE ReceiverAssumption DEF ReceiverAssumption, RcvInit
<1>1. CommandOK /\ current \in KnownSources
  BY DEF CommandOK, NoCommand, KnownSources
<1>2. ThreadOK /\ DeliveredOK
  BY DEF ThreadOK, NoThread, DeliveredOK
<1>3. SdkOK
  BY DEF SdkOK, KnownSources
<1>4. KeeperOK /\ ServersOK
  BY DEF KeeperOK, ServersOK, KnownServers
<1>5. SpentOK
  BY DEF SpentOK, Budgets, Unused
<1>6. HandlesOK /\ FailedOK
  BY DEF HandlesOK, FailedOK
<1>11. FlagsOK
  BY DEF FlagsOK
<1>7. HandleInv
  BY DEF HandleInv, FrameSyncInUseIsAlive, NoCommand, NoThread
<1>8. RegistrationIsCurrent
  BY DEF RegistrationIsCurrent
<1>9. FrameInv
  BY DEF FrameInv, FirstFrameDecides, NoThread
<1>10. RouteInv
  BY DEF RouteInv, NoThread
<1> QED
  BY <1>1, <1>2, <1>3, <1>4, <1>5, <1>6, <1>7, <1>8, <1>9, <1>10, <1>11
  DEF RcvInv, RecordsOK

-------------------------------------------------------------------------------
\* The invariant holds of every behaviour of the receiver.
THEOREM RcvInvHolds == RcvSpec => []RcvInv
<1> QED
  BY RcvInvAtFirst, RcvInvKept, PTL DEF RcvSpec

\* The values stay in their sets, whoever is inside a capture has a live handle
\* of the instance in use, the registration is that of the instance in use with
\* the server configured now, a frame is pushed only where the SDK refused a
\* FrameSync for this connection, and only a controller's choice is recorded
\* as a route (stop_thread, recv_thread, pull_audio, advertiser_thread).
THEOREM ReceiverPromisesHold == RcvSpec => ReceiverPromises
<1>1. ASSUME RcvInv
      PROVE  /\ RcvTypeOK /\ FrameSyncInUseIsAlive
             /\ RegistrationIsCurrent /\ FirstFrameDecides
  <2>1. {instance, framesync, registered} \subseteq 0 .. 1 + RcvCommands
    BY <1>1, ReceiverAssumption DEF ReceiverAssumption, RcvInv, RecordsOK, HandlesOK
  <2>2. RcvTypeOK
    BY <1>1, <2>1
    DEF RcvTypeOK, RcvInv, RecordsOK, CommandOK, ThreadOK, SdkOK, KeeperOK, ServersOK, FlagsOK,
        DeliveredOK, KnownSources, KnownServers
  <2> QED
    BY <1>1, <2>2 DEF RcvInv, HandleInv, FrameInv
<1>2. ASSUME RcvInv, [RcvNext]_rcvVars
      PROVE  [current' # current => command.at = "point" \/ routed]_rcvVars
  BY <1>2, OwnSwitchUnseen DEF RcvInv, RecordsOK
<1> QED
  BY <1>1, <1>2, RcvInvHolds, PTL DEF RcvSpec, ReceiverPromises, OwnSwitchIsNotARoute

--------------------------------------------------------------------------------
(* The display.                                                                *)

\* The display by itself.
DispSpec == DispInit /\ [][DispNext]_dispVars

-------------------------------------------------------------------------------
(* The inductive invariant.                                                    *)

CrtcModes == DispModes \cup {0}

\* The values of the variables, part by part.
CrtcOK ==
    /\ mode \in CrtcModes /\ active \in BOOLEAN /\ cur \in Buffers /\ flip \in BOOLEAN
    /\ kernel \in [front : Buffers \cup {NoBuffer}, queued : Buffers \cup {NoBuffer},
                   event : BOOLEAN, turned : BOOLEAN]
    /\ turn \in [wanted : BOOLEAN, dirty : BOOLEAN]
PolicyOK ==
    policy \in [auto : BOOLEAN, matched : CrtcModes, failed : CrtcModes,
                lock : {"nobody", "receiver", "request"}]
RequestOK ==
    request \in [kind : {"none", "manual", "auto", "rotate"}, mode : CrtcModes, late : BOOLEAN]
ThreadsOK ==
    /\ holder \in {"nobody", "painter", "splash", "receiver", "request"}
    /\ ready \in BOOLEAN /\ waiting \in BOOLEAN /\ stale \in BOOLEAN
    /\ painter \in {"idle", "due", "painting"} /\ splash \in {"none", "wanted", "drawing"}
    /\ matcher \in {"idle", "seen", "setting"}
    /\ format \in CrtcModes

\* The kernel has the buffer before the one to be painted, queued or on the
\* screen; while one is queued the screen may show the one before that.
Behind(n) == (cur + 3 - n) % 3
RingInv ==
    IF kernel.queued = NoBuffer
    THEN kernel.front \in {NoBuffer, Behind(1)}
    ELSE kernel.queued = Behind(1) /\ kernel.front \in {NoBuffer, Behind(2)}

\* A plane that is turned has an atomic commit coming, whatever was given up.
TurnInv == kernel.turned => Atomic

\* Who holds a mutex, and what was decided under the policy's.
MutexInv ==
    /\ matcher = "setting" => policy.lock = "receiver" /\ policy.auto
    /\ holder = "receiver" => matcher = "setting"
    /\ policy.lock = "receiver" => matcher = "setting"
    /\ policy.lock = "request" => ready /\ request.kind \in {"manual", "auto"}
    /\ holder = "request" => policy.lock = "request" /\ request.kind = "manual"
    /\ matcher # "idle" => ready /\ format # 0
    /\ request.kind # "none" => ready

DispInv ==
    /\ CrtcOK /\ PolicyOK /\ RequestOK /\ ThreadsOK
    /\ RingInv /\ TurnInv /\ MutexInv

-------------------------------------------------------------------------------
(* The ring of three buffers.                                                  *)

\* CrtcModes are numbers, and 0 is the one before the first.
LEMMA ModesAreNumbers == CrtcModes \subseteq Nat
  BY DisplayAssumption DEF DisplayAssumption, CrtcModes

\* One step on, what was painted is one behind and what was one behind is two;
\* neither is the buffer to be painted.
LEMMA RingTurns ==
    ASSUME cur \in Buffers
    PROVE  /\ Advanced \in Buffers
           /\ (Advanced + 3 - 1) % 3 = cur /\ (Advanced + 3 - 2) % 3 = Behind(1)
           /\ Behind(1) \in Buffers \ {cur} /\ Behind(2) \in Buffers \ {cur}
<1>1. cur = 0 \/ cur = 1 \/ cur = 2
  BY DEF Buffers
<1>2. CASE cur = 0
  BY <1>2 DEF Buffers, Advanced, Behind
<1>3. CASE cur = 1
  BY <1>3 DEF Buffers, Advanced, Behind
<1>4. CASE cur = 2
  BY <1>4 DEF Buffers, Advanced, Behind
<1> QED
  BY <1>1, <1>2, <1>3, <1>4

\* The parts of the kernel's state, read one by one.
LEMMA KernelFields ==
    ASSUME CrtcOK
    PROVE  /\ kernel.front \in Buffers \cup {NoBuffer}
           /\ kernel.queued \in Buffers \cup {NoBuffer}
           /\ kernel.event \in BOOLEAN /\ kernel.turned \in BOOLEAN
           /\ turn.wanted \in BOOLEAN /\ turn.dirty \in BOOLEAN
           /\ NoBuffer \notin Buffers
  BY DEF CrtcOK, NoBuffer, Buffers

\* A painted buffer that is handed over, shown or queued, keeps the ring.
LEMMA HandedOver ==
    ASSUME CrtcOK, RingInv, cur' = Advanced,
           \/ kernel'.front = cur /\ kernel'.queued = NoBuffer
           \/ kernel'.queued = cur /\ kernel'.front = NoBuffer
           \/ kernel'.queued = cur /\ kernel'.front = kernel.front /\ kernel.queued = NoBuffer
    PROVE  RingInv'
<1>1. cur \in Buffers /\ cur # NoBuffer
  BY DEF CrtcOK, Buffers, NoBuffer
<1>2. Behind(1)' = cur /\ Behind(2)' = Behind(1)
  BY <1>1, RingTurns DEF Behind
<1>3. CASE kernel'.front = cur /\ kernel'.queued = NoBuffer
  BY <1>2, <1>3 DEF RingInv
<1>4. CASE kernel'.queued = cur /\ kernel'.front = NoBuffer
  BY <1>1, <1>2, <1>4 DEF RingInv
<1>5. CASE kernel'.queued = cur /\ kernel'.front = kernel.front /\ kernel.queued = NoBuffer
  BY <1>1, <1>2, <1>5 DEF RingInv
<1> QED
  BY <1>3, <1>4, <1>5

\* What handing a painted buffer to the CRTC does: the ring turns by one or not
\* at all, and what comes to be shown is turned as the renderer believes.
LEMMA CommitEffect ==
    ASSUME CommitFb, CrtcOK, UNCHANGED mode
    PROVE  /\ CrtcOK'
           /\ RingInv => RingInv'
           /\ TurnInv => TurnInv'
           /\ TurnInv /\ cur' # cur => kernel'.turned = turn'.wanted
<1> DEFINE Goal == /\ CrtcOK'
                   /\ RingInv => RingInv'
                   /\ TurnInv => TurnInv'
                   /\ TurnInv /\ cur' # cur => kernel'.turned = turn'.wanted
<1> USE KernelFields, RingTurns
<1>0. cur \in Buffers /\ active \in BOOLEAN /\ flip \in BOOLEAN
  BY DEF CrtcOK
<1>1. ASSUME AtomicFlip(turn.wanted) \/ AtomicFlip(FALSE), kernel.queued = NoBuffer
      PROVE  Goal
  <2>1. PICK t \in {turn.wanted, FALSE} : AtomicFlip(t)
    BY <1>1
  <2>2. t \in BOOLEAN
    BY <2>1
  <2>3. /\ kernel' = [kernel EXCEPT !.queued = cur, !.event = Unread, !.turned = t]
        /\ flip' = TRUE /\ cur' = Advanced /\ active' = TRUE
        /\ turn' = [wanted |-> t, dirty |-> FALSE]
    BY <2>1 DEF AtomicFlip
  <2>4. Unread \in BOOLEAN
    BY DEF Unread
  <2>5. CrtcOK'
    BY <1>0, <2>2, <2>3, <2>4 DEF CrtcOK
  <2>6. kernel'.queued = cur /\ kernel'.front = kernel.front /\ kernel'.turned = t /\ turn'.wanted = t
    BY <2>3 DEF CrtcOK
  <2>7. RingInv => RingInv'
    BY <1>1, <2>3, <2>6, HandedOver
  <2> QED
    BY <2>5, <2>6, <2>7 DEF TurnInv, Atomic
<1>2. ASSUME ~Atomic, SetCrtc \/ Fallback
      PROVE  Goal
  <2>1. /\ kernel'.front = cur /\ kernel'.queued = NoBuffer /\ kernel'.turned = kernel.turned
        /\ cur' = Advanced /\ turn' = turn
    BY <1>2 DEF SetCrtc, Fallback, CrtcOK
  <2>2. CrtcOK'
    BY <1>0, <1>2 DEF SetCrtc, Fallback, CrtcOK
  <2>3. RingInv => RingInv'
    BY <2>1, HandedOver
  <2> QED
    BY <1>2, <2>1, <2>2, <2>3 DEF TurnInv, Atomic
<1>3. ASSUME ~Atomic, PageFlip, kernel.queued = NoBuffer
      PROVE  Goal
  <2>1. /\ kernel'.front = kernel.front /\ kernel'.queued = cur /\ kernel'.turned = kernel.turned
        /\ cur' = Advanced /\ turn' = turn
    BY <1>3 DEF PageFlip, CrtcOK
  <2>2. CrtcOK'
    BY <1>0, <1>3 DEF PageFlip, CrtcOK, Unread
  <2>3. RingInv => RingInv'
    BY <1>3, <2>1, HandedOver
  <2> QED
    BY <1>3, <2>1, <2>2, <2>3 DEF TurnInv, Atomic
<1>4. ASSUME Dropped \/ Busy \/ NotTaken
      PROVE  Goal
  <2>1. /\ cur' = cur /\ active' = active /\ flip' \in BOOLEAN
        /\ kernel' = kernel \/ kernel' = [kernel EXCEPT !.event = Unread]
        /\ turn' = turn \/ (turn.wanted /\ turn' = Unturned)
    BY <1>0, <1>4 DEF Dropped, AfterDrop, Busy, NotTaken, MayGiveUp
  <2>2. /\ kernel'.front = kernel.front /\ kernel'.queued = kernel.queued
        /\ kernel'.turned = kernel.turned
    BY <2>1 DEF CrtcOK
  <2>a. Unread \in BOOLEAN
    BY DEF Unread
  <2>b. kernel' \in [front : Buffers \cup {NoBuffer}, queued : Buffers \cup {NoBuffer},
                    event : BOOLEAN, turned : BOOLEAN]
    BY <2>1, <2>a DEF CrtcOK
  <2>c. turn' \in [wanted : BOOLEAN, dirty : BOOLEAN]
    <3>1. turn \in [wanted : BOOLEAN, dirty : BOOLEAN]
      BY DEF CrtcOK
    <3>2. Unturned \in [wanted : BOOLEAN, dirty : BOOLEAN]
      BY DEF Unturned
    <3> QED
      BY <2>1, <3>1, <3>2
  <2>3. CrtcOK'
    BY <1>0, <2>1, <2>b, <2>c DEF CrtcOK
  <2>4. RingInv => RingInv'
    BY <2>1, <2>2 DEF RingInv, Behind
  <2>5. TurnInv => TurnInv'
    BY <2>1, <2>2 DEF TurnInv, Atomic, Unturned
  <2> QED
    BY <2>1, <2>3, <2>4, <2>5
<1>5. \/ (AtomicFlip(turn.wanted) \/ AtomicFlip(FALSE)) /\ kernel.queued = NoBuffer
      \/ ~Atomic /\ (SetCrtc \/ Fallback)
      \/ ~Atomic /\ PageFlip /\ kernel.queued = NoBuffer
      \/ Dropped \/ Busy \/ NotTaken
  BY DEF CommitFb, AtomicCommit, RotationGivenUp, Legacy
<1> QED
  BY <1>1, <1>2, <1>3, <1>4, <1>5

\* What setting a mode does, with the black buffer it commits.
LEMMA SetModeEffect ==
    ASSUME NEW m \in CrtcModes, SetMode(m), CrtcOK
    PROVE  /\ CrtcOK'
           /\ RingInv => RingInv'
           /\ TurnInv => TurnInv'
           /\ TurnInv /\ cur' # cur => kernel'.turned = turn'.wanted
<1> DEFINE Goal == /\ CrtcOK'
                   /\ RingInv => RingInv'
                   /\ TurnInv => TurnInv'
                   /\ TurnInv /\ cur' # cur => kernel'.turned = turn'.wanted
<1> USE KernelFields, RingTurns
<1>0. cur \in Buffers /\ active \in BOOLEAN /\ flip \in BOOLEAN /\ mode \in CrtcModes
  BY DEF CrtcOK
<1>1. CASE UNCHANGED crtc
  BY <1>1 DEF crtc, CrtcOK, RingInv, Behind, TurnInv, Atomic
<1>2. ASSUME ~Atomic, mode' = m, SetCrtc
      PROVE  Goal
  <2>1. /\ kernel'.front = cur /\ kernel'.queued = NoBuffer /\ kernel'.turned = kernel.turned
        /\ cur' = Advanced /\ turn' = turn
    BY <1>2 DEF SetCrtc, CrtcOK
  <2>a. kernel' \in [front : Buffers \cup {NoBuffer}, queued : Buffers \cup {NoBuffer},
                    event : BOOLEAN, turned : BOOLEAN]
    BY <1>0, <1>2 DEF SetCrtc, CrtcOK
  <2>b. /\ mode' = m /\ active' = TRUE /\ cur' = Advanced /\ flip' = flip /\ turn' = turn
        /\ turn \in [wanted : BOOLEAN, dirty : BOOLEAN]
    BY <1>2 DEF SetCrtc, CrtcOK
  <2>2. CrtcOK'
    BY <1>0, <2>a, <2>b DEF CrtcOK
  <2>3. RingInv => RingInv'
    BY <2>1, HandedOver
  <2> QED
    BY <1>2, <2>1, <2>2, <2>3 DEF TurnInv, Atomic
<1>3. ASSUME mode' = m, flip' = TRUE, cur' = Advanced, active' = TRUE,
             kernel' = [front |-> NoBuffer, queued |-> cur, event |-> Unread,
                        turned |-> turn.wanted],
             turn' = [turn EXCEPT !.dirty = FALSE]
      PROVE  Goal
  <2>1. Unread \in BOOLEAN
    BY DEF Unread
  <2>2. CrtcOK'
    BY <1>0, <1>3, <2>1 DEF CrtcOK
  <2>3. RingInv => RingInv'
    BY <1>3, HandedOver
  <2>4. kernel'.turned = turn'.wanted
    BY <1>3 DEF CrtcOK
  <2> QED
    BY <2>2, <2>3, <2>4 DEF TurnInv, Atomic
<1>4. ASSUME mode' = m, active' = FALSE, UNCHANGED <<cur, flip>>,
             kernel' = [kernel EXCEPT !.front = NoBuffer, !.queued = NoBuffer],
             turn' \in {turn} \cup MayGiveUp
      PROVE  Goal
  <2>1. turn' = turn \/ (turn.wanted /\ turn' = Unturned)
    BY <1>4 DEF MayGiveUp
  <2>a. turn' \in [wanted : BOOLEAN, dirty : BOOLEAN]
    <3>1. turn \in [wanted : BOOLEAN, dirty : BOOLEAN]
      BY DEF CrtcOK
    <3>2. Unturned \in [wanted : BOOLEAN, dirty : BOOLEAN]
      BY DEF Unturned
    <3> QED
      BY <2>1, <3>1, <3>2
  <2>2. CrtcOK'
    BY <1>0, <1>4, <2>a DEF CrtcOK
  <2>3. RingInv'
    BY <1>4 DEF RingInv, CrtcOK
  <2>4. TurnInv => TurnInv'
    BY <1>4, <2>1 DEF TurnInv, Atomic, Unturned, CrtcOK
  <2> QED
    BY <1>4, <2>2, <2>3, <2>4
<1> QED
  BY <1>1, <1>2, <1>3, <1>4 DEF SetMode

-------------------------------------------------------------------------------
(* Every step keeps the invariant.                                             *)

\* The CRTC keeps its types.
LEMMA CrtcKept ==
    ASSUME CrtcOK, PolicyOK, RequestOK, ThreadsOK, [DispNext]_dispVars
    PROVE  CrtcOK'
<1>1. CASE UNCHANGED <<mode, active, cur, flip, kernel, turn>>
  BY <1>1 DEF CrtcOK
<1>2. CASE Painted
  BY <1>2, CommitEffect DEF Painted
<1>3. CASE Splashed
  BY <1>3, CommitEffect DEF Splashed
<1>4. CASE Match
  <2>1. format \in CrtcModes
    BY DEF ThreadsOK
  <2> QED
    BY <1>4, <2>1, SetModeEffect DEF Match
<1>5. CASE Manual
  <2>1. request.mode \in CrtcModes
    BY DEF RequestOK
  <2> QED
    BY <1>5, <2>1, SetModeEffect DEF Manual
<1>6. CASE Rotate
  BY <1>6 DEF CrtcOK, Rotate, Answered, NoRequest
<1>7. CASE Hotplug
  <2>1. mode' \in CrtcModes /\ active' = FALSE /\ UNCHANGED <<cur, flip, kernel, turn>>
    BY <1>7 DEF Hotplug, CrtcModes
  <2> QED
    BY <2>1 DEF CrtcOK
<1>8. CASE FlipDone
  BY <1>8 DEF CrtcOK, FlipDone
<1>9. CASE FlipLost
  BY <1>9 DEF CrtcOK, FlipLost
<1>10. CASE HealthCheck
  BY <1>10 DEF CrtcOK, HealthCheck
<1>11. \/ UNCHANGED <<mode, active, cur, flip, kernel, turn>>
      \/ Painted \/ Splashed \/ Match \/ Manual \/ Rotate \/ Hotplug \/ FlipDone
      \/ FlipLost \/ HealthCheck
  BY DEF DispNext, PainterSteps, MatchSteps, AskSteps, dispVars, crtc, threads, FrameDue,
     FrameSkipped, Paint, WantSplash, Splash, MatchSeen, MatchSkipped, MatchBegins,
     MatchLocks, MatchBusy, RetryAllowed, Ask, RequestExpires, AskLocks, AskFails, AutoOn,
     ManualLocks, ManualLate, RotateRefused, FormatChanges, Ages
<1> QED
  BY <1>1, <1>2, <1>3, <1>4, <1>5, <1>6, <1>7, <1>8, <1>9, <1>10, <1>11

\* The kernel stays one or two buffers behind.
LEMMA RingKept ==
    ASSUME CrtcOK, RequestOK, ThreadsOK, RingInv, [DispNext]_dispVars
    PROVE  RingInv'
<1>1. CASE UNCHANGED <<cur, kernel>>
  BY <1>1 DEF RingInv, Behind
<1>2. CASE Painted
  BY <1>2, CommitEffect DEF Painted
<1>3. CASE Splashed
  BY <1>3, CommitEffect DEF Splashed
<1>4. CASE Match
  <2>1. format \in CrtcModes
    BY DEF ThreadsOK
  <2> QED
    BY <1>4, <2>1, SetModeEffect DEF Match
<1>5. CASE Manual
  <2>1. request.mode \in CrtcModes
    BY DEF RequestOK
  <2> QED
    BY <1>5, <2>1, SetModeEffect DEF Manual
<1>6. CASE FlipDone
  BY <1>6 DEF CrtcOK, RingInv, Behind, FlipDone
<1>7. CASE FlipLost
  BY <1>7 DEF CrtcOK, RingInv, Behind, FlipLost
<1>8. \/ UNCHANGED <<cur, kernel>>
      \/ Painted \/ Splashed \/ Match \/ Manual \/ FlipDone \/ FlipLost
  BY DEF DispNext, PainterSteps, MatchSteps, AskSteps, dispVars, crtc, threads, FrameDue,
     FrameSkipped, Paint, WantSplash, Splash, MatchSeen, MatchSkipped, MatchBegins,
     MatchLocks, MatchBusy, RetryAllowed, Ask, RequestExpires, AskLocks, AskFails, AutoOn,
     ManualLocks, ManualLate, Rotate, RotateRefused, Hotplug, FormatChanges, Ages,
     HealthCheck
<1> QED
  BY <1>1, <1>2, <1>3, <1>4, <1>5, <1>6, <1>7, <1>8

\* A turned plane stays bound to be reset.
LEMMA TurnKept ==
    ASSUME CrtcOK, RequestOK, ThreadsOK, TurnInv, [DispNext]_dispVars
    PROVE  TurnInv'
<1>1. CASE UNCHANGED <<kernel, turn>>
  BY <1>1 DEF TurnInv, Atomic
<1>2. CASE Painted
  BY <1>2, CommitEffect DEF Painted
<1>3. CASE Splashed
  BY <1>3, CommitEffect DEF Splashed
<1>4. CASE Match
  <2>1. format \in CrtcModes
    BY DEF ThreadsOK
  <2> QED
    BY <1>4, <2>1, SetModeEffect DEF Match
<1>5. CASE Manual
  <2>1. request.mode \in CrtcModes
    BY DEF RequestOK
  <2> QED
    BY <1>5, <2>1, SetModeEffect DEF Manual
<1>6. CASE Rotate
  BY <1>6 DEF CrtcOK, TurnInv, Atomic, Rotate, Answered, NoRequest
<1>7. CASE FlipDone
  BY <1>7 DEF CrtcOK, TurnInv, Atomic, FlipDone
<1>8. CASE FlipLost
  BY <1>8 DEF CrtcOK, TurnInv, Atomic, FlipLost
<1>9. \/ UNCHANGED <<kernel, turn>>
      \/ Painted \/ Splashed \/ Match \/ Manual \/ Rotate \/ FlipDone \/ FlipLost
  BY DEF DispNext, PainterSteps, MatchSteps, AskSteps, dispVars, crtc, threads, FrameDue,
     FrameSkipped, Paint, WantSplash, Splash, MatchSeen, MatchSkipped, MatchBegins,
     MatchLocks, MatchBusy, RetryAllowed, Ask, RequestExpires, AskLocks, AskFails, AutoOn,
     ManualLocks, ManualLate, RotateRefused, Hotplug, FormatChanges, Ages, HealthCheck
<1> QED
  BY <1>1, <1>2, <1>3, <1>4, <1>5, <1>6, <1>7, <1>8, <1>9

\* The policy keeps its types.
LEMMA PolicyKept ==
    ASSUME PolicyOK, ThreadsOK, RequestOK, [DispNext]_dispVars
    PROVE  PolicyOK'
<1> USE DEF PolicyOK, ThreadsOK, CrtcModes
<1>1. CASE UNCHANGED policy
  BY <1>1
<1>2. CASE MatchBegins
  BY <1>2 DEF MatchBegins, StillAutomatic
<1>3. CASE MatchBusy
  BY <1>3 DEF MatchBusy
<1>4. CASE Match
  BY <1>4 DEF Match, Applied
<1>5. CASE RetryAllowed
  BY <1>5 DEF RetryAllowed
<1>6. CASE AskLocks
  BY <1>6 DEF AskLocks
<1>7. CASE AskFails
  BY <1>7 DEF AskFails, Answered, NoRequest
<1>8. CASE AutoOn
  BY <1>8 DEF AutoOn, Answered, NoRequest
<1>9. CASE Manual
  BY <1>9 DEF Manual, Answered, NoRequest, Applied
<1>10. CASE ManualLate
  BY <1>10 DEF ManualLate, Answered, NoRequest
<1>11. CASE Hotplug
  BY <1>11 DEF Hotplug
<1>12. \/ UNCHANGED policy
      \/ MatchBegins \/ MatchBusy \/ Match \/ RetryAllowed \/ AskLocks \/ AskFails
      \/ AutoOn \/ Manual \/ ManualLate \/ Hotplug
  BY DEF DispNext, PainterSteps, MatchSteps, AskSteps, dispVars, crtc, threads, FrameDue,
     FrameSkipped, Paint, Painted, WantSplash, Splash, Splashed, MatchSeen, MatchSkipped,
     MatchLocks, Ask, RequestExpires, ManualLocks, Rotate, RotateRefused, FormatChanges,
     FlipDone, FlipLost, Ages, HealthCheck
<1> QED
  BY <1>1, <1>2, <1>3, <1>4, <1>5, <1>6, <1>7, <1>8, <1>9, <1>10, <1>11, <1>12

\* So does the request under way.
LEMMA RequestKept ==
    ASSUME RequestOK, [DispNext]_dispVars
    PROVE  RequestOK'
<1> USE DEF RequestOK, CrtcModes
<1>1. CASE UNCHANGED request
  BY <1>1
<1>2. CASE Ask
  BY <1>2 DEF Ask, NoRequest
<1>3. CASE RequestExpires
  BY <1>3 DEF RequestExpires
<1>4. CASE AskFails
  BY <1>4 DEF AskFails, Answered, NoRequest
<1>5. CASE AutoOn
  BY <1>5 DEF AutoOn, Answered, NoRequest
<1>6. CASE Manual
  BY <1>6 DEF Manual, Answered, NoRequest, Applied
<1>7. CASE ManualLate
  BY <1>7 DEF ManualLate, Answered, NoRequest
<1>8. CASE Rotate
  BY <1>8 DEF Rotate, Answered, NoRequest
<1>9. CASE RotateRefused
  BY <1>9 DEF RotateRefused, Answered, NoRequest
<1>10. \/ UNCHANGED request
      \/ Ask \/ RequestExpires \/ AskFails \/ AutoOn \/ Manual \/ ManualLate \/ Rotate
      \/ RotateRefused
  BY DEF DispNext, PainterSteps, MatchSteps, AskSteps, dispVars, crtc, threads, FrameDue,
     FrameSkipped, Paint, Painted, WantSplash, Splash, Splashed, MatchSeen, MatchSkipped,
     MatchBegins, MatchLocks, MatchBusy, Match, RetryAllowed, AskLocks, ManualLocks,
     Hotplug, FormatChanges, FlipDone, FlipLost, Ages, HealthCheck
<1> QED
  BY <1>1, <1>2, <1>3, <1>4, <1>5, <1>6, <1>7, <1>8, <1>9, <1>10

\* So do the threads.
LEMMA ThreadsKept ==
    ASSUME ThreadsOK, [DispNext]_dispVars
    PROVE  ThreadsOK'
<1> USE DEF ThreadsOK, CrtcModes
<1>1. CASE UNCHANGED <<holder, ready, waiting, stale, painter, splash, matcher, format>>
  BY <1>1
<1>2. CASE FrameDue
  BY <1>2 DEF FrameDue
<1>3. CASE FrameSkipped
  BY <1>3 DEF FrameSkipped
<1>4. CASE Paint
  BY <1>4 DEF Paint
<1>5. CASE Painted
  BY <1>5 DEF Painted
<1>6. CASE WantSplash
  BY <1>6 DEF WantSplash
<1>7. CASE Splash
  BY <1>7 DEF Splash
<1>8. CASE Splashed
  BY <1>8 DEF Splashed
<1>9. CASE MatchSeen
  BY <1>9 DEF MatchSeen
<1>10. CASE MatchSkipped
  BY <1>10 DEF MatchSkipped
<1>11. CASE MatchBegins
  BY <1>11 DEF MatchBegins, StillAutomatic
<1>12. CASE MatchLocks
  BY <1>12 DEF MatchLocks, threads
<1>13. CASE MatchBusy
  BY <1>13 DEF MatchBusy
<1>14. CASE Match
  BY <1>14 DEF Match, Applied
<1>15. CASE AskLocks
  BY <1>15 DEF AskLocks, threads
<1>16. CASE AskFails
  BY <1>16 DEF AskFails, Answered, NoRequest
<1>17. CASE ManualLocks
  BY <1>17 DEF ManualLocks, threads
<1>18. CASE Manual
  BY <1>18 DEF Manual, Answered, NoRequest, Applied
<1>19. CASE ManualLate
  BY <1>19 DEF ManualLate, Answered, NoRequest
<1>20. CASE Hotplug
  BY <1>20 DEF Hotplug
<1>21. CASE FormatChanges
  BY <1>21 DEF FormatChanges
<1>22. CASE Ages
  BY <1>22 DEF Ages
<1>23. \/ UNCHANGED <<holder, ready, waiting, stale, painter, splash, matcher, format>>
      \/ FrameDue \/ FrameSkipped \/ Paint \/ Painted \/ WantSplash \/ Splash
      \/ Splashed \/ MatchSeen \/ MatchSkipped \/ MatchBegins \/ MatchLocks \/ MatchBusy
      \/ Match \/ AskLocks \/ AskFails \/ ManualLocks \/ Manual \/ ManualLate \/ Hotplug
      \/ FormatChanges \/ Ages
  BY DEF DispNext, PainterSteps, MatchSteps, AskSteps, dispVars, crtc, threads,
     RetryAllowed, Ask, RequestExpires, AutoOn, Rotate, RotateRefused, FlipDone, FlipLost,
     HealthCheck
<1> QED
  BY <1>1, <1>2, <1>3, <1>4, <1>5, <1>6, <1>7, <1>8, <1>9, <1>10, <1>11, <1>12, <1>13,
     <1>14, <1>15, <1>16, <1>17, <1>18, <1>19, <1>20, <1>21, <1>22, <1>23

\* What was decided under a mutex stays decided until it is released.
LEMMA MutexKept ==
    ASSUME MutexInv, PolicyOK, RequestOK, [DispNext]_dispVars
    PROVE  MutexInv'
<1> USE DEF MutexInv, PolicyOK, RequestOK
<1>1. CASE UNCHANGED <<matcher, policy, holder, request, ready, format>>
  BY <1>1
<1>2. CASE Paint
  BY <1>2 DEF Paint
<1>3. CASE Painted
  BY <1>3 DEF Painted
<1>4. CASE Splash
  BY <1>4 DEF Splash
<1>5. CASE Splashed
  BY <1>5 DEF Splashed
<1>6. CASE MatchSeen
  BY <1>6 DEF MatchSeen
<1>7. CASE MatchSkipped
  BY <1>7 DEF MatchSkipped
<1>8. CASE MatchBegins
  BY <1>8 DEF MatchBegins, StillAutomatic
<1>9. CASE MatchLocks
  BY <1>9 DEF MatchLocks, threads
<1>10. CASE MatchBusy
  BY <1>10 DEF MatchBusy
<1>11. CASE Match
  BY <1>11 DEF Match, Applied
<1>12. CASE RetryAllowed
  BY <1>12 DEF RetryAllowed, threads
<1>13. CASE Ask
  BY <1>13 DEF Ask, NoRequest
<1>14. CASE RequestExpires
  BY <1>14 DEF RequestExpires
<1>15. CASE AskLocks
  BY <1>15 DEF AskLocks, threads
<1>16. CASE AskFails
  BY <1>16 DEF AskFails, Answered, NoRequest
<1>17. CASE AutoOn
  BY <1>17 DEF AutoOn, Answered, NoRequest
<1>18. CASE ManualLocks
  BY <1>18 DEF ManualLocks, threads
<1>19. CASE Manual
  BY <1>19 DEF Manual, Answered, NoRequest, Applied
<1>20. CASE ManualLate
  BY <1>20 DEF ManualLate, Answered, NoRequest
<1>21. CASE Rotate
  BY <1>21 DEF Rotate, Answered, NoRequest
<1>22. CASE RotateRefused
  BY <1>22 DEF RotateRefused, Answered, NoRequest
<1>23. CASE Hotplug
  BY <1>23 DEF Hotplug
<1>24. CASE FormatChanges
  BY <1>24 DEF FormatChanges
<1>25. \/ UNCHANGED <<matcher, policy, holder, request, ready, format>>
      \/ Paint \/ Painted \/ Splash \/ Splashed \/ MatchSeen \/ MatchSkipped
      \/ MatchBegins \/ MatchLocks \/ MatchBusy \/ Match \/ RetryAllowed \/ Ask
      \/ RequestExpires \/ AskLocks \/ AskFails \/ AutoOn \/ ManualLocks \/ Manual
      \/ ManualLate \/ Rotate \/ RotateRefused \/ Hotplug \/ FormatChanges
  BY DEF DispNext, PainterSteps, MatchSteps, AskSteps, dispVars, crtc, threads, FrameDue,
     FrameSkipped, WantSplash, FlipDone, FlipLost, Ages, HealthCheck
<1> QED
  BY <1>1, <1>2, <1>3, <1>4, <1>5, <1>6, <1>7, <1>8, <1>9, <1>10, <1>11, <1>12, <1>13,
     <1>14, <1>15, <1>16, <1>17, <1>18, <1>19, <1>20, <1>21, <1>22, <1>23, <1>24, <1>25

-------------------------------------------------------------------------------
(* What a step may do to the screen, to the mode and to the policy.            *)

\* A buffer handed to the CRTC is turned as the renderer believes.
LEMMA ShownIsTurned ==
    ASSUME CrtcOK, RequestOK, ThreadsOK, TurnInv, [DispNext]_dispVars
    PROVE  cur' # cur => kernel'.turned = turn'.wanted
<1>1. CASE UNCHANGED cur
  BY <1>1
<1>2. CASE Painted
  BY <1>2, CommitEffect DEF Painted
<1>3. CASE Splashed
  BY <1>3, CommitEffect DEF Splashed
<1>4. CASE Match
  <2>1. format \in CrtcModes
    BY DEF ThreadsOK
  <2> QED
    BY <1>4, <2>1, SetModeEffect DEF Match
<1>5. CASE Manual
  <2>1. request.mode \in CrtcModes
    BY DEF RequestOK
  <2> QED
    BY <1>5, <2>1, SetModeEffect DEF Manual
<1>6. \/ UNCHANGED cur
      \/ Painted \/ Splashed \/ Match \/ Manual
  BY DEF DispNext, PainterSteps, MatchSteps, AskSteps, dispVars, crtc, threads, FrameDue,
     FrameSkipped, Paint, WantSplash, Splash, MatchSeen, MatchSkipped, MatchBegins,
     MatchLocks, MatchBusy, RetryAllowed, Ask, RequestExpires, AskLocks, AskFails, AutoOn,
     ManualLocks, ManualLate, Rotate, RotateRefused, Hotplug, FormatChanges, FlipDone,
     FlipLost, Ages, HealthCheck
<1> QED
  BY <1>1, <1>2, <1>3, <1>4, <1>5, <1>6

\* Only an automatic match, or a request in time, changes the mode of a display.
LEMMA ModeChanges ==
    ASSUME MutexInv, [DispNext]_dispVars
    PROVE  /\ mode' # mode /\ ready => policy.auto \/ holder = "request"
           /\ mode' # mode /\ holder = "request" => ~request.late
<1> USE DEF MutexInv
<1>1. CASE UNCHANGED mode
  BY <1>1
<1>2. CASE Match
  BY <1>2 DEF Match
<1>3. CASE Manual
  BY <1>3 DEF Manual, BeforeDeadline
<1>4. CASE Hotplug
  BY <1>4 DEF Hotplug
<1>5. \/ UNCHANGED mode
      \/ Match \/ Manual \/ Hotplug
  BY DEF DispNext, PainterSteps, MatchSteps, AskSteps, dispVars, crtc, threads, FrameDue,
     FrameSkipped, Paint, Painted, WantSplash, Splash, Splashed, MatchSeen, MatchSkipped,
     MatchBegins, MatchLocks, MatchBusy, RetryAllowed, Ask, RequestExpires, AskLocks,
     AskFails, AutoOn, ManualLocks, ManualLate, Rotate, RotateRefused, FormatChanges,
     FlipDone, FlipLost, Ages, HealthCheck
<1> QED
  BY <1>1, <1>2, <1>3, <1>4, <1>5

\* Only a match that put its mode on a running CRTC is remembered.
LEMMA MatchRemembered ==
    ASSUME PolicyOK, [DispNext]_dispVars
    PROVE  policy'.matched \notin {0, policy.matched} =>
               active' /\ mode' = policy'.matched
<1>1. CASE UNCHANGED policy
  BY <1>1
<1>2. CASE MatchBegins
  BY <1>2 DEF PolicyOK, MatchBegins, StillAutomatic
<1>3. CASE MatchBusy
  BY <1>3 DEF PolicyOK, MatchBusy
<1>4. CASE Match
  BY <1>4 DEF PolicyOK, Match, Applied
<1>5. CASE RetryAllowed
  BY <1>5 DEF PolicyOK, RetryAllowed
<1>6. CASE AskLocks
  BY <1>6 DEF PolicyOK, AskLocks
<1>7. CASE AskFails
  BY <1>7 DEF PolicyOK, AskFails, Answered, NoRequest
<1>8. CASE AutoOn
  BY <1>8 DEF PolicyOK, AutoOn, Answered, NoRequest
<1>9. CASE Manual
  BY <1>9 DEF PolicyOK, Manual, Answered, NoRequest, Applied
<1>10. CASE ManualLate
  BY <1>10 DEF PolicyOK, ManualLate, Answered, NoRequest
<1>11. CASE Hotplug
  BY <1>11 DEF PolicyOK, Hotplug
<1>12. \/ UNCHANGED policy
      \/ MatchBegins \/ MatchBusy \/ Match \/ RetryAllowed \/ AskLocks \/ AskFails
      \/ AutoOn \/ Manual \/ ManualLate \/ Hotplug
  BY DEF DispNext, PainterSteps, MatchSteps, AskSteps, dispVars, crtc, threads, FrameDue,
     FrameSkipped, Paint, Painted, WantSplash, Splash, Splashed, MatchSeen, MatchSkipped,
     MatchLocks, Ask, RequestExpires, ManualLocks, Rotate, RotateRefused, FormatChanges,
     FlipDone, FlipLost, Ages, HealthCheck
<1> QED
  BY <1>1, <1>2, <1>3, <1>4, <1>5, <1>6, <1>7, <1>8, <1>9, <1>10, <1>11, <1>12

LEMMA DispInvKept ==
    ASSUME DispInv, [DispNext]_dispVars
    PROVE  DispInv'
  BY CrtcKept, RingKept, TurnKept, PolicyKept, RequestKept, ThreadsKept, MutexKept DEF
     DispInv

\* Nothing is shown, asked for or decided.
LEMMA DispInvAtFirst ==
    ASSUME DispInit
    PROVE  DispInv
<1> USE DEF DispInit
<1>1. CrtcOK
  <2>1. 0 \in Buffers /\ 0 \in CrtcModes
    BY DEF Buffers, CrtcModes
  <2> QED
    BY <2>1 DEF CrtcOK
<1>2. PolicyOK /\ RequestOK /\ ThreadsOK
  BY DEF PolicyOK, RequestOK, ThreadsOK, CrtcModes, NoRequest
<1>3. RingInv
  BY DEF RingInv
<1>4. TurnInv
  BY DEF TurnInv
<1>5. MutexInv
  BY DEF MutexInv, NoRequest
<1> QED
  BY <1>1, <1>2, <1>3, <1>4, <1>5 DEF DispInv

-------------------------------------------------------------------------------
\* The invariant holds of every behaviour of the display.
THEOREM DispInvHolds == DispSpec => []DispInv
<1> QED
  BY DispInvAtFirst, DispInvKept, PTL DEF DispSpec

\* The values stay in their sets, a buffer is painted only while the screen
\* neither shows it nor is about to, what is put on the screen has the rotation
\* the renderer believes in, a mode set by hand stays until somebody asks, a
\* request past its deadline changes nothing, and a format is remembered as
\* matched only with its mode on a running CRTC (commit_fb, set_mode,
\* set_rotation, match_source, AutoResolutionPolicy.h, ResolutionControl.h).
THEOREM DisplayPromisesHold == DispSpec => DisplayPromises
<1>1. ASSUME DispInv
      PROVE  DispTypeOK /\ PaintsUnseenBuffer
  <2>1. DispTypeOK
    BY <1>1 DEF DispInv, DispTypeOK, CrtcOK, PolicyOK, RequestOK, ThreadsOK, CrtcModes
  <2>2. cur \notin {kernel.front, kernel.queued}
    BY <1>1, RingTurns, KernelFields DEF DispInv, RingInv, CrtcOK, Buffers, NoBuffer
  <2> QED
    BY <2>1, <2>2 DEF PaintsUnseenBuffer
<1>2. ASSUME DispInv, [DispNext]_dispVars
      PROVE  [cur' # cur => kernel'.turned = turn'.wanted]_dispVars
  BY <1>2, ShownIsTurned DEF DispInv
<1>3. ASSUME DispInv, [DispNext]_dispVars
      PROVE  /\ [mode' # mode /\ ready => policy.auto \/ holder = "request"]_dispVars
             /\ [mode' # mode /\ holder = "request" => ~request.late]_dispVars
  <2>1. mode' # mode /\ ready => policy.auto \/ holder = "request"
    BY <1>3, ModeChanges DEF DispInv
  <2>2. mode' # mode /\ holder = "request" => ~request.late
    BY <1>3, ModeChanges DEF DispInv
  <2> QED
    BY <2>1, <2>2
<1>4. ASSUME DispInv, [DispNext]_dispVars
      PROVE  [policy'.matched \notin {0, policy.matched}
                 => active' /\ mode' = policy'.matched]_dispVars
  BY <1>4, MatchRemembered DEF DispInv
<1> QED
  BY <1>1, <1>2, <1>3, <1>4, DispInvHolds, PTL
  DEF DispSpec, DisplayPromises, ShownAsTurned, ManualModeStays, LateRequestsChangeNothing,
      MatchedIsOnScreen

--------------------------------------------------------------------------------
(* The delay queues.                                                           *)

VdSpec == VdInit /\ [][VdNext]_vdVars

\* The larger, and the smaller, of two numbers.
LEMMA Larger ==
    ASSUME NEW a \in Int, NEW b \in Int
    PROVE  Max({a, b}) \in {a, b} /\ Max({a, b}) >= a /\ Max({a, b}) >= b
  BY DEF Max
LEMMA Smaller ==
    ASSUME NEW a \in Int, NEW b \in Int
    PROVE  Min({a, b}) \in {a, b} /\ Min({a, b}) <= a /\ Min({a, b}) <= b
  BY DEF Min

\* A share of the memory.
LEMMA ShareIsNumber ==
    ASSUME NEW budget \in Nat, NEW asked \in [VdQueues -> Nat]
    PROVE  /\ Delaying(asked) \in Nat
           /\ Share(budget, asked) \in Nat /\ Limit(budget, asked) \in Nat
           /\ Limit(budget, asked) >= 2 /\ Limit(budget, asked) <= 2 + Share(budget, asked)
<1>1. Delaying(asked) \in Nat
  BY VideoDelayAssumption, FS_Subset, FS_CardinalityType DEF VideoDelayAssumption, Delaying
<1>2. PICK d \in Nat : d = Delaying(asked)
  BY <1>1
<1>4. Max({1, d}) \in {1, d} /\ Max({1, d}) >= 1
  BY Larger
<1>5. PICK n \in Nat : n = Max({1, d}) /\ n >= 1
  BY <1>4
<1>3. budget \div n \in Nat
  BY <1>5
<1>6. PICK n1 \in Nat : n1 = Share(budget, asked)
  BY <1>2, <1>3, <1>5 DEF Share
<1>7. Min({VdMost, n1}) \in {VdMost, n1} /\ Min({VdMost, n1}) <= n1
  BY Smaller, VideoDelayAssumption DEF VideoDelayAssumption
<1> QED
  BY <1>1, <1>6, <1>7, VideoDelayAssumption DEF Limit, VideoDelayAssumption

\* Only as many of the youngest frames as there is room for.
LEMMA TrimmedKeeps ==
    ASSUME NEW s \in Seq(Nat), NEW n \in Nat, n >= 2
    PROVE  LET t == Trimmed(s, n) IN
           /\ t \in Seq(Nat) /\ Len(t) <= n /\ Len(t) <= Len(s)
           /\ \A i \in 1 .. Len(t) : t[i] = s[i + Len(s) - Len(t)]
<1> DEFINE Kept(t) == /\ t \in Seq(Nat) /\ Len(t) <= n /\ Len(t) <= Len(s)
                      /\ \A i \in 1 .. Len(t) : t[i] = s[i + Len(s) - Len(t)]
<1> SUFFICES Kept(Trimmed(s, n))
  OBVIOUS
<1>1. ASSUME Len(s) <= n PROVE Kept(Trimmed(s, n))
  <2>1. Trimmed(s, n) = s /\ Len(s) \in Nat
    BY <1>1 DEF Trimmed
  <2>2. \A i \in 1 .. Len(s) : i + Len(s) - Len(s) = i
    BY <2>1
  <2> QED
    BY <1>1, <2>1, <2>2
<1>2. ASSUME Len(s) > n PROVE Kept(Trimmed(s, n))
  <2> DEFINE m == Len(s) - n + 1
  <2>1. m \in 1 .. Len(s) /\ Len(s) \in Nat /\ Trimmed(s, n) = SubSeq(s, m, Len(s))
    BY <1>2 DEF Trimmed
  <2>2. /\ SubSeq(s, m, Len(s)) \in Seq(Nat)
        /\ Len(SubSeq(s, m, Len(s))) = n
        /\ \A i \in 1 .. n : SubSeq(s, m, Len(s))[i] = s[m + i - 1]
    BY <1>2, <2>1, SubSeqProperties
  <2> QED
    BY <1>2, <2>1, <2>2
<1>3. Len(s) <= n \/ Len(s) > n
  OBVIOUS
<1> HIDE DEF Kept
<1> QED
  BY <1>1, <1>2, <1>3

\* The room of a queue, and the delay, which leaves two frames of room.
LEMMA RoomAndDelay ==
    ASSUME NEW asked \in Nat, NEW maximum \in Nat, maximum >= 2
    PROVE  /\ Depth(asked, maximum) \in Nat /\ Depth(asked, maximum) >= 2
           /\ Depth(asked, maximum) <= maximum
           /\ asked = 0 => Depth(asked, maximum) = 2
           /\ Delay(asked, maximum) = Depth(asked, maximum) - 2
<1>1. /\ Min({maximum, asked + 2}) \in {maximum, asked + 2}
      /\ Min({maximum, asked + 2}) <= maximum /\ Min({maximum, asked + 2}) <= asked + 2
  BY Smaller
<1>2. /\ Min({asked, maximum - 2}) \in {asked, maximum - 2}
      /\ Min({asked, maximum - 2}) <= asked /\ Min({asked, maximum - 2}) <= maximum - 2
  <2>1. PICK d \in Int : d = maximum - 2
    OBVIOUS
  <2>2. /\ Min({asked, d}) \in {asked, d} /\ Min({asked, d}) <= asked
        /\ Min({asked, d}) <= d
    BY Smaller
  <2> QED
    BY <2>1, <2>2
<1>3. PICK m \in Int, n \in Int :
        /\ m = Min({maximum, asked + 2}) /\ n = Min({asked, maximum - 2})
        /\ m \in {maximum, asked + 2} /\ m <= maximum /\ m <= asked + 2
        /\ n \in {asked, maximum - 2} /\ n <= asked /\ n <= maximum - 2
  BY <1>1, <1>2
<1>4. Depth(asked, maximum) = m /\ Delay(asked, maximum) = n
  BY <1>3 DEF Depth, Delay
<1> QED
  BY <1>3, <1>4

-------------------------------------------------------------------------------
(* The inductive invariant. *)

\* A queue is never fuller than its room.
RoomInv == \A q \in VdQueues :
    vdMaximum[q] >= 2 /\ Len(vdAges[q]) <= Depth(vdAsked[q], vdMaximum[q])

\* A limit that was computed since the last change is the share of today.
ShareInv == \A q \in vdLimited :
    vdAsked[q] > 0 => vdMaximum[q] = Limit(vdBudget, vdAsked)

\* The frames before one in its queue are older, but for the two that a queue
\* without a delay may have taken in one interval.
AgeInv == \A q \in VdQueues : \A i \in 1 .. Len(vdAges[q]) :
    vdAges[q][i] >= Len(vdAges[q]) - i - (IF q \in vdNew THEN 0 ELSE 1)

VdInv == VdTypeOK /\ vdBudget \in Nat /\ vdLimited \subseteq VdQueues
           /\ RoomInv /\ ShareInv /\ AgeInv /\ vdLost = FALSE

LEMMA PushKeeps ==
    ASSUME VdInv, NEW q \in VdQueues, PushFrame(q)
    PROVE  VdInv'
<1> DEFINE maximum == IF vdAsked[q] > 0 THEN Limit(vdBudget, vdAsked) ELSE vdMaximum[q]
           depth == Depth(vdAsked[q], maximum)
           ages == Trimmed(vdAges[q], depth)
           kept == IF Len(ages) < depth THEN ages ELSE Tail(ages)
<1>1. maximum \in Nat /\ maximum >= 2 /\ vdAsked[q] \in Nat /\ vdAges[q] \in Seq(Nat)
  BY ShareIsNumber DEF VdInv, VdTypeOK, RoomInv
<1>2. /\ depth \in Nat /\ depth >= 2 /\ (vdAsked[q] = 0 => depth = 2)
      /\ Delay(vdAsked[q], maximum) = depth - 2
  BY <1>1, RoomAndDelay
<1> HIDE DEF maximum, depth
<1>3. /\ ages \in Seq(Nat) /\ Len(ages) \in Nat /\ Len(ages) <= depth /\ Len(ages) <= Len(vdAges[q])
      /\ \A i \in 1 .. Len(ages) : ages[i] = vdAges[q][i + Len(vdAges[q]) - Len(ages)]
  <2>1. PICK s \in Seq(Nat) : s = vdAges[q]
    BY <1>1
  <2>2. LET t == Trimmed(s, depth) IN
        /\ t \in Seq(Nat) /\ Len(t) <= depth /\ Len(t) <= Len(s)
        /\ \A i \in 1 .. Len(t) : t[i] = s[i + Len(s) - Len(t)]
    BY <1>2, TrimmedKeeps
  <2> QED
    BY <1>2, <2>1, <2>2
<1> HIDE DEF ages
<1>4. \A i \in 1 .. Len(ages) : ages[i] >= Len(ages) - i - (IF q \in vdNew THEN 0 ELSE 1)
  <2> SUFFICES ASSUME NEW i \in 1 .. Len(ages)
               PROVE  ages[i] >= Len(ages) - i - (IF q \in vdNew THEN 0 ELSE 1)
    OBVIOUS
  <2> DEFINE j == i + Len(vdAges[q]) - Len(ages)
  <2>1. Len(vdAges[q]) \in Nat /\ j \in 1 .. Len(vdAges[q])
    BY <1>1, <1>3
  <2>2. vdAges[q][j] >= Len(vdAges[q]) - j - (IF q \in vdNew THEN 0 ELSE 1)
    BY <2>1 DEF VdInv, AgeInv
  <2>3. Len(vdAges[q]) - j = Len(ages) - i
    BY <2>1, <1>3
  <2> QED
    BY <1>3, <2>2, <2>3
<1>5. /\ kept \in Seq(Nat) /\ Len(kept) \in Nat /\ Len(kept) + 1 <= depth
      /\ \A i \in 1 .. Len(kept) :
            kept[i] >= Len(kept) - i - (IF q \in vdNew THEN 0 ELSE 1)
  <2>1. CASE Len(ages) < depth
    BY <1>3, <1>4, <2>1, <1>2
  <2>2. CASE ~(Len(ages) < depth)
    <3>1. Len(ages) = depth /\ ages # <<>>
      BY <1>2, <1>3, <2>2
    <3>2. /\ Tail(ages) \in Seq(Nat) /\ Len(Tail(ages)) = Len(ages) - 1
          /\ \A i \in 1 .. Len(Tail(ages)) : Tail(ages)[i] = ages[i + 1]
      BY <1>3, <3>1, HeadTailProperties
    <3>3. \A i \in 1 .. Len(Tail(ages)) :
             Tail(ages)[i] >= Len(Tail(ages)) - i - (IF q \in vdNew THEN 0 ELSE 1)
      <4> SUFFICES ASSUME NEW i \in 1 .. Len(Tail(ages))
                   PROVE  Tail(ages)[i] >= Len(Tail(ages)) - i - (IF q \in vdNew THEN 0 ELSE 1)
        OBVIOUS
      <4>1. i + 1 \in 1 .. Len(ages)
        BY <1>3, <3>2
      <4>2. ages[i + 1] >= Len(ages) - (i + 1) - (IF q \in vdNew THEN 0 ELSE 1)
        BY <1>4, <4>1
      <4> QED
        BY <1>3, <3>2, <4>1, <4>2
    <3> QED
      BY <1>2, <1>3, <2>2, <3>1, <3>2, <3>3
  <2> QED
    BY <2>1, <2>2
<1>6. ~(Len(ages) >= depth /\ Head(ages) < depth - 2)
  <2> SUFFICES ASSUME Len(ages) >= depth PROVE ~(Head(ages) < depth - 2)
    OBVIOUS
  <2>1. Len(ages) = depth /\ Head(ages) = ages[1] /\ ages[1] \in Nat
    BY <1>2, <1>3
  <2>2. ages[1] >= Len(ages) - 1 - (IF q \in vdNew THEN 0 ELSE 1)
    BY <1>2, <1>4, <2>1
  <2> QED
    BY <1>2, <2>1, <2>2
<1>7. /\ vdMaximum' = [vdMaximum EXCEPT ![q] = maximum] /\ vdLimited' = vdLimited \cup {q}
      /\ vdAges' = [vdAges EXCEPT ![q] = Append(kept, 0)]
      /\ vdLost' = (Len(ages) >= depth /\ Head(ages) < Delay(vdAsked[q], maximum))
      /\ vdNew' = vdNew \ {q} /\ FrameAccepted(q)
      /\ UNCHANGED <<vdAsked, vdBudget>>
  BY DEF PushFrame, maximum, depth, ages
<1> HIDE DEF kept
<1>8. /\ Append(kept, 0) \in Seq(Nat) /\ Len(Append(kept, 0)) = Len(kept) + 1
      /\ \A i \in 1 .. Len(kept) : Append(kept, 0)[i] = kept[i]
      /\ Append(kept, 0)[Len(kept) + 1] = 0
  BY <1>5, AppendProperties
<1>9. \A i \in 1 .. Len(Append(kept, 0)) :
         Append(kept, 0)[i] >= Len(Append(kept, 0)) - i - 1
  <2> SUFFICES ASSUME NEW i \in 1 .. Len(Append(kept, 0))
               PROVE  Append(kept, 0)[i] >= Len(Append(kept, 0)) - i - 1
    OBVIOUS
  <2>1. CASE i = Len(kept) + 1
    BY <1>5, <1>8, <2>1
  <2>2. CASE i # Len(kept) + 1
    <3>1. i \in 1 .. Len(kept) /\ Append(kept, 0)[i] = kept[i] /\ kept[i] \in Nat
      BY <1>5, <1>8, <2>2
    <3>2. CASE q \in vdNew
      BY <1>5, <1>8, <3>1, <3>2
    <3>3. CASE q \notin vdNew
      <4>1. depth = 2
        BY <1>2, <1>7, <3>3, <1>1 DEF FrameAccepted
      <4> QED
        BY <1>5, <1>8, <3>1, <4>1
    <3> QED
      BY <3>2, <3>3
  <2> QED
    BY <2>1, <2>2
<1>10. VdTypeOK' /\ vdBudget' \in Nat /\ vdLimited' \subseteq VdQueues
  <2>1. vdLost' \in BOOLEAN
    BY <1>7
  <2> QED
    BY <1>1, <1>7, <1>8, <2>1 DEF VdInv, VdTypeOK
<1>11. RoomInv'
  BY <1>1, <1>2, <1>5, <1>7, <1>8 DEF VdInv, VdTypeOK, RoomInv, depth
<1>12. ShareInv'
  BY <1>7 DEF VdInv, VdTypeOK, ShareInv, maximum
<1>13. AgeInv'
  BY <1>7, <1>9 DEF VdInv, VdTypeOK, AgeInv
<1>14. vdLost' = FALSE
  BY <1>2, <1>6, <1>7
<1> QED
  BY <1>10, <1>11, <1>12, <1>13, <1>14 DEF VdInv

LEMMA SetDelayKeeps ==
    ASSUME VdInv, NEW q \in VdQueues, SetDelay(q)
    PROVE  VdInv'
<1>1. PICK ms \in VdDelays, memory \in VdMemory :
        LET asked == [vdAsked EXCEPT ![q] = ms]
            limit == Limit(memory, asked) IN
        /\ vdAsked' = asked /\ vdBudget' = memory /\ vdLimited' = {q}
        /\ vdMaximum' = [vdMaximum EXCEPT ![q] = limit]
        /\ vdAges' = [vdAges EXCEPT ![q] = Trimmed(@, Depth(ms, limit))]
        /\ UNCHANGED <<vdNew, vdLost>>
  BY DEF SetDelay
<1>2. ms \in Nat /\ memory \in Nat
  BY VideoDelayAssumption DEF VideoDelayAssumption
<1>3. vdAsked' \in [VdQueues -> Nat] /\ vdAsked'[q] = ms /\ vdAges[q] \in Seq(Nat)
  BY <1>1, <1>2 DEF VdInv, VdTypeOK
<1>4. PICK limit \in Nat : limit = Limit(memory, vdAsked') /\ limit >= 2
  BY <1>2, <1>3, ShareIsNumber
<1>5. PICK depth \in Nat : depth = Depth(ms, limit) /\ depth >= 2
  BY <1>2, <1>4, RoomAndDelay
<1>6. PICK s \in Seq(Nat) : s = vdAges[q]
  BY <1>3
<1>7. PICK t : t = Trimmed(s, depth)
  OBVIOUS
<1>8. /\ t \in Seq(Nat) /\ Len(t) <= depth /\ Len(t) <= Len(s)
      /\ \A i \in 1 .. Len(t) : t[i] = s[i + Len(s) - Len(t)]
  <2>1. LET r == Trimmed(s, depth) IN
        /\ r \in Seq(Nat) /\ Len(r) <= depth /\ Len(r) <= Len(s)
        /\ \A i \in 1 .. Len(r) : r[i] = s[i + Len(s) - Len(r)]
    BY <1>5, TrimmedKeeps
  <2> QED
    BY <1>7, <2>1
<1>9. /\ vdMaximum' = [vdMaximum EXCEPT ![q] = limit]
      /\ vdAges' = [vdAges EXCEPT ![q] = t]
      /\ vdAsked' = [vdAsked EXCEPT ![q] = ms] /\ vdBudget' = memory /\ vdLimited' = {q}
      /\ UNCHANGED <<vdNew, vdLost>>
  BY <1>1, <1>4, <1>5, <1>6, <1>7
<1>10. VdTypeOK' /\ vdBudget' \in Nat /\ vdLimited' \subseteq VdQueues /\ vdLost' = FALSE
  BY <1>2, <1>3, <1>8, <1>9 DEF VdInv, VdTypeOK
<1>11. RoomInv'
  BY <1>3, <1>4, <1>5, <1>8, <1>9 DEF VdInv, VdTypeOK, RoomInv
<1>12. ShareInv'
  BY <1>4, <1>9 DEF VdInv, VdTypeOK, ShareInv
<1>13. AgeInv'
  <2> SUFFICES ASSUME NEW p \in VdQueues, NEW i \in 1 .. Len(vdAges'[p])
               PROVE  vdAges'[p][i] >= Len(vdAges'[p]) - i - (IF p \in vdNew THEN 0 ELSE 1)
    BY <1>9 DEF AgeInv
  <2>1. CASE p # q
    BY <1>9, <2>1 DEF VdInv, VdTypeOK, AgeInv
  <2>2. CASE p = q
    <3> DEFINE j == i + Len(s) - Len(t)
    <3>1. vdAges'[p] = t
      BY <1>9, <2>2 DEF VdInv, VdTypeOK
    <3>2. Len(s) \in Nat /\ Len(t) \in Nat /\ j \in 1 .. Len(s) /\ t[i] = s[j]
      <4>1. s \in Seq(Nat) /\ Len(s) \in Nat
        BY <1>6 DEF VdInv, VdTypeOK
      <4>2. Len(t) \in Nat /\ Len(t) <= Len(s) /\ i \in 1 .. Len(t)
        BY <1>8, <3>1
      <4>3. t[i] = s[j]
        BY <1>8, <4>2
      <4> QED
        BY <4>1, <4>2, <4>3
    <3>3. s[j] >= Len(s) - j - (IF q \in vdNew THEN 0 ELSE 1)
      BY <1>6, <3>2 DEF VdInv, AgeInv
    <3>4. Len(s) - j = Len(t) - i
      BY <3>1, <3>2
    <3> QED
      BY <2>2, <3>1, <3>2, <3>3, <3>4
  <2> QED
    BY <2>1, <2>2
<1> QED
  BY <1>10, <1>11, <1>12, <1>13 DEF VdInv

LEMMA PopKeeps ==
    ASSUME VdInv, NEW q \in VdQueues, PopDue(q)
    PROVE  VdInv'
<1>1. PICK s \in Seq(Nat) : s = vdAges[q] /\ s # <<>>
  BY DEF VdInv, VdTypeOK, PopDue, Due
<1>2. PICK t : t = Tail(s)
  OBVIOUS
<1>3. /\ t \in Seq(Nat) /\ Len(t) = Len(s) - 1 /\ Len(s) \in Nat
      /\ \A i \in 1 .. Len(t) : t[i] = s[i + 1]
  BY <1>1, <1>2, HeadTailProperties
<1>4. /\ vdAges' = [vdAges EXCEPT ![q] = t] /\ vdLost' = FALSE
      /\ UNCHANGED <<vdAsked, vdMaximum, vdBudget, vdNew, vdLimited>>
  BY <1>1, <1>2 DEF PopDue
<1>5. VdTypeOK'
  BY <1>3, <1>4 DEF VdInv, VdTypeOK
<1>6. RoomInv'
  <2> SUFFICES ASSUME NEW p \in VdQueues
               PROVE  vdMaximum[p] >= 2 /\ Len(vdAges'[p]) <= Depth(vdAsked[p], vdMaximum[p])
    BY <1>4 DEF RoomInv
  <2>1. Depth(vdAsked[p], vdMaximum[p]) \in Nat
    BY RoomAndDelay DEF VdInv, VdTypeOK, RoomInv
  <2> QED
    BY <1>1, <1>3, <1>4, <2>1 DEF VdInv, VdTypeOK, RoomInv
<1>7. AgeInv'
  <2> SUFFICES ASSUME NEW p \in VdQueues, NEW i \in 1 .. Len(vdAges'[p])
               PROVE  vdAges'[p][i] >= Len(vdAges'[p]) - i - (IF p \in vdNew THEN 0 ELSE 1)
    BY <1>4 DEF AgeInv
  <2>1. CASE p # q
    BY <1>4, <2>1 DEF VdInv, VdTypeOK, AgeInv
  <2>2. CASE p = q
    <3>1. vdAges'[p] = t
      BY <1>4, <2>2 DEF VdInv, VdTypeOK
    <3>2. i + 1 \in 1 .. Len(s) /\ t[i] = s[i + 1]
      <4>1. i \in 1 .. Len(t)
        BY <3>1
      <4>2. Len(t) = Len(s) - 1 /\ Len(s) \in Nat /\ t[i] = s[i + 1]
        BY <1>3, <4>1
      <4> QED
        BY <4>1, <4>2
    <3>3. s[i + 1] >= Len(s) - (i + 1) - (IF q \in vdNew THEN 0 ELSE 1)
      BY <1>1, <3>2 DEF VdInv, AgeInv
    <3> QED
      BY SMTT(40), <1>3, <2>2, <3>1, <3>2, <3>3
  <2> QED
    BY <2>1, <2>2
<1> QED
  BY <1>4, <1>5, <1>6, <1>7 DEF VdInv, ShareInv

LEMMA ClearKeeps ==
    ASSUME VdInv, NEW q \in VdQueues, Clear(q)
    PROVE  VdInv'
<1>1. /\ vdAges' = [vdAges EXCEPT ![q] = <<>>] /\ vdLost' = FALSE
      /\ UNCHANGED <<vdAsked, vdMaximum, vdBudget, vdNew, vdLimited>>
  BY DEF Clear
<1>2. <<>> \in Seq(Nat) /\ Len(<<>>) = 0
  OBVIOUS
<1>3. VdTypeOK'
  BY <1>1, <1>2 DEF VdInv, VdTypeOK
<1>4. RoomInv'
  <2> SUFFICES ASSUME NEW p \in VdQueues
               PROVE  vdMaximum[p] >= 2 /\ Len(vdAges'[p]) <= Depth(vdAsked[p], vdMaximum[p])
    BY <1>1 DEF RoomInv
  <2>1. Depth(vdAsked[p], vdMaximum[p]) \in Nat
    BY RoomAndDelay DEF VdInv, VdTypeOK, RoomInv
  <2> QED
    BY <1>1, <1>2, <2>1 DEF VdInv, VdTypeOK, RoomInv
<1>5. AgeInv'
  <2> SUFFICES ASSUME NEW p \in VdQueues, NEW i \in 1 .. Len(vdAges'[p])
               PROVE  vdAges'[p][i] >= Len(vdAges'[p]) - i - (IF p \in vdNew THEN 0 ELSE 1)
    BY <1>1 DEF AgeInv
  <2>1. CASE p # q
    BY <1>1, <2>1 DEF VdInv, VdTypeOK, AgeInv
  <2>2. CASE p = q
    <3>1. vdAges'[p] = <<>>
      BY <1>1, <2>2 DEF VdInv, VdTypeOK
    <3> QED
      BY <1>2, <3>1
  <2> QED
    BY <2>1, <2>2
<1> QED
  BY <1>1, <1>3, <1>4, <1>5 DEF VdInv, ShareInv

LEMMA IntervalKeeps == ASSUME VdInv, Interval PROVE VdInv'
<1>1. /\ vdAges' = [q \in VdQueues |-> [i \in 1 .. Len(vdAges[q]) |-> vdAges[q][i] + 1]]
      /\ vdNew' = VdQueues /\ vdLost' = FALSE
      /\ UNCHANGED <<vdAsked, vdMaximum, vdBudget, vdLimited>>
  BY DEF Interval
<1>2. ASSUME NEW q \in VdQueues
      PROVE  /\ vdAges'[q] \in Seq(Nat) /\ Len(vdAges'[q]) = Len(vdAges[q])
             /\ \A i \in 1 .. Len(vdAges[q]) :
                   vdAges'[q][i] = vdAges[q][i] + 1 /\ vdAges[q][i] \in Nat
  <2>1. PICK s \in Seq(Nat) : s = vdAges[q]
    BY DEF VdInv, VdTypeOK
  <2>2. Len(s) \in Nat /\ \A i \in 1 .. Len(s) : s[i] \in Nat
    OBVIOUS
  <2>3. PICK t : t = [i \in 1 .. Len(s) |-> s[i] + 1]
    OBVIOUS
  <2>4. t \in Seq(Nat)
    BY <2>2, <2>3, IsASeq
  <2>5. Len(t) = Len(s)
    BY <2>2, <2>3, <2>4, LenProperties
  <2> QED
    BY <1>1, <2>1, <2>2, <2>3, <2>4, <2>5
<1>3. vdAges' \in [VdQueues -> Seq(Nat)]
  BY <1>1, <1>2
<1>4. VdTypeOK'
  BY <1>1, <1>3 DEF VdInv, VdTypeOK
<1>5. RoomInv'
  BY <1>1, <1>2 DEF VdInv, RoomInv
<1>6. AgeInv'
  <2> SUFFICES ASSUME NEW q \in VdQueues, NEW i \in 1 .. Len(vdAges[q])
               PROVE  vdAges'[q][i] >= Len(vdAges'[q]) - i - 0
    BY <1>1, <1>2 DEF AgeInv
  <2>1. vdAges[q][i] >= Len(vdAges[q]) - i - (IF q \in vdNew THEN 0 ELSE 1)
    BY DEF VdInv, AgeInv
  <2>2. PICK n \in Nat : n = Len(vdAges[q])
    BY DEF VdInv, VdTypeOK
  <2>3. /\ vdAges'[q][i] = vdAges[q][i] + 1 /\ vdAges[q][i] \in Nat /\ i \in Nat
        /\ Len(vdAges'[q]) = n
    BY <1>2, <2>2
  <2>4. vdAges[q][i] >= n - i - 1
    <3>1. CASE q \in vdNew
      <4>1. vdAges[q][i] >= n - i - 0
        BY <2>1, <2>2, <3>1
      <4> QED
        BY <2>3, <4>1
    <3>2. CASE q \notin vdNew
      BY <2>1, <2>2, <3>2
    <3> QED
      BY <3>1, <3>2
  <2> QED
    BY <2>3, <2>4
<1> QED
  BY <1>1, <1>4, <1>5, <1>6 DEF VdInv, ShareInv

LEMMA VdInvAtFirst == VdInit => VdInv
<1> SUFFICES ASSUME VdInit PROVE VdInv
  OBVIOUS
<1>1. vdBudget \in Nat /\ VdMost \in Nat /\ <<>> \in Seq(Nat) /\ Len(<<>>) = 0
  BY VideoDelayAssumption DEF VideoDelayAssumption, VdInit
<1>2. PICK most \in Nat : most = 2 + Min({VdMost, vdBudget}) /\ most >= 2
  BY <1>1, Smaller
<1>3. \A q \in VdQueues : vdMaximum[q] = most /\ vdAsked[q] = 0 /\ vdAges[q] = <<>>
  BY <1>2 DEF VdInit
<1>7. VdTypeOK
  <2>1. vdAges \in [VdQueues -> Seq(Nat)]
    BY <1>1 DEF VdInit
  <2>2. vdAsked \in [VdQueues -> Nat] /\ vdMaximum \in [VdQueues -> Nat]
    BY <1>2 DEF VdInit
  <2> QED
    BY <2>1, <2>2 DEF VdInit, VdTypeOK
<1>4. RoomInv
  <2> SUFFICES ASSUME NEW q \in VdQueues
               PROVE  vdMaximum[q] >= 2 /\ Len(vdAges[q]) <= Depth(vdAsked[q], vdMaximum[q])
    BY DEF RoomInv
  <2>1. PICK depth \in Nat : depth = Depth(0, most)
    BY <1>2, RoomAndDelay
  <2>2. Len(vdAges[q]) <= depth
    BY <1>1, <1>3, <2>1
  <2> QED
    BY <1>2, <1>3, <2>1, <2>2
<1>5. ShareInv
  BY <1>3 DEF VdInit, ShareInv
<1>6. AgeInv
  BY <1>1, <1>3 DEF AgeInv
<1> QED
  BY <1>1, <1>7, <1>4, <1>5, <1>6 DEF VdInv, VdInit

LEMMA VdInvKept == VdInv /\ [VdNext]_vdVars => VdInv'
<1> SUFFICES ASSUME VdInv, [VdNext]_vdVars PROVE VdInv'
  OBVIOUS
<1>1. CASE UNCHANGED vdVars
  BY <1>1 DEF VdInv, VdTypeOK, RoomInv, ShareInv, AgeInv, vdVars
<1> QED
  BY <1>1, PushKeeps, SetDelayKeeps, PopKeeps, ClearKeeps, IntervalKeeps DEF VdNext

\* The invariant holds of every behaviour of the queues.
THEOREM VdInvHolds == VdSpec => []VdInv
<1> QED
  BY VdInvAtFirst, VdInvKept, PTL DEF VdSpec

\* No frame is lost to the delay and no queue exceeds its share of the memory,
\* for any number of outputs, delays and memory sizes (push, resize_delay,
\* VideoDelayBudget::share).
THEOREM DelayPromisesHold == VdSpec => []DelayPromises
<1>1. VdInv => MemoryIsShared
  <2> SUFFICES ASSUME VdInv, vdLimited = VdQueues, \A q \in VdQueues : vdAsked[q] > 0,
                      NEW q \in VdQueues
               PROVE  Len(vdAges[q]) <= 2 + vdBudget \div Cardinality(VdQueues)
    BY DEF MemoryIsShared
  <2>1. PICK n \in Nat : n = Cardinality(VdQueues) /\ n >= 1
    <3>1. Cardinality(VdQueues) \in Nat /\ Cardinality(VdQueues) # 0
      BY VideoDelayAssumption, FS_CardinalityType, FS_EmptySet DEF VideoDelayAssumption
    <3> QED
      BY <3>1
  <2>2. Delaying(vdAsked) = n
    <3>1. {p \in VdQueues : vdAsked[p] > 0} = VdQueues
      OBVIOUS
    <3> QED
      BY <2>1, <3>1 DEF Delaying
  <2>3. Max({1, n}) = n
    <3>1. PICK m \in Int : m = Max({1, n}) /\ m \in {1, n} /\ m >= n
      BY Larger
    <3> QED
      BY <2>1, <3>1
  <2>4. vdMaximum[q] <= 2 + vdBudget \div n
    <3>1. vdMaximum[q] = Limit(vdBudget, vdAsked) /\ vdBudget \in Nat /\ vdAsked \in [VdQueues -> Nat]
      BY DEF VdInv, VdTypeOK, ShareInv
    <3>2. Limit(vdBudget, vdAsked) <= 2 + Share(vdBudget, vdAsked)
      BY <3>1, ShareIsNumber
    <3>3. Share(vdBudget, vdAsked) = vdBudget \div n
      BY <2>2, <2>3 DEF Share
    <3> QED
      BY <3>1, <3>2, <3>3
  <2>5. /\ Depth(vdAsked[q], vdMaximum[q]) <= vdMaximum[q]
        /\ Depth(vdAsked[q], vdMaximum[q]) \in Nat
        /\ Len(vdAges[q]) <= Depth(vdAsked[q], vdMaximum[q])
        /\ Len(vdAges[q]) \in Nat /\ vdMaximum[q] \in Nat
    BY RoomAndDelay DEF VdInv, VdTypeOK, RoomInv
  <2>6. PICK share \in Int : share = vdBudget \div n
    BY <2>1 DEF VdInv
  <2>7. Len(vdAges[q]) <= 2 + share
    BY <2>4, <2>5, <2>6
  <2> QED
    BY <2>1, <2>6, <2>7
<1>2. VdInv => DelayPromises
  BY <1>1 DEF VdInv, DelayPromises, DelayLosesNothing
<1> QED
  BY <1>2, VdInvHolds, PTL

--------------------------------------------------------------------------------
(* The output worker.                                                          *)

\* An output worker by itself, without what the scheduler owes it.
WkSafe == WkInit /\ [][WkNext]_wkVars

-------------------------------------------------------------------------------
(* The inductive invariant.                                                    *)

\* The type invariant, variable by variable.
WkNames == WkSources \cup {""}
WkCalls == [at : {"none", "connected", "name", "lost", "routed"}, source : WkNames]
WkOp == [at : {"rest", "check", "connect", "switch", "leave", "forget"}, source : WkNames,
         forget : BOOLEAN]
WkRecvs == [source : WkNames, sdk : WkNames, live : BOOLEAN, told : BOOLEAN]
WkCtls == [wants : WkNames, due : BOOLEAN]
WkSpents == [choice : Nat, route : Nat, world : Nat, unlink : Nat]
WkTypes ==
    /\ wname \in WkNames /\ wsaved \in WkNames
    /\ worigin \in BOOLEAN /\ wconn \in BOOLEAN /\ wdisplay \in BOOLEAN /\ wlink \in BOOLEAN
    /\ wrecv \in WkRecvs /\ wcall \in WkCalls
    /\ wqueue \in Seq(BOOLEAN) /\ Len(wqueue) <= 2
    /\ wop \in [Callers -> WkOp] /\ wctl \in WkCtls /\ wevents \in Seq(WkNames)
    /\ wkSpent \in WkSpents

\* Nobody but the Discovery Server chose a source, and the worker has not heard of s,
\* its first.
Unheard(s) ==
    /\ wname = "" /\ ~worigin /\ wsaved = "" /\ wctl.wants = "" /\ ~wctl.due /\ wevents = <<>>
    /\ wop["ipc"] = AtRest
    /\ wop["main"].source = "" /\ ~wop["main"].forget /\ wop["main"].at \in {"rest", "switch", "leave"}
    /\ \/ wrecv.source = "" /\ wrecv.sdk \in {"", s} /\ wcall.at # "routed" /\ wcall.source = ""
       \/ wrecv.source = s /\ wrecv.sdk = s /\ wcall.at = "routed" /\ wcall.source = s /\ s # ""

\* The worker has: s is its routed source from then on, in every place that names
\* one, but that the main loop may have let the receiver go for want of a display.
Heard(s) ==
    /\ wname = s /\ worigin /\ wsaved \in {"", s} /\ wctl.wants \in {"", s}
    /\ wctl.due => wctl.wants = s
    /\ \A i \in 1 .. Len(wevents) : wevents[i] = s
    /\ \/ wop["ipc"] = AtRest
       \/ wop["ipc"].at = "check" /\ wop["ipc"].source = s /\ ~wop["ipc"].forget
    /\ wop["main"].source \in {"", s} /\ ~wop["main"].forget
    /\ wop["main"].at \in {"rest", "connect", "switch", "leave"}
    /\ wop["main"].at = "connect" => wop["main"].source = s
    /\ wrecv.source = wrecv.sdk /\ wcall.at # "routed"
    /\ \/ wrecv.source = "" /\ ~wrecv.live /\ ~wrecv.told /\ wcall.at = "none"
       \/ wrecv.source = s /\ (wcall.at # "none" => wcall.source = s)

LoneRouteInv ==
    wkSpent.choice = 0 =>
        /\ wkSpent.route = 0 => Unheard("")
        /\ wkSpent.route = 1 => \E s \in WkSources : Unheard(s) \/ Heard(s)

WkInv == WkTypes /\ NoOldPicture /\ LoneRouteInv

-------------------------------------------------------------------------------
(* What the threads are doing.                                                 *)

LEMMA NamesAtRest ==
    /\ "" \in WkNames /\ NoCall \in WkCalls /\ AtRest \in WkOp
    /\ AtRest.at = "rest" /\ AtRest.source = "" /\ ~AtRest.forget
<1>1. PICK no \in BOOLEAN : no = FALSE
  OBVIOUS
<1>2. AtRest = [at |-> "rest", source |-> "", forget |-> no]
  BY <1>1 DEF AtRest
<1> QED
  BY <1>1, <1>2 DEF WkNames, WkOp, WkCalls, NoCall

\* Nothing is queued, nothing was pushed.
LEMMA NoFrames ==
    <<>> \in Seq(BOOLEAN) /\ Len(<<>>) = 0 /\ 0 <= 2 /\ <<>> \in Seq(WkNames)
BY EmptySeq

LEMMA DoingSets ==
    ASSUME wop \in [Callers -> WkOp], NEW c \in Callers,
           NEW step \in {"rest", "check", "connect", "switch", "leave", "forget"}, Doing(c, step)
    PROVE  /\ wop' \in [Callers -> WkOp]
           /\ wop'[c].at = step /\ wop'[c].source = wop[c].source /\ wop'[c].forget = wop[c].forget
           /\ \A d \in Callers : d # c => wop'[d] = wop[d]
BY DEF Doing, WkOp

LEMMA StartsSets ==
    ASSUME wop \in [Callers -> WkOp], NEW c \in Callers, NEW source \in WkNames, NEW forget \in BOOLEAN,
           NEW step \in {"check", "connect", "switch"}, Starts(c, step, source, forget)
    PROVE  /\ wop' \in [Callers -> WkOp]
           /\ wop'[c].at = step /\ wop'[c].source = source /\ wop'[c].forget = forget
           /\ \A d \in Callers : d # c => wop'[d] = wop[d]
<1>1. [at |-> step, source |-> source, forget |-> forget] \in WkOp
  BY DEF WkOp
<1> QED
  BY <1>1 DEF Starts

LEMMA RestsSets ==
    ASSUME wop \in [Callers -> WkOp], NEW c \in Callers, Rests(c)
    PROVE  /\ wop' \in [Callers -> WkOp] /\ wop'[c] = AtRest
           /\ \A d \in Callers : d # c => wop'[d] = wop[d]
BY NamesAtRest DEF Rests

LEMMA CostTyped ==
    ASSUME wkSpent \in WkSpents, NEW kind \in {"choice", "route", "world", "unlink"}, NEW bound,
           WkCosts(kind, bound)
    PROVE  /\ wkSpent' \in WkSpents /\ wkSpent'[kind] = wkSpent[kind] + 1
           /\ \A k \in {"choice", "route", "world", "unlink"} : k # kind => wkSpent'[k] = wkSpent[k]
BY DEF WkCosts, WkSpents

-------------------------------------------------------------------------------
(* Types.                                                                      *)

LEMMA RouteCosts ==
    ASSUME wkSpent \in WkSpents, WkCosts("route", WkRoutes)
    PROVE  /\ wkSpent.route \in Nat /\ wkSpent'.route = wkSpent.route + 1
           /\ wkSpent'.choice = wkSpent.choice /\ (wkSpent.route = 0 => wkSpent'.route = 1)
BY DEF WkCosts, WkSpents

LEMMA ChoiceCosts ==
    ASSUME wkSpent \in WkSpents, WkCosts("choice", WkChoices)
    PROVE  wkSpent.choice \in Nat /\ wkSpent'.choice = wkSpent.choice + 1
BY DEF WkCosts, WkSpents

LEMMA WkTypesAtFirst == WkInit => WkTypes
<1> SUFFICES ASSUME WkInit PROVE WkTypes
  OBVIOUS
<1>1. PICK no \in BOOLEAN : no = FALSE
  OBVIOUS
<1>2. /\ wrecv = [source |-> "", sdk |-> "", live |-> no, told |-> no]
      /\ wctl = [wants |-> "", due |-> no]
  BY <1>1 DEF WkInit
<1>3. wrecv \in WkRecvs /\ wctl \in WkCtls
  BY <1>2, NamesAtRest DEF WkRecvs, WkCtls
<1>4. wop \in [Callers -> WkOp]
  BY NamesAtRest DEF WkInit
<1>5. wkSpent \in WkSpents
  BY DEF WkInit, WkSpents
<1> QED
  <2>1. wqueue \in Seq(BOOLEAN) /\ Len(wqueue) <= 2 /\ wevents \in Seq(WkNames)
    BY NoFrames DEF WkInit
  <2>2. wcall \in WkCalls /\ wname \in WkNames /\ wsaved \in WkNames
    BY NamesAtRest DEF WkInit
  <2> QED
    BY <1>3, <1>4, <1>5, <2>1, <2>2 DEF WkInit, WkTypes

LEMMA CallerTypes == ASSUME WkTypes, NEW c \in Callers, CallerSteps(c) PROVE WkTypes'
<1>1. wop \in [Callers -> WkOp] /\ wop[c] \in WkOp /\ wop[c].source \in WkNames
  BY DEF WkTypes, WkOp
<1>2. CASE ConnectRefused(c)
  BY <1>1, <1>2, RestsSets DEF ConnectRefused, wstatus, wcontrol, WkTypes
<1>3. CASE ConnectMarks(c)
  <2>1. wop' \in [Callers -> WkOp]
    BY <1>1, <1>3, DoingSets DEF ConnectMarks
  <2>2. worigin' \in BOOLEAN /\ wconn' \in BOOLEAN /\ wname' \in WkNames
    BY <1>1, <1>3 DEF ConnectMarks
  <2> QED
    BY <1>3, <2>1, <2>2 DEF ConnectMarks, wcontrol, WkTypes
<1>4. CASE Switch(c)
  <2>1. wop' \in [Callers -> WkOp]
    BY <1>1, <1>4, DoingSets DEF Switch
  <2>2. PICK no \in BOOLEAN : no = FALSE
    OBVIOUS
  <2>3. wrecv' = [source |-> wop[c].source, sdk |-> wop[c].source, live |-> no, told |-> no]
    BY <1>4, <2>2 DEF Switch
  <2>4. wrecv' \in WkRecvs
    BY <1>1, <2>3 DEF WkRecvs
  <2>5. wqueue' \in Seq(BOOLEAN) /\ Len(wqueue') <= 2
    BY <1>4 DEF Switch, WkTypes
  <2> QED
    BY <1>4, <2>1, <2>4, <2>5 DEF Switch, wstatus, wcontrol, WkTypes
<1>5. CASE Leaves(c)
  <2>1. wop' \in [Callers -> WkOp]
    BY <1>1, <1>5, DoingSets, RestsSets DEF Leaves
  <2>2. wqueue' \in Seq(BOOLEAN) /\ Len(wqueue') <= 2
    BY <1>5, NoFrames DEF Leaves
  <2>3. wsaved' \in WkNames /\ wconn' \in BOOLEAN
    BY <1>1, <1>5 DEF Leaves, WkTypes
  <2> QED
    BY <1>5, <2>1, <2>2, <2>3 DEF Leaves, wcontrol, WkTypes
<1>6. CASE Forgets(c)
  BY <1>1, <1>6, RestsSets, NamesAtRest DEF Forgets, wcontrol, WkTypes
<1> QED
  BY <1>2, <1>3, <1>4, <1>5, <1>6 DEF CallerSteps

LEMMA ServeTypes ==
    ASSUME WkTypes, ApplyConfig \/ Checks \/ Subscribes \/ DropsUnshown \/ DisplayAttached
    PROVE  WkTypes'
<1>1. wop \in [Callers -> WkOp] /\ "ipc" \in Callers /\ "main" \in Callers /\ wctl \in WkCtls
  BY DEF WkTypes, Callers
<1>2. CASE ApplyConfig
  <2>1. wctl' \in WkCtls /\ wctl.wants \in WkNames
    BY <1>1, <1>2 DEF ApplyConfig, WkCtls
  <2>2. wop' \in [Callers -> WkOp]
    BY <1>1, <1>2, <2>1, StartsSets, NamesAtRest DEF ApplyConfig
  <2> QED
    BY <1>2, <2>1, <2>2 DEF ApplyConfig, wstatus, WkTypes
<1>3. CASE Checks
  <2>1. wop' \in [Callers -> WkOp]
    BY <1>1, <1>3, RestsSets, DoingSets DEF Checks
  <2> QED
    BY <1>3, <2>1 DEF Checks, wstatus, wcontrol, WkTypes
<1>4. CASE Subscribes
  <2>1. wevents' \in Seq(WkNames) /\ wlink' \in BOOLEAN
    BY <1>4 DEF Subscribes, Replays, WkTypes
  <2> QED
    BY <1>4, <2>1 DEF Subscribes, wstatus, WkTypes
<1>5. CASE DropsUnshown
  <2>1. wop' \in [Callers -> WkOp]
    BY <1>1, <1>5, StartsSets, NamesAtRest DEF DropsUnshown
  <2> QED
    BY <1>5, <2>1 DEF DropsUnshown, wstatus, wcontrol, WkTypes
<1>6. CASE DisplayAttached
  <2>1. wop' \in [Callers -> WkOp] /\ wdisplay' \in BOOLEAN
    BY <1>1, <1>6, StartsSets DEF DisplayAttached, WkTypes
  <2> QED
    BY <1>6, <2>1 DEF DisplayAttached, wstatus, wcontrol, WkTypes
<1> QED
  BY <1>2, <1>3, <1>4, <1>5, <1>6

LEMMA CallTypes == ASSUME WkTypes, CallSteps PROVE WkTypes'
<1>1. wrecv \in WkRecvs /\ wcall \in WkCalls /\ wcall.source \in WkNames
  BY DEF WkTypes, WkCalls
<1>2. CASE CallConnected \/ CallLost \/ CallRouted
  <2>1. PICK told \in BOOLEAN, source \in WkNames :
            wrecv' = [wrecv EXCEPT !.told = told] \/ wrecv' = [wrecv EXCEPT !.source = source]
    BY <1>1, <1>2 DEF CallConnected, CallLost, CallRouted, WkRecvs
  <2>2. wrecv' \in WkRecvs
    BY <1>1, <2>1 DEF WkRecvs
  <2>3. wcall' \in WkCalls
    BY <1>1, <1>2 DEF CallConnected, CallLost, CallRouted, Calling, WkCalls, WkRecvs
  <2> QED
    BY <1>2, <2>2, <2>3 DEF CallConnected, CallLost, CallRouted, wstatus, wcontrol, WkTypes
<1>3. CASE OnConnected
  <2>1. wcall' \in WkCalls /\ wconn' \in BOOLEAN
    BY <1>1, <1>3 DEF OnConnected, WkCalls
  <2> QED
    BY <1>3, <2>1 DEF OnConnected, wcontrol, WkTypes
<1>4. CASE OnConnectedName \/ OnLostCall
  BY <1>1, <1>4, NamesAtRest DEF OnConnectedName, OnLostCall, wcontrol, WkTypes
<1>5. CASE OnRouted
  <2>1. worigin' \in BOOLEAN /\ wname' \in WkNames /\ wcall' \in WkCalls
    BY <1>1, <1>5, NamesAtRest DEF OnRouted
  <2>2. wevents' \in Seq(WkNames)
    BY <1>1, <1>5, AppendProperties DEF OnRouted, WkTypes
  <2> QED
    BY <1>5, <2>1, <2>2 DEF OnRouted, WkTypes
<1> QED
  BY <1>2, <1>3, <1>4, <1>5 DEF CallSteps

\* A frame that is queued was queued before, or is of the present connection.
LEMMA FrameStep ==
    ASSUME WkTypes, OnVideo \/ DisplayTakes
    PROVE  /\ wqueue' \in Seq(BOOLEAN) /\ Len(wqueue') <= 2
           /\ \A i \in 1 .. Len(wqueue') :
                  ~wqueue'[i] \/ \E k \in 1 .. Len(wqueue) : wqueue'[i] = wqueue[k]
<1>1. PICK no \in BOOLEAN : no = FALSE
  OBVIOUS
<1>2. /\ wqueue \in Seq(BOOLEAN) /\ Len(wqueue) <= 2 /\ Len(wqueue) \in Nat
      /\ wqueue # <<>> => Len(wqueue) \in Nat \ {0}
  BY LenProperties, EmptySeq DEF WkTypes
<1>3. wqueue # <<>> => /\ Tail(wqueue) \in Seq(BOOLEAN) /\ Len(Tail(wqueue)) = Len(wqueue) - 1
                       /\ \A i \in 1 .. Len(Tail(wqueue)) : Tail(wqueue)[i] = wqueue[i + 1]
  BY <1>2, HeadTailProperties
<1>4. CASE DisplayTakes
  BY <1>2, <1>3, <1>4 DEF DisplayTakes
<1>5. CASE OnVideo
  <2>1. PICK q : /\ wqueue' = Append(q, no) /\ q \in Seq(BOOLEAN) /\ Len(q) <= 1
                 /\ \A i \in 1 .. Len(q) : \E k \in 1 .. Len(wqueue) : q[i] = wqueue[k]
    <3>1. CASE Len(wqueue) < 2
      <4>1. wqueue' = Append(wqueue, no)
        BY <1>1, <1>5, <3>1 DEF OnVideo, QueueDepth
      <4>2. Len(wqueue) <= 1
        BY <1>2, <3>1
      <4>3. \A i \in 1 .. Len(wqueue) : \E k \in 1 .. Len(wqueue) : wqueue[i] = wqueue[k]
        OBVIOUS
      <4> QED
        BY <1>2, <4>1, <4>2, <4>3
    <3>2. CASE ~(Len(wqueue) < 2)
      <4>1. wqueue # <<>> /\ Len(wqueue) = 2
        <5>1. PICK n \in Nat : n = Len(wqueue)
          BY <1>2
        <5>2. n <= 2 /\ ~(n < 2)
          BY <1>2, <3>2, <5>1
        <5>3. n = 2
          BY <5>2
        <5>4. Len(wqueue) = 2 /\ 2 # 0
          BY <5>1, <5>3
        <5>5. wqueue # <<>>
          BY <5>4, NoFrames, Zenon
        <5> QED
          BY <5>4, <5>5
      <4>2. wqueue' = Append(Tail(wqueue), no)
        BY <1>1, <1>5, <3>2 DEF OnVideo, QueueDepth
      <4>3. /\ Tail(wqueue) \in Seq(BOOLEAN) /\ Len(Tail(wqueue)) = 1
            /\ \A i \in 1 .. Len(Tail(wqueue)) : \E k \in 1 .. Len(wqueue) : Tail(wqueue)[i] = wqueue[k]
        <5>1. \A i \in 1 .. 1 : i + 1 \in 1 .. 2
          OBVIOUS
        <5> QED
          BY <1>3, <4>1, <5>1
      <4>4. Len(Tail(wqueue)) <= 1
        <5>1. 1 <= 1
          OBVIOUS
        <5> QED
          BY <4>3, <5>1
      <4> QED
        BY <4>2, <4>3, <4>4
    <3> QED
      BY <3>1, <3>2
  <2>2. /\ wqueue' \in Seq(BOOLEAN) /\ Len(wqueue') = Len(q) + 1 /\ Len(q) \in Nat
        /\ \A i \in 1 .. Len(q) : wqueue'[i] = q[i]
        /\ wqueue'[Len(q) + 1] = no
    BY <2>1, AppendProperties, LenProperties
  <2> QED
    BY <1>1, <2>1, <2>2
<1> QED
  BY <1>4, <1>5

LEMMA FrameTypes == ASSUME WkTypes, OnVideo \/ DisplayTakes PROVE WkTypes'
BY FrameStep DEF OnVideo, DisplayTakes, wstatus, wcontrol, WkTypes

LEMMA WorldTypes ==
    ASSUME WkTypes, Chooses \/ RecordsRoute \/ Unlinked \/ Routes \/ SenderTurns
    PROVE  WkTypes'
<1>1. wkSpent \in WkSpents /\ wrecv \in WkRecvs
  BY DEF WkTypes
<1>2. CASE Chooses
  <2>1. PICK s \in WkNames : wctl' = [wants |-> s, due |-> TRUE]
    BY <1>2 DEF Chooses, WkNames
  <2>2. PICK yes \in BOOLEAN : yes = TRUE
    OBVIOUS
  <2>3. wctl' = [wants |-> s, due |-> yes]
    BY <2>1, <2>2
  <2>4. wctl' \in WkCtls
    BY <2>3 DEF WkCtls
  <2>5. wkSpent' \in WkSpents
    BY <1>1, <1>2, CostTyped DEF Chooses
  <2> QED
    BY <1>2, <2>4, <2>5 DEF Chooses, wstatus, WkTypes
<1>3. CASE RecordsRoute
  <2>1. wevents' \in Seq(WkNames) /\ Head(wevents) \in WkNames
    BY <1>3 DEF RecordsRoute, WkTypes
  <2>2. PICK yes \in BOOLEAN : yes = TRUE
    OBVIOUS
  <2>3. wctl' = wctl \/ wctl' = [wants |-> Head(wevents), due |-> yes]
    BY <1>3, <2>2 DEF RecordsRoute
  <2>4. wctl' \in WkCtls
    BY <2>1, <2>3 DEF WkCtls, WkTypes
  <2> QED
    BY <1>3, <2>1, <2>4 DEF RecordsRoute, wstatus, WkTypes
<1>4. CASE Unlinked
  <2>1. wevents' \in Seq(WkNames) /\ wlink' \in BOOLEAN /\ wkSpent' \in WkSpents
    BY <1>1, <1>4, CostTyped, NoFrames DEF Unlinked
  <2> QED
    BY <1>4, <2>1 DEF Unlinked, wstatus, WkTypes
<1>5. CASE Routes
  <2>1. PICK s \in WkNames : wrecv' = [wrecv EXCEPT !.sdk = s, !.live = FALSE]
    BY <1>5 DEF Routes, WkNames
  <2>2. PICK no \in BOOLEAN : no = FALSE
    OBVIOUS
  <2>3. wrecv' = [source |-> wrecv.source, sdk |-> s, live |-> no, told |-> wrecv.told]
    BY <1>1, <2>1, <2>2 DEF WkRecvs
  <2>4. wrecv' \in WkRecvs
    BY <1>1, <2>3 DEF WkRecvs
  <2>5. wkSpent' \in WkSpents
    BY <1>1, <1>5, CostTyped DEF Routes
  <2> QED
    BY <1>5, <2>4, <2>5 DEF Routes, wstatus, wcontrol, WkTypes
<1>6. CASE SenderTurns
  <2>1. wrecv' \in WkRecvs
    <3>1. PICK live \in BOOLEAN : wrecv' = [wrecv EXCEPT !.live = live]
      BY <1>6 DEF SenderTurns
    <3> QED
      BY <1>1, <3>1 DEF WkRecvs
  <2>2. wkSpent' \in WkSpents
    BY <1>1, <1>6, CostTyped DEF SenderTurns
  <2> QED
    BY <1>6, <2>1, <2>2 DEF SenderTurns, wstatus, wcontrol, WkTypes
<1> QED
  BY <1>2, <1>3, <1>4, <1>5, <1>6

LEMMA WkTypesKept == ASSUME WkTypes, [WkNext]_wkVars PROVE WkTypes'
<1>1. CASE UNCHANGED wkVars
  BY <1>1 DEF wkVars, WkTypes
<1> QED
  BY <1>1, CallerTypes, ServeTypes, CallTypes, FrameTypes, WorldTypes DEF WkNext

-------------------------------------------------------------------------------
(* No old picture.                                                             *)

LEMMA OldKept == ASSUME WkTypes, NoOldPicture, [WkNext]_wkVars PROVE NoOldPicture'
<1>1. wop \in [Callers -> WkOp] /\ "ipc" \in Callers /\ "main" \in Callers
  BY DEF WkTypes, Callers
<1>2. ASSUME UNCHANGED wqueue, \A c \in Callers : wop[c].at = "leave" => wop'[c].at = "leave"
      PROVE  NoOldPicture'
  BY <1>2 DEF NoOldPicture
<1>3. CASE \E c \in Callers : Switch(c)
  <2>1. PICK c \in Callers : Switch(c)
    BY <1>3
  <2>2. wop'[c].at = "leave"
    BY <1>1, <2>1, DoingSets DEF Switch
  <2> QED
    BY <2>2 DEF NoOldPicture
<1>4. CASE \E c \in Callers : Leaves(c)
  <2>1. wqueue' = <<>>
    BY <1>4 DEF Leaves
  <2> QED
    BY <2>1 DEF NoOldPicture
<1>5. CASE \E c \in Callers : ConnectRefused(c) \/ ConnectMarks(c) \/ Forgets(c)
  <2>1. PICK c \in Callers : ConnectRefused(c) \/ ConnectMarks(c) \/ Forgets(c)
    BY <1>5
  <2>2. wop[c].at # "leave" /\ wqueue' = wqueue
    BY <2>1 DEF ConnectRefused, ConnectMarks, Forgets
  <2>3. \A d \in Callers : d # c => wop'[d] = wop[d]
    BY <1>1, <2>1, DoingSets, RestsSets DEF ConnectRefused, ConnectMarks, Forgets
  <2> QED
    BY <1>2, <2>2, <2>3
<1>6. CASE ApplyConfig \/ Checks \/ DropsUnshown \/ DisplayAttached
  <2>1. UNCHANGED wqueue
    BY <1>6 DEF ApplyConfig, Checks, DropsUnshown, DisplayAttached
  <2>2. CASE UNCHANGED wop
    BY <1>2, <2>1, <2>2
  <2>3. CASE wop' # wop
    <3>1. PICK c \in Callers : wop[c].at \in {"rest", "check"} /\ \A d \in Callers : d # c => wop'[d] = wop[d]
      <4>1. CASE ApplyConfig \/ Checks
        <5>1. wop["ipc"].at \in {"rest", "check"}
          BY <4>1, NamesAtRest DEF ApplyConfig, Checks
        <5>2. \A d \in Callers : d # "ipc" => wop'[d] = wop[d]
          BY <1>1, <4>1 DEF ApplyConfig, Checks, Starts, Doing, Rests
        <5> QED
          BY <1>1, <5>1, <5>2
      <4>2. CASE DropsUnshown \/ DisplayAttached
        <5>1. wop["main"].at = "rest"
          BY <4>2, NamesAtRest DEF DropsUnshown, DisplayAttached
        <5>2. \A d \in Callers : d # "main" => wop'[d] = wop[d]
          BY <1>1, <4>2 DEF DropsUnshown, DisplayAttached, Starts
        <5> QED
          BY <1>1, <5>1, <5>2
      <4> QED
        BY <1>6, <4>1, <4>2
    <3> QED
      BY <1>2, <2>1, <3>1
  <2> QED
    BY <2>2, <2>3
<1>7. CASE OnVideo \/ DisplayTakes
  <2>1. UNCHANGED wop
    BY <1>7 DEF OnVideo, DisplayTakes
  <2> QED
    BY <1>7, <2>1, FrameStep DEF NoOldPicture
<1>8. CASE Subscribes \/ CallSteps \/ Chooses \/ RecordsRoute \/ Unlinked \/ Routes \/ SenderTurns
           \/ UNCHANGED wkVars
  <2>1. UNCHANGED <<wqueue, wop>>
    BY <1>8
    DEF Subscribes, CallSteps, CallConnected, OnConnected, OnConnectedName, CallLost, OnLostCall,
        CallRouted, OnRouted, Chooses, RecordsRoute, Unlinked, Routes, SenderTurns, wkVars
  <2> QED
    BY <1>2, <2>1
<1> QED
  BY <1>3, <1>4, <1>5, <1>6, <1>7, <1>8 DEF WkNext, CallerSteps

-------------------------------------------------------------------------------
(* A route that is alone.                                                      *)

\* What s is said of, with what the two callers are doing taken apart.
IpcHeard(s) ==
    \/ wop["ipc"] = AtRest
    \/ wop["ipc"].at = "check" /\ wop["ipc"].source = s /\ ~wop["ipc"].forget
MainHeard(s) ==
    /\ wop["main"].source \in {"", s} /\ ~wop["main"].forget
    /\ wop["main"].at \in {"rest", "connect", "switch", "leave"}
    /\ wop["main"].at = "connect" => wop["main"].source = s

\* No caller touches a worker that knows no source, but to let go of nothing.
LEMMA UnheardCaller ==
    ASSUME WkTypes, NEW s \in WkNames, Unheard(s), NEW c \in Callers, CallerSteps(c)
    PROVE  Unheard(s)'
<1>1. wop \in [Callers -> WkOp] /\ "ipc" \in Callers /\ "main" \in Callers /\ Callers = {"ipc", "main"}
  BY DEF WkTypes, Callers
<1>2. c = "main" /\ (Switch(c) \/ Leaves(c))
  BY <1>1, NamesAtRest
  DEF Unheard, CallerSteps, ConnectRefused, ConnectMarks, Switch, Leaves, Forgets
<1>3. wop["main"].source = "" /\ ~wop["main"].forget
  BY DEF Unheard
<1>4. CASE Switch("main")
  <2>1. /\ wop'["main"].at = "leave" /\ wop'["main"].source = "" /\ ~wop'["main"].forget
        /\ wop'["ipc"] = wop["ipc"]
    BY <1>1, <1>3, <1>4, DoingSets DEF Switch
  <2>2. PICK no \in BOOLEAN : no = FALSE
    OBVIOUS
  <2>3. wrecv' = [source |-> "", sdk |-> "", live |-> no, told |-> no] /\ wcall = NoCall
    BY <1>3, <1>4, <2>2 DEF Switch
  <2>4. wrecv'.source = "" /\ wrecv'.sdk = "" /\ wcall.at # "routed" /\ wcall.source = ""
    BY <2>3 DEF NoCall
  <2> QED
    BY <1>4, <2>1, <2>4 DEF Switch, wstatus, wcontrol, Unheard
<1>5. CASE Leaves("main")
  <2>1. wop'["main"] = AtRest /\ wop'["ipc"] = wop["ipc"]
    BY <1>1, <1>3, <1>5, RestsSets DEF Leaves
  <2>2. wsaved' = wsaved
    BY <1>3, <1>5 DEF Leaves
  <2> QED
    BY <1>5, <2>1, <2>2, NamesAtRest DEF Leaves, wcontrol, Unheard
<1> QED
  BY <1>2, <1>4, <1>5

\* Its own threads have nothing to act on.
LEMMA UnheardServe ==
    ASSUME WkTypes, NEW s \in WkNames, Unheard(s),
           ApplyConfig \/ Checks \/ Subscribes \/ DropsUnshown \/ DisplayAttached
    PROVE  Unheard(s)'
<1>1. wop \in [Callers -> WkOp] /\ "ipc" \in Callers /\ "main" \in Callers /\ "ipc" # "main"
  BY DEF WkTypes, Callers
<1>2. ~ApplyConfig /\ ~Checks
  BY NamesAtRest DEF Unheard, ApplyConfig, Checks
<1>3. CASE Subscribes
  <2>1. wevents' = <<>>
    BY <1>3 DEF Subscribes, Replays, Unheard
  <2> QED
    BY <1>3, <2>1 DEF Subscribes, wstatus, Unheard
<1>4. CASE DropsUnshown
  <2>1. PICK no \in BOOLEAN : no = FALSE
    OBVIOUS
  <2>2. Starts("main", "switch", "", no)
    BY <1>4, <2>1 DEF DropsUnshown
  <2>3. /\ wop'["main"].at = "switch" /\ wop'["main"].source = "" /\ wop'["main"].forget = no
        /\ wop'["ipc"] = wop["ipc"]
    <3>1. [at |-> "switch", source |-> "", forget |-> no] \in WkOp
      BY NamesAtRest DEF WkOp
    <3> QED
      BY <1>1, <2>2, <3>1 DEF Starts
  <2> QED
    BY <1>4, <2>1, <2>3 DEF DropsUnshown, wstatus, wcontrol, Unheard
<1>5. CASE DisplayAttached
  <2>1. UNCHANGED wop
    BY <1>5 DEF DisplayAttached, Unheard
  <2> QED
    BY <1>5, <2>1 DEF DisplayAttached, wstatus, wcontrol, Unheard
<1> QED
  BY <1>2, <1>3, <1>4, <1>5

\* The receive thread brings it the route.
LEMMA UnheardCall ==
    ASSUME WkTypes, NEW s \in WkNames, Unheard(s), CallSteps
    PROVE  Unheard(s)' \/ (s # "" /\ Heard(s)')
<1>1. wrecv \in WkRecvs /\ wcall \in WkCalls /\ wevents = <<>>
  BY DEF WkTypes, Unheard
<1>2. CASE CallConnected \/ CallLost
  <2>1. wrecv'.source = wrecv.source /\ wrecv'.sdk = wrecv.sdk
    BY <1>1, <1>2 DEF CallConnected, CallLost, WkRecvs
  <2>2. wcall.at # "routed"
    <3>1. wcall = NoCall
      BY <1>2 DEF CallConnected, CallLost
    <3> QED
      BY <3>1 DEF NoCall
  <2>3. wcall'.at \in {"connected", "lost"} /\ wcall'.source = wrecv.source
    BY <1>2 DEF CallConnected, CallLost, Calling
  <2> QED
    BY <1>2, <2>1, <2>2, <2>3 DEF CallConnected, CallLost, wstatus, wcontrol, Unheard
<1>3. CASE OnConnected
  <2>1. wcall'.at = "name" /\ wcall'.source = wcall.source
    BY <1>1, <1>3 DEF OnConnected, WkCalls
  <2> QED
    BY <1>3, <2>1 DEF OnConnected, wcontrol, Unheard
<1>4. CASE OnConnectedName \/ OnLostCall
  <2>1. wcall'.at = "none" /\ wcall'.source = ""
    <3>1. wcall' = NoCall
      BY <1>4 DEF OnConnectedName, OnLostCall
    <3> QED
      BY <3>1 DEF NoCall
  <2>2. wcall.at # "routed"
    BY <1>4 DEF OnConnectedName, OnLostCall
  <2>3. wname' = ""
    BY <1>4, <2>2 DEF OnConnectedName, OnLostCall, Unheard
  <2> QED
    BY <1>4, <2>1, <2>2, <2>3 DEF OnConnectedName, OnLostCall, wcontrol, Unheard
<1>5. CASE CallRouted
  <2>1. wrecv.source = "" /\ wrecv.sdk = s /\ s # ""
    BY <1>5 DEF CallRouted, NoCall, Unheard
  <2>2. /\ wrecv'.source = s /\ wrecv'.sdk = s /\ wcall'.at = "routed" /\ wcall'.source = s
    BY <1>1, <1>5, <2>1 DEF CallRouted, WkRecvs
  <2> QED
    BY <1>5, <2>1, <2>2 DEF CallRouted, wstatus, wcontrol, Unheard
<1>6. CASE OnRouted
  <2>1. /\ s # "" /\ wcall.source = s /\ wrecv.source = s /\ wrecv.sdk = s
    BY <1>6 DEF OnRouted, Unheard
  <2>2. wname' = s /\ worigin' /\ wcall'.at = "none"
    BY <1>6, <2>1 DEF OnRouted, NoCall
  <2>3. \A i \in 1 .. Len(wevents') : wevents'[i] = s
    <3>1. <<>> \in Seq(WkNames) /\ Len(<<>>) = 0
      BY NoFrames
    <3>2. /\ Len(Append(<<>>, s)) = 1 /\ Append(<<>>, s)[1] = s
      BY <3>1, AppendProperties
    <3>3. wevents' = Append(<<>>, s) \/ wevents' = <<>>
      BY <1>1, <1>6, <2>1 DEF OnRouted
    <3>4. CASE wevents' = Append(<<>>, s)
      BY <3>2, <3>4
    <3>5. CASE wevents' = <<>>
      BY <3>1, <3>5
    <3> QED
      BY <3>3, <3>4, <3>5
  <2>4. wctl.wants = "" /\ ~wctl.due /\ wsaved = "" /\ IpcHeard(s) /\ MainHeard(s)
    BY DEF Unheard, IpcHeard, MainHeard
  <2> QED
    BY <1>6, <2>1, <2>2, <2>3, <2>4 DEF OnRouted, Heard, IpcHeard, MainHeard
<1> QED
  BY <1>2, <1>3, <1>4, <1>5, <1>6 DEF CallSteps

LEMMA UnheardRest ==
    ASSUME WkTypes, NEW s \in WkNames, Unheard(s), UNCHANGED wkSpent,
           OnVideo \/ DisplayTakes \/ RecordsRoute \/ UNCHANGED wkVars
    PROVE  Unheard(s)'
<1>1. ~RecordsRoute
  BY DEF RecordsRoute, Unheard
<1>2. UNCHANGED <<wname, worigin, wsaved, wctl, wevents, wop, wrecv, wcall>>
  BY <1>1 DEF OnVideo, DisplayTakes, wstatus, wcontrol, wkVars
<1> QED
  BY <1>2 DEF Unheard

LEMMA UnheardWorld ==
    ASSUME WkTypes, NEW s \in WkNames, Unheard(s), Unlinked \/ SenderTurns
    PROVE  Unheard(s)'
<1>1. wrecv \in WkRecvs
  BY DEF WkTypes
<1>2. CASE Unlinked
  BY <1>2 DEF Unlinked, wstatus, Unheard
<1>3. CASE SenderTurns
  <2>1. wrecv'.source = wrecv.source /\ wrecv'.sdk = wrecv.sdk
    BY <1>1, <1>3 DEF SenderTurns, WkRecvs
  <2> QED
    BY <1>3, <2>1 DEF SenderTurns, wstatus, wcontrol, Unheard
<1> QED
  BY <1>2, <1>3

\* Once the worker has heard of the route, no caller turns to another source.
LEMMA HeardCaller ==
    ASSUME WkTypes, NEW s \in WkSources, Heard(s), NEW c \in Callers, CallerSteps(c)
    PROVE  Heard(s)'
<1>1. wop \in [Callers -> WkOp] /\ "ipc" \in Callers /\ "main" \in Callers /\ Callers = {"ipc", "main"}
  BY DEF WkTypes, Callers
<1>2. c = "main" /\ ~Forgets(c)
  BY <1>1, NamesAtRest
  DEF Heard, CallerSteps, ConnectRefused, ConnectMarks, Switch, Leaves, Forgets
<1>3. MainHeard(s) /\ IpcHeard(s) /\ s # ""
  BY WorkerAssumption DEF Heard, MainHeard, IpcHeard
<1>4. CASE ConnectRefused("main")
  <2>1. wop'["main"] = AtRest /\ wop'["ipc"] = wop["ipc"]
    BY <1>1, <1>4, RestsSets DEF ConnectRefused
  <2> QED
    BY <1>4, <2>1, NamesAtRest DEF ConnectRefused, wstatus, wcontrol, Heard
<1>5. CASE ConnectMarks("main")
  <2>1. /\ wop'["main"].at = "switch" /\ wop'["main"].source = s /\ ~wop'["main"].forget
        /\ wop'["ipc"] = wop["ipc"]
    BY <1>1, <1>3, <1>5, DoingSets DEF ConnectMarks, MainHeard
  <2>2. wname' = s /\ worigin'
    BY <1>5 DEF ConnectMarks, Heard
  <2> QED
    BY <1>5, <2>1, <2>2 DEF ConnectMarks, wcontrol, Heard
<1>6. CASE Switch("main")
  <2>1. /\ wop'["main"].at = "leave" /\ wop'["main"].source = wop["main"].source
        /\ ~wop'["main"].forget /\ wop'["ipc"] = wop["ipc"]
    BY <1>1, <1>3, <1>6, DoingSets DEF Switch, MainHeard
  <2>2. PICK no \in BOOLEAN : no = FALSE
    OBVIOUS
  <2>3. /\ wrecv' = [source |-> wop["main"].source, sdk |-> wop["main"].source, live |-> no, told |-> no]
        /\ wcall = NoCall
    BY <1>6, <2>2 DEF Switch
  <2>4. wrecv'.source = wrecv'.sdk /\ wrecv'.source = wop["main"].source /\ ~wrecv'.live /\ ~wrecv'.told
    BY <2>2, <2>3
  <2>5. wcall.at = "none"
    BY <2>3 DEF NoCall
  <2>6. wop["main"].source \in {"", s}
    BY <1>3 DEF MainHeard
  <2> QED
    BY <1>6, <2>1, <2>4, <2>5, <2>6 DEF Switch, wstatus, wcontrol, Heard
<1>7. CASE Leaves("main")
  <2>1. wop'["main"] = AtRest /\ wop'["ipc"] = wop["ipc"]
    BY <1>1, <1>3, <1>7, RestsSets DEF Leaves, MainHeard
  <2>2. wsaved' \in {"", s}
    BY <1>3, <1>7 DEF Leaves, Heard, MainHeard
  <2> QED
    BY <1>7, <2>1, <2>2, NamesAtRest DEF Leaves, wcontrol, Heard
<1> QED
  BY <1>2, <1>4, <1>5, <1>6, <1>7 DEF CallerSteps

\* Its configuration is the route, and in place.
LEMMA HeardServe ==
    ASSUME WkTypes, NEW s \in WkSources, Heard(s),
           ApplyConfig \/ Checks \/ Subscribes \/ DropsUnshown \/ DisplayAttached
    PROVE  Heard(s)'
<1>1. wop \in [Callers -> WkOp] /\ "ipc" \in Callers /\ "main" \in Callers /\ "ipc" # "main"
  BY DEF WkTypes, Callers
<1>2. MainHeard(s) /\ IpcHeard(s) /\ s # "" /\ s \in WkNames
  BY WorkerAssumption DEF Heard, MainHeard, IpcHeard, WkNames
<1>3. PICK no \in BOOLEAN : no = FALSE
  OBVIOUS
<1>4. CASE ApplyConfig
  <2>1. wctl.wants = s /\ wsaved' = s
    BY <1>4 DEF ApplyConfig, Heard
  <2>2. wctl'.wants = s /\ ~wctl'.due
    <3>1. wctl' = [wctl EXCEPT !.due = no]
      BY <1>3, <1>4 DEF ApplyConfig
    <3> QED
      BY <1>3, <2>1, <3>1 DEF WkTypes, WkCtls
  <2>3. wop'["main"] = wop["main"] /\ IpcHeard(s)'
    <3>1. CASE UNCHANGED wop
      BY <1>2, <3>1 DEF IpcHeard
    <3>2. CASE Starts("ipc", "check", s, no)
      <4>1. [at |-> "check", source |-> s, forget |-> no] \in WkOp
        BY <1>2 DEF WkOp
      <4> QED
        BY <1>1, <1>3, <3>2, <4>1 DEF Starts, IpcHeard
    <3> QED
      BY <1>2, <1>3, <1>4, <2>1, <3>1, <3>2 DEF ApplyConfig
  <2> QED
    BY <1>4, <2>1, <2>2, <2>3 DEF ApplyConfig, wstatus, Heard, IpcHeard
<1>5. CASE Checks
  <2>1. wop["ipc"].at = "check" /\ wop["ipc"].source = s
    BY <1>5, NamesAtRest DEF Checks, Heard
  <2>2. InPlace
    BY <2>1 DEF InPlace, Heard
  <2>3. wop'["ipc"] = AtRest /\ wop'["main"] = wop["main"]
    BY <1>1, <1>5, <2>2, RestsSets DEF Checks
  <2> QED
    BY <1>5, <2>3 DEF Checks, wstatus, wcontrol, Heard
<1>6. CASE Subscribes
  <2>1. wevents' = <<s>>
    BY <1>6 DEF Subscribes, Replays, Heard
  <2>2. \A i \in 1 .. Len(wevents') : wevents'[i] = s
    BY <2>1
  <2> QED
    BY <1>6, <2>2 DEF Subscribes, wstatus, Heard
<1>7. CASE DropsUnshown
  <2>1. Starts("main", "switch", "", no)
    BY <1>3, <1>7 DEF DropsUnshown
  <2>2. /\ wop'["main"].at = "switch" /\ wop'["main"].source = "" /\ wop'["main"].forget = no
        /\ wop'["ipc"] = wop["ipc"]
    <3>1. [at |-> "switch", source |-> "", forget |-> no] \in WkOp
      BY NamesAtRest DEF WkOp
    <3> QED
      BY <1>1, <2>1, <3>1 DEF Starts
  <2> QED
    BY <1>3, <1>7, <2>2 DEF DropsUnshown, wstatus, wcontrol, Heard
<1>8. CASE DisplayAttached
  <2>1. Starts("main", "connect", s, no)
    BY <1>2, <1>3, <1>8 DEF DisplayAttached, Heard
  <2>2. /\ wop'["main"].at = "connect" /\ wop'["main"].source = s /\ wop'["main"].forget = no
        /\ wop'["ipc"] = wop["ipc"]
    <3>1. [at |-> "connect", source |-> s, forget |-> no] \in WkOp
      BY <1>2 DEF WkOp
    <3> QED
      BY <1>1, <2>1, <3>1 DEF Starts
  <2> QED
    BY <1>3, <1>8, <2>2 DEF DisplayAttached, wstatus, wcontrol, Heard
<1> QED
  BY <1>4, <1>5, <1>6, <1>7, <1>8

\* The receive thread names it, or nothing.
LEMMA HeardCall ==
    ASSUME WkTypes, NEW s \in WkSources, Heard(s), CallSteps
    PROVE  Heard(s)'
<1>1. wrecv \in WkRecvs /\ wcall \in WkCalls
  BY DEF WkTypes
<1>2. ~CallRouted /\ ~OnRouted
  BY DEF CallRouted, OnRouted, Heard
<1>3. CASE CallConnected \/ CallLost
  <2>1. wrecv'.source = wrecv.source /\ wrecv'.sdk = wrecv.sdk /\ wrecv'.live = wrecv.live
    BY <1>1, <1>3 DEF CallConnected, CallLost, WkRecvs
  <2>2. wcall'.at \in {"connected", "lost"} /\ wcall'.source = wrecv.source
    BY <1>3 DEF CallConnected, CallLost, Calling
  <2>3. wrecv.source = s
    BY <1>3 DEF CallConnected, CallLost, Heard
  <2> QED
    BY <1>3, <2>1, <2>2, <2>3 DEF CallConnected, CallLost, wstatus, wcontrol, Heard
<1>4. CASE OnConnected
  <2>1. wcall'.at = "name" /\ wcall'.source = wcall.source /\ wcall.at = "connected"
    BY <1>1, <1>4 DEF OnConnected, WkCalls
  <2> QED
    BY <1>4, <2>1 DEF OnConnected, wcontrol, Heard
<1>5. CASE OnConnectedName \/ OnLostCall
  <2>1. wcall'.at = "none"
    <3>1. wcall' = NoCall
      BY <1>5 DEF OnConnectedName, OnLostCall
    <3> QED
      BY <3>1 DEF NoCall
  <2>2. wcall.at \in {"name", "lost"}
    BY <1>5 DEF OnConnectedName, OnLostCall
  <2>3. wname' = s /\ wrecv.source = s
    BY <1>5, <2>2 DEF OnConnectedName, OnLostCall, Heard
  <2> QED
    BY <1>5, <2>1, <2>3 DEF OnConnectedName, OnLostCall, wcontrol, Heard
<1> QED
  BY <1>2, <1>3, <1>4, <1>5 DEF CallSteps

LEMMA HeardRest ==
    ASSUME WkTypes, NEW s \in WkSources, Heard(s),
           OnVideo \/ DisplayTakes \/ RecordsRoute \/ UNCHANGED wkVars
    PROVE  Heard(s)'
<1>1. CASE RecordsRoute
  <2>1. wevents # <<>> /\ wevents \in Seq(WkNames) /\ wevents' = Tail(wevents)
    BY <1>1 DEF RecordsRoute, WkTypes
  <2>2. /\ Len(wevents) \in Nat \ {0} /\ Head(wevents) = wevents[1]
        /\ Len(Tail(wevents)) = Len(wevents) - 1
        /\ \A i \in 1 .. Len(Tail(wevents)) : Tail(wevents)[i] = wevents[i + 1]
    BY <2>1, HeadTailProperties, LenProperties, EmptySeq
  <2>3. \A i \in 1 .. Len(wevents) : wevents[i] = s
    BY DEF Heard
  <2>4. Head(wevents) = s
    BY <2>2, <2>3
  <2>5. \A i \in 1 .. Len(wevents') : wevents'[i] = s
    <3> SUFFICES ASSUME NEW i \in 1 .. Len(Tail(wevents)) PROVE Tail(wevents)[i] = s
      BY <2>1
    <3>1. i + 1 \in 1 .. Len(wevents)
      BY <2>2
    <3> QED
      BY <2>2, <2>3, <3>1
  <2>6. wctl'.wants \in {"", s} /\ (wctl'.due => wctl'.wants = s)
    <3>1. CASE wctl' = wctl
      BY <3>1 DEF Heard
    <3>2. CASE wctl' = [wants |-> s, due |-> TRUE]
      BY <3>2
    <3> QED
      BY <1>1, <2>4, <3>1, <3>2 DEF RecordsRoute
  <2> QED
    BY <1>1, <2>5, <2>6 DEF RecordsRoute, wstatus, Heard
<1>2. CASE OnVideo \/ DisplayTakes \/ UNCHANGED wkVars
  <2>1. UNCHANGED <<wname, worigin, wsaved, wctl, wevents, wop, wrecv, wcall>>
    BY <1>2 DEF OnVideo, DisplayTakes, wstatus, wcontrol, wkVars
  <2> QED
    BY <2>1 DEF Heard
<1> QED
  BY <1>1, <1>2

LEMMA HeardWorld ==
    ASSUME WkTypes, NEW s \in WkSources, Heard(s), Unlinked \/ SenderTurns
    PROVE  Heard(s)'
<1>1. wrecv \in WkRecvs /\ s # ""
  BY WorkerAssumption DEF WkTypes
<1>2. CASE Unlinked
  <2>1. \A i \in 1 .. Len(wevents') : wevents'[i] = s
    BY <1>2, NoFrames DEF Unlinked
  <2> QED
    BY <1>2, <2>1 DEF Unlinked, wstatus, Heard
<1>3. CASE SenderTurns
  <2>1. wrecv'.source = wrecv.source /\ wrecv'.sdk = wrecv.sdk /\ wrecv'.told = wrecv.told
    BY <1>1, <1>3 DEF SenderTurns, WkRecvs
  <2>2. wrecv.source = s
    BY <1>3 DEF SenderTurns, Heard
  <2> QED
    BY <1>3, <2>1, <2>2 DEF SenderTurns, wstatus, wcontrol, Heard
<1> QED
  BY <1>2, <1>3

\* The first route turns the receiver to s, before the worker hears of it.
LEMMA FirstRoute ==
    ASSUME WkTypes, Unheard(""), wkSpent.route = 0, Routes
    PROVE  wkSpent'.route = 1 /\ wkSpent'.choice = wkSpent.choice /\ \E s \in WkSources : Unheard(s)'
<1>1. PICK s \in WkNames : /\ s # wrecv.sdk /\ WkCosts("route", WkRoutes)
                           /\ wrecv' = [wrecv EXCEPT !.sdk = s, !.live = FALSE]
  BY DEF Routes, WkNames
<1>2. wrecv.source = "" /\ wrecv.sdk = "" /\ wcall.at # "routed" /\ wcall.source = ""
  BY DEF Unheard
<1>3. s \in WkSources
  BY <1>1, <1>2 DEF WkNames
<1>4. wrecv'.source = "" /\ wrecv'.sdk = s
  BY <1>1, <1>2 DEF WkTypes, WkRecvs
<1>5. Unheard(s)'
  <2>1. UNCHANGED <<wname, worigin, wsaved, wctl, wevents, wop, wcall>>
    BY DEF Routes, wstatus, wcontrol
  <2> QED
    BY <1>2, <1>4, <2>1 DEF Unheard
<1>6. wkSpent'.route = 1 /\ wkSpent'.choice = wkSpent.choice
  BY <1>1, RouteCosts, Zenon DEF WkTypes
<1> QED
  BY <1>3, <1>5, <1>6

\* What is neither a choice nor a route leaves a worker as it was, or brings it the
\* route that is on its way.
LEMMA QuietStep ==
    ASSUME WkTypes, NEW s \in WkNames, Unheard(s) \/ (s # "" /\ Heard(s)), [WkNext]_wkVars,
           ~Chooses, ~Routes
    PROVE  Unheard(s)' \/ (s # "" /\ Heard(s)')
<1>1. CASE Unheard(s)
  <2>1. CASE UNCHANGED wkVars \/ OnVideo \/ DisplayTakes \/ RecordsRoute
    <3>1. UNCHANGED wkSpent
      BY <2>1 DEF wkVars, OnVideo, DisplayTakes, RecordsRoute
    <3> QED
      BY <1>1, <2>1, <3>1, UnheardRest
  <2> QED
    BY <1>1, <2>1, UnheardCaller, UnheardServe, UnheardCall, UnheardWorld DEF WkNext
<1>2. CASE s # "" /\ Heard(s)
  <2>1. s \in WkSources
    BY <1>2 DEF WkNames
  <2> QED
    BY <1>2, <2>1, HeardCaller, HeardServe, HeardCall, HeardRest, HeardWorld DEF WkNext
<1> QED
  BY <1>1, <1>2

\* Nothing else is counted as a choice or a route.
LEMMA QuietSpends ==
    ASSUME WkTypes, [WkNext]_wkVars, ~Chooses, ~Routes
    PROVE  wkSpent'.choice = wkSpent.choice /\ wkSpent'.route = wkSpent.route
<1>1. CASE Unlinked
  BY <1>1, CostTyped DEF Unlinked, WkTypes
<1>2. CASE SenderTurns
  BY <1>2, CostTyped DEF SenderTurns, WkTypes
<1>3. CASE ~Unlinked /\ ~SenderTurns
  <2>1. UNCHANGED wkSpent
    BY <1>3
    DEF WkNext, CallerSteps, ConnectRefused, ConnectMarks, Switch, Leaves, Forgets, ApplyConfig, Checks,
        Subscribes, DropsUnshown, DisplayAttached, CallSteps, CallConnected, OnConnected,
        OnConnectedName, CallLost, OnLostCall, CallRouted, OnRouted, OnVideo, DisplayTakes, RecordsRoute,
        wkVars
  <2> QED
    BY <2>1
<1> QED
  BY <1>1, <1>2, <1>3

LEMMA LoneRouteKept == ASSUME WkTypes, LoneRouteInv, [WkNext]_wkVars PROVE LoneRouteInv'
<1>1. CASE Chooses
  <2>1. wkSpent'.choice = wkSpent.choice + 1 /\ wkSpent.choice \in Nat
    BY <1>1, ChoiceCosts DEF Chooses, WkTypes
  <2>2. wkSpent'.choice # 0
    BY <2>1
  <2> QED
    BY <2>2 DEF LoneRouteInv
<1>2. CASE Routes
  <2>1. /\ wkSpent'.route = wkSpent.route + 1 /\ wkSpent'.choice = wkSpent.choice
        /\ wkSpent.route \in Nat
    BY <1>2, RouteCosts DEF Routes, WkTypes
  <2>2. CASE wkSpent.route # 0
    <3>1. wkSpent'.route # 0 /\ wkSpent'.route # 1
      BY <2>1, <2>2
    <3> QED
      BY <3>1 DEF LoneRouteInv
  <2>3. CASE wkSpent.route = 0 /\ wkSpent.choice = 0
    <3>1. Unheard("")
      BY <2>3 DEF LoneRouteInv
    <3>2. wkSpent'.route = 1 /\ \E s \in WkSources : Unheard(s)'
      BY <1>2, <2>3, <3>1, FirstRoute, Zenon
    <3>3. wkSpent'.route # 0
      BY <3>2
    <3> QED
      BY <3>2, <3>3, Zenon DEF LoneRouteInv
  <2> QED
    <3>1. CASE wkSpent.choice # 0
      BY <2>1, <3>1 DEF LoneRouteInv
    <3> QED
      BY <2>2, <2>3, <3>1
<1>3. CASE ~Chooses /\ ~Routes
  <2>1. wkSpent'.choice = wkSpent.choice /\ wkSpent'.route = wkSpent.route
    BY <1>3, QuietSpends
  <2>2. ASSUME wkSpent.choice = 0, wkSpent.route = 0 PROVE Unheard("")'
    <3>1. "" \in WkNames /\ Unheard("")
      BY <2>2 DEF LoneRouteInv, WkNames
    <3> QED
      BY <1>3, <3>1, QuietStep
  <2>3. ASSUME wkSpent.choice = 0, wkSpent.route = 1
        PROVE  \E s \in WkSources : Unheard(s)' \/ Heard(s)'
    <3>1. PICK s \in WkSources : Unheard(s) \/ Heard(s)
      BY <2>3 DEF LoneRouteInv
    <3>2. s \in WkNames /\ s # ""
      BY WorkerAssumption DEF WkNames
    <3> QED
      BY <1>3, <3>1, <3>2, QuietStep
  <2> QED
    BY <2>1, <2>2, <2>3 DEF LoneRouteInv
<1> QED
  BY <1>1, <1>2, <1>3

-------------------------------------------------------------------------------
(* The theorems.                                                               *)

\* Of a route that is alone, every place that names a source knows nothing, or names
\* that route; and a queue is drained by the time a change of source is over.
THEOREM WkInvHolds == WkSafe => []WkInv
<1>1. WkInit => WkInv
  <2> SUFFICES ASSUME WkInit PROVE WkInv
    OBVIOUS
  <2>1. NoOldPicture
    <3>1. wqueue = <<>>
      BY Zenon DEF WkInit
    <3> QED
      BY <3>1, NoFrames DEF NoOldPicture
  <2>2. Unheard("")
    <3>1. PICK no \in BOOLEAN : no = FALSE
      OBVIOUS
    <3>2. /\ wrecv = [source |-> "", sdk |-> "", live |-> no, told |-> no]
          /\ wctl = [wants |-> "", due |-> no] /\ wcall = NoCall
      BY <3>1 DEF WkInit
    <3>3. wrecv.source = "" /\ wrecv.sdk = "" /\ wctl.wants = "" /\ ~wctl.due
      BY <3>1, <3>2
    <3>4. wcall.at # "routed" /\ wcall.source = ""
      BY <3>2 DEF NoCall
    <3>5. wop["ipc"] = AtRest /\ wop["main"] = AtRest
      BY DEF WkInit, Callers
    <3> QED
      BY <3>3, <3>4, <3>5, NamesAtRest DEF WkInit, Unheard
  <2>3. wkSpent.route = 0
    <3>1. wkSpent = [choice |-> 0, route |-> 0, world |-> 0, unlink |-> 0]
      BY Zenon DEF WkInit
    <3> QED
      BY <3>1
  <2> QED
    <3>1. wkSpent.route # 1
      BY <2>3
    <3>2. LoneRouteInv
      BY <2>2, <3>1, Zenon DEF LoneRouteInv
    <3> QED
      BY <2>1, <3>2, WkTypesAtFirst DEF WkInv
<1>2. WkInv /\ [WkNext]_wkVars => WkInv'
  BY WkTypesKept, OldKept, LoneRouteKept DEF WkInv
<1> QED
  BY <1>1, <1>2, PTL DEF WkSafe

\* What an output worker promises about its source (DisplayWorker, main.cpp): no
\* frame of a source that was left waits to be shown, and a route of the Discovery
\* Server that comes back as configuration is not answered with a connect, for any
\* sources, routes, senders, displays and subscribers.
THEOREM WorkerKeepsItsWord == WkSafe => []WorkerPromises
<1>1. WkInv => WorkerPromises
  <2> SUFFICES ASSUME WkInv PROVE WorkerPromises
    OBVIOUS
  <2>1. WkTypeOK
    BY DEF WkInv, WkTypes, WkTypeOK, WkNames, WkRecvs, WkCtls, WkCalls, WkOp, QueueDepth
  <2>2. ASSUME wkSpent.choice = 0, wkSpent.route <= 1
        PROVE  wop["ipc"].at \notin {"connect", "switch"}
    <3>1. wkSpent.route \in {0, 1}
      BY <2>2 DEF WkInv, WkTypes, WkSpents
    <3>2. PICK s : Unheard(s) \/ Heard(s)
      BY <2>2, <3>1 DEF WkInv, LoneRouteInv
    <3> QED
      BY <3>2, NamesAtRest DEF Unheard, Heard
  <2> QED
    BY <2>1, <2>2 DEF WkInv, WorkerPromises, RouteUnanswered
<1> QED
  BY <1>1, WkInvHolds, PTL

--------------------------------------------------------------------------------
(* The finder.                                                                 *)

\* The finder by itself, without what the scheduler owes it.
FinSafe == FinInit /\ [][FinNext]_finVars

-------------------------------------------------------------------------------
(* The inductive invariant.                                                    *)

\* The type invariant, with the fields of the process.
FinProcs == [sel : 0 .. 2, set : 0 .. 2, sdk : 0 .. 2, by : 0 .. 2, list : 0 .. 2,
             mem : 0 .. 2, last : 0 .. 2]
FinLefts == [world : 0 .. FinWorld, requests : 0 .. FinRequests, faults : 0 .. FinFaults]
FinTypes ==
    /\ fSees \in [{1, 2} -> 0 .. 2] /\ fSig \in 0 .. 2
    /\ fAt \in {"down", "poll", "cache", "reply", "tick", "wait"} /\ fProc \in FinProcs
    /\ fDisk \in 0 .. 2 /\ fCache \in 0 .. 2 /\ fPast \in FinPasts /\ fFile \in 0 .. 2
    /\ fParam \in {"none", "run", "rs"} /\ fLeft \in FinLefts

\* A process that runs is on one set of settings: those it remembers as accepted, or
\* those of the credentials; so are the SDK and its file, if the write got through.
OneSetting(p) == p.by = p.set /\ p.set = LoadSettings(p.mem) /\ p.set # 0
SameBelow(p, disk, written) == written => p.sdk = p.set /\ disk = p.set
SettingInv == fAt # "down" => OneSetting(fProc) /\ SameBelow(fProc, fDisk, fPast.sdk)

\* The cache has what was acknowledged last, or what is about to be.
CacheInv == fPast.acked # 0 => fCache = fPast.acked \/ fPast.open

FinInv == FinTypes /\ SettingInv /\ CacheInv

-------------------------------------------------------------------------------
(* The steps.                                                                  *)

LEMMA FinInvAtFirst == FinInit => FinInv
<1> SUFFICES ASSUME FinInit PROVE FinInv
  OBVIOUS
<1>1. fProc \in FinProcs
  BY DEF FinInit, NoFinder, FinProcs
<1>2. fLeft \in FinLefts
  BY FinAssumption DEF FinInit, FinLefts
<1>3. fPast \in FinPasts /\ CacheInv
  BY DEF FinInit, FinPasts, CacheInv
<1> QED
  BY <1>1, <1>2, <1>3 DEF FinInit, FinInv, FinTypes, SettingInv, FinSettings, FinLists

\* A write leaves what was there or what was written, and one that got through is there.
LEMMA WriteIs ==
    ASSUME NEW f \in 0 .. 2, NEW v \in 0 .. 2, NEW ok \in BOOLEAN
    PROVE  Write(f, v, ok) \in 0 .. 2 /\ (ok \/ f = v => Write(f, v, ok) = v)
BY DEF Write

\* What a write costs is left.
LEMMA LeftIs ==
    ASSUME FinInv, NEW ok \in BOOLEAN, ok \/ fLeft.faults > 0
    PROVE  fLeft.faults - Cost(ok) \in 0 .. FinFaults
BY FinAssumption DEF Cost, FinInv, FinTypes, FinLefts
LEMMA MayFailIs ==
    ASSUME FinInv, NEW f, NEW v, NEW ok \in MayFail(f, v)
    PROVE  ok \in BOOLEAN /\ (ok \/ fLeft.faults > 0)
<1>1. fLeft.faults \in 0 .. FinFaults
  BY DEF FinInv, FinTypes, FinLefts
<1>2. CASE fLeft.faults = 0 \/ f = v
  BY <1>2 DEF MayFail
<1>3. CASE fLeft.faults # 0 /\ f # v
  <2>1. ok \in BOOLEAN
    BY <1>3 DEF MayFail
  <2> QED
    BY <1>1, <1>3, <2>1, FinAssumption
<1> QED
  BY <1>2, <1>3

\* Only the first write decides what the SDK and its file have.
LEMMA SdkWritten ==
    ASSUME FinInv, NEW f \in 0 .. 2, NEW s \in {1, 2}, NEW first \in BOOLEAN, NEW again \in BOOLEAN,
           WriteSdkConfig(f, s, first, again)
    PROVE  /\ fDisk' \in 0 .. 2 /\ fPast' \in FinPasts
           /\ fPast'.sdk = first /\ fPast'.acked = fPast.acked /\ fPast'.open = fPast.open
           /\ first => fDisk' = s
<1>1. fDisk' \in 0 .. 2 /\ (first => fDisk' = s)
  BY DEF WriteSdkConfig, Write
<1>2. fPast' = [acked |-> fPast.acked, open |-> fPast.open, sdk |-> first, list |-> fPast.list]
  BY DEF WriteSdkConfig, FinInv, FinTypes, FinPasts
<1> QED
  BY <1>1, <1>2 DEF FinInv, FinTypes, FinPasts

\* The process ends.
LEMMA ExitKeeps ==
    ASSUME FinInv, Exits, UNCHANGED <<fSees, fSig, fCache, fFile>>, fParam' \in {"none", "run", "rs"},
           fPast' \in FinPasts, fPast'.acked = fPast.acked, fPast'.open = fPast.open,
           fDisk' \in 0 .. 2, fLeft' \in FinLefts
    PROVE  FinInv'
<1>1. fProc' \in FinProcs
  BY DEF Exits, NoFinder, FinProcs
<1> QED
  BY <1>1 DEF Exits, FinInv, FinTypes, SettingInv, CacheInv

LEMMA InitialisedIsOne ==
    ASSUME NEW p \in FinProcs, NEW s \in {1, 2}, NEW r \in 0 .. 2
    PROVE  /\ Initialised(p, s, r) \in FinProcs /\ Initialised(p, s, r).mem = p.mem
           /\ Initialised(p, s, r).by = s /\ Initialised(p, s, r).set = s
           /\ Initialised(p, s, r).sdk = r
           /\ LoadSettings(p.mem) = s => OneSetting(Initialised(p, s, r))
<1>1. PICK q : q = Initialised(p, s, r)
  OBVIOUS
<1>2. q = [sel |-> p.sel, set |-> s, sdk |-> r, by |-> s, list |-> 0, mem |-> p.mem, last |-> p.last]
  BY <1>1 DEF Initialised, FinProcs
<1>3. q \in FinProcs /\ q.mem = p.mem /\ q.by = s /\ q.sdk = r /\ q.set = s
  BY <1>2 DEF FinProcs
<1> QED
  BY <1>1, <1>3 DEF OneSetting

LEMMA LoadTyped == ASSUME NEW m \in 0 .. 2 PROVE LoadSettings(m) \in {1, 2}
BY DEF LoadSettings, FinBoot

LEMMA StartKeeps == ASSUME FinInv, StartFinder PROVE FinInv'
<1>0. PICK s : s = LoadSettings(fCache)
  OBVIOUS
<1>1. PICK first \in MayFail(fDisk, s), again \in BOOLEAN :
        /\ fProc' = Initialised([NoFinder EXCEPT !.mem = fCache, !.sel = fSig], s, Write(fDisk, s, first))
        /\ WriteSdkConfig(fDisk, s, first, again)
        /\ fLeft' = [fLeft EXCEPT !.faults = @ - Cost(first)]
  BY <1>0 DEF StartFinder
<1>2. PICK p : p = [NoFinder EXCEPT !.mem = fCache, !.sel = fSig]
  OBVIOUS
<1>3. p \in FinProcs /\ p.mem = fCache
  <2>1. p = [sel |-> fSig, set |-> 0, sdk |-> 0, by |-> 0, list |-> 0, mem |-> fCache, last |-> 0]
    BY <1>2 DEF NoFinder
  <2> QED
    BY <2>1 DEF FinProcs, FinInv, FinTypes
<1>4. s \in {1, 2} /\ fDisk \in 0 .. 2
  BY <1>0, LoadTyped DEF FinInv, FinTypes
<1>5. first \in BOOLEAN /\ (first \/ fLeft.faults > 0)
  BY MayFailIs
<1>6. PICK r \in 0 .. 2 : r = Write(fDisk, s, first) /\ (first => r = s)
  BY <1>4, <1>5, WriteIs
<1>7. fProc' = Initialised(p, s, r)
  BY <1>1, <1>2, <1>6
<1>8. fProc' \in FinProcs /\ OneSetting(fProc') /\ fProc'.set = s /\ fProc'.sdk = r
  BY <1>0, <1>3, <1>4, <1>7, InitialisedIsOne
<1>9. /\ fDisk' \in 0 .. 2 /\ fPast' \in FinPasts /\ (first => fDisk' = s)
      /\ fPast'.sdk = first /\ fPast'.acked = fPast.acked /\ fPast'.open = fPast.open
  BY <1>1, <1>4, <1>5, SdkWritten
<1>10. fLeft' \in FinLefts
  BY <1>1, <1>5, LeftIs DEF FinInv, FinTypes, FinLefts
<1>11. /\ UNCHANGED <<fSees, fSig, fCache, fFile, fParam>> /\ fAt' = "poll"
  BY DEF StartFinder, FinOutside
<1> QED
  BY <1>6, <1>8, <1>9, <1>10, <1>11 DEF FinInv, FinTypes, SettingInv, SameBelow, CacheInv

LEMMA OneSettingIs ==
    ASSUME NEW q, NEW s \in {1, 2}, q.by = s, q.set = s, q.mem = s PROVE OneSetting(q)
BY DEF OneSetting, LoadSettings

\* New settings are in force, and remembered.
Remembered(p, s, r) == [Initialised(p, s, r) EXCEPT !.mem = s, !.last = 0]
LEMMA AcceptedIsOne ==
    ASSUME NEW p \in FinProcs, NEW s \in {1, 2}, NEW r \in 0 .. 2
    PROVE  /\ Remembered(p, s, r) \in FinProcs /\ OneSetting(Remembered(p, s, r))
           /\ Remembered(p, s, r).set = s /\ Remembered(p, s, r).sdk = r
<1>1. PICK i : i = Initialised(p, s, r)
  OBVIOUS
<1>2. i \in FinProcs /\ i.by = s /\ i.set = s /\ i.sdk = r
  BY <1>1, InitialisedIsOne
<1>3. PICK q : q = [i EXCEPT !.mem = s, !.last = 0]
  OBVIOUS
<1>4. q = [sel |-> i.sel, set |-> s, sdk |-> r, by |-> s, list |-> i.list, mem |-> s, last |-> 0]
  BY <1>2, <1>3 DEF FinProcs
<1>5. q.by = s /\ q.set = s /\ q.sdk = r /\ q.mem = s
  BY <1>4
<1>6. q \in FinProcs
  BY <1>2, <1>4 DEF FinProcs
<1>7. OneSetting(q)
  BY <1>5, OneSettingIs, Zenon
<1>8. Remembered(p, s, r) = q
  BY <1>1, <1>3 DEF Remembered
<1> QED
  BY <1>5, <1>6, <1>7, <1>8

LEMMA AcceptKeeps == ASSUME FinInv, NEW new \in FinSettings, AcceptConfig(new) PROVE FinInv'
<1>1. /\ UNCHANGED <<fSees, fSig, fCache, fFile, fParam>> /\ fAt' = "cache" /\ fAt = "poll"
      /\ new \in {1, 2} /\ fProc \in FinProcs /\ fDisk \in 0 .. 2 /\ fLeft.requests > 0
  BY DEF AcceptConfig, FinOutside, FinSettings, FinInv, FinTypes
<1>2. CASE fProc.mem = new
  <2>1. UNCHANGED <<fProc, fDisk, fPast>> /\ fLeft' = [fLeft EXCEPT !.requests = @ - 1]
    BY <1>2 DEF AcceptConfig
  <2>2. fLeft' \in FinLefts
    <3>1. PICK requests \in 0 .. FinRequests : requests = fLeft.requests - 1
      BY <1>1, FinAssumption DEF FinInv, FinTypes, FinLefts
    <3>2. fLeft' = [world |-> fLeft.world, requests |-> requests, faults |-> fLeft.faults]
      BY <2>1, <3>1 DEF FinInv, FinTypes, FinLefts
    <3> QED
      BY <3>2 DEF FinInv, FinTypes, FinLefts
  <2> QED
    BY <1>1, <2>1, <2>2 DEF FinInv, FinTypes, SettingInv, SameBelow, OneSetting, CacheInv
<1>3. CASE fProc.mem # new
  <2>1. PICK first \in MayFail(fDisk, new), again \in BOOLEAN :
          /\ fProc' = [Initialised(fProc, new, Write(fDisk, new, first)) EXCEPT !.mem = new, !.last = 0]
          /\ WriteSdkConfig(fDisk, new, first, again)
          /\ fLeft' = [fLeft EXCEPT !.requests = @ - 1, !.faults = @ - Cost(first)]
    BY <1>3 DEF AcceptConfig
  <2>2. first \in BOOLEAN /\ (first \/ fLeft.faults > 0)
    BY MayFailIs
  <2>3. PICK r \in 0 .. 2 : r = Write(fDisk, new, first) /\ (first => r = new)
    BY <1>1, <2>2, WriteIs
  <2>4. fProc' \in FinProcs /\ OneSetting(fProc') /\ fProc'.set = new /\ fProc'.sdk = r
    <3>1. fProc' = Remembered(fProc, new, r)
      BY <2>1, <2>3 DEF Remembered
    <3> QED
      BY <1>1, <3>1, AcceptedIsOne
  <2>5. /\ fDisk' \in 0 .. 2 /\ fPast' \in FinPasts /\ (first => fDisk' = new)
        /\ fPast'.sdk = first /\ fPast'.acked = fPast.acked /\ fPast'.open = fPast.open
    BY <1>1, <2>1, <2>2, SdkWritten
  <2>6. PICK faults \in 0 .. FinFaults : faults = fLeft.faults - Cost(first)
    BY <2>2, LeftIs
  <2>7. fLeft' = [world |-> fLeft.world, requests |-> fLeft.requests - 1, faults |-> faults]
    BY <2>1, <2>6 DEF FinInv, FinTypes, FinLefts
  <2>8. fLeft' \in FinLefts
    <3>1. PICK requests \in 0 .. FinRequests : requests = fLeft.requests - 1
      BY <1>1, FinAssumption DEF FinInv, FinTypes, FinLefts
    <3>2. fLeft' = [world |-> fLeft.world, requests |-> requests, faults |-> faults]
      BY <2>7, <3>1
    <3> QED
      BY <2>6, <3>2 DEF FinInv, FinTypes, FinLefts
  <2> QED
    BY <1>1, <2>3, <2>4, <2>5, <2>8 DEF FinInv, FinTypes, SettingInv, SameBelow, CacheInv
<1> QED
  BY <1>2, <1>3

LEMMA RefuseKeeps == ASSUME FinInv, NEW new \in FinSettings, RefuseConfig(new) PROVE FinInv'
<1>1. /\ UNCHANGED <<fSees, fSig, fCache, fFile, fParam>>
      /\ fProc \in FinProcs /\ fProc.set \in {1, 2} /\ fProc.set = LoadSettings(fProc.mem)
      /\ fDisk \in 0 .. 2 /\ new \in {1, 2}
  BY DEF RefuseConfig, FinOutside, FinInv, FinTypes, FinProcs, SettingInv, OneSetting, FinSettings
<1>2. PICK tried \in {fDisk, new}, again \in BOOLEAN, first \in BOOLEAN :
        /\ ~first => tried # fProc.set /\ fLeft.faults > 1
        /\ WriteSdkConfig(tried, fProc.set, first, again)
        /\ \/ fProc' = Initialised(fProc, fProc.set, Write(tried, fProc.set, first)) /\ fAt' = "tick"
           \/ Exits
        /\ fLeft' = [fLeft EXCEPT !.requests = @ - 1, !.faults = @ - 1 - Cost(first)]
  BY DEF RefuseConfig
<1>3. tried \in 0 .. 2
  BY <1>1
<1>4. PICK r \in 0 .. 2 : r = Write(tried, fProc.set, first) /\ (first => r = fProc.set)
  BY <1>1, <1>3, WriteIs
<1>5. /\ fDisk' \in 0 .. 2 /\ fPast' \in FinPasts /\ (first => fDisk' = fProc.set)
      /\ fPast'.sdk = first /\ fPast'.acked = fPast.acked /\ fPast'.open = fPast.open
  BY <1>1, <1>2, <1>3, SdkWritten
<1>6. fLeft' \in FinLefts
  <2>1. PICK faults : faults = fLeft.faults - 1 - Cost(first)
    OBVIOUS
  <2>2. faults \in 0 .. FinFaults
    BY <1>2, <2>1, FinAssumption DEF Cost, RefuseConfig, FinInv, FinTypes, FinLefts
  <2>3. fLeft' = [world |-> fLeft.world, requests |-> fLeft.requests - 1, faults |-> faults]
    BY <1>2, <2>1 DEF FinInv, FinTypes, FinLefts
  <2> QED
    BY <2>2, <2>3, FinAssumption DEF RefuseConfig, FinInv, FinTypes, FinLefts
<1>7. CASE Exits
  <2>1. fParam' \in {"none", "run", "rs"}
    BY <1>1 DEF FinInv, FinTypes
  <2> QED
    BY <1>1, <1>5, <1>6, <1>7, <2>1, ExitKeeps
<1>8. CASE fProc' = Initialised(fProc, fProc.set, Write(tried, fProc.set, first)) /\ fAt' = "tick"
  <2>1. fProc' = Initialised(fProc, fProc.set, r)
    BY <1>4, <1>8
  <2>2. fProc' \in FinProcs /\ OneSetting(fProc') /\ fProc'.set = fProc.set /\ fProc'.sdk = r
    BY <1>1, <2>1, InitialisedIsOne
  <2> QED
    BY <1>1, <1>4, <1>5, <1>6, <1>8, <2>2 DEF FinInv, FinTypes, SettingInv, SameBelow, CacheInv
<1> QED
  BY <1>2, <1>7, <1>8

LEMMA CacheKeeps == ASSUME FinInv, NEW ok \in BOOLEAN, CacheConfig(ok) PROVE FinInv'
<1>1. /\ UNCHANGED <<fSees, fSig, fProc, fDisk, fFile, fParam>> /\ fAt' = "reply" /\ fAt # "down"
      /\ fProc.mem \in 0 .. 2
  BY DEF CacheConfig, FinOutside, FinInv, FinTypes, FinProcs
<1>2. fLeft' \in FinLefts
  <2>1. fLeft' = [fLeft EXCEPT !.faults = @ - Cost(ok)] /\ (ok \/ fLeft.faults > 0)
    BY DEF CacheConfig
  <2> QED
    BY <2>1, LeftIs DEF FinInv, FinTypes, FinLefts
<1>3. /\ fPast' = [acked |-> fPast.acked, open |-> fPast.open \/ ok, sdk |-> fPast.sdk,
                   list |-> fPast.list]
  BY DEF CacheConfig, FinInv, FinTypes, FinPasts
<1>4. fPast' \in FinPasts /\ fPast'.sdk = fPast.sdk
  BY <1>3 DEF FinInv, FinTypes, FinPasts
<1>5. fCache' \in 0 .. 2 /\ CacheInv'
  BY <1>1, <1>3 DEF CacheConfig, Cached, Write, FinInv, FinTypes, CacheInv
<1> QED
  BY <1>1, <1>2, <1>4, <1>5 DEF FinInv, FinTypes, SettingInv, SameBelow, OneSetting

LEMMA ReplyKeeps == ASSUME FinInv, Reply PROVE FinInv'
<1>1. /\ UNCHANGED <<fSees, fSig, fProc, fDisk, fCache, fFile, fParam, fLeft>> /\ fAt' = "tick"
      /\ fAt # "down" /\ fProc.mem \in 0 .. 2
  BY DEF Reply, FinOutside, FinInv, FinTypes, FinProcs
<1>2. /\ fPast' = [acked |-> AnswerKept(fProc.mem), open |-> FALSE, sdk |-> fPast.sdk,
                   list |-> fPast.list]
  BY DEF Reply, FinInv, FinTypes, FinPasts
<1>3. AnswerKept(fProc.mem) \in 0 .. 2 /\ (AnswerKept(fProc.mem) # 0 => fCache = AnswerKept(fProc.mem))
  BY <1>1 DEF AnswerKept
<1>4. fPast' \in FinPasts /\ fPast'.sdk = fPast.sdk /\ CacheInv'
  BY <1>1, <1>2, <1>3 DEF FinInv, FinTypes, FinPasts, CacheInv
<1> QED
  BY <1>1, <1>4 DEF FinInv, FinTypes, SettingInv, SameBelow, OneSetting

\* A rescan takes the settings that are in force.
LEMMA RescanKeeps ==
    ASSUME FinInv, OneSetting(fProc), SameBelow(fProc, fDisk, fPast.sdk), Rescan
    PROVE  /\ fProc' \in FinProcs /\ OneSetting(fProc') /\ fDisk' \in 0 .. 2 /\ fLeft' \in FinLefts
           /\ SameBelow(fProc', fDisk', fPast.sdk) /\ UNCHANGED <<fFile, fPast>>
<1>0. PICK s : s = LoadSettings(fProc.mem)
  OBVIOUS
<1>1. PICK ok \in MayFail(fDisk, s) :
        /\ fProc' = [fProc EXCEPT !.set = s, !.by = s, !.list = 0, !.last = 0]
        /\ fDisk' = Write(fDisk, s, ok)
        /\ fLeft' = [fLeft EXCEPT !.faults = @ - Cost(ok)]
        /\ UNCHANGED <<fFile, fPast>>
  BY <1>0 DEF Rescan
<1>2. ok \in BOOLEAN /\ (ok \/ fLeft.faults > 0)
  BY MayFailIs
<1>3. s = fProc.set /\ s \in {1, 2} /\ fDisk \in 0 .. 2 /\ fProc \in FinProcs
  BY <1>0 DEF OneSetting, FinInv, FinTypes, FinProcs
<1>4. fProc' = [sel |-> fProc.sel, set |-> s, sdk |-> fProc.sdk, by |-> s, list |-> 0,
                mem |-> fProc.mem, last |-> 0]
  BY <1>1, <1>3 DEF FinProcs
<1>5. /\ fProc' \in FinProcs /\ fProc'.by = s /\ fProc'.set = s /\ fProc'.mem = fProc.mem
      /\ fProc'.sdk = fProc.sdk
  BY <1>3, <1>4 DEF FinProcs
<1>6. OneSetting(fProc')
  BY <1>0, <1>3, <1>5 DEF OneSetting
<1>7. fDisk' \in 0 .. 2 /\ (fDisk = s => fDisk' = s)
  BY <1>1, <1>2, <1>3, WriteIs
<1>8. fLeft' \in FinLefts
  BY <1>1, <1>2, LeftIs DEF FinInv, FinTypes, FinLefts
<1> QED
  BY <1>1, <1>3, <1>5, <1>6, <1>7, <1>8 DEF SameBelow

\* A new list is written, or could not be.
LEMMA ListWritten ==
    ASSUME FinInv, NEW l \in 0 .. 2, NEW ok \in BOOLEAN, ok \/ fLeft.faults > 0,
           WriteSourceList(l, ok), fLeft' = [fLeft EXCEPT !.faults = @ - Cost(ok)],
           fProc' = [fProc EXCEPT !.last = l]
    PROVE  /\ fFile' \in 0 .. 2 /\ fPast' \in FinPasts /\ fLeft' \in FinLefts /\ fProc' \in FinProcs
           /\ fPast'.sdk = fPast.sdk /\ fPast'.acked = fPast.acked /\ fPast'.open = fPast.open
           /\ OneSetting(fProc) => OneSetting(fProc')
           /\ fProc'.sdk = fProc.sdk /\ fProc'.set = fProc.set
<1>1. fFile' \in 0 .. 2
  BY WriteIs DEF WriteSourceList, FinInv, FinTypes
<1>2. fPast' = [acked |-> fPast.acked, open |-> fPast.open, sdk |-> fPast.sdk, list |-> ok]
  BY DEF WriteSourceList, FinInv, FinTypes, FinPasts
<1>3. fPast' \in FinPasts /\ fPast'.sdk = fPast.sdk /\ fPast'.acked = fPast.acked
      /\ fPast'.open = fPast.open
  BY <1>2 DEF FinInv, FinTypes, FinPasts
<1>4. fLeft' \in FinLefts
  BY LeftIs DEF FinInv, FinTypes, FinLefts
<1>5. fProc' \in FinProcs /\ fProc'.sdk = fProc.sdk /\ fProc'.set = fProc.set
      /\ fProc'.mem = fProc.mem /\ fProc'.by = fProc.by
  BY DEF FinInv, FinTypes, FinProcs
<1>6. OneSetting(fProc) => OneSetting(fProc')
  BY <1>5 DEF OneSetting
<1> QED
  BY <1>1, <1>3, <1>4, <1>5, <1>6

LEMMA TickKeeps == ASSUME FinInv, FinTick PROVE FinInv'
<1>1. /\ UNCHANGED <<fSees, fSig, fCache>> /\ fProc \in FinProcs
      /\ OneSetting(fProc) /\ SameBelow(fProc, fDisk, fPast.sdk) /\ fDisk \in 0 .. 2
      /\ fLeft \in FinLefts /\ fPast \in FinPasts /\ fFile \in 0 .. 2
      /\ fParam \in {"none", "run", "rs"}
  BY DEF FinTick, FinOutside, FinInv, FinTypes, SettingInv
<1>2. CASE ~NetworkStays
  <2>1. Exits /\ UNCHANGED <<fFile, fParam, fDisk, fPast, fLeft>>
    BY <1>2 DEF FinTick
  <2> QED
    BY <1>1, <2>1, ExitKeeps
<1>3. CASE NetworkStays
  <2>1. fAt' = "wait" /\ fParam' = "none"
    BY <1>3 DEF FinTick
  <2>2. CASE fParam = "run"
    <3>1. Rescan
      BY <1>3, <2>2 DEF FinTick
    <3>2. /\ fProc' \in FinProcs /\ OneSetting(fProc') /\ fDisk' \in 0 .. 2 /\ fLeft' \in FinLefts
          /\ SameBelow(fProc', fDisk', fPast.sdk) /\ UNCHANGED <<fFile, fPast>>
      BY <1>1, <3>1, RescanKeeps
    <3> QED
      BY <1>1, <2>1, <3>2 DEF FinInv, FinTypes, SettingInv, CacheInv
  <2>3. CASE fParam = "rs"
    <3>1. PICK ok \in MayFail(fFile, 0) :
            /\ WriteSourceList(0, ok) /\ fProc' = [fProc EXCEPT !.last = 0]
            /\ fLeft' = [fLeft EXCEPT !.faults = @ - Cost(ok)] /\ UNCHANGED fDisk
      BY <1>3, <2>3 DEF FinTick, Reset
    <3>2. ok \in BOOLEAN /\ (ok \/ fLeft.faults > 0)
      BY MayFailIs
    <3>3. /\ fFile' \in 0 .. 2 /\ fPast' \in FinPasts /\ fLeft' \in FinLefts /\ fProc' \in FinProcs
          /\ fPast'.sdk = fPast.sdk /\ fPast'.acked = fPast.acked /\ fPast'.open = fPast.open
          /\ OneSetting(fProc) => OneSetting(fProc')
          /\ fProc'.sdk = fProc.sdk /\ fProc'.set = fProc.set
      BY <3>1, <3>2, ListWritten
    <3> QED
      BY <1>1, <2>1, <3>1, <3>3 DEF FinInv, FinTypes, SettingInv, SameBelow, CacheInv
  <2>4. CASE fParam \notin {"run", "rs"}
    <3>1. UNCHANGED <<fProc, fFile, fDisk, fPast, fLeft>>
      BY <1>3, <2>4 DEF FinTick
    <3> QED
      BY <1>1, <2>1, <3>1 DEF FinInv, FinTypes, SettingInv, SameBelow, OneSetting, CacheInv
  <2> QED
    BY <2>2, <2>3, <2>4
<1> QED
  BY <1>2, <1>3

LEMMA CompareKeeps == ASSUME FinInv, CompareList PROVE FinInv'
<1>1. /\ UNCHANGED <<fSees, fSig, fDisk, fCache, fParam>> /\ fProc \in FinProcs /\ fAt' = "poll"
      /\ OneSetting(fProc) /\ SameBelow(fProc, fDisk, fPast.sdk) /\ fProc.list \in 0 .. 2
  BY DEF CompareList, FinOutside, FinInv, FinTypes, SettingInv, FinProcs
<1>2. CASE Differs(fProc.list)
  <2>1. PICK ok \in MayFail(fFile, fProc.list) :
          /\ fProc' = [fProc EXCEPT !.last = fProc.list] /\ WriteSourceList(fProc.list, ok)
          /\ fLeft' = [fLeft EXCEPT !.faults = @ - Cost(ok)]
    BY <1>2 DEF CompareList
  <2>2. ok \in BOOLEAN /\ (ok \/ fLeft.faults > 0)
    BY MayFailIs
  <2>3. /\ fFile' \in 0 .. 2 /\ fPast' \in FinPasts /\ fLeft' \in FinLefts /\ fProc' \in FinProcs
        /\ fPast'.sdk = fPast.sdk /\ fPast'.acked = fPast.acked /\ fPast'.open = fPast.open
        /\ OneSetting(fProc) => OneSetting(fProc')
        /\ fProc'.sdk = fProc.sdk /\ fProc'.set = fProc.set
    BY <1>1, <2>1, <2>2, ListWritten
  <2> QED
    BY <1>1, <2>3 DEF FinInv, FinTypes, SettingInv, SameBelow, CacheInv
<1>3. CASE ~Differs(fProc.list)
  <2>1. UNCHANGED <<fFile, fProc, fPast, fLeft>>
    BY <1>3 DEF CompareList
  <2> QED
    BY <1>1, <2>1 DEF FinInv, FinTypes, SettingInv, SameBelow, OneSetting, CacheInv
<1> QED
  BY <1>2, <1>3

\* The list that was found, and a turn in which nothing is asked.
LEMMA FoundKeeps == ASSUME FinInv, Discover \/ NothingAsked PROVE FinInv'
<1>1. /\ UNCHANGED <<fSees, fSig, fDisk, fCache, fPast, fFile, fParam, fLeft>> /\ fProc \in FinProcs
      /\ fAt' \in {"down", "poll", "cache", "reply", "tick", "wait"} /\ (fAt' # "down" => fAt # "down")
  BY DEF Discover, NothingAsked, FinOutside, FinInv, FinTypes
<1>2. /\ fProc' \in FinProcs /\ fProc'.by = fProc.by /\ fProc'.set = fProc.set
      /\ fProc'.mem = fProc.mem /\ fProc'.sdk = fProc.sdk
  <2>1. CASE UNCHANGED fProc
    BY <1>1, <2>1
  <2>2. CASE Discover
    <3>1. fProc.by \in {1, 2}
      BY <1>1, <2>2 DEF Discover, FinProcs
    <3>2. PICK l \in 0 .. 2 : l = fSees[fProc.by]
      BY <3>1 DEF FinInv, FinTypes
    <3>3. fProc' = [fProc EXCEPT !.list = l]
      BY <2>2, <3>2 DEF Discover
    <3> QED
      BY <1>1, <3>3 DEF FinProcs
  <2> QED
    BY <2>1, <2>2 DEF NothingAsked
<1> QED
  BY <1>1, <1>2 DEF FinInv, FinTypes, SettingInv, SameBelow, OneSetting, CacheInv

LEMMA WorldKeeps == ASSUME FinInv, FinChanges PROVE FinInv'
<1>1. UNCHANGED <<fAt, fProc, fDisk, fCache, fPast, fFile>>
  BY DEF FinChanges
<1>2. fLeft' \in FinLefts
  BY FinAssumption DEF FinChanges, FinInv, FinTypes, FinLefts
<1>3. fSees' \in [{1, 2} -> 0 .. 2] /\ fSig' \in 0 .. 2 /\ fParam' \in {"none", "run", "rs"}
  BY DEF FinChanges, FinInv, FinTypes, FinSettings, FinLists
<1> QED
  BY <1>1, <1>2, <1>3 DEF FinInv, FinTypes, SettingInv, SameBelow, OneSetting, CacheInv

LEMMA FinderCrashKeeps == ASSUME FinInv, FinderCrash PROVE FinInv'
<1>1. fLeft' \in FinLefts
  BY FinAssumption DEF FinderCrash, FinInv, FinTypes, FinLefts
<1> QED
  BY <1>1, ExitKeeps DEF FinderCrash, FinOutside, FinInv, FinTypes

-------------------------------------------------------------------------------
(* The theorems.                                                               *)

\* While it runs, the finder is on one set of settings, in all the places that keep
\* them as far as they could be written, and the cache has what was acknowledged or
\* what was cached after it.
THEOREM FinInvHolds == FinSafe => []FinInv
<1>1. FinInit => FinInv
  BY FinInvAtFirst
<1>2. FinInv /\ [FinNext]_finVars => FinInv'
  <2> SUFFICES ASSUME FinInv, [FinNext]_finVars PROVE FinInv'
    OBVIOUS
  <2>1. CASE FinLoop
    BY <2>1, StartKeeps, CacheKeeps, ReplyKeeps, TickKeeps, CompareKeeps, FoundKeeps DEF FinLoop
  <2>2. CASE Discover \/ FinChanges \/ FinderCrash
    BY <2>2, FoundKeeps, WorldKeeps, FinderCrashKeeps
  <2>3. CASE \E new \in FinSettings : AcceptConfig(new) \/ RefuseConfig(new)
    BY <2>3, AcceptKeeps, RefuseKeeps
  <2>4. CASE UNCHANGED finVars
    BY <2>4 DEF finVars, FinInv, FinTypes, SettingInv, CacheInv, OneSetting, SameBelow
  <2> QED
    BY <2>1, <2>2, <2>3, <2>4 DEF FinNext
<1> QED
  BY <1>1, <1>2, PTL DEF FinSafe

\* What the finder promises of its settings (finder/main.cpp): it looks for sources
\* on the settings that were accepted last, and what it acknowledged and could cache
\* is what its next start reads, after any requests, refusals, rescans, crashes and
\* writes that fail.
THEOREM FinderIsOnAccepted == FinSafe => []FinderPromises
<1>1. FinInv => FinderPromises
  <2> SUFFICES ASSUME FinInv PROVE FinderPromises
    OBVIOUS
  <2>1. fProc \in [DOMAIN NoFinder -> 0 .. 2]
    BY DEF FinInv, FinTypes, FinProcs, NoFinder
  <2>2. FinTypeOK
    BY <2>1 DEF FinInv, FinTypes, FinTypeOK, FinSettings, FinLists, FinLefts
  <2>3. RunsOnAccepted /\ AckedSurvives
    BY DEF FinInv, SettingInv, CacheInv, OneSetting, SameBelow, LoadSettings, RunsOnAccepted,
           AckedSurvives
  <2> QED
    BY <2>2, <2>3 DEF FinderPromises
<1> QED
  BY <1>1, FinInvHolds, PTL

--------------------------------------------------------------------------------
(* The audio engine.                                                           *)

\* The audio engine by itself, without what the scheduler owes it.
AuSafe == AuInit /\ [][AuNext]_auVars

-------------------------------------------------------------------------------
(* The inductive invariant.                                                    *)

\* The type invariant, with the records of the control calls, the thread and the
\* devices.
AuCtls == [call : {"idle", "reload", "recover", "revoke", "stop"},
           step : {"idle", "swap", "release", "reopen", "join"},
           graph : GraphIds, next : GraphIds \cup {NoGraph},
           pending : GraphIds \cup {NoGraph}, adopted : GraphIds,
           running : BOOLEAN, registered : BOOLEAN, asked : BOOLEAN,
           shown : BOOLEAN, reopen : SUBSET AuSinks]
AuRts == [at : {"off", "top", "adopt", "wait", "pull", "push"}, g : GraphIds, real : BOOLEAN]
AuDevs == [plugged : [AllPcms -> {"ok", "gone", "busy"}], healthy : [AllPcms -> BOOLEAN],
           display : BOOLEAN, receiver : BOOLEAN, native : BOOLEAN,
           fifo : {"empty", "old", "new"}, discard : BOOLEAN, played : {"none", "old", "new"}]
HeapOK == DOMAIN aHeap \subseteq GraphIds /\ \A i \in DOMAIN aHeap : aHeap[i] \in AuGraphs
AuTypes ==
    HeapOK /\ aCtl \in AuCtls /\ aRt \in AuRts /\ aDev \in AuDevs /\ aLeft \in 0 .. AuEvents

\* Which graphs there are, and who holds which: between the steps of a call there is
\* one ...
AtRestInv ==
    aCtl.step \in {"idle", "reopen", "join"} =>
        /\ DOMAIN aHeap = {aCtl.graph} /\ aCtl.next = NoGraph /\ aCtl.pending = NoGraph
        /\ aCtl.adopted = aCtl.graph /\ aRt.at # "adopt"
        /\ aRt.at # "off" => aRt.g = aCtl.graph
        /\ ~aCtl.running /\ aCtl.step # "join" => aRt.at = "off"

\* ... and while one waits for the thread, the graph in place and the next, which is
\* pending, being adopted, or adopted.
NextIsPending ==
    aCtl.pending = aCtl.next /\ aCtl.adopted = aCtl.graph /\ aRt.g = aCtl.graph /\ aRt.at # "adopt"
NextIsBeingAdopted ==
    aCtl.pending = NoGraph /\ aCtl.adopted = aCtl.graph /\ aRt.g = aCtl.next /\ aRt.at = "adopt"
NextIsAdopted ==
    aCtl.pending = NoGraph /\ aCtl.adopted = aCtl.next /\ aRt.g = aCtl.next /\ aRt.at # "adopt"
WaitingInv ==
    aCtl.step \in {"swap", "release"} =>
        /\ aCtl.running /\ aCtl.next # NoGraph /\ aCtl.next # aCtl.graph
        /\ DOMAIN aHeap = {aCtl.graph, aCtl.next}
        /\ NextIsPending \/ NextIsBeingAdopted \/ NextIsAdopted
RunsInv == (aCtl.running => aRt.at # "off") /\ (aCtl.step = "join" => ~aCtl.running)

\* After a revocation no graph that is or will be adopted has the source, or no
\* thread is left to pull it.
RevokedInv ==
    /\ ~aDev.receiver => /\ ~aCtl.registered /\ aCtl.step \in {"idle", "join"}
                         /\ aRt.at = "off" \/ ~aHeap[aCtl.graph].ndi
    /\ ~aCtl.registered => /\ aCtl.step \in {"idle", "swap", "join"}
                           /\ aCtl.step = "swap" => ~aHeap[aCtl.next].ndi
                           /\ aCtl.step = "idle" /\ aCtl.running => ~aHeap[aCtl.graph].ndi

\* In version 2, old samples are in the queue of a source that is not selected, or will
\* be thrown away; all graphs are of one version.
OldQueue(dev, graph) ==
    dev.fifo = "old" => graph.settings.version = 1 \/ dev.discard \/ ~Selected(graph)
OneVersion == \A i \in DOMAIN aHeap : aHeap[i].settings.version = Now.settings.version
OldInv ==
    /\ aDev.played = "old" => Now.settings.version = 1
    /\ OldQueue(aDev, aHeap[aCtl.adopted]) /\ OneVersion

\* An endpoint has the device of its settings, or none; one that is to be opened
\* again has none.
SinkOK(graph) == \A s \in AuSinks : graph.dev[s] \in {graph.settings.pcm[s], NoDevice}
Closed(graph, reopen) == \A s \in AuSinks : s \in reopen => graph.dev[s] = NoDevice
DevInv ==
    /\ \A i \in DOMAIN aHeap : SinkOK(aHeap[i])
    /\ aCtl.step = "release" => Closed(aHeap[aCtl.next], aCtl.reopen)
    /\ aCtl.step = "reopen" => Closed(Now, aCtl.reopen)

AuInv == AuTypes /\ AtRestInv /\ WaitingInv /\ RunsInv /\ RevokedInv /\ OldInv /\ DevInv

-------------------------------------------------------------------------------
(* Graphs and their numbers.                                                   *)

LEMMA WithoutOne ==
    ASSUME NEW i
    PROVE  /\ DOMAIN Without(i) = DOMAIN aHeap \ {i}
           /\ \A j \in DOMAIN aHeap : j # i => Without(i)[j] = aHeap[j]
BY DEF Without

\* There is a number that no graph has while a call has only one to hold.
LEMMA FreshExists ==
    ASSUME AuTypes, AtRestInv, aCtl.step \in {"idle", "reopen"}
    PROVE  FreshId \in GraphIds /\ FreshId \notin DOMAIN aHeap /\ FreshId # NoGraph
<1> DEFINE Free(i) == ~Live(i) /\ i \notin {aRt.g, aCtl.adopted, aCtl.pending, aCtl.next, aCtl.graph}
<1>1. /\ DOMAIN aHeap = {aCtl.graph} /\ aCtl.adopted = aCtl.graph
      /\ aCtl.next = NoGraph /\ aCtl.pending = NoGraph
  BY DEF AtRestInv
<1>2. \E i \in {1, 2, 3} : i # aRt.g /\ i # aCtl.graph /\ i # NoGraph
  BY DEF NoGraph
<1>3. \E i \in GraphIds : Free(i)
  <2>1. PICK i \in {1, 2, 3} : i # aRt.g /\ i # aCtl.graph /\ i # NoGraph
    BY <1>2
  <2>2. i \in GraphIds
    BY DEF GraphIds
  <2> QED
    BY <1>1, <2>1, <2>2 DEF Live
<1>4. FreshId = CHOOSE i \in GraphIds : Free(i)
  BY DEF FreshId
<1>5. FreshId \in GraphIds /\ Free(FreshId)
  <2> HIDE DEF Free
  <2> QED
    BY <1>3, <1>4, Zenon
<1> QED
  BY <1>5 DEF Live, GraphIds, NoGraph

\* The one graph between the steps of a call.
LEMMA OneGraph ==
    ASSUME AuInv, aCtl.step \in {"idle", "reopen", "join"}
    PROVE  /\ DOMAIN aHeap = {aCtl.graph} /\ aCtl.adopted = aCtl.graph /\ aCtl.graph \in GraphIds
           /\ aCtl.next = NoGraph /\ aCtl.pending = NoGraph
           /\ Now \in AuGraphs /\ SinkOK(Now) /\ Now.settings \in AuSettings
BY DEF AuInv, AtRestInv, DevInv, AuTypes, HeapOK, AuCtls, Now, AuGraphs

\* What a call hands over with a thread running: the graph is there beside the one in
\* place, and pending.
Offered(i, ctl, graph, then) ==
    /\ aCtl.running /\ DOMAIN aHeap' = {aCtl.graph, i}
    /\ aHeap'[i] = graph /\ aHeap'[aCtl.graph] = Now
    /\ aCtl'.step = then /\ aCtl'.graph = aCtl.graph /\ aCtl'.adopted = aCtl.graph
    /\ aCtl'.next = i /\ aCtl'.pending = i /\ aCtl'.running
    /\ aCtl'.reopen = ctl.reopen

\* ... and with none: it is in place.
InPlaceAtOnce(i, ctl, graph, then) ==
    /\ ~aCtl.running /\ DOMAIN aHeap' = {i} /\ aHeap'[i] = graph
    /\ aCtl'.step = (IF then = "release" THEN "reopen" ELSE "idle")
    /\ aCtl'.graph = i /\ aCtl'.adopted = i
    /\ aCtl'.next = NoGraph /\ aCtl'.pending = NoGraph /\ ~aCtl'.running
    /\ then = "release" => aCtl'.reopen = ctl.reopen

\* The call's record, with its own fields.
CallOf(ctl) ==
    /\ ctl \in AuCtls /\ ctl.graph = aCtl.graph /\ ctl.next = NoGraph /\ ctl.pending = NoGraph
    /\ ctl.adopted = aCtl.graph /\ ctl.running = aCtl.running

LEMMA GraphHandedOver ==
    ASSUME AuInv, aCtl.step \in {"idle", "reopen"}, NEW ctl, CallOf(ctl), NEW graph,
           NEW then \in {"swap", "release"}, HandOver(ctl, graph, then)
    PROVE  \E i \in GraphIds \ {NoGraph} :
               /\ i \notin DOMAIN aHeap /\ aCtl' \in AuCtls /\ aCtl'.registered = ctl.registered
               /\ Offered(i, ctl, graph, then) \/ InPlaceAtOnce(i, ctl, graph, then)
<1>1. PICK i : i = FreshId
  OBVIOUS
<1>2. i \in GraphIds /\ i \notin DOMAIN aHeap /\ i # NoGraph
  BY <1>1, FreshExists DEF AuInv
<1>3. DOMAIN aHeap = {aCtl.graph}
  BY OneGraph
<1>4. CASE Waits
  <2>1. aHeap' = With(aHeap, i, graph) /\ aCtl' = [ctl EXCEPT !.next = i, !.pending = i, !.step = then]
    BY <1>1, <1>4 DEF HandOver
  <2>2. aCtl' = [call |-> ctl.call, step |-> then, graph |-> ctl.graph, next |-> i, pending |-> i,
                 adopted |-> ctl.adopted, running |-> ctl.running, registered |-> ctl.registered,
                 asked |-> ctl.asked, shown |-> ctl.shown, reopen |-> ctl.reopen]
    BY <2>1 DEF CallOf, AuCtls
  <2>3. aCtl' \in AuCtls
    BY <1>2, <2>2 DEF CallOf, AuCtls
  <2>4. /\ DOMAIN aHeap' = {aCtl.graph, i} /\ aHeap'[i] = graph
        /\ aHeap'[aCtl.graph] = aHeap[aCtl.graph]
    <3>1. PICK heap : heap = aHeap
      OBVIOUS
    <3>2. aHeap' = With(heap, i, graph) /\ DOMAIN heap = {aCtl.graph} /\ i # aCtl.graph
      BY <1>2, <1>3, <2>1, <3>1
    <3>3. /\ DOMAIN aHeap' = {aCtl.graph} \cup {i} /\ aHeap'[i] = graph
          /\ aHeap'[aCtl.graph] = heap[aCtl.graph]
      BY <3>2 DEF With
    <3> QED
      BY <3>1, <3>3
  <2>5. Offered(i, ctl, graph, then)
    BY <1>4, <2>2, <2>4 DEF Offered, Waits, CallOf, Now
  <2> QED
    BY <1>2, <2>2, <2>3, <2>5
<1>5. CASE ~Waits
  <2>1. aHeap' = With(Without(aCtl.graph), i, graph)
    BY <1>1, <1>5 DEF HandOver
  <2>2. DOMAIN aHeap' = {i} /\ aHeap'[i] = graph
    <3>1. PICK heap : heap = Without(aCtl.graph)
      OBVIOUS
    <3>2. DOMAIN heap = {}
      BY <1>3, <3>1, WithoutOne
    <3>3. DOMAIN aHeap' = {} \cup {i} /\ aHeap'[i] = graph
      BY <2>1, <3>1, <3>2 DEF With
    <3> QED
      BY <3>3
  <2>3. PICK step, call, reopen :
            /\ step = (IF then = "release" THEN "reopen" ELSE "idle")
            /\ call = (IF then = "release" THEN ctl.call ELSE "idle")
            /\ reopen = (IF then = "release" THEN ctl.reopen ELSE {})
    OBVIOUS
  <2>4. aCtl' = [ctl EXCEPT !.graph = i, !.adopted = i, !.step = step, !.call = call, !.reopen = reopen]
    BY <1>1, <1>5, <2>3 DEF HandOver
  <2>5. aCtl' = [call |-> call, step |-> step, graph |-> i, next |-> ctl.next, pending |-> ctl.pending,
                 adopted |-> i, running |-> ctl.running, registered |-> ctl.registered,
                 asked |-> ctl.asked, shown |-> ctl.shown, reopen |-> reopen]
    BY <2>4 DEF CallOf, AuCtls
  <2>6. call \in {"idle", "reload", "recover", "revoke", "stop"} /\ reopen \in SUBSET AuSinks
    BY <2>3 DEF CallOf, AuCtls
  <2>7. aCtl' \in AuCtls
    BY <1>2, <2>3, <2>5, <2>6 DEF CallOf, AuCtls
  <2>8. InPlaceAtOnce(i, ctl, graph, then)
    BY <1>5, <2>2, <2>3, <2>5 DEF InPlaceAtOnce, Waits, CallOf
  <2> QED
    BY <1>2, <2>5, <2>7, <2>8
<1> QED
  BY <1>4, <1>5

\* What a handover does to the queue.
LEMMA QueueHanded ==
    ASSUME NEW dev \in AuDevs, NEW old, NEW new, OldQueue(dev, old),
           old.settings.version = new.settings.version
    PROVE  /\ AdoptedBy(dev, old, new) \in AuDevs
           /\ AdoptedBy(dev, old, new).played = dev.played
           /\ AdoptedBy(dev, old, new).receiver = dev.receiver
           /\ AdoptedBy(dev, old, new).healthy = dev.healthy
           /\ OldQueue(AdoptedBy(dev, old, new), new)
<1>1. PICK discard, native, fifo :
          /\ discard = (dev.discard \/ Adoption(old, new))
          /\ native = (dev.native /\ ~NewSource(old, new))
          /\ fifo = (IF NewSource(old, new) THEN "empty"
                     ELSE IF dev.fifo = "new" /\ ~Audible(new) THEN "old" ELSE dev.fifo)
  OBVIOUS
<1>2. discard \in BOOLEAN /\ native \in BOOLEAN
  BY <1>1
<1>3. fifo \in {"empty", "old", "new"}
  BY <1>1 DEF AuDevs
<1>4. PICK q : q = AdoptedBy(dev, old, new)
  OBVIOUS
<1>5. q = [dev EXCEPT !.discard = discard, !.native = native, !.fifo = fifo]
  BY <1>1, <1>4 DEF AdoptedBy
<1>6. q = [plugged |-> dev.plugged, healthy |-> dev.healthy, display |-> dev.display,
           receiver |-> dev.receiver, native |-> native, fifo |-> fifo, discard |-> discard,
           played |-> dev.played]
  BY <1>5 DEF AuDevs
<1>7. q \in AuDevs /\ q.played = dev.played /\ q.receiver = dev.receiver /\ q.healthy = dev.healthy
  BY <1>2, <1>3, <1>6 DEF AuDevs
<1>8. OldQueue(q, new)
  <2>1. q.discard = (dev.discard \/ Adoption(old, new)) /\ q.fifo = fifo
    BY <1>1, <1>6
  <2>2. fifo = "old" => ~NewSource(old, new) /\ (dev.fifo = "old" \/ ~Audible(new))
    BY <1>1
  <2>3. new.settings.version = 1 \/ (~Audible(new) => ~Selected(new))
    BY DEF Audible, Selected
  <2>4. dev.fifo = "old" => old.settings.version = 1 \/ dev.discard \/ ~Selected(old)
    BY DEF OldQueue
  <2>5. ~Selected(old) => Adoption(old, new) \/ ~Selected(new)
    BY DEF Adoption
  <2> QED
    BY <2>1, <2>2, <2>3, <2>4, <2>5 DEF OldQueue
<1> QED
  BY <1>4, <1>7, <1>8

\* What a step may hand over: an endpoint that works keeps a device that does.
EndpointStep ==
    \A i \in DOMAIN aHeap' \ DOMAIN aHeap :
        /\ PcmReady(Now.dev["s"]) => StillHeld(i, "s")
        /\ PcmReady(Now.dev["m"]) /\ "m" \notin aCtl'.reopen => StillHeld(i, "m")
SafeStep == AuInv' /\ EndpointStep

\* A graph that may be handed over, by a call that may do it.
MayHandOver(ctl, graph, then) ==
    /\ CallOf(ctl) /\ graph \in AuGraphs /\ SinkOK(graph)
    /\ graph.settings.version = Now.settings.version
    /\ ctl.registered \/ (then = "swap" /\ ~graph.ndi)
    /\ then = "release" => Closed(graph, ctl.reopen)

SameQueue(dev) ==
    /\ dev \in AuDevs /\ dev.fifo = aDev.fifo /\ dev.discard = aDev.discard
    /\ dev.played = aDev.played /\ dev.receiver = aDev.receiver

LEMMA HandOverKeeps ==
    ASSUME AuInv, aCtl.step \in {"idle", "reopen"}, aCtl.registered,
           NEW ctl, NEW graph, NEW then \in {"swap", "release"}, NEW dev,
           MayHandOver(ctl, graph, then), HandOver(ctl, graph, then),
           SameQueue(dev), aDev' = Handed(dev, graph), UNCHANGED aRt, aLeft' \in 0 .. AuEvents
    PROVE  /\ AuInv' /\ aDev'.healthy = dev.healthy
           /\ then = "release" => aCtl'.reopen = ctl.reopen
           /\ \A j \in DOMAIN aHeap' \ DOMAIN aHeap : aHeap'[j] = graph
<1>1. /\ CallOf(ctl) /\ graph \in AuGraphs /\ SinkOK(graph)
      /\ graph.settings.version = Now.settings.version
      /\ ctl.registered \/ (then = "swap" /\ ~graph.ndi)
      /\ then = "release" => Closed(graph, ctl.reopen)
  BY DEF MayHandOver
<1>2. PICK i \in GraphIds \ {NoGraph} :
          /\ i \notin DOMAIN aHeap /\ aCtl' \in AuCtls /\ aCtl'.registered = ctl.registered
          /\ Offered(i, ctl, graph, then) \/ InPlaceAtOnce(i, ctl, graph, then)
  BY <1>1, GraphHandedOver
<1>3. /\ DOMAIN aHeap = {aCtl.graph} /\ aCtl.adopted = aCtl.graph /\ aCtl.graph \in GraphIds
      /\ Now \in AuGraphs /\ SinkOK(Now) /\ aRt \in AuRts /\ aRt.at # "adopt"
      /\ aRt.at # "off" => aRt.g = aCtl.graph
      /\ aCtl.running => aRt.at # "off"
      /\ ~aCtl.running => aRt.at = "off"
  BY OneGraph DEF AuInv, AuTypes, AtRestInv, RunsInv
<1>4. /\ aDev.receiver /\ dev \in AuDevs /\ (aDev.played = "old" => Now.settings.version = 1)
      /\ OldQueue(aDev, Now)
  BY <1>3 DEF AuInv, RevokedInv, OldInv, SameQueue, Now
<1>5. CASE Offered(i, ctl, graph, then)
  <2>1. /\ aCtl.running /\ DOMAIN aHeap' = {aCtl.graph, i}
        /\ aHeap'[i] = graph /\ aHeap'[aCtl.graph] = Now
        /\ aCtl'.step = then /\ aCtl'.graph = aCtl.graph /\ aCtl'.adopted = aCtl.graph
        /\ aCtl'.next = i /\ aCtl'.pending = i /\ aCtl'.running
        /\ aCtl'.reopen = ctl.reopen
    BY <1>5 DEF Offered
  <2>2. aDev' = dev
    BY <2>1 DEF Handed, Waits
  <2>3. AuTypes'
    BY <1>1, <1>2, <1>3, <1>4, <2>1, <2>2 DEF AuTypes, HeapOK
  <2>4. AtRestInv' /\ RunsInv'
    BY <1>3, <2>1 DEF AtRestInv, RunsInv
  <2>5. WaitingInv'
    BY <1>2, <1>3, <2>1 DEF WaitingInv, NextIsPending
  <2>6. RevokedInv'
    BY <1>1, <1>2, <1>4, <2>1, <2>2 DEF RevokedInv, SameQueue
  <2>7. OldInv'
    BY <1>1, <1>4, <2>1, <2>2 DEF OldInv, OldQueue, OneVersion, SameQueue, Now
  <2>8. DevInv'
    BY <1>1, <1>3, <2>1 DEF DevInv
  <2> QED
    BY <1>3, <2>1, <2>2, <2>3, <2>4, <2>5, <2>6, <2>7, <2>8 DEF AuInv
<1>6. CASE InPlaceAtOnce(i, ctl, graph, then)
  <2>1. /\ ~aCtl.running /\ DOMAIN aHeap' = {i} /\ aHeap'[i] = graph
        /\ aCtl'.step = (IF then = "release" THEN "reopen" ELSE "idle")
        /\ aCtl'.graph = i /\ aCtl'.adopted = i
        /\ aCtl'.next = NoGraph /\ aCtl'.pending = NoGraph /\ ~aCtl'.running
        /\ then = "release" => aCtl'.reopen = ctl.reopen
    BY <1>6 DEF InPlaceAtOnce
  <2>2. aDev' = AdoptedBy(dev, Now, graph)
    BY <1>3, <2>1 DEF Handed, Waits, Now
  <2>3. /\ aDev' \in AuDevs /\ aDev'.played = dev.played /\ aDev'.receiver = dev.receiver
        /\ aDev'.healthy = dev.healthy /\ OldQueue(aDev', graph)
    <3>1. PICK now : now = Now
      OBVIOUS
    <3>2. PICK q : q = AdoptedBy(dev, now, graph)
      OBVIOUS
    <3>3. OldQueue(dev, now)
      BY <1>4, <3>1 DEF SameQueue, OldQueue
    <3>4. /\ q \in AuDevs /\ q.played = dev.played /\ q.receiver = dev.receiver
          /\ q.healthy = dev.healthy /\ OldQueue(q, graph)
      BY <1>1, <1>4, <3>1, <3>2, <3>3, QueueHanded
    <3>5. aDev' = q
      BY <2>2, <3>1, <3>2
    <3> HIDE <3>2
    <3> QED
      BY <3>4, <3>5
  <2>4. AuTypes'
    BY <1>1, <1>2, <1>3, <2>1, <2>3 DEF AuTypes, HeapOK
  <2>5. AtRestInv' /\ WaitingInv' /\ RunsInv'
    BY <1>3, <2>1 DEF AtRestInv, WaitingInv, RunsInv
  <2>6. RevokedInv'
    BY <1>1, <1>2, <1>4, <2>1, <2>3 DEF RevokedInv, SameQueue
  <2>7. OldInv'
    BY <1>1, <1>4, <2>1, <2>3 DEF OldInv, OneVersion, SameQueue, Now
  <2>8. DevInv'
    BY <1>1, <2>1 DEF DevInv, Now
  <2> QED
    BY <2>1, <2>3, <2>4, <2>5, <2>6, <2>7, <2>8 DEF AuInv
<1> QED
  BY <1>2, <1>5, <1>6

-------------------------------------------------------------------------------
(* What is built.                                                              *)

OfSettings(graph, want) ==
    /\ graph \in AuGraphs /\ SinkOK(graph) /\ graph.settings = want
    /\ \A s \in AuSinks : graph.dev[s] = want.pcm[s]

LEMMA BuiltIsAGraph ==
    ASSUME AuInv, NEW want \in AuSettings
    PROVE  OfSettings(Built(want), want) /\ Built(want).ndi = aCtl.registered
<1>1. PICK g : g = Built(want)
  OBVIOUS
<1>2. /\ g = [settings |-> want, dev |-> want.pcm, ndi |-> aCtl.registered]
      /\ aCtl.registered \in BOOLEAN
  BY <1>1 DEF Built, AuInv, AuTypes, AuCtls
<1>3. want.pcm \in [AuSinks -> AllPcms \cup {NoDevice}]
  <2>1. PICK pcm \in [m : {Hdmi}, s : AuPcms] : want.pcm = pcm
    BY DEF AuSettings
  <2>2. pcm = [m |-> pcm.m, s |-> pcm.s] /\ pcm.m = Hdmi /\ pcm.s \in AuPcms
    BY <2>1
  <2>3. pcm \in [AuSinks -> AllPcms \cup {NoDevice}]
    BY <2>2 DEF AuSinks, AllPcms
  <2> QED
    BY <2>1, <2>3
<1>4. g \in AuGraphs
  BY <1>2, <1>3 DEF AuGraphs
<1>5. /\ \A s \in AuSinks : g.dev[s] = want.pcm[s]
      /\ g.settings = want /\ g.ndi = aCtl.registered
  BY <1>2
<1> QED
  BY <1>1, <1>4, <1>5 DEF SinkOK, OfSettings

\* Opening devices changes which work, and nothing else.
LEMMA OpenedDevices ==
    ASSUME AuInv, NEW want, NEW reopen, NEW dev,
           dev = [aDev EXCEPT !.healthy = Opened(want, reopen)]
    PROVE  SameQueue(dev) /\ dev.healthy = Opened(want, reopen)
<1>1. PICK healthy : healthy = Opened(want, reopen)
  OBVIOUS
<1>2. aDev \in AuDevs
  BY DEF AuInv, AuTypes
<1>3. healthy \in [AllPcms -> BOOLEAN]
  BY <1>1, <1>2 DEF Opened, AuDevs
<1>4. dev = [plugged |-> aDev.plugged, healthy |-> healthy, display |-> aDev.display,
             receiver |-> aDev.receiver, native |-> aDev.native, fifo |-> aDev.fifo,
             discard |-> aDev.discard, played |-> aDev.played]
  BY <1>1, <1>2 DEF AuDevs
<1>5. dev \in AuDevs
  BY <1>2, <1>3, <1>4 DEF AuDevs
<1> QED
  BY <1>1, <1>4, <1>5 DEF SameQueue

\* An endpoint that works has, in what is accepted, a device that works: the same
\* handle, which nobody else may open, or one that could be opened.
LEMMA AcceptedStays ==
    ASSUME AuInv, aCtl.step \in {"idle", "reopen"}, NEW want \in AuSettings, NEW reopen,
           NEW e \in AuSinks, Accepted(want, reopen), PcmReady(Now.dev[e]),
           reopen = {} \/ (e \notin reopen /\ want = Now.settings)
    PROVE  want.pcm[e] # NoDevice /\ Opened(want, reopen)[want.pcm[e]]
<1>1. PICK p : p = want.pcm[e]
  OBVIOUS
<1>2. p \in AllPcms /\ p # NoDevice
  <2>1. PICK pcm \in [m : {Hdmi}, s : AuPcms] : want.pcm = pcm
    BY DEF AuSettings
  <2>2. pcm.m = Hdmi /\ pcm.s \in AuPcms
    OBVIOUS
  <2> QED
    BY <1>1, <2>1, <2>2, AudioAssumption DEF AuSinks, AllPcms, NoDevice, Hdmi
<1>3. /\ Now.dev[e] # NoDevice /\ aDev.healthy[Now.dev[e]]
      /\ Now.dev[e] = Now.settings.pcm[e]
  BY OneGraph DEF PcmReady, SinkOK
<1>4. Opened(want, reopen)[p] =
          IF \E s \in Opens(want, reopen) : want.pcm[s] = p THEN aDev.plugged[p] = "ok"
          ELSE aDev.healthy[p]
  BY <1>2 DEF Opened
<1>5. CASE e \in Opens(want, reopen)
  <2>1. reopen = {}
    BY <1>3, <1>5 DEF Opens, Reuses
  <2>2. aDev.plugged[p] = "ok"
    BY <1>1, <1>5, <2>1 DEF Accepted, Unavailable
  <2> QED
    BY <1>1, <1>2, <1>4, <1>5, <2>2
<1>6. CASE e \notin Opens(want, reopen)
  <2>1. p = Now.settings.pcm[e]
    BY <1>1, <1>6 DEF Opens, Reuses
  <2>2. p \in Held(aHeap)
    <3>1. aCtl.graph \in DOMAIN aHeap /\ p = aHeap[aCtl.graph].dev[e]
      BY <1>3, <2>1, OneGraph DEF Now
    <3>3. \E i \in DOMAIN aHeap, s \in AuSinks : p = aHeap[i].dev[s]
      BY <3>1
    <3>4. p \in {aHeap[i].dev[s] : i \in DOMAIN aHeap, s \in AuSinks}
      BY <3>3
    <3> QED
      BY <1>2, <3>4 DEF Held
  <2>3. ~\E s \in Opens(want, reopen) : want.pcm[s] = p
    BY <2>2 DEF Accepted, PcmBusy
  <2> QED
    BY <1>1, <1>2, <1>3, <1>4, <2>1, <2>3
<1> QED
  BY <1>5, <1>6

\* So what is built from accepted settings may be handed over.
LEMMA HandingBuilt ==
    ASSUME AuInv, aCtl.step \in {"idle", "reopen"}, aCtl.registered,
           NEW ctl, CallOf(ctl), NEW want \in AuSettings, NEW reopen, Accepted(want, reopen),
           reopen = {} \/ (aCtl.step = "reopen" /\ reopen = aCtl.reopen /\ want = Now.settings),
           want.version = Now.settings.version, NEW graph, OfSettings(graph, want),
           ctl.registered \/ ~graph.ndi,
           NEW dev, SameQueue(dev), dev.healthy = Opened(want, reopen),
           NEW then \in {"swap", "release"}, then = "swap", HandOver(ctl, graph, then),
           aDev' = Handed(dev, graph), UNCHANGED aRt, aLeft' \in 0 .. AuEvents
    PROVE  SafeStep
<1>1. MayHandOver(ctl, graph, then)
  BY DEF MayHandOver, OfSettings
<1>2. /\ AuInv' /\ aDev'.healthy = dev.healthy
      /\ \A j \in DOMAIN aHeap' \ DOMAIN aHeap : aHeap'[j] = graph
  BY <1>1, HandOverKeeps
<1>3. ASSUME NEW e \in AuSinks, PcmReady(Now.dev[e])
      PROVE  graph.dev[e] # NoDevice /\ aDev'.healthy[graph.dev[e]]
  <2>1. reopen = {} \/ (e \notin reopen /\ want = Now.settings)
    BY <1>3 DEF PcmReady, AuInv, DevInv, Closed
  <2>2. want.pcm[e] # NoDevice /\ Opened(want, reopen)[want.pcm[e]]
    BY <1>3, <2>1, AcceptedStays
  <2> QED
    BY <1>2, <2>2 DEF OfSettings
<1>4. ASSUME NEW i \in DOMAIN aHeap' \ DOMAIN aHeap, NEW e \in AuSinks, PcmReady(Now.dev[e])
      PROVE  StillHeld(i, e)
  BY <1>2, <1>3, <1>4 DEF StillHeld
<1> QED
  BY <1>2, <1>4 DEF SafeStep, EndpointStep, AuSinks

-------------------------------------------------------------------------------
(* What leaves the graphs alone.                                               *)

SameCall ==
    /\ aCtl' \in AuCtls /\ aCtl'.step = aCtl.step /\ aCtl'.graph = aCtl.graph
    /\ aCtl'.next = aCtl.next /\ aCtl'.pending = aCtl.pending /\ aCtl'.adopted = aCtl.adopted
    /\ aCtl'.running = aCtl.running /\ aCtl'.registered = aCtl.registered
    /\ aCtl'.reopen = aCtl.reopen
Playing == {"top", "wait", "pull", "push"}
ThreadGoesOn ==
    /\ aRt' \in AuRts /\ aRt'.g = aRt.g
    /\ aRt'.at = aRt.at \/ {aRt.at, aRt'.at} \subseteq Playing
QueueIsSafe ==
    /\ aDev' \in AuDevs /\ aDev'.receiver = aDev.receiver
    /\ aDev'.played = "old" => Now.settings.version = 1
    /\ OldQueue(aDev', aHeap[aCtl.adopted])

LEMMA GraphsLeftAlone ==
    ASSUME AuInv, SameCall, ThreadGoesOn, QueueIsSafe, UNCHANGED aHeap, aLeft' \in 0 .. AuEvents
    PROVE  SafeStep
<1>1. AuTypes'
  BY DEF AuInv, AuTypes, HeapOK, SameCall, ThreadGoesOn, QueueIsSafe
<1>2. AtRestInv'
  BY DEF AuInv, AtRestInv, SameCall, ThreadGoesOn, Playing
<1>3. WaitingInv'
  BY DEF AuInv, WaitingInv, NextIsPending, NextIsBeingAdopted, NextIsAdopted, SameCall,
         ThreadGoesOn, Playing
<1>4. RunsInv'
  BY DEF AuInv, RunsInv, SameCall, ThreadGoesOn, Playing
<1>5. RevokedInv'
  BY DEF AuInv, RevokedInv, SameCall, ThreadGoesOn, QueueIsSafe, Playing
<1>6. OldInv'
  BY DEF AuInv, OldInv, OneVersion, SameCall, QueueIsSafe, Now
<1>7. DevInv'
  BY DEF AuInv, DevInv, SameCall, Now, SinkOK
<1> QED
  BY <1>1, <1>2, <1>3, <1>4, <1>5, <1>6, <1>7 DEF SafeStep, AuInv, EndpointStep

\* The graph the thread works on is the one it has adopted.
LEMMA ThreadHasAdopted ==
    ASSUME AuInv, aRt.at \in Playing
    PROVE  aRt.g = aCtl.adopted /\ aRt.g \in DOMAIN aHeap
<1>1. CASE aCtl.step \in {"idle", "reopen", "join"}
  BY <1>1 DEF AuInv, AtRestInv, Playing
<1>2. CASE aCtl.step \in {"swap", "release"}
  BY <1>2 DEF AuInv, WaitingInv, NextIsPending, NextIsBeingAdopted, NextIsAdopted, Playing
<1> QED
  BY <1>1, <1>2 DEF AuInv, AuTypes, AuCtls

\* What the records look like before a step.
LEMMA Before ==
    ASSUME AuInv
    PROVE  /\ aCtl \in AuCtls /\ aRt \in AuRts /\ aDev \in AuDevs /\ aLeft \in 0 .. AuEvents
           /\ aDev.played = "old" => Now.settings.version = 1
           /\ OldQueue(aDev, aHeap[aCtl.adopted]) /\ OneVersion
BY DEF AuInv, AuTypes, OldInv

LEMMA StepStutter == AuInv /\ UNCHANGED auVars => SafeStep
BY Before, GraphsLeftAlone DEF auVars, SameCall, ThreadGoesOn, QueueIsSafe

LEMMA StepRefuse == AuInv /\ AuRefuse => SafeStep
<1> SUFFICES ASSUME AuInv, AuRefuse PROVE SafeStep
  OBVIOUS
<1>1. aLeft' \in 0 .. AuEvents
  BY Before, AudioAssumption DEF AuRefuse
<1> QED
  BY <1>1, Before, GraphsLeftAlone DEF AuRefuse, SameCall, ThreadGoesOn, QueueIsSafe

LEMMA StepPush == AuInv /\ PushNdi => SafeStep
<1> SUFFICES ASSUME AuInv, PushNdi PROVE SafeStep
  OBVIOUS
<1>1. /\ aDev' = [aDev EXCEPT !.fifo = "new"]
      /\ UNCHANGED <<aHeap, aCtl, aRt, aLeft>>
  BY DEF PushNdi
<1>2. QueueIsSafe
  BY <1>1, Before DEF QueueIsSafe, OldQueue, AuDevs
<1> QED
  BY <1>1, <1>2, Before, GraphsLeftAlone DEF SameCall, ThreadGoesOn

LEMMA StepDevice == AuInv /\ DeviceChanges => SafeStep
<1> SUFFICES ASSUME AuInv, DeviceChanges PROVE SafeStep
  OBVIOUS
<1>1. PICK p \in AllPcms, to \in {"ok", "gone", "busy"} : aDev' = [aDev EXCEPT !.plugged[p] = to]
  BY DEF DeviceChanges
<1>2. aLeft > 0 /\ aLeft' = aLeft - 1 /\ UNCHANGED <<aHeap, aCtl, aRt>>
  BY DEF DeviceChanges
<1>3. aLeft' \in 0 .. AuEvents
  BY <1>2, Before, AudioAssumption
<1>4. QueueIsSafe
  <2>1. PICK plugged : plugged = [aDev.plugged EXCEPT ![p] = to]
    OBVIOUS
  <2>2. plugged \in [AllPcms -> {"ok", "gone", "busy"}]
    BY <2>1, Before DEF AuDevs
  <2>3. aDev' = [plugged |-> plugged, healthy |-> aDev.healthy, display |-> aDev.display,
                 receiver |-> aDev.receiver, native |-> aDev.native, fifo |-> aDev.fifo,
                 discard |-> aDev.discard, played |-> aDev.played]
    BY <1>1, <2>1, Before DEF AuDevs
  <2> QED
    BY <2>2, <2>3, Before DEF QueueIsSafe, OldQueue, AuDevs
<1> QED
  BY <1>2, <1>3, <1>4, Before, GraphsLeftAlone DEF SameCall, ThreadGoesOn

LEMMA StepDisplay == AuInv /\ DisplayChanges => SafeStep
<1> SUFFICES ASSUME AuInv, DisplayChanges PROVE SafeStep
  OBVIOUS
<1>1. /\ aLeft > 0 /\ aLeft' = aLeft - 1 /\ UNCHANGED <<aHeap, aCtl, aRt>>
      /\ aDev' = [aDev EXCEPT !.display = ~aDev.display]
  BY DEF DisplayChanges
<1>2. aLeft' \in 0 .. AuEvents
  BY <1>1, Before, AudioAssumption
<1>3. QueueIsSafe
  <2>1. PICK display \in BOOLEAN : display = ~aDev.display
    OBVIOUS
  <2>2. aDev' = [plugged |-> aDev.plugged, healthy |-> aDev.healthy, display |-> display,
                 receiver |-> aDev.receiver, native |-> aDev.native, fifo |-> aDev.fifo,
                 discard |-> aDev.discard, played |-> aDev.played]
    BY <1>1, <2>1, Before DEF AuDevs
  <2> QED
    BY <2>2, Before DEF QueueIsSafe, OldQueue, AuDevs
<1> QED
  BY <1>1, <1>2, <1>3, Before, GraphsLeftAlone DEF SameCall, ThreadGoesOn

-------------------------------------------------------------------------------
(* The steps of the thread.                                                    *)

LEMMA StepWait == AuInv /\ RtWait => SafeStep
<1> SUFFICES ASSUME AuInv, RtWait PROVE SafeStep
  OBVIOUS
<1> DEFINE p == aHeap[aRt.g].dev["m"]
<1>1. PICK real \in BOOLEAN, works \in BOOLEAN :
          /\ aRt' = [aRt EXCEPT !.at = "pull", !.real = real]
          /\ aCtl' = [aCtl EXCEPT !.asked = aCtl.asked \/ (~real /\ aCtl.shown)]
          /\ aDev' = (IF aDev.display /\ p # NoDevice /\ aDev.plugged[p] # "ok"
                      THEN [aDev EXCEPT !.healthy[p] = FALSE] ELSE aDev)
          /\ aLeft' = (IF real = works THEN aLeft ELSE aLeft - 1)
          /\ real = works \/ aLeft > 0
  <2>1. PICK works : works = (aDev.display /\ p # NoDevice /\ aDev.healthy[p]
                              /\ aDev.plugged[p] = "ok")
    OBVIOUS
  <2>2. works \in BOOLEAN
    <3>1. aDev.display \in BOOLEAN
      BY Before DEF AuDevs
    <3>2. \/ works = FALSE
          \/ works = aDev.healthy[p] /\ p \in AllPcms
      <4>1. p \in AllPcms \cup {NoDevice}
        <5>1. aHeap[aRt.g] \in AuGraphs
          BY ThreadHasAdopted DEF RtWait, Playing, AuInv, AuTypes, HeapOK
        <5> QED
          BY <5>1 DEF AuGraphs, AuSinks
      <4> QED
        BY <2>1, <3>1, <4>1, Before DEF AuDevs
    <3> QED
      BY <3>2, Before DEF AuDevs
  <2> QED
    BY <2>1, <2>2 DEF RtWait
<1>2. aRt.at = "wait" /\ UNCHANGED aHeap
  BY DEF RtWait
<1>3. aLeft' \in 0 .. AuEvents
  BY <1>1, Before, AudioAssumption
<1>4. SameCall
  <2>1. PICK asked \in BOOLEAN : asked = (aCtl.asked \/ (~real /\ aCtl.shown))
    BY Before DEF AuCtls
  <2>2. aCtl' = [call |-> aCtl.call, step |-> aCtl.step, graph |-> aCtl.graph,
                 next |-> aCtl.next, pending |-> aCtl.pending, adopted |-> aCtl.adopted,
                 running |-> aCtl.running, registered |-> aCtl.registered, asked |-> asked,
                 shown |-> aCtl.shown, reopen |-> aCtl.reopen]
    BY <1>1, <2>1, Before DEF AuCtls
  <2> QED
    BY <2>2, Before DEF SameCall, AuCtls
<1>5. ThreadGoesOn
  BY <1>1, <1>2, Before DEF ThreadGoesOn, AuRts, Playing
<1>6. QueueIsSafe
  <2>1. PICK healthy : healthy = [aDev.healthy EXCEPT ![p] = FALSE]
    OBVIOUS
  <2>2. healthy \in [AllPcms -> BOOLEAN]
    BY <2>1, Before DEF AuDevs
  <2>3. CASE aDev' = aDev
    BY <2>3, Before DEF QueueIsSafe
  <2>4. CASE aDev' = [aDev EXCEPT !.healthy[p] = FALSE]
    <3>1. aDev' = [plugged |-> aDev.plugged, healthy |-> healthy, display |-> aDev.display,
                   receiver |-> aDev.receiver, native |-> aDev.native, fifo |-> aDev.fifo,
                   discard |-> aDev.discard, played |-> aDev.played]
      BY <2>1, <2>4, Before DEF AuDevs
    <3> QED
      BY <2>2, <3>1, Before DEF QueueIsSafe, OldQueue, AuDevs
  <2> QED
    BY <1>1, <2>3, <2>4
<1> QED
  BY <1>2, <1>3, <1>4, <1>5, <1>6, GraphsLeftAlone

LEMMA StepPull == AuInv /\ RtPull => SafeStep
<1> SUFFICES ASSUME AuInv, RtPull PROVE SafeStep
  OBVIOUS
<1>1. /\ aRt.at = "pull" /\ aRt' = [aRt EXCEPT !.at = "push"]
      /\ UNCHANGED <<aHeap, aCtl, aLeft>>
  BY DEF RtPull
<1>2. aRt.g = aCtl.adopted
  BY <1>1, ThreadHasAdopted DEF Playing
<1>3. QueueIsSafe
  <2>1. CASE Audible(aHeap[aRt.g])
    <3>1. PICK native \in BOOLEAN :
              aDev' = [aDev EXCEPT !.native = native, !.discard = FALSE, !.fifo = "empty",
                                   !.played = IF native \/ aDev.discard \/ aDev.fifo = "empty"
                                              THEN "none" ELSE aDev.fifo]
      BY <2>1 DEF RtPull
    <3>2. PICK played :
              played = (IF native \/ aDev.discard \/ aDev.fifo = "empty" THEN "none" ELSE aDev.fifo)
      OBVIOUS
    <3>3. aDev' = [aDev EXCEPT !.native = native, !.discard = FALSE, !.fifo = "empty",
                               !.played = played]
      BY <3>1, <3>2
    <3>4. played \in {"none", "old", "new"} /\ (played = "old" => Now.settings.version = 1)
      <4>1. Selected(aHeap[aRt.g])
        BY <2>1 DEF Audible, Selected
      <4>2. aHeap[aRt.g].settings.version = Now.settings.version
        BY <1>1, Before, ThreadHasAdopted DEF OneVersion, Playing
      <4> QED
        BY <1>2, <3>2, <4>1, <4>2, Before DEF AuDevs, OldQueue
    <3>5. PICK discard \in BOOLEAN : discard = FALSE
      OBVIOUS
    <3>6. aDev' = [plugged |-> aDev.plugged, healthy |-> aDev.healthy, display |-> aDev.display,
                   receiver |-> aDev.receiver, native |-> native, fifo |-> "empty",
                   discard |-> discard, played |-> played]
      BY <3>5, <3>3, Before DEF AuDevs
    <3> QED
      BY <3>4, <3>6, Before DEF QueueIsSafe, OldQueue, AuDevs
  <2>2. CASE ~Audible(aHeap[aRt.g])
    <3>1. aDev' = [aDev EXCEPT !.played = "none"]
      BY <2>2 DEF RtPull
    <3> QED
      BY <1>2, <2>2, <3>1, Before DEF QueueIsSafe, OldQueue, AuDevs
  <2> QED
    BY <2>1, <2>2
<1>4. ThreadGoesOn
  BY <1>1, Before DEF ThreadGoesOn, AuRts, Playing
<1> QED
  BY <1>1, <1>3, <1>4, Before, GraphsLeftAlone DEF SameCall

LEMMA StepPlay == AuInv /\ RtPush => SafeStep
<1> SUFFICES ASSUME AuInv, RtPush PROVE SafeStep
  OBVIOUS
<1>1. /\ aRt.at = "push" /\ aRt' = [aRt EXCEPT !.at = "top"]
      /\ UNCHANGED <<aHeap, aCtl, aLeft>>
  BY DEF RtPush
<1>2. PICK used, healthy :
          /\ healthy = [p \in AllPcms |-> aDev.healthy[p] /\ (p \in used => aDev.plugged[p] = "ok")]
          /\ aDev' = [aDev EXCEPT !.healthy = healthy, !.played = "none"]
  BY DEF RtPush
<1>3. healthy \in [AllPcms -> BOOLEAN]
  BY <1>2, Before DEF AuDevs
<1>4. aDev' = [plugged |-> aDev.plugged, healthy |-> healthy, display |-> aDev.display,
               receiver |-> aDev.receiver, native |-> aDev.native, fifo |-> aDev.fifo,
               discard |-> aDev.discard, played |-> "none"]
  BY <1>2, Before DEF AuDevs
<1>5. QueueIsSafe
  BY <1>3, <1>4, Before DEF QueueIsSafe, OldQueue, AuDevs
<1>6. ThreadGoesOn
  BY <1>1, Before DEF ThreadGoesOn, AuRts, Playing
<1> QED
  BY <1>1, <1>5, <1>6, Before, GraphsLeftAlone DEF SameCall

LEMMA StepTake == AuInv /\ RtTake => SafeStep
<1> SUFFICES ASSUME AuInv, RtTake PROVE SafeStep
  OBVIOUS
<1>1. aRt.at = "top" /\ aCtl.running /\ UNCHANGED <<aHeap, aDev, aLeft>>
  BY DEF RtTake
<1>2. CASE aCtl.pending = NoGraph
  <2>1. aRt' = [aRt EXCEPT !.at = "wait"] /\ UNCHANGED aCtl
    BY <1>2 DEF RtTake
  <2>2. ThreadGoesOn
    BY <1>1, <2>1, Before DEF ThreadGoesOn, AuRts, Playing
  <2> QED
    BY <1>1, <2>1, <2>2, Before, GraphsLeftAlone DEF SameCall, QueueIsSafe
<1>3. CASE aCtl.pending # NoGraph
  <2>1. /\ aRt' = [aRt EXCEPT !.at = "adopt", !.g = aCtl.pending]
        /\ aCtl' = [aCtl EXCEPT !.pending = NoGraph]
    BY <1>3 DEF RtTake
  <2>2. aCtl.step \in {"swap", "release"} /\ NextIsPending
    BY <1>3, Before DEF AuInv, AtRestInv, WaitingInv, NextIsBeingAdopted, NextIsAdopted, AuCtls
  <2>3. aRt' = [at |-> "adopt", g |-> aCtl.pending, real |-> aRt.real]
    BY <2>1, Before DEF AuRts
  <2>4. /\ aCtl' \in AuCtls /\ aCtl'.pending = NoGraph /\ aCtl'.step = aCtl.step
        /\ aCtl'.graph = aCtl.graph /\ aCtl'.next = aCtl.next /\ aCtl'.adopted = aCtl.adopted
        /\ aCtl'.running = aCtl.running /\ aCtl'.registered = aCtl.registered
        /\ aCtl'.reopen = aCtl.reopen
    BY <2>1, Before DEF AuCtls
  <2>5. AuTypes'
    BY <1>1, <1>3, <2>3, <2>4, Before DEF AuInv, AuTypes, HeapOK, AuRts, AuCtls
  <2>6. AtRestInv' /\ RunsInv'
    BY <2>2, <2>3, <2>4 DEF AtRestInv, RunsInv
  <2>7. WaitingInv'
    BY <1>1, <2>2, <2>3, <2>4 DEF AuInv, WaitingInv, NextIsPending, NextIsBeingAdopted
  <2>8. RevokedInv' /\ OldInv' /\ DevInv'
    BY <1>1, <2>2, <2>4 DEF AuInv, RevokedInv, OldInv, OldQueue, OneVersion, DevInv, Now, SinkOK
  <2> QED
    BY <1>1, <2>5, <2>6, <2>7, <2>8 DEF SafeStep, AuInv, EndpointStep
<1> QED
  BY <1>2, <1>3

LEMMA StepAdopt == AuInv /\ RtAdopt => SafeStep
<1> SUFFICES ASSUME AuInv, RtAdopt PROVE SafeStep
  OBVIOUS
<1>1. /\ aRt.at = "adopt" /\ UNCHANGED <<aHeap, aLeft>>
      /\ aDev' = AdoptedBy(aDev, aHeap[aCtl.adopted], aHeap[aRt.g])
      /\ aCtl' = [aCtl EXCEPT !.adopted = aRt.g]
      /\ aRt' = [aRt EXCEPT !.at = "wait"]
  BY DEF RtAdopt
<1>2. /\ aCtl.step \in {"swap", "release"} /\ NextIsBeingAdopted
      /\ aCtl.running /\ aCtl.next # NoGraph /\ aCtl.next # aCtl.graph
      /\ DOMAIN aHeap = {aCtl.graph, aCtl.next}
  BY <1>1, Before DEF AuInv, AtRestInv, WaitingInv, NextIsPending, NextIsAdopted, AuCtls
<1>3. aRt' \in AuRts /\ aRt'.at = "wait" /\ aRt'.g = aRt.g /\ aRt.g = aCtl.next
  BY <1>1, <1>2, Before DEF AuRts, NextIsBeingAdopted
<1>4. /\ aCtl' \in AuCtls /\ aCtl'.pending = NoGraph /\ aCtl'.step = aCtl.step
      /\ aCtl'.graph = aCtl.graph /\ aCtl'.next = aCtl.next /\ aCtl'.adopted = aCtl.next
      /\ aCtl'.running = aCtl.running /\ aCtl'.registered = aCtl.registered
      /\ aCtl'.reopen = aCtl.reopen
  BY <1>1, <1>2, <1>3, Before DEF AuCtls, AuRts, NextIsBeingAdopted
<1>5. /\ aDev' \in AuDevs /\ aDev'.played = aDev.played /\ aDev'.receiver = aDev.receiver
      /\ OldQueue(aDev', aHeap[aCtl.next])
  <2>1. PICK old, new : old = aHeap[aCtl.adopted] /\ new = aHeap[aCtl.next]
    OBVIOUS
  <2>2. aDev' = AdoptedBy(aDev, old, new)
    BY <1>1, <1>3, <2>1
  <2>3. OldQueue(aDev, old) /\ old.settings.version = new.settings.version
    BY <1>2, <2>1, Before DEF OneVersion, NextIsBeingAdopted
  <2>4. PICK q : q = AdoptedBy(aDev, old, new)
    OBVIOUS
  <2>5. /\ q \in AuDevs /\ q.played = aDev.played /\ q.receiver = aDev.receiver
        /\ OldQueue(q, new)
    BY <2>3, <2>4, Before, QueueHanded
  <2>6. aDev' = q
    BY <2>2, <2>4
  <2> QED
    BY <2>1, <2>5, <2>6
<1>6. AuTypes'
  BY <1>1, <1>3, <1>4, <1>5, Before DEF AuInv, AuTypes, HeapOK
<1>7. AtRestInv' /\ RunsInv'
  BY <1>2, <1>3, <1>4 DEF AtRestInv, RunsInv
<1>8. WaitingInv'
  BY <1>1, <1>2, <1>3, <1>4 DEF WaitingInv, NextIsAdopted
<1>9. RevokedInv' /\ DevInv'
  BY <1>1, <1>2, <1>4, <1>5 DEF AuInv, RevokedInv, DevInv, Now, SinkOK
<1>10. OldInv'
  BY <1>1, <1>4, <1>5, Before DEF OldInv, OneVersion, Now
<1> QED
  BY <1>1, <1>6, <1>7, <1>8, <1>9, <1>10 DEF SafeStep, AuInv, EndpointStep

LEMMA StepEnds == AuInv /\ RtEnds => SafeStep
<1> SUFFICES ASSUME AuInv, RtEnds PROVE SafeStep
  OBVIOUS
<1>1. /\ aRt.at = "top" /\ ~aCtl.running /\ aRt' = [aRt EXCEPT !.at = "off"]
      /\ UNCHANGED <<aHeap, aCtl, aDev, aLeft>>
  BY DEF RtEnds
<1>2. aRt' \in AuRts /\ aRt'.at = "off" /\ aRt'.g = aRt.g
  BY <1>1, Before DEF AuRts
<1>3. aCtl.step \in {"idle", "reopen", "join"}
  BY <1>1, Before DEF AuInv, WaitingInv, AuCtls
<1>4. AuTypes'
  BY <1>1, <1>2 DEF AuInv, AuTypes, HeapOK
<1>5. AtRestInv' /\ WaitingInv' /\ RunsInv'
  BY <1>1, <1>2, <1>3 DEF AuInv, AtRestInv, WaitingInv, RunsInv
<1>6. RevokedInv' /\ OldInv' /\ DevInv'
  BY <1>1, <1>2 DEF AuInv, RevokedInv, OldInv, OldQueue, OneVersion, DevInv, Now
<1> QED
  BY <1>1, <1>4, <1>5, <1>6 DEF SafeStep, AuInv, EndpointStep

-------------------------------------------------------------------------------
(* The ends of the calls.                                                      *)

\* The graph the thread has let go of is destroyed.
LEMMA OldOneGone ==
    ASSUME AuInv, aCtl.step \in {"swap", "release"}, Acknowledged, aHeap' = Without(aCtl.graph),
           UNCHANGED <<aRt, aDev, aLeft>>, aCtl' \in AuCtls,
           aCtl'.step = (IF aCtl.step = "swap" THEN "idle" ELSE "reopen"),
           aCtl'.graph = aCtl.next, aCtl'.next = NoGraph, aCtl'.pending = aCtl.pending,
           aCtl'.adopted = aCtl.adopted, aCtl'.running = aCtl.running,
           aCtl'.registered = aCtl.registered, aCtl'.step = "reopen" => aCtl'.reopen = aCtl.reopen
    PROVE  SafeStep
<1>1. /\ aCtl.running /\ aCtl.next # NoGraph /\ aCtl.next # aCtl.graph
      /\ DOMAIN aHeap = {aCtl.graph, aCtl.next} /\ NextIsAdopted
  BY DEF AuInv, WaitingInv, NextIsPending, NextIsBeingAdopted, Acknowledged
<1>2. DOMAIN aHeap' = {aCtl.next} /\ aHeap'[aCtl.next] = aHeap[aCtl.next]
  BY <1>1 DEF Without
<1>3. AuTypes'
  BY <1>1, <1>2, Before DEF AuInv, AuTypes, HeapOK
<1>4. AtRestInv' /\ RunsInv'
  BY <1>1, <1>2 DEF AuInv, AtRestInv, RunsInv, NextIsAdopted
<1>5. WaitingInv'
  BY DEF WaitingInv
<1>6. RevokedInv'
  BY <1>1, <1>2 DEF AuInv, RevokedInv
<1>7. OldInv'
  BY <1>1, <1>2 DEF AuInv, OldInv, OneVersion, NextIsAdopted, Now
<1>8. DevInv'
  BY <1>1, <1>2 DEF AuInv, DevInv, Now, SinkOK
<1> QED
  BY <1>1, <1>2, <1>3, <1>4, <1>5, <1>6, <1>7, <1>8 DEF SafeStep, AuInv, EndpointStep

LEMMA StepSwapped == AuInv /\ (AuSwapped \/ AuReleased) => SafeStep
<1>1. ASSUME AuInv, AuSwapped PROVE SafeStep
  <2>1. /\ aCtl.step = "swap" /\ Acknowledged /\ aHeap' = Without(aCtl.graph)
        /\ UNCHANGED <<aRt, aDev, aLeft>>
        /\ aCtl' = [aCtl EXCEPT !.graph = aCtl.next, !.next = NoGraph, !.reopen = {},
                                !.step = "idle", !.call = "idle"]
    BY <1>1 DEF AuSwapped
  <2>2. aCtl' = [call |-> "idle", step |-> "idle", graph |-> aCtl.next, next |-> NoGraph,
                 pending |-> aCtl.pending, adopted |-> aCtl.adopted, running |-> aCtl.running,
                 registered |-> aCtl.registered, asked |-> aCtl.asked, shown |-> aCtl.shown,
                 reopen |-> {}]
    BY <1>1, <2>1, Before DEF AuCtls
  <2>3. aCtl.next \in GraphIds
    BY <1>1, <2>1, Before DEF AuInv, WaitingInv, AuCtls
  <2>4. aCtl' \in AuCtls
    BY <1>1, <2>2, <2>3, Before DEF AuCtls
  <2> QED
    BY <1>1, <2>1, <2>2, <2>4, OldOneGone
<1>2. ASSUME AuInv, AuReleased PROVE SafeStep
  <2>1. /\ aCtl.step = "release" /\ Acknowledged /\ aHeap' = Without(aCtl.graph)
        /\ UNCHANGED <<aRt, aDev, aLeft>>
        /\ aCtl' = [aCtl EXCEPT !.graph = aCtl.next, !.next = NoGraph, !.step = "reopen"]
    BY <1>2 DEF AuReleased
  <2>2. aCtl' = [call |-> aCtl.call, step |-> "reopen", graph |-> aCtl.next, next |-> NoGraph,
                 pending |-> aCtl.pending, adopted |-> aCtl.adopted, running |-> aCtl.running,
                 registered |-> aCtl.registered, asked |-> aCtl.asked, shown |-> aCtl.shown,
                 reopen |-> aCtl.reopen]
    BY <1>2, <2>1, Before DEF AuCtls
  <2>3. aCtl.next \in GraphIds
    BY <1>2, <2>1, Before DEF AuInv, WaitingInv, AuCtls
  <2>4. aCtl' \in AuCtls
    BY <1>2, <2>2, <2>3, Before DEF AuCtls
  <2> QED
    BY <1>2, <2>1, <2>2, <2>4, OldOneGone
<1> QED
  BY <1>1, <1>2

\* A call that ends, begins or halts without a graph of its own.
EndsOrBegins(step, runs, known) ==
    /\ aCtl' \in AuCtls /\ aCtl'.step = step /\ aCtl'.running = runs
    /\ aCtl'.registered = known
    /\ aCtl'.graph = aCtl.graph /\ aCtl'.next = aCtl.next /\ aCtl'.pending = aCtl.pending
    /\ aCtl'.adopted = aCtl.adopted

LEMMA CallTurns ==
    ASSUME AuInv, aCtl.step \in {"idle", "reopen", "join"},
           NEW step \in {"idle", "join"}, NEW runs, NEW known \in BOOLEAN,
           EndsOrBegins(step, runs, known),
           known => aCtl.registered,
           UNCHANGED <<aHeap, aDev>>, aRt' \in AuRts, aLeft' \in 0 .. AuEvents,
           aRt'.at # "adopt", aRt'.at # "off" => aRt'.g = aCtl.graph,
           IF step = "idle" THEN runs = (aRt'.at # "off") ELSE ~runs,
           aCtl.registered => aDev.receiver,
           step = "idle" => known = aCtl.registered,
           ~aCtl.registered /\ ~(aRt'.at = "off") => ~aHeap[aCtl.graph].ndi
    PROVE  SafeStep
<1>1. /\ aCtl' \in AuCtls /\ aCtl'.step = step /\ aCtl'.running = runs
      /\ aCtl'.registered = known
      /\ aCtl'.graph = aCtl.graph /\ aCtl'.next = aCtl.next /\ aCtl'.pending = aCtl.pending
      /\ aCtl'.adopted = aCtl.adopted
  BY DEF EndsOrBegins
<1>2. AuTypes'
  BY <1>1 DEF AuInv, AuTypes, HeapOK
<1>3. AtRestInv' /\ WaitingInv' /\ RunsInv'
  BY <1>1, OneGraph DEF AuInv, AtRestInv, WaitingInv, RunsInv
<1>4. RevokedInv'
  BY <1>1 DEF AuInv, RevokedInv
<1>5. OldInv' /\ DevInv'
  BY <1>1 DEF AuInv, OldInv, OldQueue, OneVersion, DevInv, Now, SinkOK
<1> QED
  BY <1>1, <1>2, <1>3, <1>4, <1>5 DEF SafeStep, AuInv, EndpointStep

\* What the invariant says while no graph is on its way.
LEMMA CallAtRest ==
    ASSUME AuInv, aCtl.step \in {"idle", "reopen", "join"}
    PROVE  /\ aRt.at # "adopt" /\ (aRt.at # "off" => aRt.g = aCtl.graph)
           /\ aCtl.step \in {"idle", "reopen"} => aCtl.running = (aRt.at # "off")
           /\ aCtl.registered => aDev.receiver
           /\ aCtl.step = "reopen" => aCtl.registered
           /\ aCtl.step = "idle" /\ ~aCtl.registered /\ aRt.at # "off" => ~aHeap[aCtl.graph].ndi
<1>1. aCtl.running \in BOOLEAN
  BY Before DEF AuCtls
<1> QED
  BY <1>1 DEF AuInv, AtRestInv, RunsInv, RevokedInv

LEMMA StepReopenFails == AuInv /\ AuReopenFails => SafeStep
<1> SUFFICES ASSUME AuInv, AuReopenFails PROVE SafeStep
  OBVIOUS
<1>1. /\ aCtl.step = "reopen" /\ aLeft > 0 /\ aLeft' = aLeft - 1 /\ UNCHANGED <<aHeap, aRt, aDev>>
      /\ aCtl' = [aCtl EXCEPT !.step = "idle", !.call = "idle", !.reopen = {}]
  BY DEF AuReopenFails
<1>2. aLeft' \in 0 .. AuEvents
  BY <1>1, Before, AudioAssumption
<1>3. aCtl' = [call |-> "idle", step |-> "idle", graph |-> aCtl.graph, next |-> aCtl.next,
               pending |-> aCtl.pending, adopted |-> aCtl.adopted, running |-> aCtl.running,
               registered |-> aCtl.registered, asked |-> aCtl.asked, shown |-> aCtl.shown,
               reopen |-> {}]
  BY <1>1, Before DEF AuCtls
<1>4. EndsOrBegins("idle", aCtl.running, aCtl.registered)
  BY <1>3, Before DEF EndsOrBegins, AuCtls
<1>5. PICK step \in {"idle", "join"}, runs, known \in BOOLEAN :
          step = "idle" /\ runs = aCtl.running /\ known = aCtl.registered
  BY Before DEF AuCtls
<1>6. EndsOrBegins(step, runs, known)
  BY <1>4, <1>5
<1> QED
  BY <1>1, <1>2, <1>5, <1>6, Before, CallAtRest, CallTurns

LEMMA StepJoined == AuInv /\ AuJoined => SafeStep
<1> SUFFICES ASSUME AuInv, AuJoined PROVE SafeStep
  OBVIOUS
<1>1. /\ aCtl.step = "join" /\ aRt.at = "off" /\ UNCHANGED <<aHeap, aRt, aDev, aLeft>>
      /\ aCtl' = [aCtl EXCEPT !.step = "idle", !.call = "idle"]
  BY DEF AuJoined
<1>2. aCtl' = [call |-> "idle", step |-> "idle", graph |-> aCtl.graph, next |-> aCtl.next,
               pending |-> aCtl.pending, adopted |-> aCtl.adopted, running |-> aCtl.running,
               registered |-> aCtl.registered, asked |-> aCtl.asked, shown |-> aCtl.shown,
               reopen |-> aCtl.reopen]
  BY <1>1, Before DEF AuCtls
<1>3. EndsOrBegins("idle", aCtl.running, aCtl.registered)
  BY <1>2, Before DEF EndsOrBegins, AuCtls
<1>4. PICK step \in {"idle", "join"}, runs, known \in BOOLEAN :
          step = "idle" /\ runs = aCtl.running /\ known = aCtl.registered
  BY Before DEF AuCtls
<1>5. EndsOrBegins(step, runs, known)
  BY <1>3, <1>4
<1>6. aCtl.running = FALSE
  BY <1>1, Before DEF AuInv, RunsInv, AuCtls
<1> QED
  BY <1>1, <1>4, <1>5, <1>6, Before, CallAtRest, CallTurns

LEMMA StepStart == AuInv /\ AuStart => SafeStep
<1> SUFFICES ASSUME AuInv, AuStart PROVE SafeStep
  OBVIOUS
<1>1. /\ aCtl.step = "idle" /\ ~aCtl.running /\ aCtl.registered /\ UNCHANGED <<aHeap, aDev, aLeft>>
      /\ aCtl' = [aCtl EXCEPT !.running = TRUE]
      /\ aRt' = [at |-> "top", g |-> aCtl.adopted, real |-> FALSE]
  BY DEF AuStart, AuIdle
<1>2. PICK yes \in BOOLEAN, no \in BOOLEAN : yes = TRUE /\ no = FALSE
  OBVIOUS
<1>3. aCtl' = [call |-> aCtl.call, step |-> aCtl.step, graph |-> aCtl.graph, next |-> aCtl.next,
               pending |-> aCtl.pending, adopted |-> aCtl.adopted, running |-> yes,
               registered |-> aCtl.registered, asked |-> aCtl.asked, shown |-> aCtl.shown,
               reopen |-> aCtl.reopen]
  BY <1>1, <1>2, Before DEF AuCtls
<1>4. PICK step \in {"idle", "join"}, runs, known \in BOOLEAN :
          step = "idle" /\ runs = yes /\ known = aCtl.registered
  BY Before DEF AuCtls
<1>5. EndsOrBegins(step, runs, known)
  <2>1. aCtl.step = step
    BY <1>1, <1>4
  <2> QED
    BY <1>3, <1>4, <2>1, Before DEF EndsOrBegins, AuCtls
<1>6. aRt' = [at |-> "top", g |-> aCtl.adopted, real |-> no] /\ aCtl.adopted = aCtl.graph
  BY <1>1, <1>2, OneGraph
<1>7. aRt' \in AuRts /\ aRt'.at = "top" /\ aRt'.g = aCtl.graph
  BY <1>6, Before DEF AuRts, AuCtls
<1> QED
  BY <1>1, <1>2, <1>4, <1>5, <1>7, Before, CallAtRest, CallTurns

LEMMA StepStop == AuInv /\ AuStop => SafeStep
<1> SUFFICES ASSUME AuInv, AuStop PROVE SafeStep
  OBVIOUS
<1>1. /\ aCtl.step = "idle" /\ ~aDev.receiver /\ UNCHANGED <<aHeap, aRt, aDev, aLeft>>
      /\ aCtl' = [aCtl EXCEPT !.running = FALSE, !.call = "stop", !.step = "join"]
  BY DEF AuStop, AuIdle
<1>2. PICK no \in BOOLEAN : no = FALSE
  OBVIOUS
<1>3. aCtl' = [call |-> "stop", step |-> "join", graph |-> aCtl.graph, next |-> aCtl.next,
               pending |-> aCtl.pending, adopted |-> aCtl.adopted, running |-> no,
               registered |-> aCtl.registered, asked |-> aCtl.asked, shown |-> aCtl.shown,
               reopen |-> aCtl.reopen]
  BY <1>1, <1>2, Before DEF AuCtls
<1>4. PICK step \in {"idle", "join"}, runs, known \in BOOLEAN :
          step = "join" /\ runs = no /\ known = aCtl.registered
  BY Before DEF AuCtls
<1>5. EndsOrBegins(step, runs, known)
  BY <1>3, <1>4, Before DEF EndsOrBegins, AuCtls
<1> QED
  BY <1>1, <1>2, <1>4, <1>5, Before, CallAtRest, CallTurns

LEMMA StepGone == AuInv /\ ReceiverGone => SafeStep
<1> SUFFICES ASSUME AuInv, ReceiverGone PROVE SafeStep
  OBVIOUS
<1>1. /\ aCtl.step = "idle" /\ ~aCtl.registered /\ UNCHANGED <<aHeap, aCtl, aRt, aLeft>>
      /\ aDev' = [aDev EXCEPT !.receiver = FALSE]
  BY DEF ReceiverGone, AuIdle
<1>2. PICK no \in BOOLEAN : no = FALSE
  OBVIOUS
<1>3. aDev' = [plugged |-> aDev.plugged, healthy |-> aDev.healthy, display |-> aDev.display,
               receiver |-> no, native |-> aDev.native, fifo |-> aDev.fifo,
               discard |-> aDev.discard, played |-> aDev.played]
  BY <1>1, <1>2, Before DEF AuDevs
<1>4. aDev' \in AuDevs
  BY <1>3, Before DEF AuDevs
<1>5. AuTypes'
  BY <1>1, <1>4 DEF AuInv, AuTypes, HeapOK
<1>6. AtRestInv' /\ WaitingInv' /\ RunsInv' /\ DevInv'
  BY <1>1 DEF AuInv, AtRestInv, WaitingInv, RunsInv, NextIsPending, NextIsBeingAdopted,
              NextIsAdopted, DevInv, Now, SinkOK
<1>7. RevokedInv'
  BY <1>1, CallAtRest DEF AuInv, RevokedInv
<1>8. OldInv'
  BY <1>1, <1>3, Before DEF OldInv, OldQueue, OneVersion, Now
<1> QED
  BY <1>1, <1>5, <1>6, <1>7, <1>8 DEF SafeStep, AuInv, EndpointStep

-------------------------------------------------------------------------------
(* The calls that hand a graph over.                                           *)

\* A reload, in whole or in part.
LEMMA Reloaded ==
    ASSUME AuInv, AuIdle, aCtl.registered, aLeft > 0, aLeft' = aLeft - 1, UNCHANGED aRt,
           NEW want \in AuSettings, Accepted(want, {}), want.version = Now.settings.version,
           NEW ctl, ctl = [aCtl EXCEPT !.call = "reload"],
           NEW graph, graph = Built(want), NEW then, then = "swap",
           NEW dev, dev = [aDev EXCEPT !.healthy = Opened(want, {})],
           HandOver(ctl, graph, then), aDev' = Handed(dev, graph)
    PROVE  SafeStep
<1>1. aCtl.step = "idle" /\ aLeft' \in 0 .. AuEvents
  BY Before, AudioAssumption DEF AuIdle
<1>2. PICK call \in {"idle", "reload", "recover", "revoke", "stop"} : call = "reload"
  OBVIOUS
<1>3. ctl = [call |-> call, step |-> aCtl.step, graph |-> aCtl.graph, next |-> aCtl.next,
             pending |-> aCtl.pending, adopted |-> aCtl.adopted, running |-> aCtl.running,
             registered |-> aCtl.registered, asked |-> aCtl.asked, shown |-> aCtl.shown,
             reopen |-> aCtl.reopen]
  BY <1>2, Before DEF AuCtls
<1>4. ctl \in AuCtls
  BY <1>3, Before DEF AuCtls
<1>5. CallOf(ctl) /\ ctl.registered = aCtl.registered
  BY <1>1, <1>3, <1>4, OneGraph DEF CallOf
<1>6. PICK reopen : reopen = {}
  OBVIOUS
<1>7. /\ OfSettings(graph, want)
      /\ ctl.registered \/ ~graph.ndi
  BY <1>5, BuiltIsAGraph
<1>8. SameQueue(dev) /\ dev.healthy = Opened(want, reopen)
  BY <1>6, OpenedDevices
<1>9. Accepted(want, reopen)
  BY <1>6
<1> QED
  BY <1>1, <1>5, <1>6, <1>7, <1>8, <1>9, HandingBuilt

LEMMA StepReload == AuInv /\ AuReload => SafeStep
<1> SUFFICES ASSUME AuInv, AuReload PROVE SafeStep
  OBVIOUS
<1>1. AuIdle /\ aCtl.registered /\ aLeft > 0 /\ aLeft' = aLeft - 1 /\ UNCHANGED aRt
  BY DEF AuReload
<1>2. PICK want \in Changed(Now.settings) :
          /\ Accepted(want, {})
          /\ HandOver([aCtl EXCEPT !.call = "reload"], Built(want), "swap")
          /\ aDev' = Handed([aDev EXCEPT !.healthy = Opened(want, {})], Built(want))
  BY DEF AuReload
<1>3. want \in AuSettings /\ want.version = Now.settings.version
  BY DEF Changed
<1> QED
  BY <1>1, <1>2, <1>3, Reloaded, Zenon

LEMMA StepReloadPartly == AuInv /\ AuReloadPartly => SafeStep
<1> SUFFICES ASSUME AuInv, AuReloadPartly PROVE SafeStep
  OBVIOUS
<1>1. AuIdle /\ aCtl.registered /\ aLeft > 0 /\ aLeft' = aLeft - 1 /\ UNCHANGED aRt
  BY DEF AuReloadPartly
<1>2. PICK want, live :
          /\ want \in Changed(Now.settings)
          /\ live = LiveSubset(Now.settings, want)
          /\ Accepted(live, {})
          /\ HandOver([aCtl EXCEPT !.call = "reload"], Built(live), "swap")
          /\ aDev' = Handed([aDev EXCEPT !.healthy = Opened(live, {})], Built(live))
  BY DEF AuReloadPartly
<1>3. live \in AuSettings /\ live.version = Now.settings.version
  <2>1. PICK present \in AuSettings : present = Now.settings
    BY <1>1, OneGraph DEF AuIdle
  <2>2. PICK heard \in BOOLEAN : heard = want.routed
    BY <1>2 DEF Changed, AuSettings
  <2>3. live = [version |-> present.version, period |-> present.period, routed |-> heard,
                pcm |-> present.pcm]
    BY <1>2, <2>1, <2>2 DEF LiveSubset, AuSettings
  <2> QED
    BY <2>1, <2>3 DEF AuSettings
<1> QED
  BY <1>1, <1>2, <1>3, Reloaded, Zenon

LEMMA StepReopen == AuInv /\ AuReopen => SafeStep
<1> SUFFICES ASSUME AuInv, AuReopen PROVE SafeStep
  OBVIOUS
<1>1. /\ aCtl.step = "reopen" /\ Accepted(Now.settings, aCtl.reopen) /\ UNCHANGED <<aRt, aLeft>>
      /\ HandOver(aCtl, Built(Now.settings), "swap")
      /\ aDev' = Handed([aDev EXCEPT !.healthy = Opened(Now.settings, aCtl.reopen)],
                         Built(Now.settings))
  BY DEF AuReopen
<1>2. PICK want, reopen, graph, ctl, then :
          /\ want \in AuSettings /\ want = Now.settings /\ reopen = aCtl.reopen /\ graph = Built(want)
          /\ ctl = aCtl /\ then = "swap"
  BY <1>1, OneGraph
<1>3. PICK dev : dev = [aDev EXCEPT !.healthy = Opened(want, reopen)]
  OBVIOUS
<1>4. HandOver(ctl, graph, then) /\ aDev' = Handed(dev, graph)
  BY <1>1, <1>2, <1>3
<1>5. aCtl.registered
  BY <1>1, CallAtRest
<1>6. CallOf(ctl) /\ ctl.registered
  BY <1>1, <1>2, <1>5, Before, OneGraph DEF CallOf
<1>7. OfSettings(graph, want) /\ want.version = Now.settings.version
  BY <1>2, BuiltIsAGraph
<1>8. SameQueue(dev) /\ dev.healthy = Opened(want, reopen)
  BY <1>3, OpenedDevices
<1> QED
  BY <1>1, <1>2, <1>4, <1>5, <1>6, <1>7, <1>8, Before, HandingBuilt

\* The recovery of lost endpoints, or none.
LEMMA StepTick == AuInv /\ (\E due \in BOOLEAN : Tick(due)) => SafeStep
<1> SUFFICES ASSUME AuInv, NEW due \in BOOLEAN, Tick(due) PROVE SafeStep
  OBVIOUS
<1>1. PICK to, between, ctl :
          /\ to = Targets(due)
          /\ between = [Now EXCEPT !.dev = [s \in AuSinks |-> IF s \in to THEN NoDevice ELSE Now.dev[s]]]
          /\ ctl = [aCtl EXCEPT !.asked = FALSE, !.shown = aDev.display]
          /\ IF to = {}
             THEN aCtl' = ctl /\ UNCHANGED <<aHeap, aDev>>
             ELSE /\ HandOver([ctl EXCEPT !.call = "recover", !.reopen = to], between, "release")
                  /\ aDev' = Handed(aDev, between)
  BY DEF Tick
<1>2. aCtl.step = "idle" /\ aCtl.registered /\ UNCHANGED <<aRt, aLeft>>
  BY DEF Tick, AuIdle
<1>3. PICK no \in BOOLEAN, display \in BOOLEAN : no = FALSE /\ display = aDev.display
  BY Before DEF AuDevs
<1>4. ctl = [call |-> aCtl.call, step |-> aCtl.step, graph |-> aCtl.graph, next |-> aCtl.next,
             pending |-> aCtl.pending, adopted |-> aCtl.adopted, running |-> aCtl.running,
             registered |-> aCtl.registered, asked |-> no, shown |-> display,
             reopen |-> aCtl.reopen]
  BY <1>1, <1>3, Before DEF AuCtls
<1>5. CASE to = {}
  <2>1. aCtl' = ctl /\ UNCHANGED <<aHeap, aDev>>
    BY <1>1, <1>5
  <2>2. SameCall
    BY <1>4, <2>1, Before DEF SameCall, AuCtls
  <2> QED
    BY <1>2, <2>1, <2>2, Before, GraphsLeftAlone DEF ThreadGoesOn, QueueIsSafe
<1>6. CASE to # {}
  <2>1. PICK then \in {"swap", "release"}, call \in {"idle", "reload", "recover", "revoke", "stop"} :
            then = "release" /\ call = "recover"
    OBVIOUS
  <2>2. PICK asks : asks = [ctl EXCEPT !.call = call, !.reopen = to]
    OBVIOUS
  <2>3. HandOver(asks, between, then) /\ aDev' = Handed(aDev, between)
    BY <1>1, <1>6, <2>1, <2>2
  <2>4. to \in SUBSET AuSinks
    BY <1>1 DEF Targets, AuSinks
  <2>5. asks = [call |-> call, step |-> aCtl.step, graph |-> aCtl.graph, next |-> aCtl.next,
                pending |-> aCtl.pending, adopted |-> aCtl.adopted, running |-> aCtl.running,
                registered |-> aCtl.registered, asked |-> no, shown |-> display, reopen |-> to]
    BY <1>4, <2>2
  <2>6. asks \in AuCtls
    BY <2>4, <2>5, Before DEF AuCtls
  <2>7. CallOf(asks) /\ asks.registered /\ asks.reopen = to
    BY <1>2, <2>5, <2>6, OneGraph DEF CallOf
  <2>8. PICK devs : devs = [s \in AuSinks |-> IF s \in to THEN NoDevice ELSE Now.dev[s]]
    OBVIOUS
  <2>9. Now \in AuGraphs /\ SinkOK(Now)
    BY <1>2, OneGraph
  <2>10. devs \in [AuSinks -> AllPcms \cup {NoDevice}]
    BY <2>8, <2>9 DEF AuGraphs
  <2>11. between = [settings |-> Now.settings, dev |-> devs, ndi |-> Now.ndi]
    BY <1>1, <2>8, <2>9 DEF AuGraphs
  <2>12. between \in AuGraphs
    BY <2>9, <2>10, <2>11 DEF AuGraphs
  <2>13. /\ \A s \in AuSinks : between.dev[s] = (IF s \in to THEN NoDevice ELSE Now.dev[s])
         /\ between.settings = Now.settings
    BY <2>8, <2>11
  <2>14. MayHandOver(asks, between, then)
    BY <2>1, <2>7, <2>9, <2>12, <2>13 DEF MayHandOver, SinkOK, Closed
  <2>15. PICK dev : dev = aDev
    OBVIOUS
  <2>16. SameQueue(dev) /\ aDev' = Handed(dev, between)
    BY <2>3, <2>15, Before DEF SameQueue
  <2>17. /\ AuInv' /\ aDev'.healthy = dev.healthy /\ aCtl'.reopen = to
         /\ \A j \in DOMAIN aHeap' \ DOMAIN aHeap : aHeap'[j] = between
    BY <1>2, <2>1, <2>3, <2>7, <2>14, <2>16, Before, HandOverKeeps
  <2>18. PcmReady(Now.dev["s"]) => "s" \notin to
    BY <1>1 DEF Targets
  <2>19. ASSUME NEW i \in DOMAIN aHeap' \ DOMAIN aHeap, NEW e \in AuSinks, e \notin to,
                PcmReady(Now.dev[e])
         PROVE  StillHeld(i, e)
    BY <2>13, <2>15, <2>17, <2>19 DEF PcmReady, StillHeld
  <2> QED
    BY <2>17, <2>18, <2>19 DEF SafeStep, EndpointStep, AuSinks
<1> QED
  BY <1>5, <1>6

\* The revocation of a source: without it, or with the engine stopped.
LEMMA StepUnregister == AuInv /\ AuUnregister => SafeStep
<1> SUFFICES ASSUME AuInv, AuUnregister PROVE SafeStep
  OBVIOUS
<1>1. aCtl.step = "idle" /\ aCtl.registered /\ UNCHANGED aRt
  BY DEF AuUnregister, AuIdle
<1>2. PICK ctl, built : /\ ctl = [aCtl EXCEPT !.registered = FALSE, !.call = "revoke"]
                        /\ built = Built(Now.settings)
  OBVIOUS
<1>3. PICK graph : graph = [built EXCEPT !.ndi = FALSE]
  OBVIOUS
<1>4. \/ /\ Accepted(Now.settings, {})
         /\ HandOver(ctl, graph, "swap")
         /\ aDev' = Handed([aDev EXCEPT !.healthy = Opened(Now.settings, {})], graph)
         /\ UNCHANGED aLeft
      \/ /\ UNCHANGED aLeft \/ (aLeft > 0 /\ aLeft' = aLeft - 1)
         /\ aCtl' = Halted(ctl) /\ UNCHANGED <<aHeap, aDev>>
  BY <1>2, <1>3 DEF AuUnregister
<1>5. PICK no \in BOOLEAN, call \in {"idle", "reload", "recover", "revoke", "stop"} :
          no = FALSE /\ call = "revoke"
  OBVIOUS
<1>6. ctl = [call |-> call, step |-> aCtl.step, graph |-> aCtl.graph, next |-> aCtl.next,
             pending |-> aCtl.pending, adopted |-> aCtl.adopted, running |-> aCtl.running,
             registered |-> no, asked |-> aCtl.asked, shown |-> aCtl.shown,
             reopen |-> aCtl.reopen]
  BY <1>2, <1>5, Before DEF AuCtls
<1>7. CASE /\ Accepted(Now.settings, {})
           /\ HandOver(ctl, graph, "swap")
           /\ aDev' = Handed([aDev EXCEPT !.healthy = Opened(Now.settings, {})], graph)
           /\ UNCHANGED aLeft
  <2>1. PICK want, reopen, then :
            want \in AuSettings /\ want = Now.settings /\ reopen = {} /\ then = "swap"
    BY <1>1, OneGraph
  <2>2. PICK dev : dev = [aDev EXCEPT !.healthy = Opened(want, reopen)]
    OBVIOUS
  <2>3. Accepted(want, reopen) /\ HandOver(ctl, graph, then) /\ aDev' = Handed(dev, graph)
    BY <1>7, <2>1, <2>2
  <2>4. ctl \in AuCtls
    BY <1>6, Before DEF AuCtls
  <2>5. CallOf(ctl)
    BY <1>1, <1>6, <2>4, OneGraph DEF CallOf
  <2>6. OfSettings(built, want) /\ want.version = Now.settings.version
    BY <1>2, <2>1, BuiltIsAGraph
  <2>7. graph = [settings |-> built.settings, dev |-> built.dev, ndi |-> no]
    BY <1>3, <1>5, <2>6 DEF AuGraphs, OfSettings
  <2>8. OfSettings(graph, want) /\ ~graph.ndi
    BY <1>5, <2>6, <2>7 DEF AuGraphs, SinkOK, OfSettings
  <2>9. SameQueue(dev) /\ dev.healthy = Opened(want, reopen)
    BY <2>2, OpenedDevices
  <2> QED
    BY <1>1, <1>7, <2>1, <2>3, <2>5, <2>8, <2>9, Before, HandingBuilt
<1>8. CASE /\ UNCHANGED aLeft \/ (aLeft > 0 /\ aLeft' = aLeft - 1)
           /\ aCtl' = Halted(ctl) /\ UNCHANGED <<aHeap, aDev>>
  <2>1. aCtl' = [call |-> call, step |-> "join", graph |-> aCtl.graph, next |-> aCtl.next,
                 pending |-> aCtl.pending, adopted |-> aCtl.adopted, running |-> no,
                 registered |-> no, asked |-> aCtl.asked, shown |-> aCtl.shown,
                 reopen |-> aCtl.reopen]
    BY <1>5, <1>6, <1>8 DEF Halted
  <2>2. PICK step \in {"idle", "join"} : step = "join"
    OBVIOUS
  <2>3. EndsOrBegins(step, no, no)
    BY <2>1, <2>2, Before DEF EndsOrBegins, AuCtls
  <2>4. aLeft' \in 0 .. AuEvents
    BY <1>8, Before, AudioAssumption
  <2> QED
    BY <1>1, <1>5, <1>8, <2>2, <2>3, <2>4, Before, CallAtRest, CallTurns
<1> QED
  BY <1>4, <1>7, <1>8

-------------------------------------------------------------------------------
(* The invariant, and what the engine promises.                                *)

LEMMA AuBase == AuInit => AuInv
<1> SUFFICES ASSUME AuInit PROVE AuInv
  OBVIOUS
<1>1. PICK version \in {1, 2}, q \in AuPcms :
          \E s0 :
              /\ s0 = [version |-> version, period |-> 1, routed |-> TRUE, pcm |-> [m |-> Hdmi, s |-> q]]
              /\ aHeap = [i \in {1} |-> [settings |-> s0, dev |-> s0.pcm, ndi |-> TRUE]]
              /\ aCtl = [call |-> "idle", step |-> "idle", graph |-> 1, next |-> NoGraph,
                         pending |-> NoGraph, adopted |-> 1, running |-> FALSE,
                         registered |-> TRUE, asked |-> FALSE, shown |-> TRUE, reopen |-> {}]
              /\ aRt = [at |-> "off", g |-> 1, real |-> FALSE]
              /\ aDev = [plugged |-> [p \in AllPcms |-> "ok"],
                         healthy |-> [p \in AllPcms |-> p \in {Hdmi, q}],
                         display |-> TRUE, receiver |-> TRUE, native |-> FALSE,
                         fifo |-> "empty", discard |-> TRUE, played |-> "none"]
              /\ aLeft = AuEvents
  BY ZenonT(60) DEF AuInit
<1>2. PICK s0 :
          /\ s0 = [version |-> version, period |-> 1, routed |-> TRUE, pcm |-> [m |-> Hdmi, s |-> q]]
          /\ aHeap = [i \in {1} |-> [settings |-> s0, dev |-> s0.pcm, ndi |-> TRUE]]
          /\ aCtl = [call |-> "idle", step |-> "idle", graph |-> 1, next |-> NoGraph,
                     pending |-> NoGraph, adopted |-> 1, running |-> FALSE,
                     registered |-> TRUE, asked |-> FALSE, shown |-> TRUE, reopen |-> {}]
          /\ aRt = [at |-> "off", g |-> 1, real |-> FALSE]
          /\ aDev = [plugged |-> [p \in AllPcms |-> "ok"],
                     healthy |-> [p \in AllPcms |-> p \in {Hdmi, q}],
                     display |-> TRUE, receiver |-> TRUE, native |-> FALSE,
                     fifo |-> "empty", discard |-> TRUE, played |-> "none"]
          /\ aLeft = AuEvents
  BY <1>1, Zenon
<1>3. PICK yes \in BOOLEAN, no \in BOOLEAN : yes = TRUE /\ no = FALSE
  BY Zenon
<1>4. PICK dev0 : dev0 = [m |-> Hdmi, s |-> q]
  OBVIOUS
<1>5. s0 = [version |-> version, period |-> 1, routed |-> yes, pcm |-> dev0] /\ s0.pcm = dev0
  BY <1>3, <1>2, <1>4
<1>6. /\ yes = TRUE /\ no = FALSE
      /\ dev0 = [m |-> Hdmi, s |-> q]
      /\ s0 = [version |-> version, period |-> 1, routed |-> yes, pcm |-> dev0]
      /\ aHeap = [i \in {1} |-> [settings |-> s0, dev |-> dev0, ndi |-> yes]]
      /\ aCtl = [call |-> "idle", step |-> "idle", graph |-> 1, next |-> NoGraph,
                 pending |-> NoGraph, adopted |-> 1, running |-> no,
                 registered |-> yes, asked |-> no, shown |-> yes, reopen |-> {}]
      /\ aRt = [at |-> "off", g |-> 1, real |-> no]
      /\ aDev = [plugged |-> [p \in AllPcms |-> "ok"],
                 healthy |-> [p \in AllPcms |-> p \in {Hdmi, q}],
                 display |-> yes, receiver |-> yes, native |-> no,
                 fifo |-> "empty", discard |-> yes, played |-> "none"]
      /\ aLeft = AuEvents
  <2>1. yes = TRUE /\ no = FALSE
    BY <1>3
  <2>2. aHeap = [i \in {1} |-> [settings |-> s0, dev |-> dev0, ndi |-> yes]]
    BY <1>2, <1>5, <2>1, Zenon
  <2>3. aCtl = [call |-> "idle", step |-> "idle", graph |-> 1, next |-> NoGraph,
                pending |-> NoGraph, adopted |-> 1, running |-> no,
                registered |-> yes, asked |-> no, shown |-> yes, reopen |-> {}]
    BY <1>2, <2>1, Zenon
  <2>4. aRt = [at |-> "off", g |-> 1, real |-> no]
    BY <1>2, <2>1, Zenon
  <2>5. aDev = [plugged |-> [p \in AllPcms |-> "ok"],
                healthy |-> [p \in AllPcms |-> p \in {Hdmi, q}],
                display |-> yes, receiver |-> yes, native |-> no,
                fifo |-> "empty", discard |-> yes, played |-> "none"]
    BY <1>2, <2>1, Zenon
  <2> QED
    BY <1>3, <1>2, <1>4, <1>5, <2>2, <2>3, <2>4, <2>5, Zenon
<1>7. /\ aCtl.step = "idle" /\ aCtl.graph = 1 /\ aCtl.next = NoGraph /\ aCtl.pending = NoGraph
      /\ aCtl.adopted = 1 /\ aCtl.running = no /\ aCtl.registered = yes
      /\ aRt.at = "off" /\ aDev.receiver = yes /\ aDev.fifo = "empty" /\ aDev.played = "none"
      /\ DOMAIN aHeap = {1}
  BY <1>6
<1>8. PICK g : g = [settings |-> s0, dev |-> dev0, ndi |-> yes]
  OBVIOUS
<1>9. s0 \in AuSettings
  BY <1>6 DEF AuSettings, Hdmi
<1>10. dev0 \in [AuSinks -> AllPcms \cup {NoDevice}]
  BY <1>6 DEF AuSinks, AllPcms
<1>11. g \in AuGraphs /\ SinkOK(g)
  BY <1>6, <1>8, <1>9, <1>10 DEF AuGraphs, SinkOK
<1>12. aHeap[1] = g
  BY <1>6, <1>8
<1>13. HeapOK
  BY <1>7, <1>11, <1>12 DEF HeapOK, GraphIds
<1>14. aCtl \in AuCtls
  <2>1. {} \in SUBSET AuSinks /\ 1 \in GraphIds
    BY DEF GraphIds
  <2> QED
    BY <1>6, <2>1 DEF AuCtls
<1>15. aRt \in AuRts
  BY <1>6 DEF AuRts, GraphIds
<1>16. aDev \in AuDevs
  <2>1. PICK plugged, healthy : /\ plugged = [p \in AllPcms |-> "ok"]
                                /\ healthy = [p \in AllPcms |-> p \in {Hdmi, q}]
    OBVIOUS
  <2>2. plugged \in [AllPcms -> {"ok", "gone", "busy"}] /\ healthy \in [AllPcms -> BOOLEAN]
    BY <2>1
  <2> QED
    BY <1>6, <2>1, <2>2 DEF AuDevs
<1>17. AuTypes
  BY <1>6, <1>13, <1>14, <1>15, <1>16, AudioAssumption DEF AuTypes
<1>18. AtRestInv /\ WaitingInv /\ RunsInv
  BY <1>6, <1>7 DEF AtRestInv, WaitingInv, RunsInv
<1>19. RevokedInv /\ OldInv
  BY <1>6, <1>7 DEF RevokedInv, OldInv, OldQueue, OneVersion, Now
<1>20. DevInv
  BY <1>7, <1>11, <1>12 DEF DevInv
<1> QED
  BY <1>17, <1>18, <1>19, <1>20 DEF AuInv

LEMMA AuStep == AuInv /\ [AuNext]_auVars => SafeStep
<1> SUFFICES ASSUME AuInv, [AuNext]_auVars PROVE SafeStep
  OBVIOUS
<1>1. \/ AuReload \/ AuReloadPartly \/ AuRefuse
      \/ (\E due \in BOOLEAN : Tick(due))
      \/ AuUnregister \/ ReceiverGone \/ AuStart \/ AuStop
      \/ AuControl \/ RtStep \/ PushNdi
      \/ DeviceChanges \/ DisplayChanges \/ UNCHANGED auVars
  <2>1. Tick(TRUE) \/ Tick(FALSE) => \E due \in BOOLEAN : Tick(due)
    BY Zenon
  <2> QED
    BY <2>1 DEF AuNext
<1>2. CASE AuReload \/ AuReloadPartly \/ AuRefuse \/ (\E due \in BOOLEAN : Tick(due))
  BY <1>2, StepReload, StepReloadPartly, StepRefuse, StepTick
<1>3. CASE AuUnregister \/ ReceiverGone \/ AuStart \/ AuStop
  BY <1>3, StepUnregister, StepGone, StepStart, StepStop
<1>4. CASE AuControl
  BY <1>4, StepSwapped, StepReopen, StepReopenFails, StepJoined DEF AuControl
<1>5. CASE RtStep
  BY <1>5, StepTake, StepAdopt, StepWait, StepPull, StepPlay, StepEnds DEF RtStep
<1>6. CASE PushNdi \/ DeviceChanges \/ DisplayChanges \/ UNCHANGED auVars
  BY <1>6, StepPush, StepDevice, StepDisplay, StepStutter
<1> QED
  BY <1>1, <1>2, <1>3, <1>4, <1>5, <1>6

\* The inductive invariant of the audio engine: one graph between the steps of a call,
\* and at most the next beside it, pending, being adopted or adopted; a revoked source
\* in none that is pulled; in version 2, old samples only where they are not heard; and
\* a device of its settings, or none, for every endpoint.
THEOREM AuInvHolds == AuSafe => []AuInv
<1>1. AuInv /\ [AuNext]_auVars => AuInv'
  BY AuStep DEF SafeStep
<1> QED
  BY AuBase, <1>1, PTL DEF AuSafe

\* The real-time thread never touches a graph the control side has destroyed.
LEMMA InUseIsAlive ==
    ASSUME AuInv
    PROVE  GraphInUseIsAlive
<1>1. CASE aCtl.step \in {"idle", "reopen", "join"}
  BY <1>1, OneGraph, CallAtRest DEF GraphInUseIsAlive, Live
<1>2. CASE aCtl.step \in {"swap", "release"}
  BY <1>2 DEF AuInv, WaitingInv, NextIsPending, NextIsBeingAdopted, NextIsAdopted,
              GraphInUseIsAlive, Live
<1> QED
  BY <1>1, <1>2, Before DEF AuCtls

\* A receiver that is gone is pulled no more.
LEMMA GoneIsNotPulled ==
    ASSUME AuInv
    PROVE  RevokedIsNotPulled
BY CallAtRest DEF AuInv, RevokedInv, RevokedIsNotPulled

\* Old samples are played under the settings of version 1 only.
LEMMA OldIsOfVersion1 ==
    ASSUME AuInv
    PROVE  OldSoundUnheard
BY DEF AuInv, OldInv, OldSoundUnheard

\* What the audio engine promises, however its two threads meet (AudioEngine.cpp): a
\* graph in use is alive, a revoked source is not pulled, what was queued before the
\* routes of a source were switched off (version 2) is not heard, and no handover takes
\* from a working endpoint its device, unless it is the master that is opened again.
THEOREM AudioKeepsItsWord == AuSafe => AudioPromises
<1>1. AuInv => AuTypeOK
  BY DEF AuInv, AuTypes, HeapOK, AuCtls, AuRts, AuDevs, AuTypeOK
<1>2. AuInv => GraphInUseIsAlive /\ RevokedIsNotPulled /\ OldSoundUnheard
  BY InUseIsAlive, GoneIsNotPulled, OldIsOfVersion1
<1>3. AuInv /\ [AuNext]_auVars =>
          [\A i \in DOMAIN aHeap' \ DOMAIN aHeap :
              /\ PcmReady(Now.dev["s"]) => StillHeld(i, "s")
              /\ PcmReady(Now.dev["m"]) /\ "m" \notin aCtl'.reopen => StillHeld(i, "m")]_auVars
  BY AuStep DEF SafeStep, EndpointStep
<1> QED
  BY <1>1, <1>2, <1>3, AuInvHolds, PTL DEF AuSafe, AudioPromises, WorkingEndpointStays

================================================================================
