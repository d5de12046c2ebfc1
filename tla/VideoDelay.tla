------------------------------ MODULE VideoDelay ------------------------------
(***************************************************************************)
(* The delayed frame queues of the outputs (DelayedFrameQueue.h).  Video    *)
(* waits for the audio delay the operator set; how long it may wait is      *)
(* bounded by the memory that is left, shared by the queues that delay.     *)
(* Time is counted in frame intervals and memory in frames; a queue holds   *)
(* the age of each frame.  The measured jitter of the interval is left out: *)
(* frames come at their nominal rate.                                       *)
(***************************************************************************)
EXTENDS Integers, Sequences, FiniteSets, FiniteSetsExt

CONSTANTS
    VdQueues,   \* one queue per output
    VdDelays,   \* delays the operator may ask for
    VdMemory,   \* how many frames may fit besides the reserve
    VdMost,     \* the frames a queue may hold for its delay, 598 in the code
    VdChanges   \* bound on changed settings

ASSUME VideoDelayAssumption ==
    IsFiniteSet(VdQueues) /\ VdDelays \subseteq Nat /\ VdMemory \subseteq Nat /\ VdMost \in Nat
        /\ VdChanges \in Nat

VARIABLES
    vdAges,     \* the queued frames' ages, the oldest first
    vdAsked,    \* `requested_`
    vdMaximum,  \* `maximum_`
    vdBudget,   \* `VideoDelayBudget::budget_`
    vdNew,      \* queues whose source has a new frame in this interval
    vdLimited,  \* queues whose limit was computed since a setting changed
    vdLost,     \* was a frame pushed out that still had to wait?
    vdChanged   \* counter of the bound

vdVars == <<vdAges, vdAsked, vdMaximum, vdBudget, vdNew, vdLimited, vdLost, vdChanged>>

VdInit ==
    /\ vdAges = [q \in VdQueues |-> <<>>] /\ vdAsked = [q \in VdQueues |-> 0]
    /\ vdBudget \in VdMemory /\ vdMaximum = [q \in VdQueues |-> 2 + Min({VdMost, vdBudget})]
    /\ vdNew = {} /\ vdLimited = VdQueues /\ vdLost = FALSE /\ vdChanged = 0

-----------------------------------------------------------------------------
\* `share`: the memory is divided among the queues that delay.
Delaying(asked) == Cardinality({q \in VdQueues : asked[q] > 0})
Share(budget, asked) == budget \div Max({1, Delaying(asked)})
\* `update_limit` and `resize_delay`: two frames more than the delay are kept, and
\* the delay is what the limit leaves.
Limit(budget, asked) == 2 + Min({VdMost, Share(budget, asked)})
Depth(asked, maximum) == Min({maximum, asked + 2})
Uncapped(asked, maximum) == asked    \* mutant of Delay
Delay(asked, maximum) == Min({asked, maximum - 2})
Trimmed(ages, depth) == IF Len(ages) > depth THEN SubSeq(ages, Len(ages) - depth + 1, Len(ages)) ELSE ages

\* `set_delay_ms`: memory is read, this queue's limit computed.
SetDelay(q) == \E ms \in VdDelays, memory \in VdMemory :
    LET asked == [vdAsked EXCEPT ![q] = ms]
        limit == Limit(memory, asked) IN
    /\ vdChanged < VdChanges /\ vdChanged' = vdChanged + 1
    /\ vdAsked' = asked /\ vdBudget' = memory /\ vdLimited' = {q}
    /\ vdMaximum' = [vdMaximum EXCEPT ![q] = limit]
    /\ vdAges' = [vdAges EXCEPT ![q] = Trimmed(@, Depth(ms, limit))]
    /\ UNCHANGED <<vdNew, vdLost>>

\* `push`, for a frame `accept_frame_timestamp` accepts: FrameSync repeats a frame,
\* and a delaying queue takes it once.
FrameAccepted(q) == q \in vdNew \/ vdAsked[q] = 0
PushFrame(q) ==
    LET maximum == IF vdAsked[q] > 0 THEN Limit(vdBudget, vdAsked) ELSE vdMaximum[q]
        depth == Depth(vdAsked[q], maximum)
        ages == Trimmed(vdAges[q], depth) IN
    /\ FrameAccepted(q) /\ vdNew' = vdNew \ {q}
    /\ vdMaximum' = [vdMaximum EXCEPT ![q] = maximum] /\ vdLimited' = vdLimited \cup {q}
    /\ vdAges' = [vdAges EXCEPT ![q] = Append(IF Len(ages) < depth THEN ages ELSE Tail(ages), 0)]
    /\ vdLost' = (Len(ages) >= depth /\ Head(ages) < Delay(vdAsked[q], maximum))
    /\ UNCHANGED <<vdAsked, vdBudget, vdChanged>>

\* `pop_due`.
Due(q) == vdAges[q] # <<>> /\ Head(vdAges[q]) >= Delay(vdAsked[q], vdMaximum[q])
PopDue(q) ==
    /\ Due(q) /\ vdAges' = [vdAges EXCEPT ![q] = Tail(@)] /\ vdLost' = FALSE
    /\ UNCHANGED <<vdAsked, vdMaximum, vdBudget, vdNew, vdLimited, vdChanged>>
\* `clear`, when the source is switched.
Clear(q) ==
    /\ vdAges[q] # <<>> /\ vdAges' = [vdAges EXCEPT ![q] = <<>>] /\ vdLost' = FALSE
    /\ UNCHANGED <<vdAsked, vdMaximum, vdBudget, vdNew, vdLimited, vdChanged>>
\* An interval passes: the display thread has taken what was due.
Interval ==
    /\ \A q \in VdQueues : ~Due(q)
    /\ vdAges' = [q \in VdQueues |-> [i \in 1 .. Len(vdAges[q]) |-> vdAges[q][i] + 1]]
    /\ vdNew' = VdQueues /\ vdLost' = FALSE
    /\ UNCHANGED <<vdAsked, vdMaximum, vdBudget, vdLimited, vdChanged>>

VdNext == Interval \/ \E q \in VdQueues : SetDelay(q) \/ PushFrame(q) \/ PopDue(q) \/ Clear(q)

-----------------------------------------------------------------------------
(* Properties. *)

\* Every variable keeps its type.
VdTypeOK ==
    /\ vdAges \in [VdQueues -> Seq(Nat)] /\ vdAsked \in [VdQueues -> Nat]
    /\ vdMaximum \in [VdQueues -> Nat] /\ vdNew \subseteq VdQueues /\ vdLost \in BOOLEAN

\* The delay never costs a frame: at the nominal rate no frame that still has to
\* wait is pushed out by a new one, whatever delay was asked for, however little
\* memory there is, and while other queues start and stop to delay (push,
\* resize_delay): a delay the memory does not allow is shortened.
DelayLosesNothing == ~vdLost

\* Once every queue has seen a changed setting, none holds more than its equal
\* share of the memory that was left and two frames, so that together they fit
\* the budget but for two frames of each output (VideoDelayBudget).
MemoryIsShared ==
    vdLimited = VdQueues /\ (\A q \in VdQueues : vdAsked[q] > 0)
        => \A q \in VdQueues : Len(vdAges[q]) <= 2 + vdBudget \div Cardinality(VdQueues)

\* What the delay promises: no frame for it, no memory beyond the budget.
DelayPromises == VdTypeOK /\ DelayLosesNothing /\ MemoryIsShared
=============================================================================
