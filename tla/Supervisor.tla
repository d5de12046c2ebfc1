------------------------------ MODULE Supervisor ------------------------------
(***************************************************************************)
(* The source supervisor of the control process.  It retries an output's   *)
(* saved source after a disconnect or a stall, while operators submit      *)
(* commands of their own to the same actor.  What operators did reaches it *)
(* on a bounded broadcast that may overflow; the decoder's answers and the *)
(* discovered sources are awaited, and commands are admitted meanwhile.    *)
(* A retry carries the command sequence read before the awaits, and the    *)
(* actor refuses it when any other command was recorded since.             *)
(***************************************************************************)
EXTENDS Naturals, Sequences, FiniteSets

CONSTANTS
    Outputs,        \* output numbers, in the order of the map of retries
    Sources,        \* names of NDI sources
    BusCap,         \* capacity of the broadcast of command activity (256 in the code)
    HubCap,         \* capacity of the event hub (256 in the code)
    MaxSpent        \* bound on operators' commands, the decoder's edges, and requests
                    \* and submissions that fail, taken together

ASSUME SupAssumption ==
    /\ Outputs \subseteq Nat /\ IsFiniteSet(Outputs)
    /\ BusCap \in Nat \ {0} /\ HubCap \in Nat \ {0, 1}
    /\ MaxSpent \in Nat

VARIABLES
    supDoc,      \* the actor's document: saved sources and the watchdog mode
    supBus,      \* recorded activity the supervisor has not received
    supLagged,   \* did the broadcast drop activity it had not received
    supHub,      \* decoder events it has not received
    supFence,    \* is the command sequence still the one it read
    supRec,      \* Recovery: the document it knows, retries and grace periods
    supPc,       \* the await it is in, "select" between turns
    supReply,    \* the decoder's answer, once given
    supTurn,     \* the output whose retry it submits, or the route it adopts
    supLink,     \* the decoder: "up", "down" or "nodrm" per output
    supAsked,    \* ghost: was the decoder asked to connect since the link dropped
    supTouched,  \* ghost: source chosen in the last 30 s, no success or forget since
    supSpent     \* commands, edges and failures so far

supEnv == <<supLink, supAsked>>
supVars == <<supDoc, supBus, supLagged, supHub, supFence, supRec, supPc, supReply,
             supTurn, supEnv, supTouched, supSpent>>

NoSource == "None"
NoTurn == [output |-> 0, source |-> NoSource]
Modes == {"Disabled", "Passive", "Active"}
Document == [source : [Outputs -> Sources \cup {NoSource}], mode : Modes]
Links == {"up", "down", "nodrm"}
Healths == {"ok", "bad", "stuck"}    \* "stuck": unhealthy with a stall_count of 60 or more

NoReply == [o \in Outputs |-> "none"]
LostReply == [o \in Outputs |-> "lost"]

(* `due`: has its time come.  The waits of 5, 10, 20 and 30 seconds are    *)
(* not told apart, nor the addresses that odd and even attempts try.       *)
NoRetry == [source |-> NoSource, due |-> FALSE, stalled |-> FALSE]
Retry == [source : Sources, due : BOOLEAN, stalled : BOOLEAN]
Recovery == [saved : Document, retries : [Outputs -> Retry \cup {NoRetry}],
             grace : [Outputs -> BOOLEAN]]

Other == [kind |-> "other", output |-> 0]
Activity == [kind : {"manual", "forget"}, output : Outputs] \cup {Other}
Message == [kind : {"connection"}, output : Outputs, up : BOOLEAN]
           \cup [kind : {"remote_source"}, output : Outputs, source : Sources]
           \cup [kind : {"resync"}]

SupTypeOK ==
    /\ supDoc \in Document
    /\ supBus \in Seq(Activity) /\ Len(supBus) <= BusCap
    /\ supHub \in Seq(Message) /\ Len(supHub) <= HubCap
    /\ supLagged \in BOOLEAN /\ supFence \in BOOLEAN
    /\ supRec \in Recovery
    /\ supPc \in {"select", "status", "resync", "health", "adopt", "adopted",
                  "refresh", "sources", "submit"}
    /\ supReply \in [Outputs -> Links \cup Healths \cup {"none", "lost"}]
    /\ supTurn \in [output : Outputs \cup {0}, source : Sources \cup {NoSource}]
    /\ supLink \in [Outputs -> Links]
    /\ supAsked \in [Outputs -> BOOLEAN] /\ supTouched \in [Outputs -> BOOLEAN]

-----------------------------------------------------------------------------
(* The recovery policy: functions of the supervisor's own state.           *)

ForgetRetry(rec, o) == [rec EXCEPT !.retries[o] = NoRetry]

CommandSeen(rec, a) ==
    CASE a.kind = "manual" -> [ForgetRetry(rec, a.output) EXCEPT !.grace[a.output] = TRUE]
      [] a.kind = "forget" -> [ForgetRetry(rec, a.output) EXCEPT !.grace[a.output] = FALSE]
      [] OTHER -> rec

(* A mutant: what was missed is passed over.                              *)
LaggedIgnored(rec) == rec

(* Lost manual activity is never permission to keep an old timer.          *)
AfterLag(rec) == [saved |-> rec.saved,
                  retries |-> [o \in Outputs |-> NoRetry],
                  grace |-> [o \in Outputs |-> TRUE]]

Update(rec, doc) ==
    [saved |-> doc,
     retries |-> [o \in Outputs |->
        IF /\ rec.retries[o].source = doc.source[o]
           /\ rec.retries[o].stalled => doc.mode = "Active"
        THEN rec.retries[o] ELSE NoRetry],
     grace |-> rec.grace]

StartRetry(rec, o, stalled) ==
    IF rec.grace[o] THEN rec
    ELSE IF rec.saved.source[o] = NoSource THEN ForgetRetry(rec, o)
    ELSE IF rec.retries[o] # NoRetry THEN rec
    ELSE [rec EXCEPT !.retries[o] = [source |-> rec.saved.source[o], due |-> FALSE,
                                     stalled |-> stalled]]

Connection(rec, o, link) ==
    CASE link = "nodrm" -> ForgetRetry(rec, o)
      [] link = "up" -> [(IF rec.retries[o].stalled THEN rec ELSE ForgetRetry(rec, o))
                         EXCEPT !.grace[o] = FALSE]
      [] link = "down" -> StartRetry(rec, o, FALSE)

(* A success event ends even a recovery the watchdog started.              *)
EventSeen(rec, o, isUp) ==
    IF isUp THEN Connection(ForgetRetry(rec, o), o, "up") ELSE Connection(rec, o, "down")

(* Every output's entry is seen by itself: a step looks at that output's   *)
(* retry and grace period and changes no other's.                          *)
OverOutputs(Step(_, _), rec) ==
    [saved |-> rec.saved,
     retries |-> [o \in Outputs |-> Step(rec, o).retries[o]],
     grace |-> [o \in Outputs |-> Step(rec, o).grace[o]]]

(* A mutant: the poll looks for outputs that are connected.               *)
ConnectedOnly(rec, links) ==
    OverOutputs(LAMBDA r, o : IF links[o] = "up" /\ ~r.grace[o]
                              THEN Connection(r, o, "up") ELSE r, rec)

StatusSeen(rec, links) ==
    OverOutputs(LAMBDA r, o : IF links[o] = "up" /\ r.grace[o] THEN r
                              ELSE Connection(r, o, links[o]), rec)

HealthSeen(rec, healths) ==
    OverOutputs(LAMBDA r, o :
        CASE healths[o] = "ok" -> IF r.retries[o].stalled THEN ForgetRetry(r, o) ELSE r
          [] healths[o] = "stuck" /\ r.saved.mode = "Active" -> StartRetry(r, o, TRUE)
          [] OTHER -> r, rec)

(* The activities of the channel, oldest first: of each output the last    *)
(* one counts, and the gap comes before them.                              *)
Heard(o) == {i \in 1 .. Len(supBus) : supBus[i].kind # "other" /\ supBus[i].output = o}
LastIsManual(o) ==
    \E i \in Heard(o) : supBus[i].kind = "manual" /\ \A k \in Heard(o) : k <= i

Drained(rec) ==
    LET first == IF supLagged THEN AfterLag(rec) ELSE rec
    IN  [saved |-> first.saved,
         retries |-> [o \in Outputs |-> IF Heard(o) = {} THEN first.retries[o] ELSE NoRetry],
         grace |-> [o \in Outputs |-> IF Heard(o) = {} THEN first.grace[o] ELSE LastIsManual(o)]]

Drain(rec) ==
    /\ supRec' = Drained(rec)
    /\ supBus' = <<>> /\ supLagged' = FALSE

DueOutputs(rec) == {o \in Outputs : rec.retries[o].due}

-----------------------------------------------------------------------------
SupInit ==
    /\ supDoc \in [source : [Outputs -> Sources], mode : {"Active"}]
    /\ supRec = [saved |-> supDoc, retries |-> [o \in Outputs |-> NoRetry],
                 grace |-> [o \in Outputs |-> FALSE]]
    /\ supBus = <<>> /\ supHub = <<>> /\ supLagged = FALSE /\ supFence = FALSE
    /\ supPc = "select" /\ supReply = NoReply /\ supTurn = NoTurn
    /\ supLink = [o \in Outputs |-> "up"]
    /\ supAsked = [o \in Outputs |-> FALSE] /\ supTouched = [o \in Outputs |-> FALSE]
    /\ supSpent = 0

(* `Activities::record`: the sequence moves, and a full channel drops its  *)
(* oldest entry.                                                           *)
Record(a) ==
    /\ supFence' = FALSE
    /\ supBus' = Append(IF Len(supBus) = BusCap THEN Tail(supBus) ELSE supBus, a)
    /\ supLagged' = (supLagged \/ Len(supBus) = BusCap)

Spend == supSpent < MaxSpent /\ supSpent' = supSpent + 1

(* An operator's command that the guards let pass.  It is recorded before  *)
(* it is applied, so also when the apply fails and the document stays.     *)
Command(a, doc) ==
    /\ Spend
    /\ Record(a)
    /\ supDoc' \in {supDoc, doc}
    /\ UNCHANGED <<supHub, supRec, supPc, supReply, supTurn, supLink>>

Touch(o) ==
    /\ supTouched' = [supTouched EXCEPT ![o] = TRUE]
    /\ supAsked' \in {supAsked, [supAsked EXCEPT ![o] = TRUE]}

SelectSource(o, s) ==
    /\ Command([kind |-> "manual", output |-> o], [supDoc EXCEPT !.source[o] = s])
    /\ Touch(o)

ReconnectSource(o) ==
    /\ supDoc.source[o] # NoSource
    /\ Command([kind |-> "manual", output |-> o], supDoc)
    /\ Touch(o)

ForgetSource(o) ==
    /\ Command([kind |-> "forget", output |-> o], [supDoc EXCEPT !.source[o] = NoSource])
    /\ supTouched' = [supTouched EXCEPT ![o] = FALSE]
    /\ UNCHANGED supAsked

SetWatchdog(m) ==
    /\ Command(Other, [supDoc EXCEPT !.mode = m])
    /\ UNCHANGED <<supAsked, supTouched>>

(* The decoder's edges.  A full hub drops its oldest message, which the    *)
(* receiver learns as a gap and treats like a resync.                      *)
Publish(m) ==
    supHub' = IF Len(supHub) < HubCap THEN Append(supHub, m)
              ELSE Append(<<[kind |-> "resync"]>> \o Tail(Tail(supHub)), m)

Edge(o, link) ==
    /\ Spend
    /\ link # supLink[o]
    /\ supLink' = [supLink EXCEPT ![o] = link]
    /\ supAsked' = [supAsked EXCEPT ![o] = FALSE]
    /\ IF link = "nodrm" THEN Publish([kind |-> "resync"])
       ELSE Publish([kind |-> "connection", output |-> o, up |-> link = "up"])
    /\ UNCHANGED <<supDoc, supBus, supLagged, supFence, supRec, supPc, supReply, supTurn,
                   supTouched>>

RemoteRoute(o, s) ==
    /\ Spend
    /\ Publish([kind |-> "remote_source", output |-> o, source |-> s])
    /\ UNCHANGED <<supDoc, supBus, supLagged, supFence, supRec, supPc, supReply, supTurn,
                   supEnv, supTouched>>

-----------------------------------------------------------------------------
(* Turns of the supervisor's loop.                                         *)

Rest == <<supDoc, supHub, supFence, supEnv>>

(* The activity arm: one activity, or the gap, then a refresh.             *)
ActivityArm ==
    /\ supPc = "select"
    /\ supLagged \/ supBus # <<>>
    /\ IF supLagged
       THEN supRec' = Update(AfterLag(supRec), supDoc) /\ supLagged' = FALSE /\ UNCHANGED supBus
       ELSE /\ supRec' = Update(CommandSeen(supRec, Head(supBus)), supDoc)
            /\ supBus' = Tail(supBus) /\ UNCHANGED supLagged
    /\ UNCHANGED <<Rest, supPc, supReply, supTurn, supTouched, supSpent>>

Adoptable(m) == m.kind = "remote_source" /\ supDoc.source[m.output] # m.source

(* The event arm: refresh and drain, then the event; a routing is stored,  *)
(* a gap asks the decoder for its status.                                  *)
EventArm ==
    /\ supPc = "select"
    /\ supHub # <<>>
    /\ LET m == Head(supHub)
           rec == Drained(Update(supRec, supDoc))
       IN  /\ supHub' = Tail(supHub)
           /\ supRec' = IF m.kind = "connection" THEN EventSeen(rec, m.output, m.up) ELSE rec
           /\ supTouched' = IF m.kind = "connection" /\ m.up
                            THEN [supTouched EXCEPT ![m.output] = FALSE] ELSE supTouched
           /\ supPc' = IF m.kind = "resync" THEN "resync"
                       ELSE IF Adoptable(m) THEN "adopt" ELSE "select"
           /\ supTurn' = IF Adoptable(m) THEN [output |-> m.output, source |-> m.source]
                         ELSE NoTurn
    /\ supBus' = <<>> /\ supLagged' = FALSE
    /\ UNCHANGED <<supDoc, supFence, supEnv, supReply, supSpent>>

(* The actor admits the adopted route, or a guard refuses it.              *)
AdoptRemoteSource ==
    /\ supPc = "adopt"
    /\ LET o == supTurn.output
       IN  \/ /\ Record([kind |-> "manual", output |-> o])
              /\ supDoc' = [supDoc EXCEPT !.source[o] = supTurn.source]
              /\ Touch(o)
              /\ UNCHANGED supSpent
           \/ /\ Spend
              /\ UNCHANGED <<supDoc, supFence, supBus, supLagged, supAsked, supTouched>>
    /\ supPc' = "adopted" /\ supTurn' = NoTurn
    /\ UNCHANGED <<supHub, supRec, supReply, supLink>>

Adopted ==
    /\ supPc = "adopted"
    /\ Drain(Update(supRec, supDoc))
    /\ supPc' = "select"
    /\ UNCHANGED <<Rest, supReply, supTurn, supTouched, supSpent>>

StatusTick ==
    /\ supPc = "select"
    /\ supRec' = Update(supRec, supDoc)
    /\ supPc' = "status"
    /\ UNCHANGED <<Rest, supBus, supLagged, supReply, supTurn, supTouched, supSpent>>

(* A tick in another mode than Active also drops the watchdog's retries;   *)
(* `Update` has done that.  The statistics it publishes are left out.      *)
HealthTick ==
    /\ supPc = "select"
    /\ supDoc.mode # "Disabled"
    /\ supRec' = Update(supRec, supDoc)
    /\ supPc' = "health"
    /\ UNCHANGED <<Rest, supBus, supLagged, supReply, supTurn, supTouched, supSpent>>

DecoderAnswers ==
    /\ supPc \in {"status", "resync", "health"} /\ supReply = NoReply
    /\ \/ Spend /\ supReply' = LostReply
       \/ /\ supReply' \in IF supPc = "health"
                           THEN {h \in [Outputs -> Healths] :
                                   \A o \in Outputs : supLink[o] # "up" => h[o] = "ok"}
                           ELSE {supLink}
          /\ UNCHANGED supSpent
    /\ UNCHANGED <<Rest, supRec, supBus, supLagged, supPc, supTurn, supTouched>>

(* The answer is used.  Activity recorded while it was awaited is drained  *)
(* first, except by the event arm, and by a status tick that got no answer.*)
AnswerUsed ==
    /\ supReply # NoReply
    /\ CASE supPc = "status" /\ supReply # LostReply ->
              /\ supRec' = StatusSeen(Drained(supRec), supReply)
              /\ supBus' = <<>> /\ supLagged' = FALSE
         [] supPc = "resync" /\ supReply # LostReply ->
              supRec' = StatusSeen(supRec, supReply) /\ UNCHANGED <<supBus, supLagged>>
         [] supPc = "health" ->
              /\ supRec' = IF supReply = LostReply THEN Drained(supRec)
                           ELSE HealthSeen(Drained(supRec), supReply)
              /\ supBus' = <<>> /\ supLagged' = FALSE
         [] OTHER -> UNCHANGED <<supRec, supBus, supLagged>>
    /\ supReply' = NoReply /\ supPc' = "select"
    /\ UNCHANGED <<Rest, supTurn, supTouched, supSpent>>

(* The deadline arm.  The sequence is read before anything is awaited.     *)
DeadlineArm ==
    /\ supPc = "select" /\ DueOutputs(supRec) # {}
    /\ supFence' = TRUE /\ supPc' = "refresh"
    /\ UNCHANGED <<supDoc, supHub, supEnv, supRec, supBus, supLagged, supReply, supTurn,
                   supTouched, supSpent>>

DeadlineRefresh ==
    /\ supPc = "refresh"
    /\ supRec' = Update(supRec, supDoc)
    /\ supPc' = "sources"
    /\ UNCHANGED <<Rest, supBus, supLagged, supReply, supTurn, supTouched, supSpent>>

(* The first output that is due, in the order of the map.                  *)
DeadlineDrain ==
    /\ supPc = "sources"
    /\ LET rec == Drained(supRec)
           due == DueOutputs(rec)
       IN  /\ supRec' = rec
           /\ IF due = {}
              THEN supTurn' = NoTurn /\ supPc' = "select"
              ELSE \E o \in due :
                    /\ \A p \in due : o <= p
                    /\ supTurn' = [output |-> o, source |-> rec.retries[o].source]
                    /\ supPc' = "submit"
    /\ supBus' = <<>> /\ supLagged' = FALSE
    /\ UNCHANGED <<Rest, supReply, supTouched, supSpent>>

(* `submit` compares the sequence before the command is planned.           *)
Admits(o) == supPc = "submit" /\ supTurn.output = o /\ supFence
             /\ supDoc.source[o] = supTurn.source

Reschedule(o) == [supRec EXCEPT !.retries[o] = [@ EXCEPT !.due = FALSE]]

(* Superseded: the attempt is not counted and stays due.  Otherwise the    *)
(* retry is admitted, or refused because another source is saved now; the  *)
(* next attempt is scheduled either way.                                   *)
RetrySource ==
    /\ supPc = "submit"
    /\ LET o == supTurn.output
       IN  \/ /\ ~supFence
              /\ UNCHANGED <<supRec, supFence, supBus, supLagged, supAsked, supSpent>>
           \/ /\ supFence /\ ~Admits(o)
              /\ supRec' = Reschedule(o)
              /\ UNCHANGED <<supFence, supBus, supLagged, supAsked, supSpent>>
           \/ /\ Admits(o)
              /\ Record(Other)
              /\ supRec' = Reschedule(o)
              /\ \/ supAsked' = [supAsked EXCEPT ![o] = TRUE] /\ UNCHANGED supSpent
                 \/ Spend /\ UNCHANGED supAsked
    /\ supPc' = "select" /\ supTurn' = NoTurn
    /\ UNCHANGED <<supDoc, supHub, supLink, supReply, supTouched>>

(* Time.  A turn is shorter than any wait, so no timer runs out while an   *)
(* output that is due has not had its turn; timers may run out together.   *)
RetryDue ==
    /\ DueOutputs(supRec) = {}
    /\ \E S \in SUBSET {o \in Outputs : supRec.retries[o] # NoRetry} :
          /\ S # {}
          /\ supRec' = [supRec EXCEPT !.retries = [o \in Outputs |->
                IF o \in S THEN [@[o] EXCEPT !.due = TRUE] ELSE @[o]]]
    /\ UNCHANGED <<Rest, supBus, supLagged, supPc, supReply, supTurn, supTouched, supSpent>>

TouchedOver(o) ==
    /\ supTouched[o] /\ supTouched' = [supTouched EXCEPT ![o] = FALSE]
    /\ UNCHANGED <<Rest, supRec, supBus, supLagged, supPc, supReply, supTurn, supSpent>>

Unread(o) == supLagged \/ Heard(o) # {}

(* A grace period runs from the activity it belongs to.                    *)
GraceOver(o) ==
    /\ supRec.grace[o] /\ (supTouched[o] => Unread(o))
    /\ supRec' = [supRec EXCEPT !.grace[o] = FALSE]
    /\ UNCHANGED <<Rest, supBus, supLagged, supPc, supReply, supTurn, supTouched, supSpent>>

-----------------------------------------------------------------------------
SupNext ==
    \/ \E o \in Outputs : \E s \in Sources : SelectSource(o, s) \/ RemoteRoute(o, s)
    \/ \E o \in Outputs : ReconnectSource(o) \/ ForgetSource(o)
    \/ \E m \in Modes : SetWatchdog(m)
    \/ \E o \in Outputs : \E l \in Links : Edge(o, l)
    \/ ActivityArm \/ EventArm \/ AdoptRemoteSource \/ Adopted
    \/ StatusTick \/ HealthTick \/ DecoderAnswers \/ AnswerUsed
    \/ DeadlineArm \/ DeadlineRefresh \/ DeadlineDrain \/ RetrySource
    \/ RetryDue
    \/ \E o \in Outputs : TouchedOver(o) \/ GraceOver(o)

(* The loop runs; each arm of its `select!` that is ready again and again  *)
(* is picked at some time, since the choice among ready arms is random;    *)
(* timers run out.                                                         *)
SupAwaits == AdoptRemoteSource \/ Adopted \/ DecoderAnswers \/ AnswerUsed
             \/ DeadlineRefresh \/ DeadlineDrain \/ RetrySource

SupFair ==
    /\ WF_supVars(SupAwaits) /\ SF_supVars(StatusTick)
    /\ SF_supVars(DeadlineArm) /\ WF_supVars(RetryDue)
    /\ \A o \in Outputs : WF_supVars(TouchedOver(o)) /\ WF_supVars(GraceOver(o))

-----------------------------------------------------------------------------
(* A retry is admitted only when nobody selected, reconnected or routed    *)
(* the output's source in the last half minute, unless a connection        *)
(* succeeded or the source was forgotten since: not while that activity is *)
(* unread, not when it was lost with a full broadcast, and not when it     *)
(* arrived during an await of the same turn.                               *)
ManualCommandWins ==
    [][\A o \in Outputs : RetrySource /\ Admits(o) => ~supTouched[o]]_supVars

(* A reconnect the watchdog asked for is admitted only while the document  *)
(* says Active, however the mode changed while its turn was under way.     *)
PassiveNeverReconnects ==
    [][\A o \in Outputs : RetrySource /\ Admits(o) /\ supRec.retries[o].stalled
                          => supDoc.mode = "Active"]_supVars

(* An output that lost its saved source is eventually asked to connect     *)
(* again, unless it comes back, loses its display or the source is         *)
(* forgotten.                                                              *)
LostSourceRetried ==
    \A o \in Outputs :
        []<>(supAsked[o] \/ supLink[o] # "down" \/ supDoc.source[o] = NoSource)

(* What the supervisor promises: manual commands win and a passive watchdog  *)
(* does nothing (supervisor.rs run).                                        *)
SupervisorPromises ==
    []SupTypeOK /\ ManualCommandWins /\ PassiveNeverReconnects
==============================================================================
