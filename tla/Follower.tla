-------------------------------- MODULE Follower --------------------------------
(***************************************************************************)
(* How the control plane hands its document to a native follower (the      *)
(* decoder; the finder speaks the same protocol) and keeps both at one     *)
(* revision.  The actor delivers one domain per request and one request    *)
(* per connection, gives up on a connection after a timeout, and retries;  *)
(* the follower serves connections in the order they were made, also those *)
(* whose caller has gone.  A submitted change is delivered before it is    *)
(* committed and delivered back when a delivery fails; a periodic replay   *)
(* repairs what a crash, a lost call or a failed undo left behind.         *)
(***************************************************************************)
EXTENDS Integers, Sequences, FiniteSets

CONSTANTS
    NDomains,      \* domains a follower takes over, in registry order
    Configs,       \* what a domain may say
    Bad,           \* the ones the follower refuses
    Checked,       \* domains whose preflight delivers the present document
    Attempts,      \* tries of one request (5 in the code)
    Backlog,       \* connections waiting to be served (5 in the code)
    MaxRev,        \* bound on revisions
    MaxFaults,     \* bound on requests given up, renders, snapshots and commits that fail
    MaxCrashes,    \* bound on processes that die
    MaxPurges      \* bound on reinstallations

Domains == 1..NDomains

ASSUME FollowerAssumption ==
    /\ NDomains \in Nat \ {0} /\ Checked \subseteq Domains
    /\ Bad \subseteq Configs /\ Configs # Bad /\ "none" \notin Configs
    /\ Attempts \in Nat \ {0} /\ Backlog \in Nat \ {0}
    /\ MaxRev \in Nat /\ MaxFaults \in Nat /\ MaxCrashes \in Nat /\ MaxPurges \in Nat

VARIABLES
    saved,      \* the durable envelope: revision and domains
    control,    \* is the control process up
    turn,       \* what the actor is doing
    doc,        \* the envelope this turn delivers
    cand,       \* the candidate of the submitted change
    left,       \* what this turn has still to deliver: its own domains, then the rest
    plan,       \* domains the submitted change touches
    call,       \* the request the actor is making
    tries,      \* how often it has been tried
    wire,       \* is a connection open for it
    reply,      \* the answer on the live connection
    queue,      \* connections the follower has not served
    up,         \* is the follower up
    fol,        \* what the follower has applied, and at which revision
    cache,      \* its snapshot in volatile storage
    faults, crashes, purges,
    lost,       \* ghost: the follower lost applied settings during this turn
    synced      \* ghost: the last turn ended in a complete delivery of saved

control_vars == <<saved, control, turn, doc, cand, left, plan, call, tries, wire>>
follower_vars == <<up, fol, cache>>
counts == <<faults, crashes, purges>>
vars == <<control_vars, reply, queue, follower_vars, counts, lost, synced>>

Documents == [Domains -> Configs]
Envelope == [rev : Nat, cfg : Documents]
NoDocument == [rev |-> 0]

(* A revision the follower has: -1 stands for none applied yet. *)
Held == [rev : Nat \cup {-1}, cfg : [Domains -> Configs \cup {"none"}]]
Nothing == [rev |-> -1, cfg |-> [d \in Domains |-> "none"]]

(* A request: the first delivery, the question that follows a refusal, or  *)
(* the delivery the answer calls for.                                      *)
Request == [stage : {"first", "status", "second"}, dom : Domains, cfg : Configs,
            rev : Nat, reset : BOOLEAN]
Answer == [ok : BOOLEAN, older : BOOLEAN, rev : Nat \cup {-1}]

(* A connection the follower has accepted, or will: its caller may be gone. *)
Connection == [ask : Request, live : BOOLEAN]

Idle == [stage |-> "idle"]
NoReply == [ok |-> FALSE, older |-> FALSE, rev |-> -2]

Todo(own, rest) == [own |-> own, rest |-> rest]
Done == Todo({}, {})

(* A turn's own domains come in the planning order of its command (a       *)
(* restored backup has its own), the replay that follows in registry order. *)
Least(S) == {d \in S : \A e \in S : d <= e}
Upcoming == IF left.own # {} THEN left.own ELSE Least(left.rest)

Apply(d, e, rev, reset, stage) ==
    [stage |-> stage, dom |-> d, cfg |-> e.cfg[d], rev |-> rev, reset |-> reset]

Good == {c \in Documents : \A d \in Domains : c[d] \notin Bad}

Init ==
    /\ \E c \in Good : saved = [rev |-> 1, cfg |-> c]
    /\ control = TRUE /\ turn = "none" /\ doc = NoDocument /\ cand = NoDocument
    /\ left = Done /\ plan = {} /\ call = Idle /\ tries = 0 /\ wire = FALSE /\ reply = NoReply
    /\ queue = <<>> /\ up = TRUE /\ fol = Nothing /\ cache = Nothing
    /\ faults = 0 /\ crashes = 0 /\ purges = 0
    /\ lost = FALSE /\ synced = FALSE

-----------------------------------------------------------------------------
(***************************************************************************)
(* The actor's turns.                                                      *)
(***************************************************************************)
Begin(t, e, ds) ==
    /\ turn' = t /\ doc' = e /\ left' = ds /\ call' = Idle /\ tries' = 0
    /\ wire' = FALSE /\ reply' = NoReply

End ==
    /\ turn' = "none" /\ left' = Done /\ call' = Idle /\ tries' = 0
    /\ wire' = FALSE /\ reply' = NoReply
    /\ doc' = NoDocument /\ cand' = NoDocument /\ plan' = {}

(* A change of some domains.  The preflight of the checked ones delivers   *)
(* the present document first; then the candidate is staged, and  *)
(* the changed domains and after them all domains are delivered.           *)
Submit ==
    /\ control /\ turn = "none" /\ saved.rev < MaxRev
    /\ \E c \in Documents \ {saved.cfg} :
         /\ cand' = [rev |-> saved.rev + 1, cfg |-> c]
         /\ plan' = {d \in Domains : c[d] # saved.cfg[d]}
    /\ IF plan' \cap Checked = {}
         THEN Begin("apply", cand', Todo(plan', Domains))
         ELSE Begin("check", saved, Todo(plan' \cap Checked, {}))
    /\ lost' = FALSE /\ synced' = FALSE
    /\ UNCHANGED <<saved, control, queue, follower_vars, counts>>

CheckDone ==
    /\ turn = "check" /\ left = Done
    /\ Begin("apply", cand, Todo(plan, Domains))
    /\ UNCHANGED <<saved, control, cand, plan, queue, follower_vars, counts, lost, synced>>

Commit ==
    /\ turn = "apply" /\ left = Done
    /\ saved' = doc /\ synced' = ~lost
    /\ End
    /\ UNCHANGED <<control, queue, follower_vars, counts, lost>>

(* The message every spawn_replay sends: the actor reads the envelope, lets *)
(* the decision lock go and delivers every domain.                          *)
Replay ==
    /\ control /\ turn = "none"
    /\ Begin("replay", saved, Todo({}, Domains))
    /\ lost' = FALSE /\ synced' = FALSE
    /\ UNCHANGED <<saved, control, cand, plan, queue, follower_vars, counts>>

TurnDone ==
    /\ turn \in {"undo", "replay"} /\ left = Done
    /\ synced' = (~lost /\ doc = saved)
    /\ End
    /\ UNCHANGED <<saved, control, queue, follower_vars, counts, lost>>

(* A domain that was not delivered ends a preflight and a replay; it turns *)
(* an apply into the delivery of the document that stays.                  *)
GiveUp ==
    /\ IF turn = "apply"
         THEN Begin("undo", saved, Todo(plan, Domains)) /\ UNCHANGED <<cand, plan>>
         ELSE End
    /\ UNCHANGED <<saved, control, lost, synced>>

(* Rendering the managed files precedes the deliveries of a change and of  *)
(* its undoing; writing the manifest and committing follow them.           *)
RenderFails ==
    /\ turn \in {"apply", "undo"} /\ call = Idle /\ left = Todo(plan, Domains)
    /\ faults < MaxFaults /\ faults' = faults + 1
    /\ GiveUp
    /\ UNCHANGED <<queue, follower_vars, crashes, purges>>

CommitFails ==
    /\ turn = "apply" /\ left = Done
    /\ faults < MaxFaults /\ faults' = faults + 1
    /\ GiveUp
    /\ UNCHANGED <<queue, follower_vars, crashes, purges>>

-----------------------------------------------------------------------------
(***************************************************************************)
(* One request: connect, wait for the answer, give up, try again.          *)
(***************************************************************************)
Start ==
    /\ control /\ turn # "none" /\ left # Done /\ call = Idle
    /\ \E d \in Upcoming : call' = Apply(d, doc, doc.rev, FALSE, "first")
    /\ tries' = 0
    /\ UNCHANGED <<saved, control, turn, doc, cand, left, plan, wire, reply, queue,
                   follower_vars, counts, lost, synced>>

Waiting == \E i \in DOMAIN queue : queue[i].live

Send ==
    /\ call # Idle /\ ~wire /\ up /\ Len(queue) < Backlog
    /\ wire' = TRUE
    /\ queue' = Append(queue, [ask |-> call, live |-> TRUE])
    /\ UNCHANGED <<saved, control, turn, doc, cand, left, plan, call, tries, reply,
                   follower_vars, counts, lost, synced>>

Less(d) == IF left.own # {} THEN Todo(left.own \ {d}, left.rest)
           ELSE Todo({}, left.rest \ {d})

(* Defect: a request that was never answered counts as delivered. *)
UnansweredCounts ==
    /\ left' = Less(call.dom) /\ call' = Idle /\ tries' = 0 /\ wire' = FALSE /\ reply' = NoReply
    /\ UNCHANGED <<saved, control, turn, doc, cand, plan, lost, synced>>

(* A try that brought no answer.  The last one, and any try of the         *)
(* question, fails the delivery.                                           *)
TryFailed ==
    IF call.stage # "status" /\ tries + 1 < Attempts
      THEN /\ tries' = tries + 1 /\ wire' = FALSE /\ reply' = NoReply
           /\ UNCHANGED <<saved, control, turn, doc, cand, left, plan, call, lost, synced>>
      ELSE GiveUp

(* No socket, no room in the backlog, or a connection its follower dropped. *)
Refused ==
    /\ call # Idle
    /\ \/ ~wire /\ (~up \/ Len(queue) >= Backlog)
       \/ wire /\ reply = NoReply /\ ~Waiting
    /\ TryFailed
    /\ UNCHANGED <<queue, follower_vars, counts>>

(* The caller leaves its connection in the backlog or in the handler: the  *)
(* follower still serves it.                                               *)
Hang == [i \in DOMAIN queue |-> [ask |-> queue[i].ask, live |-> FALSE]]

Timeout ==
    /\ wire /\ reply = NoReply /\ Waiting
    /\ faults < MaxFaults /\ faults' = faults + 1
    /\ queue' = Hang
    /\ TryFailed
    /\ UNCHANGED <<follower_vars, crashes, purges>>

(* deliver and ahead: what the answer leads to.                            *)
Delivered ==
    /\ left' = Less(call.dom) /\ call' = Idle /\ tries' = 0 /\ wire' = FALSE /\ reply' = NoReply
    /\ UNCHANGED <<saved, control, turn, doc, cand, plan, lost, synced>>

Ask(request) ==
    /\ call' = request /\ tries' = 0 /\ wire' = FALSE /\ reply' = NoReply
    /\ UNCHANGED <<saved, control, turn, doc, cand, left, plan, lost, synced>>

Question == [stage |-> "status", dom |-> call.dom, cfg |-> call.cfg, rev |-> call.rev,
             reset |-> FALSE]

Acknowledged ==
    IF reply.rev = call.rev THEN Delivered ELSE GiveUp

(* Defect: a follower one revision ahead is taken to be up to date. *)
AheadIsDelivered ==
    IF reply.rev > doc.rev THEN Delivered ELSE GiveUp

(* Defect: the delivery that follows invents a revision. *)
AheadInvents ==
    IF reply.rev > doc.rev THEN Ask(Apply(call.dom, doc, reply.rev + 1, FALSE, "second")) ELSE GiveUp

Ahead ==
    IF reply.rev = doc.rev + 1 THEN Ask(Apply(call.dom, doc, reply.rev, FALSE, "second"))
    ELSE IF reply.rev > doc.rev THEN Ask(Apply(call.dom, doc, doc.rev, TRUE, "second"))
    ELSE GiveUp

Receive ==
    /\ reply # NoReply
    /\ \/ call.stage = "status" /\ Ahead
       \/ call.stage # "status" /\ reply.ok /\ Acknowledged
       \/ call.stage = "first" /\ reply.older /\ Ask(Question)
       \/ call.stage # "status" /\ ~reply.ok /\ (call.stage = "first" => ~reply.older) /\ GiveUp
    /\ UNCHANGED <<queue, follower_vars, counts>>

-----------------------------------------------------------------------------
(***************************************************************************)
(* The follower.                                                           *)
(***************************************************************************)
(* Defect: the follower takes any revision. *)
NeverOlder(request) == FALSE

(* Defect: a reset does not override the check. *)
OlderAnyway(request) == fol.rev > request.rev

Older(request) == fol.rev > request.rev /\ ~request.reset

(* The refusals change nothing; an accepted domain is applied whole, the   *)
(* revision follows, and the snapshot is written, which may fail.          *)
Serve ==
    /\ up /\ queue # <<>>
    /\ LET request == Head(queue).ask
           answer ==
             IF request.stage = "status" THEN [ok |-> TRUE, older |-> FALSE, rev |-> fol.rev]
             ELSE IF Older(request) THEN [ok |-> FALSE, older |-> TRUE, rev |-> -1]
             ELSE IF request.cfg \in Bad THEN [ok |-> FALSE, older |-> FALSE, rev |-> -1]
             ELSE [ok |-> TRUE, older |-> FALSE, rev |-> request.rev]
       IN /\ IF request.stage # "status" /\ answer.ok
               THEN /\ fol' = [rev |-> request.rev,
                               cfg |-> [fol.cfg EXCEPT ![request.dom] = request.cfg]]
                    /\ \/ cache' = fol' /\ UNCHANGED faults
                       \/ /\ faults < MaxFaults /\ faults' = faults + 1
                          /\ UNCHANGED cache
               ELSE UNCHANGED <<fol, cache, faults>>
          /\ reply' = IF Head(queue).live THEN answer ELSE reply
    /\ queue' = Tail(queue)
    /\ UNCHANGED <<control_vars, up, crashes, purges, lost, synced>>

-----------------------------------------------------------------------------
(***************************************************************************)
(* Faults.                                                                 *)
(***************************************************************************)
(* The control process dies; its next start finds the committed envelope.  *)
CrashControl ==
    /\ control /\ crashes < MaxCrashes /\ crashes' = crashes + 1
    /\ control' = FALSE /\ End /\ queue' = Hang
    /\ synced' = FALSE
    /\ UNCHANGED <<saved, follower_vars, faults, purges, lost>>

StartControl ==
    /\ ~control /\ control' = TRUE
    /\ UNCHANGED <<saved, turn, doc, cand, left, plan, call, tries, wire, reply, queue,
                   follower_vars, counts, lost, synced>>

(* The follower dies with its connections, after or before an answer left. *)
CrashFollower ==
    /\ up /\ crashes < MaxCrashes /\ crashes' = crashes + 1
    /\ up' = FALSE /\ queue' = <<>> /\ reply' \in {reply, NoReply}
    /\ UNCHANGED <<control_vars, fol, cache, faults, purges, lost, synced>>

(* It starts from its snapshot. *)
StartFollower ==
    /\ ~up /\ up' = TRUE
    /\ fol' = cache
    /\ lost' = (lost \/ fol' # fol)
    /\ UNCHANGED <<control_vars, reply, queue, cache, counts, synced>>

(* A reboot ends both and empties the volatile directory. *)
Reboot ==
    /\ crashes < MaxCrashes /\ crashes' = crashes + 1
    /\ control' = FALSE /\ up' = FALSE /\ cache' = Nothing /\ queue' = <<>>
    /\ End /\ synced' = FALSE
    /\ UNCHANGED <<saved, fol, faults, purges, lost>>

(* The network engine replaces its decision: a new revision that no actor  *)
(* turn made.  It needs the decision lock, which a replay does not hold.   *)
Elsewhere ==
    /\ turn \in {"none", "replay"} /\ saved.rev < MaxRev
    /\ saved' = [rev |-> saved.rev + 1, cfg |-> saved.cfg]
    /\ synced' = FALSE
    /\ UNCHANGED <<control, turn, doc, cand, left, plan, call, tries, wire, reply, queue,
                   follower_vars, counts, lost>>

(* The package is purged and installed again while the follower's cache    *)
(* survives: the revisions start over.                                     *)
Purge ==
    /\ ~control /\ purges < MaxPurges /\ purges' = purges + 1
    /\ \E c \in Good : saved' = [rev |-> 1, cfg |-> c]
    /\ synced' = FALSE
    /\ UNCHANGED <<control, turn, doc, cand, left, plan, call, tries, wire, reply, queue,
                   follower_vars, faults, crashes, lost>>

ActorStep == CheckDone \/ Commit \/ TurnDone \/ Start \/ Send \/ Refused \/ Receive
FollowerStep == Serve \/ StartFollower
Fault == RenderFails \/ CommitFails \/ Timeout \/ CrashControl \/ CrashFollower \/ Reboot
         \/ Elsewhere \/ Purge

Next == Submit \/ Replay \/ StartControl \/ ActorStep \/ FollowerStep \/ Fault

Spec == Init /\ [][Next]_vars

(* The replay task never ends; systemd restarts both processes; the actor  *)
(* and the follower keep running; a call that cannot be answered times out. *)
Fairness ==
    /\ WF_vars(Replay) /\ WF_vars(StartControl) /\ WF_vars(ActorStep)
    /\ WF_vars(FollowerStep)

FairSpec == Spec /\ Fairness
-----------------------------------------------------------------------------
(* The values of both processes; a call never runs out of tries.           *)
TypeOK ==
    /\ saved \in Envelope /\ doc \in Envelope \cup {NoDocument} /\ cand \in Envelope \cup {NoDocument}
    /\ control \in BOOLEAN /\ up \in BOOLEAN /\ wire \in BOOLEAN
    /\ turn \in {"none", "check", "apply", "undo", "replay"}
    /\ left \in [own : SUBSET Domains, rest : SUBSET Domains] /\ plan \subseteq Domains
    /\ call \in Request \cup {Idle} /\ tries \in 0..(Attempts - 1)
    /\ reply \in Answer \cup {NoReply}
    /\ queue \in Seq(Connection)
    /\ fol \in Held /\ cache \in Held
    /\ faults \in Nat /\ crashes \in Nat /\ purges \in Nat
    /\ lost \in BOOLEAN /\ synced \in BOOLEAN

(* After a commit, an undo or a replay that ended well (lib.rs: submit,    *)
(* restore, replay) the follower shows the durable document, and no late   *)
(* request is left in its backlog that could still change it.              *)
SettledAgrees == synced /\ ~lost => fol.cfg = saved.cfg /\ queue = <<>>

(* A change is committed (Actor::submit) only with every domain it touches *)
(* shown by the follower, unless the follower lost settings meanwhile: no  *)
(* refusal, timeout or crash of a delivery is taken for an acceptance.     *)
CommitsWhatIsShown ==
    [][saved'.cfg # saved.cfg /\ purges' = purges
         => lost \/ \A d \in plan : fol.cfg[d] = saved'.cfg[d]]_vars

(* Until a reinstallation the follower is at most one revision ahead, the  *)
(* change in flight: what ahead (follower.rs) relies on.                   *)
OneAhead == purges = 0 => fol.rev <= saved.rev + 1

(* So the reset that overrides the follower's own revision check is never  *)
(* sent within one lineage of the durable state.                           *)
ResetMeansPurged ==
    \A r \in {queue[i].ask : i \in DOMAIN queue} \cup ({call} \ {Idle}) :
        r.reset => purges > 0

(* What the protocol relies on to tell a new lineage from an old envelope. *)
LineageIsKnown == OneAhead /\ ResetMeansPurged

(* While it runs, the follower goes back to an older revision only when    *)
(* the control plane of another lineage tells it to (Revision::check).     *)
NoSilentRegress ==
    [][up /\ up' /\ fol'.rev < fol.rev => Head(queue).ask.reset /\ purges > 0]_vars

(* Part of the inductive invariant Inv: which envelope a turn delivers.    *)
TurnInv ==
    /\ ~control => turn = "none"
    /\ turn # "none" => doc \in Envelope
    /\ turn = "none" => call = Idle
    /\ turn = "check" => cand \in Envelope /\ cand.rev = saved.rev + 1
    /\ turn \in {"check", "undo"} => doc.rev = saved.rev
    /\ turn = "apply" => doc.rev = saved.rev + 1
    /\ turn = "replay" => doc.rev <= saved.rev

(* Part of Inv: at most one connection is awaited, the one of the call.    *)
WireInv ==
    /\ call # Idle => left # Done
    /\ wire => call # Idle
    /\ reply # NoReply => wire /\ ~Waiting
    /\ \A i, j \in DOMAIN queue : queue[i].live => wire /\ (queue[j].live => i = j)

Base == IF turn = "replay" THEN doc.rev ELSE saved.rev

(* Part of Inv: nothing on its way through the protocol is more than one   *)
(* revision ahead of the envelope the turn began with.                     *)
LineageInv ==
    purges = 0 =>
        /\ fol.rev <= Base + 1 /\ cache.rev <= Base + 1 /\ reply.rev <= Base + 1
        /\ call # Idle => call.rev <= Base + 1 /\ ~call.reset
        /\ \A i \in DOMAIN queue : queue[i].ask.rev <= Base + 1 /\ ~queue[i].ask.reset

(* The inductive invariant behind OneAhead, ResetMeansPurged and           *)
(* NoSilentRegress.                                                        *)
Inv == TypeOK /\ TurnInv /\ WireInv /\ LineageInv

(* Whatever was delivered late, refused, half undone or forgotten, and     *)
(* however many changes are refused meanwhile, the follower comes back to  *)
(* the durable document again and again.                                   *)
Converges == []<>(up /\ fol.cfg = saved.cfg)

(* No step of a delivery slips: a commit waits for the follower, and a    *)
(* follower goes back only on a reset.                                     *)
DeliveryIsSafe == CommitsWhatIsShown /\ NoSilentRegress
=============================================================================
