----------------------------- MODULE FollowerProofs -----------------------------
(***************************************************************************)
(* Proofs about Follower, for any number of domains, settings, attempts,   *)
(* connections and faults: its types, and that within one lineage of the   *)
(* durable state no follower is ever more than one revision ahead, so that *)
(* the reset of follower.rs is sent, and a running follower goes back, only *)
(* after a reinstallation.  The argument is the invariant Inv of Follower. *)
(* Its second part, DeliveryInv below, is what a completed delivery means: *)
(* the follower shows the document, and nothing late can change it.        *)
(***************************************************************************)
EXTENDS Follower, TLAPS

\* What a delivery sends is a request.
LEMMA ApplyType ==
  ASSUME NEW d \in Domains, NEW e \in Envelope, NEW r \in Nat, NEW b \in BOOLEAN,
         NEW s \in {"first", "status", "second"}
  PROVE  Apply(d, e, r, b, s) \in Request
BY DEF Apply, Request, Envelope, Documents

\* Removing a delivered domain leaves two sets of domains.
LEMMA TodoType ==
  ASSUME NEW A \in SUBSET Domains, NEW B \in SUBSET Domains
  PROVE  Todo(A, B) \in [own : SUBSET Domains, rest : SUBSET Domains]
BY DEF Todo

\* What is left to deliver after a domain is a set of domains for each follower.
LEMMA LessType ==
  ASSUME TypeOK, NEW d
  PROVE  Less(d) \in [own : SUBSET Domains, rest : SUBSET Domains]
BY TodoType DEF TypeOK, Less

\* A call starts at its first try and never runs out of them.
LEMMA Tries ==
  /\ 0 \in 0..(Attempts - 1)
  /\ \A n \in 0..(Attempts - 1) : n + 1 < Attempts => n + 1 \in 0..(Attempts - 1)
BY FollowerAssumption

\* Giving up keeps the types, whatever turn it ends.
LEMMA GiveUpType ==
  ASSUME TypeOK, GiveUp
  PROVE  /\ saved' \in Envelope /\ doc' \in Envelope \cup {NoDocument}
         /\ cand' \in Envelope \cup {NoDocument} /\ control' \in BOOLEAN
         /\ wire' = FALSE /\ turn' \in {"undo", "none"}
         /\ left' \in [own : SUBSET Domains, rest : SUBSET Domains]
         /\ plan' \subseteq Domains /\ call' = Idle /\ tries' \in 0..(Attempts - 1)
         /\ reply' = NoReply /\ lost' \in BOOLEAN /\ synced' \in BOOLEAN
<1>1. CASE turn = "apply"
  <2>1. tries' \in 0..(Attempts - 1)
    BY <1>1, Tries DEF GiveUp, Begin
  <2>2. Todo(plan, Domains) \in [own : SUBSET Domains, rest : SUBSET Domains]
    BY TodoType DEF TypeOK
  <2>3. QED
    BY <1>1, <2>1, <2>2 DEF TypeOK, GiveUp, Begin
<1>2. CASE turn # "apply"
  <2>1. tries' \in 0..(Attempts - 1)
    BY <1>2, Tries DEF GiveUp, End
  <2>2. Done \in [own : SUBSET Domains, rest : SUBSET Domains]
    BY TodoType DEF Done
  <2>3. QED
    BY <1>2, <2>1, <2>2 DEF TypeOK, GiveUp, End
<1>3. QED
  BY <1>1, <1>2

\* A connection is a request and a flag.
LEMMA ConnectionFields ==
  /\ \A c \in Connection : c.ask \in Request /\ c.live \in BOOLEAN
  /\ \A r \in Request : \A b \in BOOLEAN : [ask |-> r, live |-> b] \in Connection
BY DEF Connection

\* The connections of a caller that left are still requests.
LEMMA HangType ==
  ASSUME TypeOK
  PROVE  /\ Hang \in Seq(Connection)
         /\ DOMAIN Hang = DOMAIN queue
         /\ \A i \in DOMAIN queue : Hang[i].live = FALSE /\ Hang[i].ask = queue[i].ask
<1>1. DOMAIN queue = 1..Len(queue) /\ Len(queue) \in Nat
  BY DEF TypeOK
<1>2. \A i \in DOMAIN queue : queue[i].ask \in Request
  BY <1>1, ConnectionFields DEF TypeOK
<1>3. Hang \in [1..Len(queue) -> Connection]
  BY <1>1, <1>2, ConnectionFields DEF Hang
<1>4. QED
  BY <1>1, <1>3 DEF Hang

\* Every step keeps the types.
LEMMA TypeStep == ASSUME Inv, [Next]_vars PROVE TypeOK'
<1>0. TypeOK
  BY DEF Inv
<1>1. CASE Submit
  <2>1. cand' \in Envelope /\ plan' \subseteq Domains
    BY <1>0, <1>1 DEF Submit, TypeOK, Envelope
  <2>2. /\ Todo(plan', Domains) \in [own : SUBSET Domains, rest : SUBSET Domains]
        /\ Todo(plan' \cap Checked, {}) \in [own : SUBSET Domains, rest : SUBSET Domains]
    BY <2>1, TodoType
  <2>3. /\ turn' \in {"apply", "check"} /\ doc' \in Envelope /\ tries' = 0 /\ wire' = FALSE
        /\ left' \in [own : SUBSET Domains, rest : SUBSET Domains]
        /\ call' = Idle /\ reply' = NoReply
    BY <1>0, <1>1, <2>1, <2>2 DEF Submit, TypeOK, Begin
  <2>4. QED
    BY <1>0, <1>1, <2>1, <2>3, Tries DEF Submit, TypeOK, follower_vars, counts
<1>2. CASE CheckDone
  BY <1>0, Tries, <1>2, TodoType DEF CheckDone, TypeOK, Begin, follower_vars, counts
<1>3. CASE Commit
  BY <1>0, Tries, <1>3, TodoType DEF Commit, TypeOK, Inv, TurnInv, End, Done, follower_vars,
     counts
<1>4. CASE Replay
  BY <1>0, Tries, <1>4, TodoType DEF Replay, TypeOK, Begin, follower_vars, counts
<1>5. CASE TurnDone
  BY <1>0, Tries, <1>5, TodoType DEF TurnDone, TypeOK, End, Done, follower_vars, counts
<1>6. CASE RenderFails
  <2>1. faults' \in Nat
    BY <1>0, <1>6 DEF RenderFails, TypeOK
  <2>2. QED
    BY <1>0, <1>6, <2>1, GiveUpType DEF RenderFails, TypeOK, follower_vars
<1>7. CASE CommitFails
  <2>1. faults' \in Nat
    BY <1>0, <1>7 DEF CommitFails, TypeOK
  <2>2. QED
    BY <1>0, <1>7, <2>1, GiveUpType DEF CommitFails, TypeOK, follower_vars
<1>8. CASE Start
  <2>1. doc \in Envelope /\ doc.rev \in Nat
    BY <1>8 DEF Start, Inv, TurnInv, Envelope
  <2>2. Upcoming \subseteq Domains
    BY <1>0 DEF TypeOK, Upcoming, Least
  <2>3. call' \in Request
    BY <1>8, <2>1, <2>2, ApplyType DEF Start
  <2>4. QED
    BY <1>0, <1>8, <2>3, Tries DEF Start, TypeOK, follower_vars, counts
<1>9. CASE Send
  <2>1. call \in Request
    BY <1>0, <1>9 DEF Send, TypeOK
  <2>2. queue' \in Seq(Connection)
    <3>1. [ask |-> call, live |-> TRUE] \in Connection
      BY <2>1, ConnectionFields
    <3>2. QED
      BY <1>0, <1>9, <3>1 DEF Send, TypeOK
  <2>3. QED
    BY <1>0, <1>9, <2>2 DEF Send, TypeOK, follower_vars, counts
<1>10. CASE Refused
  <2>1. CASE call.stage # "status" /\ tries + 1 < Attempts
    BY <1>0, Tries, <1>10, <2>1 DEF Refused, TryFailed, TypeOK, follower_vars, counts
  <2>2. CASE ~(call.stage # "status" /\ tries + 1 < Attempts)
    BY <1>0, Tries, <1>10, <2>2, GiveUpType DEF Refused, TryFailed, TypeOK, follower_vars,
       counts
  <2>3. QED
    BY <2>1, <2>2
<1>11. CASE Timeout
  <2>01. Hang \in Seq(Connection)
    BY <1>0, HangType
  <2>0. faults' \in Nat /\ queue' \in Seq(Connection)
    BY <1>0, <1>11, <2>01 DEF Timeout, TypeOK
  <2>1. CASE call.stage # "status" /\ tries + 1 < Attempts
    BY <1>0, Tries, <1>11, <2>0, <2>1 DEF Timeout, TryFailed, TypeOK, follower_vars
  <2>2. CASE ~(call.stage # "status" /\ tries + 1 < Attempts)
    BY <1>0, <1>11, <2>0, <2>2, GiveUpType DEF Timeout, TryFailed, TypeOK, follower_vars
  <2>3. QED
    BY <2>1, <2>2
<1>12. CASE Receive
  <2>1. CASE Delivered
    BY <1>0, Tries, <1>12, <2>1, LessType DEF Receive, Delivered, TypeOK, follower_vars, counts
  <2>2. ASSUME NEW r \in Request, Ask(r) PROVE TypeOK'
    BY <1>0, Tries, <1>12, <2>2 DEF Receive, Ask, TypeOK, follower_vars, counts
  <2>3. CASE GiveUp
    BY <1>0, Tries, <1>12, <2>3, GiveUpType DEF Receive, TypeOK, follower_vars, counts
  <2>4. call \in Request /\ doc \in Envelope /\ doc.rev \in Nat
    BY <1>0, Tries, <1>12 DEF Receive, Inv, TypeOK, WireInv, TurnInv, Envelope
  <2>5. CASE call.stage = "status" /\ Ahead
    <3>1. call.dom \in Domains
      BY <2>4 DEF Request
    <3>2. reply.rev = doc.rev + 1 => Apply(call.dom, doc, reply.rev, FALSE, "second") \in Request
      <4>1. SUFFICES ASSUME reply.rev = doc.rev + 1
                     PROVE  Apply(call.dom, doc, reply.rev, FALSE, "second") \in Request
        OBVIOUS
      <4>2. reply.rev \in Nat
        BY <2>4, <4>1
      <4>3. QED
        BY <2>4, <3>1, <4>2, ApplyType
    <3>3. Apply(call.dom, doc, doc.rev, TRUE, "second") \in Request
      BY <2>4, <3>1, ApplyType
    <3>4. QED
      BY <2>2, <2>3, <2>5, <3>2, <3>3 DEF Ahead
  <2>6. CASE Acknowledged
    BY <2>1, <2>3, <2>6 DEF Acknowledged
  <2>7. CASE Ask(Question)
    <3>1. Question \in Request
      BY <2>4 DEF Request, Question
    <3>2. QED
      BY <2>2, <2>7, <3>1
  <2>8. QED
    BY <1>12, <2>3, <2>5, <2>6, <2>7 DEF Receive
<1>13. CASE Serve
  <2> DEFINE request == Head(queue).ask
  <2>1. request \in Request /\ Head(queue).live \in BOOLEAN
        /\ queue' \in Seq(Connection)
    <3>1. queue # <<>> /\ queue \in Seq(Connection)
      BY <1>0, <1>13 DEF Serve, TypeOK
    <3>2. Head(queue) \in Connection
      BY <3>1
    <3>3. Tail(queue) \in Seq(Connection)
      BY <3>1
    <3>4. QED
      BY <1>13, <3>2, <3>3, ConnectionFields DEF Serve
  <2>2. request.dom \in Domains /\ request.cfg \in Configs /\ request.rev \in Nat
    BY <2>1 DEF Request
  <2>3. fol.rev \in Nat \cup {-1} /\ fol.cfg \in [Domains -> Configs \cup {"none"}]
    BY <1>0 DEF TypeOK, Held
  <2>4. fol' \in Held /\ cache' \in Held /\ faults' \in Nat
    <3>1. [rev |-> request.rev, cfg |-> [fol.cfg EXCEPT ![request.dom] = request.cfg]] \in Held
      BY <2>2, <2>3 DEF Held
    <3>2. QED
      BY <1>0, <1>13, <3>1 DEF Serve, TypeOK
  <2>5. reply' \in Answer \cup {NoReply}
    BY <1>0, <1>13, <2>2, <2>3 DEF Serve, TypeOK, Answer
  <2>6. QED
    BY <1>0, <1>13, <2>1, <2>4, <2>5 DEF Serve, TypeOK, control_vars
<1>14. CASE CrashControl
  <2>0. Hang \in Seq(Connection)
    BY <1>0, HangType
  <2>1. crashes' \in Nat /\ queue' \in Seq(Connection)
    BY <1>0, <1>14, <2>0 DEF CrashControl, TypeOK
  <2>2. QED
    BY <1>0, <1>14, <2>1, Tries, TodoType DEF CrashControl, TypeOK, End, Done, follower_vars
<1>15. CASE StartControl
  BY <1>0, <1>15 DEF StartControl, TypeOK, follower_vars, counts
<1>16. CASE CrashFollower
  <2>1. crashes' \in Nat /\ queue' \in Seq(Connection)
    BY <1>0, <1>16 DEF CrashFollower, TypeOK
  <2>2. QED
    BY ZenonT(60), <1>0, <1>16, <2>1 DEF CrashFollower, TypeOK, control_vars
<1>17. CASE StartFollower
  BY <1>0, <1>17 DEF StartFollower, TypeOK, control_vars, counts
<1>18. CASE Reboot
  <2>1. crashes' \in Nat /\ queue' \in Seq(Connection)
    BY <1>0, <1>18 DEF Reboot, TypeOK
  <2>2. cache' \in Held
    BY <1>18 DEF Reboot, Nothing, Held
  <2>3. QED
    BY <1>0, <1>18, <2>1, <2>2, Tries, TodoType DEF Reboot, TypeOK, End, Done
<1>19. CASE Elsewhere
  <2>1. saved' \in Envelope
    BY <1>0, <1>19 DEF Elsewhere, TypeOK, Envelope
  <2>2. QED
    BY <1>0, <1>19, <2>1 DEF Elsewhere, TypeOK, follower_vars, counts
<1>20. CASE Purge
  <2>1. saved' \in Envelope /\ purges' \in Nat
    BY <1>0, <1>20 DEF Purge, TypeOK, Envelope, Good
  <2>2. QED
    BY <1>0, <1>20, <2>1 DEF Purge, TypeOK, follower_vars
<1>21. CASE UNCHANGED vars
  BY <1>0, <1>21 DEF vars, control_vars, follower_vars, counts, TypeOK
<1>22. QED
  BY <1>1, <1>2, <1>3, <1>4, <1>5, <1>6, <1>7, <1>8, <1>9, <1>10, <1>11, <1>12, <1>13,
     <1>14, <1>15, <1>16, <1>17, <1>18, <1>19, <1>20, <1>21
     DEF Next, ActorStep, FollowerStep, Fault

\* A turn that is given up either delivers the envelope that stays or ends.
LEMMA GiveUpTurn == ASSUME TypeOK, TurnInv, GiveUp PROVE TurnInv'
<1>1. CASE turn = "apply"
  BY <1>1 DEF TypeOK, GiveUp, Begin, TurnInv
<1>2. CASE turn # "apply"
  BY <1>2 DEF GiveUp, End, TurnInv
<1>3. QED
  BY <1>1, <1>2

\* Every step keeps the envelope of the turn where the turn needs it.
LEMMA TurnStep == ASSUME Inv, [Next]_vars PROVE TurnInv'
<1>0. TypeOK /\ TurnInv /\ WireInv
  BY DEF Inv
<1>1. CASE Submit
  <2>1. cand' \in Envelope /\ cand'.rev = saved.rev + 1
    BY <1>0, <1>1 DEF Submit, TypeOK, Envelope
  <2>2. CASE plan' \cap Checked = {}
    BY <1>0, <1>1, <2>1, <2>2 DEF Submit, TypeOK, Begin, TurnInv
  <2>3. CASE plan' \cap Checked # {}
    BY <1>0, <1>1, <2>1, <2>3 DEF Submit, TypeOK, Begin, TurnInv
  <2>4. QED
    BY <2>2, <2>3
<1>2. CASE CheckDone
  BY <1>0, <1>2 DEF CheckDone, Begin, TurnInv
<1>3. CASE Commit \/ TurnDone \/ CrashControl \/ Reboot
  BY <1>3 DEF Commit, TurnDone, CrashControl, Reboot, End, TurnInv
<1>4. CASE Replay
  BY <1>0, <1>4 DEF Replay, Begin, TypeOK, TurnInv, Envelope
<1>5. CASE RenderFails \/ CommitFails
  BY <1>0, <1>5, GiveUpTurn DEF RenderFails, CommitFails
<1>6. CASE Refused \/ Timeout
  <2>1. CASE GiveUp
    BY <1>0, <2>1, GiveUpTurn
  <2>2. CASE UNCHANGED <<saved, control, turn, doc, cand, call>>
    BY <1>0, <2>2 DEF TurnInv
  <2>3. QED
    BY <1>6, <2>1, <2>2 DEF Refused, Timeout, TryFailed
<1>7. CASE Receive
  <2>1. CASE GiveUp
    BY <1>0, <2>1, GiveUpTurn
  <2>2. turn # "none"
    BY <1>0, <1>7 DEF Receive, WireInv, TurnInv
  <2>3. CASE UNCHANGED <<saved, control, turn, doc, cand>>
    BY <1>0, <2>2, <2>3 DEF TurnInv
  <2>4. QED
    BY <1>7, <2>1, <2>3 DEF Receive, Ahead, Acknowledged, Ask, Delivered
<1>8. CASE Start
  BY <1>0, <1>8 DEF Start, TurnInv
<1>9. CASE Send \/ Serve \/ CrashFollower \/ StartFollower
  <2>1. UNCHANGED <<saved, control, turn, doc, cand, call>>
    BY <1>9 DEF Send, Serve, CrashFollower, StartFollower, control_vars
  <2>2. QED
    BY <1>0, <2>1 DEF TurnInv
<1>10. CASE Elsewhere
  BY <1>0, <1>10 DEF Elsewhere, TurnInv, TypeOK, Envelope
<1>11. CASE Purge
  BY <1>0, <1>11 DEF Purge, TurnInv, TypeOK, Envelope
<1>12. CASE StartControl
  BY <1>0, <1>12 DEF StartControl, TurnInv
<1>13. CASE UNCHANGED vars
  BY <1>0, <1>13 DEF vars, control_vars, TurnInv
<1>14. QED
  BY <1>1, <1>2, <1>3, <1>4, <1>5, <1>6, <1>7, <1>8, <1>9, <1>10, <1>11, <1>12, <1>13
     DEF Next, ActorStep, FollowerStep, Fault

\* With no connection open and none awaited the wire is in order.
LEMMA Quiet ==
  ASSUME wire' = FALSE, reply' = NoReply, ~Waiting', call' # Idle => left' # Done
  PROVE  WireInv'
BY DEF WireInv, Waiting

\* No connection is awaited while there is no call, or its answer is here.
LEMMA NoneAwaited ==
  ASSUME WireInv, call = Idle \/ reply # NoReply \/ ~wire
  PROVE  ~Waiting
BY DEF WireInv, Waiting

\* What a call turns into when it is given up.
LEMMA GiveUpWire ==
  ASSUME GiveUp
  PROVE  wire' = FALSE /\ reply' = NoReply /\ call' = Idle
BY DEF GiveUp, Begin, End

\* Every step keeps at most one awaited connection, and that one the call's.
LEMMA WireStep == ASSUME Inv, [Next]_vars PROVE WireInv'
<1>0. TypeOK /\ TurnInv /\ WireInv
  BY DEF Inv
<1>1. CASE Submit \/ CheckDone \/ Commit \/ Replay \/ TurnDone
  <2>1. call = Idle
    BY <1>0, <1>1 DEF Submit, CheckDone, Commit, Replay, TurnDone, TurnInv, WireInv
  <2>2. wire' = FALSE /\ reply' = NoReply /\ call' = Idle /\ queue' = queue
    BY <1>1 DEF Submit, CheckDone, Commit, Replay, TurnDone, Begin, End
  <2>3. QED
    BY <1>0, <2>1, <2>2, NoneAwaited, Quiet DEF Waiting
<1>2. CASE RenderFails \/ CommitFails
  <2>1. call = Idle /\ queue' = queue /\ GiveUp
    BY <1>0, <1>2 DEF RenderFails, CommitFails, WireInv
  <2>2. QED
    BY <1>0, <2>1, GiveUpWire, NoneAwaited, Quiet DEF Waiting
<1>3. CASE Start
  <2>1. call = Idle /\ left' # Done /\ queue' = queue /\ wire' = wire /\ reply' = reply
    BY <1>3 DEF Start
  <2>2. ~Waiting /\ wire = FALSE /\ reply = NoReply
    BY <1>0, <2>1, NoneAwaited DEF WireInv, TypeOK
  <2>3. QED
    BY <2>1, <2>2, Quiet DEF Waiting
<1>4. CASE Send
  <2>1. ~Waiting /\ reply = NoReply
    BY <1>0, <1>4, NoneAwaited DEF Send, WireInv
  <2>2. /\ DOMAIN queue' = 1..(Len(queue) + 1) /\ DOMAIN queue = 1..Len(queue)
        /\ Len(queue) \in Nat
        /\ \A i \in DOMAIN queue : queue'[i] = queue[i]
    BY <1>0, <1>4 DEF Send, TypeOK
  <2>3. \A i \in DOMAIN queue' : queue'[i].live => i = Len(queue) + 1
    BY <2>1, <2>2 DEF Waiting
  <2>4. wire' /\ call' # Idle /\ left' # Done /\ reply' = NoReply
    BY <1>0, <1>4, <2>1 DEF Send, WireInv
  <2>5. QED
    BY <2>3, <2>4 DEF WireInv
<1>5. CASE Refused
  <2>1. ~Waiting /\ queue' = queue
    BY <1>0, <1>5, NoneAwaited DEF Refused
  <2>2. wire' = FALSE /\ reply' = NoReply /\ (call' # Idle => left' # Done)
    BY <1>0, <1>5, GiveUpWire DEF Refused, TryFailed, WireInv
  <2>3. QED
    BY <2>1, <2>2, Quiet DEF Waiting
<1>6. CASE Timeout
  <2>1. ~Waiting'
    BY <1>0, <1>6, HangType DEF Timeout, Waiting
  <2>2. wire' = FALSE /\ reply' = NoReply /\ (call' # Idle => left' # Done)
    BY <1>0, <1>6, GiveUpWire DEF Timeout, TryFailed, WireInv
  <2>3. QED
    BY <2>1, <2>2, Quiet DEF Waiting
<1>7. CASE Receive
  <2>1. ~Waiting /\ queue' = queue /\ call # Idle /\ left # Done
    BY <1>0, <1>7 DEF Receive, WireInv
  <2>2. wire' = FALSE /\ reply' = NoReply /\ (call' # Idle => left' # Done)
    BY <1>7, <2>1, GiveUpWire DEF Receive, Ahead, Acknowledged, Ask, Delivered
  <2>3. QED
    BY <2>1, <2>2, Quiet DEF Waiting
<1>8. CASE Serve
  <2>1. /\ DOMAIN queue' = 1..(Len(queue) - 1) /\ DOMAIN queue = 1..Len(queue)
        /\ Len(queue) \in Nat \ {0} /\ Head(queue) = queue[1]
        /\ \A i \in DOMAIN queue' : queue'[i] = queue[i + 1]
    BY <1>0, <1>8 DEF Serve, TypeOK
  <2>2. \A i, j \in DOMAIN queue' :
          queue'[i].live => wire /\ ~queue[1].live /\ (queue'[j].live => i = j)
    BY <1>0, <2>1 DEF WireInv
  <2>3. reply' # NoReply => wire /\ ~Waiting'
    <3>1. CASE queue[1].live
      BY <1>0, <2>1, <2>2, <3>1 DEF WireInv, Waiting
    <3>2. CASE ~queue[1].live
      BY <1>0, <1>8, <2>1, <3>2 DEF Serve, WireInv, Waiting
    <3>3. QED
      BY <3>1, <3>2
  <2>4. QED
    BY <1>0, <1>8, <2>2, <2>3 DEF Serve, control_vars, WireInv
<1>9. CASE CrashControl
  <2>1. ~Waiting' /\ wire' = FALSE /\ reply' = NoReply /\ call' = Idle
    BY <1>0, <1>9, HangType DEF CrashControl, End, Waiting
  <2>2. QED
    BY <2>1, Quiet DEF Waiting
<1>10. CASE CrashFollower
  <2>1. queue' = <<>> /\ reply' \in {reply, NoReply} /\ UNCHANGED <<wire, call, left>>
    BY <1>10 DEF CrashFollower, control_vars
  <2>2. QED
    BY <1>0, <2>1 DEF WireInv, Waiting
<1>11. CASE Reboot
  <2>1. queue' = <<>> /\ wire' = FALSE /\ reply' = NoReply /\ call' = Idle
    BY <1>11 DEF Reboot, End
  <2>2. ~Waiting'
    BY <2>1 DEF Waiting
  <2>3. QED
    BY <2>1, <2>2, Quiet DEF Waiting
<1>12. CASE StartControl \/ StartFollower \/ Elsewhere \/ Purge \/ UNCHANGED vars
  <2>1. UNCHANGED <<wire, call, left, reply, queue>>
    BY <1>12 DEF StartControl, StartFollower, Elsewhere, Purge, vars, control_vars
  <2>2. QED
    BY <1>0, <2>1 DEF WireInv, Waiting
<1>13. QED
  BY <1>1, <1>2, <1>3, <1>4, <1>5, <1>6, <1>7, <1>8, <1>9, <1>10, <1>11, <1>12
     DEF Next, ActorStep, FollowerStep, Fault

\* The numbers the lineage compares are integers.
LEMMA Numbers ==
  ASSUME Inv
  PROVE  /\ saved.rev \in Nat /\ Base \in Nat /\ fol.rev \in Int /\ cache.rev \in Int
         /\ reply.rev \in Int /\ (turn # "none" => doc.rev \in Nat)
         /\ (turn = "check" => cand.rev \in Nat)
         /\ (call # Idle => call \in Request /\ call.rev \in Nat /\ call.reset \in BOOLEAN)
         /\ \A i \in DOMAIN queue : queue[i].ask.rev \in Nat /\ queue[i].ask.reset \in BOOLEAN
<1>1. saved.rev \in Nat /\ (turn # "none" => doc.rev \in Nat) /\ (turn = "check" => cand.rev \in Nat)
  BY DEF Inv, TypeOK, TurnInv, Envelope
<1>2. fol.rev \in Int /\ cache.rev \in Int
  BY DEF Inv, TypeOK, Held
<1>3. reply.rev \in Int
  BY DEF Inv, TypeOK, Answer, NoReply
<1>4. \A r \in Request : r.rev \in Nat /\ r.reset \in BOOLEAN
  BY DEF Request
<1>5. call # Idle => call \in Request /\ call.rev \in Nat /\ call.reset \in BOOLEAN
  BY <1>4 DEF Inv, TypeOK
<1>6. \A i \in DOMAIN queue : queue[i].ask \in Request
  BY ConnectionFields DEF Inv, TypeOK
<1>7. QED
  BY <1>1, <1>2, <1>3, <1>4, <1>5, <1>6 DEF Base

\* The base never falls: a turn begins with the durable revision and ends at
\* or below it, and the revision itself only grows.
LEMMA BaseGrows ==
  ASSUME Inv, [Next]_vars, purges' = 0
  PROVE  purges = 0 /\ Base <= Base' /\ Base' \in Nat
<1>0. TypeOK /\ TurnInv
  BY DEF Inv
<1>1. /\ saved.rev \in Nat /\ Base \in Nat /\ (turn # "none" => doc.rev \in Nat)
      /\ purges \in Nat
  BY Numbers, <1>0 DEF TypeOK
<1>21. ~Purge
  BY <1>1 DEF Purge
<1>22. purges' = purges
  BY <1>21 DEF Next, ActorStep, FollowerStep, Fault, Submit, CheckDone, Commit, Replay,
     TurnDone,
     RenderFails, CommitFails, Start, Send, Refused, Timeout, Receive, Serve, CrashControl,
     StartControl, CrashFollower, StartFollower, Reboot, Elsewhere, counts, vars
<1>2. purges = 0 /\ ~Purge
  BY <1>21, <1>22
<1>3. CASE Submit
  BY <1>1, <1>2, <1>3 DEF Submit, Begin, Base
<1>4. CASE CheckDone
  BY <1>1, <1>2, <1>4 DEF CheckDone, Begin, Base
<1>5. CASE Commit
  BY <1>0, <1>1, <1>2, <1>5 DEF Commit, End, Base, TurnInv
<1>6. CASE Replay
  BY <1>1, <1>2, <1>6 DEF Replay, Begin, Base
<1>7. CASE TurnDone \/ CrashControl \/ Reboot
  BY <1>0, <1>1, <1>2, <1>7 DEF TurnDone, CrashControl, Reboot, End, Base, TurnInv
<1>8. CASE GiveUp
  <2>1. CASE turn = "apply"
    BY <1>1, <1>2, <1>8, <2>1 DEF GiveUp, Begin, Base
  <2>2. CASE turn # "apply"
    BY <1>0, <1>1, <1>2, <1>8, <2>2 DEF GiveUp, End, Base, TurnInv
  <2>3. QED
    BY <1>2, <2>1, <2>2
<1>9. CASE UNCHANGED <<saved, turn, doc>>
  BY <1>1, <1>2, <1>9 DEF Base
<1>10. CASE Elsewhere
  BY <1>0, <1>1, <1>2, <1>10 DEF Elsewhere, Base, TurnInv
<1>11. QED
  BY <1>2, <1>3, <1>4, <1>5, <1>6, <1>7, <1>8, <1>9, <1>10
     DEF Next, ActorStep, FollowerStep, Fault, RenderFails, CommitFails, Start, Send, Refused,
     Timeout, TryFailed, Receive, Ahead, Acknowledged, Ask, Delivered, Serve, StartControl,
     CrashFollower, StartFollower, vars, control_vars

\* Nothing on its way gets more than one revision ahead of the base.
LEMMA LineageStep == ASSUME Inv, [Next]_vars PROVE LineageInv'
<1>1. SUFFICES ASSUME purges' = 0
               PROVE  /\ (fol.rev <= Base + 1)' /\ (cache.rev <= Base + 1)'
                      /\ (reply.rev <= Base + 1)'
                      /\ (call # Idle => call.rev <= Base + 1 /\ ~call.reset)'
                      /\ (\A i \in DOMAIN queue :
                            queue[i].ask.rev <= Base + 1 /\ ~queue[i].ask.reset)'
  BY DEF LineageInv
<1>2. TypeOK /\ TurnInv /\ WireInv
  BY DEF Inv
<1>3. Base <= Base' /\ Base \in Nat /\ Base' \in Nat
  BY <1>1, BaseGrows, Numbers
<1>4. /\ fol.rev <= Base + 1 /\ cache.rev <= Base + 1 /\ reply.rev <= Base + 1
      /\ call # Idle => call.rev <= Base + 1 /\ ~call.reset
      /\ \A i \in DOMAIN queue : queue[i].ask.rev <= Base + 1 /\ ~queue[i].ask.reset
  BY <1>1, BaseGrows DEF Inv, LineageInv
<1>5. /\ fol.rev \in Int /\ cache.rev \in Int /\ reply.rev \in Int
      /\ call # Idle => call \in Request /\ call.rev \in Nat
      /\ \A i \in DOMAIN queue : queue[i].ask.rev \in Nat
  BY Numbers
<1>6. turn # "none" => doc.rev \in Nat /\ Base <= doc.rev /\ doc.rev <= Base + 1
  <2>1. turn \in {"none", "check", "apply", "undo", "replay"}
    BY <1>2 DEF TypeOK
  <2>2. saved.rev \in Nat /\ (turn # "none" => doc.rev \in Nat)
    BY Numbers
  <2>3. QED
    BY <1>2, <2>1, <2>2 DEF TurnInv, Base
<1>7. /\ fol.rev <= Base' + 1 /\ cache.rev <= Base' + 1 /\ reply.rev <= Base' + 1
      /\ call # Idle => call.rev <= Base' + 1
      /\ \A i \in DOMAIN queue : queue[i].ask.rev <= Base' + 1
  BY <1>3, <1>4, <1>5
<1>80. \A x \in Nat : -2 <= x + 1 /\ -1 <= x + 1
  OBVIOUS
<1>8. -1 <= Base' + 1 /\ NoReply.rev <= Base' + 1 /\ Nothing.rev <= Base' + 1
  <2>1. NoReply.rev = -2 /\ Nothing.rev = -1
    BY DEF NoReply, Nothing
  <2>2. QED
    BY <1>3, <1>80, <2>1
<1>9. \/ UNCHANGED fol
      \/ fol' = cache
      \/ Serve
  BY DEF Next, ActorStep, FollowerStep, Fault, Submit, CheckDone, Commit, Replay, TurnDone,
     RenderFails, CommitFails, Start, Send, Refused, Timeout, Receive, CrashControl,
     StartControl, CrashFollower, StartFollower, Reboot, Elsewhere, Purge, follower_vars, vars
<1>10. \/ UNCHANGED cache
       \/ cache' = Nothing
       \/ Serve
  BY DEF Next, ActorStep, FollowerStep, Fault, Submit, CheckDone, Commit, Replay, TurnDone,
     RenderFails, CommitFails, Start, Send, Refused, Timeout, Receive, CrashControl,
     StartControl, CrashFollower, StartFollower, Reboot, Elsewhere, Purge, follower_vars, vars
<1>11. ASSUME Serve
       PROVE  /\ fol' = fol \/ fol'.rev = queue[1].ask.rev
              /\ cache' = cache \/ cache' = fol'
              /\ reply' = reply \/ reply'.rev \in {fol.rev, -1, queue[1].ask.rev}
              /\ 1 \in DOMAIN queue
  <2>1. Head(queue) = queue[1] /\ 1 \in DOMAIN queue
    BY <1>2, <1>11 DEF Serve, TypeOK
  <2>2. fol' = fol \/ fol'.rev = queue[1].ask.rev
    BY <1>11, <2>1 DEF Serve
  <2>3. cache' = cache \/ cache' = fol'
    BY <1>11 DEF Serve
  <2>4. reply' = reply \/ reply'.rev \in {fol.rev, -1, queue[1].ask.rev}
    BY <1>11, <2>1 DEF Serve
  <2>5. QED
    BY <2>1, <2>2, <2>3, <2>4
<1>12. (fol.rev <= Base + 1)'
  BY <1>7, <1>9, <1>11
<1>13. (cache.rev <= Base + 1)'
  BY <1>7, <1>8, <1>10, <1>11, <1>12
<1>14. (reply.rev <= Base + 1)'
  <2>1. reply' \in {reply, NoReply} \/ Serve
    BY DEF Next, ActorStep, FollowerStep, Fault, Submit, CheckDone, Commit, Replay, TurnDone,
       RenderFails, CommitFails, Start, Send, Refused, Timeout, TryFailed, Receive, Ahead,
       Acknowledged, Ask, Delivered, GiveUp, Begin, End, CrashControl, StartControl,
       CrashFollower, StartFollower, Reboot, Elsewhere, Purge, vars
  <2>2. QED
    BY <1>7, <1>8, <1>11, <2>1
<1>15. (call # Idle => call.rev <= Base + 1 /\ ~call.reset)'
  <2>1. CASE Start
    <3>1. turn # "none" /\ call'.rev = doc.rev /\ call'.reset = FALSE
      BY <2>1 DEF Start, Apply
    <3>2. QED
      BY <1>3, <1>6, <3>1
  <2>2. CASE Receive
    <3>1. call # Idle /\ turn # "none"
      BY <1>2, <2>2 DEF Receive, WireInv, TurnInv
    <3>2. CASE Ahead
      <4>1. CASE reply.rev = doc.rev + 1
        <5>1. call'.rev = reply.rev /\ call'.reset = FALSE
          BY <3>2, <4>1 DEF Ahead, Ask, Apply
        <5>2. QED
          BY <1>7, <5>1
      <4>2. CASE reply.rev # doc.rev + 1 /\ reply.rev > doc.rev
        BY <1>3, <1>4, <1>5, <1>6, <3>1, <4>2
      <4>3. CASE ~(reply.rev > doc.rev) /\ reply.rev # doc.rev + 1
        BY <3>2, <4>3, GiveUpWire DEF Ahead
      <4>4. QED
        BY <4>1, <4>2, <4>3
    <3>3. CASE Ask(Question)
      <4>1. call'.rev = call.rev /\ call'.reset = FALSE
        BY <3>3 DEF Ask, Question
      <4>2. QED
        BY <1>7, <3>1, <4>1
    <3>4. CASE Acknowledged \/ GiveUp
      BY <3>4, GiveUpWire DEF Acknowledged, Delivered
    <3>5. QED
      BY <2>2, <3>2, <3>3, <3>4 DEF Receive
  <2>3. CASE call' \in {call, Idle}
    BY <1>4, <1>7, <2>3
  <2>4. QED
    BY <2>1, <2>2, <2>3
       DEF Next, ActorStep, FollowerStep, Fault, Submit, CheckDone, Commit, Replay, TurnDone,
       RenderFails, CommitFails, Send, Refused, Timeout, TryFailed, GiveUp, Begin, End, Serve,
       CrashControl, StartControl, CrashFollower, StartFollower, Reboot, Elsewhere, Purge,
       control_vars, vars
<1>16. (\A i \in DOMAIN queue : queue[i].ask.rev <= Base + 1 /\ ~queue[i].ask.reset)'
  <2>1. CASE Send
    <3>1. /\ DOMAIN queue' = 1..(Len(queue) + 1) /\ DOMAIN queue = 1..Len(queue)
          /\ Len(queue) \in Nat /\ queue'[Len(queue) + 1].ask = call
          /\ \A i \in DOMAIN queue : queue'[i] = queue[i]
      BY <1>2, <2>1 DEF Send, TypeOK
    <3>2. \A i \in DOMAIN queue' : i \in DOMAIN queue \/ i = Len(queue) + 1
      BY <3>1
    <3>3. call # Idle
      BY <2>1 DEF Send
    <3>4. QED
      BY <1>4, <1>7, <3>1, <3>2, <3>3
  <2>2. CASE Serve
    <3>1. \A i \in DOMAIN queue' : i + 1 \in DOMAIN queue /\ queue'[i] = queue[i + 1]
      BY <1>2, <2>2 DEF Serve, TypeOK
    <3>2. QED
      BY <1>4, <1>7, <3>1
  <2>3. CASE queue' = Hang
    BY <1>2, <1>4, <1>7, <2>3, HangType
  <2>4. CASE queue' = <<>>
    BY <2>4
  <2>5. CASE queue' = queue
    BY <1>4, <1>7, <2>5
  <2>6. QED
    BY <2>1, <2>2, <2>3, <2>4, <2>5
       DEF Next, ActorStep, FollowerStep, Fault, Submit, CheckDone, Commit, Replay, TurnDone,
       RenderFails, CommitFails, Start, Refused, Timeout, Receive, CrashControl, StartControl,
       CrashFollower, StartFollower, Reboot, Elsewhere, Purge, vars
<1>17. QED
  BY <1>12, <1>13, <1>14, <1>15, <1>16

\* The first start satisfies the invariant.
LEMMA InitInv == Init => Inv
<1>1. SUFFICES ASSUME Init PROVE Inv
  OBVIOUS
<1>2. saved \in Envelope /\ saved.rev = 1
  BY <1>1 DEF Init, Good, Envelope
<1>3. Nothing \in Held /\ Nothing.rev = -1 /\ NoReply.rev = -2
  BY DEF Nothing, Held, NoReply
<1>4. Done \in [own : SUBSET Domains, rest : SUBSET Domains]
  BY TodoType DEF Done
<1>5. queue = <<>> /\ queue \in Seq(Connection) /\ DOMAIN queue = {}
  BY <1>1 DEF Init
<1>6. TypeOK
  BY <1>1, <1>2, <1>3, <1>4, <1>5, Tries DEF Init, TypeOK
<1>7. TurnInv
  BY <1>1 DEF Init, TurnInv
<1>8. WireInv
  BY <1>1, <1>5 DEF Init, WireInv
<1>9. LineageInv
  BY <1>1, <1>2, <1>3, <1>5 DEF Init, LineageInv, Base
<1>10. QED
  BY <1>6, <1>7, <1>8, <1>9 DEF Inv

\* Every turn, answer, lost call, crash, reboot and foreign revision keeps the
\* invariant.
THEOREM InvHolds == Spec => []Inv
<1>1. Inv /\ [Next]_vars => Inv'
  BY TypeStep, TurnStep, WireStep, LineageStep DEF Inv
<1>2. QED
  BY InitInv, <1>1, PTL DEF Spec

\* Every value of the protocol stays within its type.
THEOREM TypeCorrect == Spec => []TypeOK
<1>1. Inv => TypeOK
  BY DEF Inv
<1>2. QED
  BY InvHolds, <1>1, PTL

\* Within one lineage a follower is at most the change in flight ahead of the
\* durable envelope (follower.rs: ahead, FollowerProtocol.h: Revision).
THEOREM OneAheadHolds == Spec => []OneAhead
<1>1. Inv => OneAhead
  <2>1. SUFFICES ASSUME Inv, purges = 0 PROVE fol.rev <= saved.rev + 1
    BY DEF OneAhead
  <2>2. fol.rev <= Base + 1
    BY <2>1 DEF Inv, LineageInv
  <2>3. fol.rev \in Int /\ Base \in Nat /\ saved.rev \in Nat
    BY <2>1, Numbers
  <2>4. Base <= saved.rev
    BY <2>1, <2>3 DEF Inv, TurnInv, Base
  <2>5. QED
    BY <2>2, <2>3, <2>4
<1>2. QED
  BY InvHolds, <1>1, PTL

\* The invariant rules a reset out until the device has been reinstalled.
LEMMA ResetFromInv == Inv => ResetMeansPurged
<1>1. SUFFICES ASSUME Inv, NEW r \in {queue[i].ask : i \in DOMAIN queue} \cup ({call} \ {Idle}),
                      r.reset
               PROVE  purges > 0
  BY DEF ResetMeansPurged
<1>2. purges # 0
  BY <1>1 DEF Inv, LineageInv
<1>3. QED
  BY <1>1, <1>2 DEF Inv, TypeOK

\* follower.rs sends reset only across lineages: "more than one ahead can only
\* be a cache of another lineage of the durable state".
THEOREM ResetMeansPurgedHolds == Spec => []ResetMeansPurged
BY InvHolds, ResetFromInv, PTL

\* A running follower goes back to an older revision only on a reset from
\* another lineage, whatever arrives late, twice or after its caller left.
THEOREM NoSilentRegressHolds == Spec => NoSilentRegress
<1>1. ASSUME Inv, [Next]_vars, up, up', fol'.rev < fol.rev
      PROVE  Head(queue).ask.reset /\ purges > 0
  <2>1. fol.rev \in Int
    BY <1>1, Numbers
  <2>2. fol' # fol
    BY <1>1, <2>1
  <2>3. Serve
    BY <1>1, <2>2 DEF Next, ActorStep, FollowerStep, Fault, Submit, CheckDone, Commit, Replay,
       TurnDone, RenderFails, CommitFails, Start, Send, Refused, Timeout, Receive, CrashControl,
       StartControl, CrashFollower, StartFollower, Reboot, Elsewhere, Purge, follower_vars, vars
  <2>4. fol'.rev = Head(queue).ask.rev /\ ~Older(Head(queue).ask)
    BY <2>2, <2>3 DEF Serve
  <2>5. Head(queue) = queue[1] /\ 1 \in DOMAIN queue
    BY <1>1, <2>3 DEF Serve, Inv, TypeOK
  <2>6. Head(queue).ask.reset
    BY <1>1, <2>1, <2>4, <2>5, Numbers DEF Older
  <2>7. purges > 0
    BY <1>1, <2>5, <2>6, ResetFromInv DEF ResetMeansPurged
  <2>8. QED
    BY <2>6, <2>7
<1>2. Inv /\ [Next]_vars
        => [up /\ up' /\ fol'.rev < fol.rev => Head(queue).ask.reset /\ purges > 0]_vars
  BY <1>1
<1>3. QED
  BY InvHolds, <1>2, PTL DEF Spec, NoSilentRegress

\* Where a follower stands is explained by the lineage it follows: the change in
\* flight, or a reinstalled device (follower.rs: ahead, FollowerProtocol.h).
THEOREM LineageIsKnownHolds == Spec => []LineageIsKnown
<1>1. OneAhead /\ ResetMeansPurged => LineageIsKnown
  BY DEF LineageIsKnown
<1>2. QED
  BY <1>1, OneAheadHolds, ResetMeansPurgedHolds, PTL

-------------------------------------------------------------------------------
(* What a completed delivery means.  Connections are served in order, so an    *)
(* answer says that everything sent before it has been served; from the first  *)
(* delivery of the replay onwards nothing else is on its way than requests of  *)
(* this turn, which say what has been delivered already.                       *)

\* Turns that end with a delivery of every domain.
Complete == {"apply", "undo", "replay"}

\* The awaited connection is the last one, and its answer leaves none.
OrderInv ==
    /\ \A i \in DOMAIN queue : queue[i].live => i = Len(queue) /\ queue[i].ask = call
    /\ reply # NoReply => queue = <<>>

\* The call asks for a domain whose turn it is, and an acceptance means that the
\* follower shows it.
AskInv ==
    /\ call # Idle => call.dom \in Upcoming /\ call.cfg = doc.cfg[call.dom]
    /\ reply # NoReply /\ reply.ok /\ call.stage # "status" /\ ~lost
         => fol.cfg[call.dom] = call.cfg

\* The follower shows every domain the replay has delivered, and no request that
\* is still to be served says anything else.
ShownInv ==
    turn \in Complete =>
        /\ left.own # {} => left.rest = Domains
        /\ left.rest # Domains /\ call = Idle => queue = <<>>
        /\ left.rest # Domains =>
             \A i \in DOMAIN queue : queue[i].ask.cfg = doc.cfg[queue[i].ask.dom]
        /\ ~lost => \A d \in Domains \ left.rest : fol.cfg[d] = doc.cfg[d]

\* Only a finished turn has settled the follower.
SettledInv == (synced => turn = "none") /\ SettledAgrees

DeliveryInv == OrderInv /\ AskInv /\ ShownInv /\ SettledInv

\* With nothing awaited and no answer in hand the order holds.
LEMMA QuietOrder ==
  ASSUME ~Waiting', reply' = NoReply
  PROVE  OrderInv'
BY DEF OrderInv, Waiting

\* Every step keeps the awaited connection the last one.
LEMMA OrderStep == ASSUME Inv, OrderInv, [Next]_vars PROVE OrderInv'
<1>0. TypeOK /\ TurnInv /\ WireInv
  BY DEF Inv
<1>1. CASE Submit \/ CheckDone \/ Commit \/ Replay \/ TurnDone \/ RenderFails \/ CommitFails
  <2>1. call = Idle
    BY <1>0, <1>1 DEF Submit, CheckDone, Commit, Replay, TurnDone, RenderFails, CommitFails,
       TurnInv, WireInv
  <2>2. reply' = NoReply /\ queue' = queue
    BY <1>1, GiveUpWire DEF Submit, CheckDone, Commit, Replay, TurnDone, RenderFails,
       CommitFails, Begin, End
  <2>3. QED
    BY <1>0, <2>1, <2>2, NoneAwaited, QuietOrder DEF Waiting
<1>2. CASE Start
  <2>1. call = Idle /\ queue' = queue /\ reply' = reply /\ ~wire
    BY <1>0, <1>2 DEF Start, WireInv
  <2>2. QED
    BY <1>0, <2>1, NoneAwaited, QuietOrder DEF Waiting, WireInv
<1>3. CASE Send
  <2>1. ~Waiting /\ reply' = NoReply /\ call' = call
    BY <1>0, <1>3, NoneAwaited DEF Send, WireInv
  <2>2. /\ DOMAIN queue' = 1..(Len(queue) + 1) /\ Len(queue') = Len(queue) + 1
        /\ DOMAIN queue = 1..Len(queue) /\ Len(queue) \in Nat
        /\ queue'[Len(queue) + 1] = [ask |-> call, live |-> TRUE]
        /\ \A i \in DOMAIN queue : queue'[i] = queue[i]
    BY <1>0, <1>3 DEF Send, TypeOK
  <2>3. \A i \in DOMAIN queue' : queue'[i].live => i = Len(queue) + 1
    BY <2>1, <2>2 DEF Waiting
  <2>4. QED
    BY <2>1, <2>2, <2>3 DEF OrderInv
<1>4. CASE Refused \/ Receive
  <2>1. ~Waiting /\ queue' = queue
    BY <1>0, <1>4, NoneAwaited DEF Refused, Receive
  <2>2. reply' = NoReply
    BY <1>4, GiveUpWire
    DEF Refused, TryFailed, Receive, Ahead, Acknowledged, Ask, Delivered
  <2>3. QED
    BY <2>1, <2>2, QuietOrder DEF Waiting
<1>5. CASE Timeout
  <2>1. ~Waiting'
    BY <1>0, <1>5, HangType DEF Timeout, Waiting
  <2>2. reply' = NoReply
    BY <1>5, GiveUpWire DEF Timeout, TryFailed
  <2>3. QED
    BY <2>1, <2>2, QuietOrder
<1>6. CASE Serve
  <2>1. /\ DOMAIN queue' = 1..(Len(queue) - 1) /\ Len(queue') = Len(queue) - 1
        /\ DOMAIN queue = 1..Len(queue)
        /\ Len(queue) \in Nat \ {0} /\ Head(queue) = queue[1]
        /\ \A i \in DOMAIN queue' : queue'[i] = queue[i + 1]
        /\ call' = call /\ queue # <<>>
    BY <1>0, <1>6 DEF Serve, TypeOK, control_vars
  <2>2. \A i \in DOMAIN queue' : queue'[i].live => i = Len(queue') /\ queue'[i].ask = call'
    BY <2>1 DEF OrderInv
  <2>3. reply' # NoReply => queue' = <<>>
    <3>1. CASE queue[1].live
      <4>1. Len(queue) = 1
        BY <2>1, <3>1 DEF OrderInv
      <4>2. QED
        BY <1>0, <1>6, <4>1 DEF Serve, TypeOK
    <3>2. CASE ~queue[1].live
      BY <1>6, <2>1, <3>2 DEF Serve, OrderInv
    <3>3. QED
      BY <3>1, <3>2
  <2>4. QED
    BY <2>2, <2>3 DEF OrderInv
<1>7. CASE CrashControl
  <2>1. ~Waiting' /\ reply' = NoReply
    BY <1>0, <1>7, HangType DEF CrashControl, End, Waiting
  <2>2. QED
    BY <2>1, QuietOrder
<1>8. CASE CrashFollower \/ Reboot
  BY <1>8 DEF CrashFollower, Reboot, OrderInv
<1>9. CASE StartControl \/ StartFollower \/ Elsewhere \/ Purge \/ UNCHANGED vars
  <2>1. UNCHANGED <<call, reply, queue>>
    BY <1>9 DEF StartControl, StartFollower, Elsewhere, Purge, vars, control_vars
  <2>2. QED
    BY <2>1 DEF OrderInv
<1>10. QED
  BY <1>1, <1>2, <1>3, <1>4, <1>5, <1>6, <1>7, <1>8, <1>9
     DEF Next, ActorStep, FollowerStep, Fault

\* With no call there is nothing to say about it.
LEMMA QuietAsk ==
  ASSUME call' = Idle, reply' = NoReply
  PROVE  AskInv'
BY DEF AskInv

\* The domain that comes next is a domain.
LEMMA UpcomingDomain == ASSUME TypeOK PROVE Upcoming \subseteq Domains
BY DEF TypeOK, Upcoming, Least

\* A request is served under the settings of its domain.
LEMMA ServeFacts ==
  ASSUME Inv, Serve
  PROVE  /\ queue # <<>> /\ 1 \in DOMAIN queue /\ Head(queue) = queue[1]
         /\ queue[1].ask.dom \in Domains
         /\ \/ fol' = fol /\ (queue[1].live /\ reply'.ok => queue[1].ask.stage = "status")
            \/ fol'.cfg = [fol.cfg EXCEPT ![queue[1].ask.dom] = queue[1].ask.cfg]
         /\ DOMAIN fol.cfg = Domains
         /\ ~queue[1].live => reply' = reply
<1>1. queue # <<>> /\ queue \in Seq(Connection) /\ 1 \in DOMAIN queue /\ Head(queue) = queue[1]
  BY DEF Serve, Inv, TypeOK
<1>2. queue[1].ask \in Request
  BY <1>1, ConnectionFields
<1>3. queue[1].ask.dom \in Domains
  BY <1>2 DEF Request
<1>4. DOMAIN fol.cfg = Domains
  BY DEF Inv, TypeOK, Held
<1>5. \/ fol' = fol /\ (queue[1].live /\ reply'.ok => queue[1].ask.stage = "status")
      \/ fol'.cfg = [fol.cfg EXCEPT ![queue[1].ask.dom] = queue[1].ask.cfg]
  BY <1>1 DEF Serve
<1>6. ~queue[1].live => reply' = reply
  BY <1>1 DEF Serve
<1>7. QED
  BY <1>1, <1>3, <1>4, <1>5, <1>6

\* Every step keeps the call at the domain whose turn it is, and an acceptance true.
LEMMA AskStep == ASSUME Inv, OrderInv, AskInv, [Next]_vars PROVE AskInv'
<1>0. TypeOK /\ TurnInv /\ WireInv
  BY DEF Inv
<1>1. CASE Submit \/ CheckDone \/ Commit \/ Replay \/ TurnDone \/ CrashControl \/ Reboot
  BY <1>1, QuietAsk
  DEF Submit, CheckDone, Commit, Replay, TurnDone, CrashControl, Reboot, Begin, End
<1>2. CASE GiveUp
  BY <1>2, GiveUpWire, QuietAsk
<1>3. CASE Start
  <2>1. reply' = NoReply /\ left' = left /\ doc' = doc
    BY <1>0, <1>3 DEF Start, WireInv
  <2>2. call'.dom \in Upcoming /\ call'.cfg = doc.cfg[call'.dom]
    BY <1>3 DEF Start, Apply
  <2>3. QED
    BY <2>1, <2>2 DEF AskInv, Upcoming
<1>4. CASE UNCHANGED <<call, doc, left>> /\ reply' = NoReply
  BY <1>4 DEF AskInv, Upcoming
<1>5. CASE Receive
  <2>1. CASE Delivered
    BY <2>1, QuietAsk DEF Delivered
  <2>2. call # Idle /\ call.dom \in Upcoming /\ call.cfg = doc.cfg[call.dom]
    BY <1>0, <1>5 DEF Receive, WireInv, AskInv
  <2>3. ASSUME NEW q, Ask(q), q.dom = call.dom, q.cfg = doc.cfg[call.dom]
        PROVE  AskInv'
    BY <2>2, <2>3 DEF Ask, AskInv, Upcoming
  <2>4. CASE Ask(Question)
    BY <2>2, <2>3, <2>4 DEF Question
  <2>5. CASE Ahead
    BY <1>2, <2>2, <2>3, <2>5 DEF Ahead, Apply
  <2>6. QED
    BY <1>2, <1>5, <2>1, <2>4, <2>5 DEF Receive, Acknowledged
<1>6. CASE Serve
  <2>1. UNCHANGED <<call, doc, left, lost>>
    BY <1>6 DEF Serve, control_vars
  <2>2. CASE queue[1].live
    <3>1. queue[1].ask = call
      BY <1>6, <2>2, ServeFacts DEF OrderInv
    <3>2. reply'.ok /\ call.stage # "status" => fol'.cfg[call.dom] = call.cfg
      BY <1>6, <2>2, <3>1, ServeFacts
    <3>3. QED
      BY <2>1, <3>2 DEF AskInv, Upcoming
  <2>3. CASE ~queue[1].live
    <3>1. reply' = NoReply
      BY <1>6, <2>3, ServeFacts DEF OrderInv
    <3>2. QED
      BY <1>4, <2>1, <3>1
  <2>4. QED
    BY <2>2, <2>3
<1>7. CASE CrashFollower
  <2>1. UNCHANGED <<call, doc, left, lost, fol>> /\ reply' \in {reply, NoReply}
    BY <1>7 DEF CrashFollower, control_vars
  <2>2. QED
    BY <2>1 DEF AskInv, Upcoming
<1>8. CASE StartFollower
  <2>1. UNCHANGED <<call, doc, left, reply>> /\ (~lost' => ~lost /\ fol' = fol)
    BY <1>8 DEF StartFollower, control_vars
  <2>2. QED
    BY <2>1 DEF AskInv, Upcoming
<1>9. CASE Send \/ StartControl \/ Elsewhere \/ Purge \/ UNCHANGED vars
  <2>1. UNCHANGED <<call, doc, left, reply, fol, lost>>
    BY <1>9 DEF Send, StartControl, Elsewhere, Purge, vars, control_vars, follower_vars
  <2>2. QED
    BY <2>1 DEF AskInv, Upcoming
<1>10. QED
  BY <1>1, <1>2, <1>3, <1>4, <1>5, <1>6, <1>7, <1>8, <1>9
     DEF Next, ActorStep, FollowerStep, Fault, RenderFails, CommitFails, Refused, Timeout, TryFailed

\* Nothing has been delivered by the replay of a turn that has just begun.
LEMMA BegunShown ==
  ASSUME NEW t, NEW e, NEW own, Begin(t, e, Todo(own, Domains)) \/ End \/ turn' \notin Complete
  PROVE  ShownInv'
<1>1. turn' \in Complete => left'.rest = Domains
  BY DEF Begin, End, Complete, Todo
<1>2. QED
  BY <1>1 DEF ShownInv

\* Giving up begins a turn or ends it.
LEMMA GiveUpShown == ASSUME GiveUp PROVE ShownInv'
BY BegunShown DEF GiveUp

\* Every step keeps what the replay has delivered shown.
LEMMA ShownStep == ASSUME Inv, OrderInv, AskInv, ShownInv, [Next]_vars PROVE ShownInv'
<1>0. TypeOK /\ TurnInv /\ WireInv
  BY DEF Inv
<1>1. CASE Submit
  <2>1. CASE plan' \cap Checked = {}
    BY <1>1, <2>1, BegunShown DEF Submit
  <2>2. CASE plan' \cap Checked # {}
    BY <1>1, <2>2, BegunShown DEF Submit, Begin, Complete
  <2>3. QED
    BY <2>1, <2>2
<1>2. CASE CheckDone \/ Replay \/ Commit \/ TurnDone \/ CrashControl \/ Reboot
  BY <1>2, BegunShown DEF CheckDone, Replay, Commit, TurnDone, CrashControl, Reboot
<1>3. CASE GiveUp
  BY <1>3, GiveUpShown
<1>4. CASE Start
  <2>1. UNCHANGED <<turn, doc, left, queue, fol, lost>> /\ call' # Idle
    BY <1>4 DEF Start, Apply, Idle, follower_vars
  <2>2. QED
    BY <2>1 DEF ShownInv
<1>5. CASE Send
  <2>1. UNCHANGED <<turn, doc, left, call, fol, lost>> /\ call # Idle
    BY <1>5 DEF Send, follower_vars
  <2>2. /\ DOMAIN queue' = 1..(Len(queue) + 1) /\ DOMAIN queue = 1..Len(queue)
        /\ Len(queue) \in Nat
        /\ queue'[Len(queue) + 1].ask = call
        /\ \A i \in DOMAIN queue : queue'[i] = queue[i]
    BY <1>0, <1>5 DEF Send, TypeOK
  <2>3. call.cfg = doc.cfg[call.dom]
    BY <2>1 DEF AskInv
  <2>4. (\A i \in DOMAIN queue : queue[i].ask.cfg = doc.cfg[queue[i].ask.dom])
          => \A i \in DOMAIN queue' : queue'[i].ask.cfg = doc.cfg[queue'[i].ask.dom]
    BY <2>2, <2>3
  <2>5. QED
    BY <2>1, <2>4 DEF ShownInv
<1>6. CASE (Refused \/ Timeout) /\ ~GiveUp
  <2>1. UNCHANGED <<turn, doc, left, call, fol, lost>> /\ call # Idle
    BY <1>0, <1>6 DEF Refused, Timeout, TryFailed, follower_vars, WireInv
  <2>2. DOMAIN queue' = DOMAIN queue /\ \A i \in DOMAIN queue : queue'[i].ask = queue[i].ask
    BY <1>0, <1>6, HangType DEF Refused, Timeout
  <2>3. QED
    BY <2>1, <2>2 DEF ShownInv
<1>7. CASE Receive /\ ~GiveUp
  <2>1. queue = <<>> /\ queue' = <<>> /\ UNCHANGED <<turn, doc, fol, lost>> /\ call # Idle
    BY <1>0, <1>7
    DEF Receive, OrderInv, WireInv, Ahead, Acknowledged, Ask, Delivered, follower_vars
  <2>2. CASE left' = left
    BY <2>1, <2>2 DEF ShownInv
  <2>3. CASE left' # left
    <3>1. left' = Less(call.dom) /\ reply.ok /\ call.stage # "status" /\ reply # NoReply
      BY <1>7, <2>3 DEF Receive, Ahead, Acknowledged, Ask, Delivered
    <3>2. CASE left.own # {}
      <4>1. left'.rest = left.rest
        BY <3>1, <3>2 DEF Less, Todo
      <4>2. QED
        BY <2>1, <3>2, <4>1 DEF ShownInv
    <3>3. CASE left.own = {}
      <4>1. left'.own = {} /\ left'.rest = left.rest \ {call.dom}
        BY <3>1, <3>3 DEF Less, Todo
      <4>2. ~lost => fol.cfg[call.dom] = doc.cfg[call.dom]
        BY <2>1, <3>1 DEF AskInv
      <4>3. QED
        BY <2>1, <4>1, <4>2 DEF ShownInv
    <3>4. QED
      BY <3>2, <3>3
  <2>4. QED
    BY <2>2, <2>3
<1>8. CASE Serve
  <2>1. UNCHANGED <<turn, doc, left, call, lost>>
    BY <1>8 DEF Serve, control_vars
  <2>2. /\ DOMAIN queue' = 1..(Len(queue) - 1) /\ DOMAIN queue = 1..Len(queue)
        /\ Len(queue) \in Nat \ {0}
        /\ \A i \in DOMAIN queue' : queue'[i] = queue[i + 1]
    BY <1>0, <1>8 DEF Serve, TypeOK
  <2>3. (\A i \in DOMAIN queue : queue[i].ask.cfg = doc.cfg[queue[i].ask.dom])
          => /\ \A i \in DOMAIN queue' : queue'[i].ask.cfg = doc.cfg[queue'[i].ask.dom]
             /\ \A d \in Domains : fol.cfg[d] = doc.cfg[d] => fol'.cfg[d] = doc.cfg[d]
    BY SMTT(40), <1>8, <2>2, ServeFacts
  <2>4. queue # <<>>
    BY <1>8 DEF Serve
  <2>5. QED
    BY <2>1, <2>3, <2>4 DEF ShownInv
<1>9. CASE CrashFollower
  BY <1>9 DEF CrashFollower, control_vars, ShownInv
<1>10. CASE StartFollower
  <2>1. UNCHANGED <<turn, doc, left, call, queue>> /\ (~lost' => ~lost /\ fol' = fol)
    BY <1>10 DEF StartFollower, control_vars
  <2>2. QED
    BY <2>1 DEF ShownInv
<1>11. CASE StartControl \/ Elsewhere \/ Purge \/ UNCHANGED vars
  <2>1. UNCHANGED <<turn, doc, left, call, queue, fol, lost>>
    BY <1>11 DEF StartControl, Elsewhere, Purge, vars, control_vars, follower_vars
  <2>2. QED
    BY <2>1 DEF ShownInv
<1>12. QED
  BY <1>1, <1>2, <1>3, <1>4, <1>5, <1>6, <1>7, <1>8, <1>9, <1>10, <1>11
     DEF Next, ActorStep, FollowerStep, Fault, RenderFails, CommitFails

\* A turn that has delivered every domain leaves the follower with its document.
LEMMA AllDelivered ==
  ASSUME Inv, ShownInv, turn \in Complete, left = Done
  PROVE  queue = <<>> /\ (~lost => fol.cfg = doc.cfg)
<1>1. Domains # {} /\ left.rest = {} /\ left.own = {} /\ call = Idle
  BY FollowerAssumption DEF Domains, Done, Todo, Inv, WireInv
<1>2. queue = <<>> /\ (~lost => \A d \in Domains : fol.cfg[d] = doc.cfg[d])
  BY <1>1 DEF ShownInv
<1>3. fol.cfg \in [Domains -> Configs \cup {"none"}] /\ doc.cfg \in [Domains -> Configs]
  BY DEF Inv, TypeOK, TurnInv, Held, Envelope, Documents, Complete
<1>4. QED
  BY <1>2, <1>3

\* Every step keeps a settled follower at the durable document.
LEMMA SettledStep == ASSUME Inv, ShownInv, SettledInv, [Next]_vars PROVE SettledInv'
<1>1. CASE Commit
  <2>1. queue = <<>> /\ (~lost => fol.cfg = doc.cfg)
    BY <1>1, AllDelivered DEF Commit, Complete
  <2>2. QED
    BY <1>1, <2>1 DEF Commit, End, SettledInv, SettledAgrees, follower_vars
<1>2. CASE TurnDone
  <2>1. queue = <<>> /\ (~lost => fol.cfg = doc.cfg)
    BY <1>2, AllDelivered DEF TurnDone, Complete
  <2>2. QED
    BY <1>2, <2>1 DEF TurnDone, End, SettledInv, SettledAgrees, follower_vars
<1>3. CASE synced' = FALSE
  BY <1>3 DEF SettledInv, SettledAgrees
<1>4. CASE UNCHANGED <<turn, synced, lost, saved, fol, queue>>
  BY <1>4 DEF SettledInv, SettledAgrees
<1>5. CASE turn # "none" /\ synced' = synced
  BY <1>3, <1>5 DEF SettledInv, Inv, TypeOK
<1>6. CASE Serve
  <2>1. UNCHANGED <<turn, synced, lost, saved>> /\ queue # <<>>
    BY <1>6 DEF Serve, control_vars
  <2>2. QED
    BY <2>1 DEF SettledInv, SettledAgrees
<1>7. CASE CrashFollower
  BY <1>7 DEF CrashFollower, control_vars, SettledInv, SettledAgrees
<1>8. CASE StartFollower
  <2>1. UNCHANGED <<turn, synced, saved, queue>> /\ (~lost' => ~lost /\ fol' = fol)
    BY <1>8 DEF StartFollower, control_vars
  <2>2. QED
    BY <2>1 DEF SettledInv, SettledAgrees
<1>9. CASE Send \/ Refused \/ Receive \/ Timeout
  <2>1. call # Idle /\ synced' = synced
    BY <1>9 DEF Send, Refused, Receive, Timeout, TryFailed, GiveUp, Ahead, Acknowledged, Ask,
       Delivered, Inv, WireInv
  <2>2. turn # "none"
    BY <2>1 DEF Inv, TurnInv
  <2>3. QED
    BY <1>5, <2>1, <2>2
<1>10. CASE CheckDone \/ Start \/ RenderFails \/ CommitFails
  BY <1>5, <1>10 DEF CheckDone, Start, RenderFails, CommitFails, GiveUp
<1>11. CASE StartControl
  BY <1>4, <1>11 DEF StartControl, follower_vars
<1>12. QED
  BY <1>1, <1>2, <1>3, <1>4, <1>6, <1>7, <1>8, <1>9, <1>10, <1>11
     DEF Next, ActorStep, FollowerStep, Fault, Submit, Replay, CrashControl, Reboot, Elsewhere,
     Purge, vars, control_vars, follower_vars

\* The control plane and the follower start with nothing delivered.
LEMMA InitDelivery == Init => DeliveryInv
BY DEF Init, DeliveryInv, OrderInv, AskInv, ShownInv, SettledInv, SettledAgrees, Complete,
   NoReply

\* The deliveries keep their meaning throughout.
THEOREM DeliveryHolds == Spec => [](Inv /\ DeliveryInv)
<1>1. Inv /\ DeliveryInv /\ [Next]_vars => DeliveryInv'
  BY OrderStep, AskStep, ShownStep, SettledStep DEF DeliveryInv
<1>2. QED
  BY InvHolds, InitDelivery, <1>1, PTL DEF Spec

\* After a commit, an undo or a replay that ended well the follower shows the
\* durable document and nothing late is on its way to it, whatever was refused,
\* timed out, retried or sent by a process that died (follower.rs `deliver`).
THEOREM SettledAgreesHolds == Spec => []SettledAgrees
<1>1. DeliveryInv => SettledAgrees
  BY DEF DeliveryInv, SettledInv
<1>2. QED
  BY DeliveryHolds, <1>1, PTL

\* A change is committed only with every domain it touches shown by the follower
\* (lib.rs `submit`, follower.rs `deliver`).
THEOREM CommitsWhatIsShownHolds == Spec => CommitsWhatIsShown
<1>1. ASSUME Inv, DeliveryInv, [Next]_vars, saved'.cfg # saved.cfg, purges' = purges
      PROVE  lost \/ \A d \in plan : fol.cfg[d] = saved'.cfg[d]
  <2>1. Commit
    <3>1. ~Purge
      BY <1>1 DEF Purge, Inv, TypeOK
    <3>2. ~Elsewhere
      BY <1>1 DEF Elsewhere
    <3>3. QED
      BY <1>1, <3>1, <3>2 DEF Next, ActorStep, FollowerStep, Fault, Submit, CheckDone, Replay,
         TurnDone, RenderFails, CommitFails, GiveUp, Start, Send, Refused, Timeout, TryFailed,
         Receive, Ahead, Acknowledged, Ask, Delivered, Serve, CrashControl, StartControl,
         CrashFollower, StartFollower, Reboot, vars, control_vars
  <2>2. ~lost => fol.cfg = saved'.cfg
    BY <1>1, <2>1, AllDelivered DEF Commit, DeliveryInv, Complete
  <2>3. QED
    BY <2>2
<1>2. Inv /\ DeliveryInv /\ [Next]_vars
        => [saved'.cfg # saved.cfg /\ purges' = purges
              => lost \/ \A d \in plan : fol.cfg[d] = saved'.cfg[d]]_vars
  BY <1>1
<1>3. QED
  BY DeliveryHolds, <1>2, PTL DEF Spec, CommitsWhatIsShown

\* No step of a delivery slips: a commit waits for the follower, and a follower
\* goes back only on a reset (lib.rs `submit`, follower_protocol.rs `check`).
THEOREM DeliveryIsSafeHolds == Spec => DeliveryIsSafe
  BY CommitsWhatIsShownHolds, NoSilentRegressHolds DEF DeliveryIsSafe
===============================================================================
