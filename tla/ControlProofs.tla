------------------------------ MODULE ControlProofs ------------------------------
(***************************************************************************)
(* Proofs about UiStore, Sessions, Applier and Supervisor, four parts of   *)
(* the control process and its page that share no state.                   *)
(*                                                                         *)
(* UiStore, for any number of commits, lost events and failed fetches, any *)
(* size of the bus and any fields the other sessions write: what the page  *)
(* shows was committed, what was announced on its stream is shown when it  *)
(* comes to rest, and a save of the discovery form replaces nothing of     *)
(* another session that the form did not show.  The argument is UiInv:     *)
(* what the events on the way, the job in hand, the snapshot, the forms    *)
(* and their saves say of the revisions of the device.                     *)
(*                                                                         *)
(* Sessions, for any clients, addresses, passwords and limits: only who    *)
(* knows the password in force acts, or changes it.  The argument is       *)
(* SesInv: one password was ever written with each stamp, so that equal    *)
(* stamps mean equal passwords.                                            *)
(*                                                                         *)
(* Applier, for any number of writes, faults and restarts: what it skips   *)
(* is in effect and what it reports is real, unless a request it gave up   *)
(* took effect late.  The argument is AplInv: where each step of a         *)
(* transaction, a rollback or a replay has brought the machine.            *)
(*                                                                         *)
(* Supervisor, for any outputs and sources and any capacity of the two     *)
(* channels: nothing that recovery does overrules an operator, and what it *)
(* submits is still wanted.  The argument is SupInv: of a source that      *)
(* somebody chose, the last activity not yet read is such a choice, and    *)
(* once it was read it holds its output.                                   *)
(***************************************************************************)
EXTENDS UiStore, Sessions, Applier, Supervisor, Integers, SequenceTheorems, TLAPS

\* The page and its event path by themselves, without what the scheduler owes them.
UiSafe == UiInit /\ [][UiNext]_uiVars

-------------------------------------------------------------------------------
(* The inductive invariant.                                                    *)

UiDocs == [UiFields -> Nat]
UiMessages == [kind : {"changed", "resync"}, rev : Nat, domains : SUBSET UiDomains]
UiJobs == [kind : {"changed", "reload"}, rev : Nat, domains : SUBSET UiDomains,
           by : Editors \cup {"page"}]
UiSaves == [at : {"idle", "sent", "accepted", "refused", "reloading"}, k : Nat, expect : Nat,
            from : Nat, seen : UiDocs, ok : BOOLEAN, last : Nat]

\* The revisions so far, and whose they are.
HistInv ==
    /\ uiHist \in Seq(UiDocs) /\ Now >= 1
    /\ \A r \in 1 .. Now, f \in UiFields : uiHist[r][f] <= Now
    /\ uiOthers \subseteq 1 .. Now

\* What an announcement says of its revision.
ChangedIn(r) == {UiDomain(f) : f \in {g \in UiFields : uiHist[r][g] # uiHist[r - 1][g]}}
Announces(m) == m.rev \in 2 .. Now /\ m.domains = ChangedIn(m.rev)

\* Bus, hub and store carry announcements as they were made.
In(seq) == {seq[i] : i \in DOMAIN seq}
Truthful(messages) == \A m \in messages : m.kind = "changed" => Announces(m)
PathInv ==
    /\ uiBus \in Seq(UiMessages) /\ uiPipe \in Seq(UiMessages) /\ uiQueue \in Seq(UiJobs)
    /\ Len(uiBus) <= UiCap /\ Len(uiPipe) <= UiCap /\ (uiPipe = <<>> => ~uiPipeLag)
    /\ uiStream \in {"none", "opening", "open"} /\ uiTold \in 0 .. Now
    /\ Truthful(In(uiBus)) /\ Truthful(In(uiPipe)) /\ Truthful(In(uiQueue))

\* What was read is a revision of the device, and so is what is shown.
SnapInv ==
    /\ uiGot \in [UiDomains \cup {"whole"} -> 0 .. Now]
    /\ uiSnap \in [rev : 0 .. Now, doc : UiDocs]
    /\ ShownWasCommitted

\* Something between the hub and the snapshot will show what was announced.
Covers(m) == m.kind # "changed" \/ m.rev >= uiTold
Ahead(jobs) == uiPipeLag \/ \E m \in In(uiPipe) \cup jobs : Covers(m)
ToldInv ==
    /\ uiGot["whole"] # 0 => uiQueue # <<>> /\ ~Outdated(Head(uiQueue))
    /\ uiStream = "open" =>
         /\ ~uiLost => uiSnap.rev >= uiTold \/ Ahead(In(uiQueue))
         /\ uiGot["whole"] # 0 => uiGot["whole"] >= uiTold \/ Ahead(In(Tail(uiQueue)))

\* The save of a form: what it is based on, and what it has written.
SaveOK(e) ==
    /\ uiSave[e].at # "idle" => /\ uiSnap.rev # 0 /\ uiSave[e].k \in 1 .. Len(Chain(e))
                                /\ uiSave[e].expect \in 1 .. Now /\ uiSave[e].from \in 1 .. Now
    /\ uiDirty[e] => uiSave[e].at = "idle" /\ uiBase[e] # 0 /\ uiSnap.rev # 0
    /\ uiSave[e].at \in {"accepted", "reloading"} =>
          /\ uiSave[e].last = uiSave[e].expect + 1 /\ uiSave[e].last \in 2 .. Now
          /\ ~uiStale => uiHist[uiSave[e].last]["grp"]
                           \in {uiSave[e].last, uiHist[uiSave[e].expect]["grp"]}
          /\ e = "discovery" => uiHist[uiSave[e].last]["grp"] = uiSave[e].last
          /\ uiSave[e].last \notin uiOthers
SaveInv ==
    /\ uiSave \in [Editors -> UiSaves] /\ uiDirty \in [Editors -> BOOLEAN]
    /\ uiSave["discovery"].ok
    /\ \A e \in Editors : SaveOK(e)

\* The discovery form shows what another session wrote into the revision it
\* was filled from, and a save that is sent did.
Shows(doc, r) == uiHist[r]["grp"] \in uiOthers => doc["grp"] = uiHist[r]["grp"]
FormInv ==
    /\ uiBase \in [Editors -> 0 .. Now] /\ uiForm \in UiDocs /\ uiStale \in BOOLEAN
    /\ uiSnap.rev # 0 => \A e \in Editors : uiBase[e] # 0
    /\ ~uiStale =>
         /\ uiBase["discovery"] # 0 /\ uiSave["discovery"].at # "reloading"
              => Shows(uiForm, uiBase["discovery"])
         /\ uiSave["discovery"].at = "sent" => Shows(uiSave["discovery"].seen, uiSave["discovery"].expect)

UiInv == HistInv /\ PathInv /\ SnapInv /\ ToldInv /\ SaveInv /\ FormInv
-------------------------------------------------------------------------------
(* Sequences and what they hold.                                               *)

\* A sequence with one more element.
LEMMA InAppend ==
    ASSUME NEW T, NEW s \in Seq(T), NEW x \in T
    PROVE  /\ Append(s, x) \in Seq(T) /\ Append(s, x) # <<>>
           /\ Len(Append(s, x)) = Len(s) + 1 /\ In(Append(s, x)) = In(s) \cup {x}
<1>1. /\ Append(s, x) \in Seq(T) /\ Len(Append(s, x)) = Len(s) + 1
      /\ \A i \in 1 .. Len(s) : Append(s, x)[i] = s[i]
      /\ Append(s, x)[Len(s) + 1] = x
  BY AppendProperties
<1>2. DOMAIN s = 1 .. Len(s) /\ Len(s) \in Nat /\ DOMAIN Append(s, x) = 1 .. Len(s) + 1
  BY <1>1, LenProperties
<1>3. Append(s, x) # <<>>
  BY <1>1, <1>2, EmptySeq
<1>4. ASSUME NEW y \in In(Append(s, x)) PROVE y \in In(s) \cup {x}
  <2>1. PICK i \in DOMAIN Append(s, x) : y = Append(s, x)[i]
    BY DEF In
  <2>2. CASE i \in 1 .. Len(s)
    BY <1>1, <1>2, <2>1, <2>2 DEF In
  <2>3. CASE i = Len(s) + 1
    BY <1>1, <2>1, <2>3
  <2> QED
    BY <1>2, <2>1, <2>2, <2>3
<1>5. ASSUME NEW y \in In(s) \cup {x} PROVE y \in In(Append(s, x))
  <2>1. CASE y = x
    BY <1>1, <1>2, <2>1 DEF In
  <2>2. CASE y \in In(s)
    <3>1. PICK i \in DOMAIN s : y = s[i]
      BY <2>2 DEF In
    <3>2. i \in 1 .. Len(s) + 1 /\ Append(s, x)[i] = y
      BY <1>1, <1>2, <3>1
    <3> QED
      BY <1>2, <3>2 DEF In
  <2> QED
    BY <2>1, <2>2
<1> QED
  BY <1>1, <1>3, <1>4, <1>5

\* A sequence without its head.
LEMMA InTail ==
    ASSUME NEW T, NEW s \in Seq(T), s # <<>>
    PROVE  /\ Tail(s) \in Seq(T) /\ Head(s) \in T /\ Head(s) \in In(s)
           /\ Len(Tail(s)) = Len(s) - 1 /\ In(s) = {Head(s)} \cup In(Tail(s))
           /\ In(s) \subseteq T
<1>1. /\ Tail(s) \in Seq(T) /\ Head(s) = s[1] /\ Len(Tail(s)) = Len(s) - 1
      /\ \A i \in 1 .. Len(Tail(s)) : Tail(s)[i] = s[i + 1]
  BY HeadTailProperties
<1>2. /\ DOMAIN s = 1 .. Len(s) /\ Len(s) \in Nat /\ DOMAIN Tail(s) = 1 .. Len(s) - 1
      /\ Len(s) >= 1
  BY <1>1, LenProperties, EmptySeq
<1>3. s[1] \in T /\ s[1] \in In(s) /\ In(s) \subseteq T
  BY <1>2, ElementOfSeq DEF In
<1>4. ASSUME NEW y \in In(s) PROVE y \in {Head(s)} \cup In(Tail(s))
  <2>1. PICK i \in 1 .. Len(s) : y = s[i]
    BY <1>2 DEF In
  <2>2. CASE i = 1
    BY <1>1, <2>1, <2>2
  <2>3. CASE i # 1
    <3>1. i - 1 \in 1 .. Len(s) - 1 /\ (i - 1) + 1 = i
      BY <1>2, <2>1, <2>3
    <3>2. Tail(s)[i - 1] = y
      BY <1>1, <2>1, <3>1
    <3> QED
      BY <1>2, <3>1, <3>2 DEF In
  <2> QED
    BY <2>2, <2>3
<1>5. ASSUME NEW y \in In(Tail(s)) PROVE y \in In(s)
  <2>1. PICK i \in 1 .. Len(s) - 1 : y = Tail(s)[i]
    BY <1>2 DEF In
  <2>2. i + 1 \in 1 .. Len(s) /\ y = s[i + 1]
    BY <1>1, <1>2, <2>1
  <2> QED
    BY <1>2, <2>2 DEF In
<1> QED
  BY <1>1, <1>3, <1>4, <1>5

\* A full buffer gives up its oldest message and nothing else.
LEMMA SentHolds ==
    ASSUME NEW s \in Seq(UiMessages), Len(s) <= UiCap, NEW m \in UiMessages
    PROVE  /\ Sent(s, m) \in Seq(UiMessages) /\ Len(Sent(s, m)) <= UiCap
           /\ In(Sent(s, m)) \subseteq In(s) \cup {m} /\ m \in In(Sent(s, m))
           /\ Len(s) # UiCap => In(Sent(s, m)) = In(s) \cup {m}
<1>1. UiCap \in Nat \ {0} /\ Len(s) \in Nat
  BY UiAssumption, LenProperties DEF UiAssumption
<1>2. CASE Len(s) = UiCap
  <2>1. s # <<>>
    BY <1>1, <1>2, EmptySeq
  <2>2. Tail(s) \in Seq(UiMessages) /\ Len(Tail(s)) = Len(s) - 1 /\ In(Tail(s)) \subseteq In(s)
    BY <2>1, InTail
  <2>3. PICK t \in Seq(UiMessages) : t = Tail(s)
    BY <2>2
  <2>4. /\ Append(t, m) \in Seq(UiMessages)
        /\ Len(Append(t, m)) = Len(t) + 1 /\ In(Append(t, m)) = In(t) \cup {m}
    BY InAppend
  <2> QED
    BY <1>1, <1>2, <2>2, <2>3, <2>4 DEF Sent
<1>3. CASE Len(s) # UiCap
  <2>1. /\ Append(s, m) \in Seq(UiMessages)
        /\ Len(Append(s, m)) = Len(s) + 1 /\ In(Append(s, m)) = In(s) \cup {m}
    BY InAppend
  <2> QED
    BY <1>1, <1>3, <2>1 DEF Sent
<1> QED
  BY <1>2, <1>3
-------------------------------------------------------------------------------
(* The revisions.                                                              *)

\* What a commit adds: a revision with its own number, and nothing to the others.
LEMMA CommittedEffect ==
    ASSUME HistInv, NEW doc \in UiDocs, \A f \in UiFields : doc[f] <= Now + 1,
           uiHist' = Append(uiHist, doc)
    PROVE  /\ uiHist' \in Seq(UiDocs) /\ Now' = Now + 1 /\ Now \in Nat
           /\ \A r \in 1 .. Now : uiHist'[r] = uiHist[r]
           /\ uiHist'[Now + 1] = doc
           /\ \A r \in 1 .. Now', f \in UiFields : uiHist'[r][f] <= Now'
<1>1. /\ uiHist' \in Seq(UiDocs) /\ Len(uiHist') = Len(uiHist) + 1
      /\ \A r \in 1 .. Len(uiHist) : uiHist'[r] = uiHist[r]
      /\ uiHist'[Len(uiHist) + 1] = doc
  BY AppendProperties DEF HistInv
<1>2. Len(uiHist) \in Nat
  BY LenProperties DEF HistInv
<1>3. ASSUME NEW r \in 1 .. Now', NEW f \in UiFields
      PROVE  uiHist'[r][f] <= Now'
  <2>1. CASE r \in 1 .. Now
    <3>1. uiHist'[r][f] <= Now /\ uiHist'[r] \in UiDocs
      BY <1>1, <1>2, <2>1, ElementOfSeq DEF HistInv, Now
    <3>2. uiHist'[r][f] \in Nat
      BY <3>1 DEF UiDocs
    <3> QED
      BY <1>1, <1>2, <3>1, <3>2 DEF Now
  <2>2. CASE r = Now + 1
    BY <1>1, <1>2, <2>2 DEF Now
  <2> QED
    BY <1>1, <1>2, <2>1, <2>2 DEF Now
<1> QED
  BY <1>1, <1>2, <1>3 DEF Now

LEMMA HistIsNumbers ==
    ASSUME HistInv, NEW r \in 1 .. Now
    PROVE  uiHist[r] \in UiDocs /\ r \in Nat /\ Now \in Nat
  BY ElementOfSeq, LenProperties DEF HistInv, Now

\* A command writes its field anew; what else it writes was there before.
LEMMA ComposedIsDocument ==
    ASSUME UiInv, NEW e \in Editors, uiSave[e].at = "sent"
    PROVE  /\ ComposedWrite(e) \in UiDocs
           /\ \A f \in UiFields : ComposedWrite(e)[f] <= Now + 1
<1>1. uiSave[e].from \in 1 .. Now /\ Now \in Nat /\ Now >= 1
  BY LenProperties DEF UiInv, SaveInv, SaveOK, HistInv, Now
<1>2. PICK a : a = uiHist[uiSave[e].from]
  OBVIOUS
<1>3. PICK b : b = uiHist[Now]
  OBVIOUS
<1>4. a \in UiDocs /\ b \in UiDocs /\ \A f \in UiFields : a[f] <= Now /\ b[f] <= Now
  BY <1>1, <1>2, <1>3, HistIsNumbers DEF UiInv, HistInv
<1>5. ASSUME NEW f \in UiFields
      PROVE  ComposedWrite(e)[f] \in Nat /\ ComposedWrite(e)[f] <= Now + 1
  <2>1. a[f] \in Nat /\ b[f] \in Nat /\ a[f] <= Now /\ b[f] <= Now
    BY <1>4 DEF UiDocs
  <2>2. ComposedWrite(e)[f] \in {Now + 1, a[f], b[f]}
    BY <1>2, <1>3 DEF ComposedWrite
  <2> QED
    BY <1>1, <2>1, <2>2
<1>6. ComposedWrite(e) = [f \in UiFields |-> ComposedWrite(e)[f]]
  BY DEF ComposedWrite
<1> QED
  BY <1>5, <1>6 DEF UiDocs

\* Steps that leave the device as it is.
Quiet == UNCHANGED <<uiHist, uiOthers>>

\* A step leaves the device as it is, or adds a revision to it.
LEMMA StepsOnDevice ==
    ASSUME [UiNext]_uiVars
    PROVE  Quiet \/ OtherCommit \/ \E e \in Editors : CommandAccepted(e)
  BY DEF UiNext, uiVars, uiPath, uiForms, Quiet, FollowState, Subscribed, StreamEvent, StreamError,
     Reconnect, FetchDomain, FetchWhole, Fetch, JobDone, JobFails, EditorStep, Edit, SaveClicked,
     CommandRefused, SaveDeclined, CommandReply, NextCommand, UiRest

\* The past stays: revisions are only added.
LEMMA HistGrows ==
    ASSUME UiInv, [UiNext]_uiVars
    PROVE  /\ HistInv' /\ Now \in Nat /\ Now' \in Nat /\ Now' >= Now
           /\ \A r \in 1 .. Now : uiHist'[r] = uiHist[r] /\ (r \in uiOthers' <=> r \in uiOthers)
<1>0. Now \in Nat /\ Now >= 1
  BY LenProperties DEF UiInv, HistInv, Now
<1>1. CASE Quiet
  BY <1>0, <1>1 DEF Quiet, UiInv, HistInv, Now
<1>2. CASE OtherCommit
  <2>1. PICK f \in UiFields : Committed([uiHist[Now] EXCEPT ![f] = Now + 1])
    BY <1>2, UiAssumption DEF OtherCommit, UiAssumption
  <2>2. PICK b : b = uiHist[Now]
    OBVIOUS
  <2>3. b \in UiDocs /\ \A g \in UiFields : b[g] <= Now
    BY <1>0, <2>2, HistIsNumbers DEF UiInv, HistInv
  <2>4. PICK doc : doc = [b EXCEPT ![f] = Now + 1]
    OBVIOUS
  <2>5. doc \in UiDocs
    BY <1>0, <2>3, <2>4 DEF UiDocs
  <2>6. \A g \in UiFields : doc[g] <= Now + 1
    <3> TAKE g \in UiFields
    <3>1. doc[g] \in {b[g], Now + 1} /\ b[g] \in Nat /\ b[g] <= Now
      BY <2>3, <2>4 DEF UiDocs
    <3> QED
      BY <1>0, <3>1
  <2>7. uiHist' = Append(uiHist, doc)
    BY <2>1, <2>2, <2>4 DEF Committed
  <2>8. uiOthers' = uiOthers \cup {Now + 1}
    BY <1>2 DEF OtherCommit
  <2>9. /\ uiHist' \in Seq(UiDocs) /\ Now' = Now + 1
        /\ \A r \in 1 .. Now : uiHist'[r] = uiHist[r]
        /\ \A r \in 1 .. Now', g \in UiFields : uiHist'[r][g] <= Now'
    BY <2>5, <2>6, <2>7, CommittedEffect DEF UiInv
  <2>10. uiOthers \subseteq 1 .. Now
    BY DEF UiInv, HistInv
  <2>11. /\ Now' \in Nat /\ Now' >= Now /\ Now' >= 1
         /\ 1 .. Now \subseteq 1 .. Now' /\ Now + 1 \in 1 .. Now'
         /\ \A r \in 1 .. Now : r # Now + 1
    BY <1>0, <2>9
  <2>12. uiOthers' \subseteq 1 .. Now'
    BY <2>8, <2>10, <2>11
  <2>13. \A r \in 1 .. Now : r \in uiOthers' <=> r \in uiOthers
    BY <2>8, <2>11
  <2> QED
    BY <1>0, <2>9, <2>11, <2>12, <2>13 DEF HistInv
<1>3. ASSUME NEW e \in Editors, CommandAccepted(e)
      PROVE  /\ HistInv' /\ Now' \in Nat /\ Now' >= Now
             /\ \A r \in 1 .. Now : uiHist'[r] = uiHist[r] /\ (r \in uiOthers' <=> r \in uiOthers)
  <2>1. PICK doc : doc = ComposedWrite(e)
    OBVIOUS
  <2>2. doc \in UiDocs /\ \A f \in UiFields : doc[f] <= Now + 1
    BY <1>3, <2>1, ComposedIsDocument DEF CommandAccepted
  <2>3. uiHist' = Append(uiHist, doc) /\ uiOthers' = uiOthers
    BY <1>3, <2>1 DEF CommandAccepted, Committed
  <2>4. /\ uiHist' \in Seq(UiDocs) /\ Now' = Now + 1
        /\ \A r \in 1 .. Now : uiHist'[r] = uiHist[r]
        /\ \A r \in 1 .. Now', f \in UiFields : uiHist'[r][f] <= Now'
    BY <2>2, <2>3, CommittedEffect DEF UiInv
  <2>5. uiOthers \subseteq 1 .. Now
    BY DEF UiInv, HistInv
  <2>6. uiOthers' = uiOthers /\ uiOthers' \subseteq 1 .. Now'
    BY <1>0, <2>3, <2>4, <2>5
  <2>7. HistInv'
    BY <1>0, <2>4, <2>6 DEF HistInv
  <2> QED
    BY <1>0, <2>4, <2>6, <2>7
<1> QED
  BY <1>0, <1>1, <1>2, <1>3, StepsOnDevice
-------------------------------------------------------------------------------
(* The event path.                                                             *)

\* What was announced stays true.
LEMMA AnnouncesKept ==
    ASSUME UiInv, [UiNext]_uiVars, NEW m, Announces(m)
    PROVE  Announces(m)'
<1>1. m.rev \in 2 .. Now /\ m.domains = ChangedIn(m.rev)
  BY DEF Announces
<1>2. m.rev \in 1 .. Now /\ m.rev - 1 \in 1 .. Now /\ m.rev \in 2 .. Now'
  BY <1>1, HistGrows
<1>3. uiHist'[m.rev] = uiHist[m.rev] /\ uiHist'[m.rev - 1] = uiHist[m.rev - 1]
  BY <1>2, HistGrows
<1>4. ChangedIn(m.rev)' = ChangedIn(m.rev)
  BY <1>3 DEF ChangedIn
<1> QED
  BY <1>1, <1>2, <1>4 DEF Announces

LEMMA TruthfulKept ==
    ASSUME UiInv, [UiNext]_uiVars, NEW ms, Truthful(ms)
    PROVE  \A m \in ms : m.kind = "changed" => Announces(m)'
<1> TAKE m \in ms
<1> HAVE m.kind = "changed"
<1>1. Announces(m)
  BY DEF Truthful
<1> QED
  BY <1>1, AnnouncesKept

\* A commit announces what it changed.
LEMMA CommitAnnounces ==
    ASSUME UiInv, [UiNext]_uiVars, NEW doc \in UiDocs, Committed(doc),
           \A f \in UiFields : doc[f] <= Now + 1
    PROVE  \E m \in UiMessages : uiBus' = Sent(uiBus, m) /\ Announces(m)'
<1>0. Now \in Nat /\ Now >= 1 /\ uiHist' = Append(uiHist, doc)
  BY LenProperties DEF UiInv, HistInv, Now, Committed
<1>1. /\ Now' = Now + 1 /\ \A r \in 1 .. Now : uiHist'[r] = uiHist[r]
      /\ uiHist'[Now + 1] = doc
  BY <1>0, CommittedEffect DEF UiInv
<1>2. PICK m : m = Msg("changed", Now + 1, {UiDomain(f) : f \in {g \in UiFields : doc[g] # uiHist[Now][g]}})
  OBVIOUS
<1>3. /\ m.rev = Now + 1 /\ m \in UiMessages
      /\ m.domains = {UiDomain(f) : f \in {g \in UiFields : doc[g] # uiHist[Now][g]}}
  BY <1>0, <1>2 DEF Msg, UiMessages, UiDomain, UiDomains
<1>4. m.rev - 1 = Now /\ uiHist'[m.rev] = doc /\ uiHist'[m.rev - 1] = uiHist[Now]
  <2>1. PICK n \in Nat : n = Now /\ n >= 1
    BY <1>0
  <2>2. PICK r \in Nat : r = m.rev
    BY <1>0, <1>3
  <2>3. r = n + 1 /\ r - 1 = n /\ n \in 1 .. Now
    <3>1. r = n + 1
      BY <1>3, <2>1, <2>2, Zenon
    <3> QED
      BY <2>1, <3>1
  <2> QED
    BY <1>1, <1>3, <2>1, <2>2, <2>3
<1>5. ChangedIn(m.rev)' = m.domains
  <2>1. ChangedIn(m.rev)' = {UiDomain(f) : f \in {g \in UiFields : uiHist'[m.rev][g] # uiHist'[m.rev - 1][g]}}
    BY Zenon DEF ChangedIn
  <2> QED
    BY <1>3, <1>4, <2>1, Zenon
<1>6. m.rev \in 2 .. Now'
  BY <1>0, <1>1, <1>3
<1> QED
  BY <1>2, <1>3, <1>5, <1>6 DEF Announces, Committed

\* Both commits, as the bus sees them.
LEMMA BusSteps ==
    ASSUME UiInv, [UiNext]_uiVars
    PROVE  \/ uiBus' = uiBus
           \/ uiBus # <<>> /\ uiBus' = Tail(uiBus)
           \/ \E m \in UiMessages : uiBus' = Sent(uiBus, m) /\ Announces(m)'
<1>0. Now \in Nat /\ Now >= 1
  BY LenProperties DEF UiInv, HistInv, Now
<1>1. CASE OtherCommit
  <2>1. PICK f \in UiFields : Committed([uiHist[Now] EXCEPT ![f] = Now + 1])
    BY <1>1, UiAssumption DEF OtherCommit, UiAssumption
  <2>2. PICK b : b = uiHist[Now]
    OBVIOUS
  <2>3. b \in UiDocs /\ \A g \in UiFields : b[g] <= Now
    BY <1>0, <2>2, HistIsNumbers DEF UiInv, HistInv
  <2>4. PICK doc : doc = [b EXCEPT ![f] = Now + 1]
    OBVIOUS
  <2>5. doc \in UiDocs
    BY <1>0, <2>3, <2>4 DEF UiDocs
  <2>6. \A g \in UiFields : doc[g] <= Now + 1
    <3> TAKE g \in UiFields
    <3>1. doc[g] \in {b[g], Now + 1} /\ b[g] \in Nat /\ b[g] <= Now
      BY <2>3, <2>4 DEF UiDocs
    <3> QED
      BY <1>0, <3>1
  <2>7. Committed(doc)
    BY <2>1, <2>2, <2>4
  <2> QED
    BY <2>5, <2>6, <2>7, CommitAnnounces
<1>2. ASSUME NEW e \in Editors, CommandAccepted(e)
      PROVE  \E m \in UiMessages : uiBus' = Sent(uiBus, m) /\ Announces(m)'
  <2>1. PICK doc : doc = ComposedWrite(e)
    OBVIOUS
  <2>2. doc \in UiDocs /\ \A f \in UiFields : doc[f] <= Now + 1
    BY <1>2, <2>1, ComposedIsDocument DEF CommandAccepted
  <2>3. Committed(doc)
    BY <1>2, <2>1 DEF CommandAccepted
  <2> QED
    BY <2>2, <2>3, CommitAnnounces
<1>3. CASE FollowState
  BY <1>3 DEF FollowState
<1>4. CASE \/ UNCHANGED uiVars \/ Subscribed \/ StreamEvent \/ StreamError \/ Reconnect
           \/ FetchDomain \/ FetchWhole \/ JobDone \/ JobFails \/ UiRest
  BY <1>4 DEF uiVars, uiPath, Subscribed, StreamEvent, StreamError, Reconnect, FetchDomain,
     FetchWhole, Fetch, JobDone, JobFails, UiRest
<1>5. ASSUME NEW e \in Editors,
             \/ Edit(e) \/ SaveClicked(e) \/ CommandRefused(e) \/ SaveDeclined(e)
             \/ CommandReply(e) \/ NextCommand(e)
      PROVE  uiBus' = uiBus
  BY <1>5 DEF uiPath, Edit, SaveClicked, CommandRefused, SaveDeclined, CommandReply, NextCommand
<1> QED
  BY <1>1, <1>2, <1>3, <1>4, <1>5 DEF UiNext, EditorStep

LEMMA BusKept ==
    ASSUME UiInv, [UiNext]_uiVars
    PROVE  /\ uiBus' \in Seq(UiMessages) /\ Len(uiBus') <= UiCap
           /\ \A m \in In(uiBus') : m.kind = "changed" => Announces(m)'
<1>0. /\ uiBus \in Seq(UiMessages) /\ Len(uiBus) <= UiCap /\ Truthful(In(uiBus))
      /\ UiCap \in Nat /\ Len(uiBus) \in Nat
  BY LenProperties, UiAssumption DEF UiInv, PathInv, UiAssumption
<1>1. \A m \in In(uiBus) : m.kind = "changed" => Announces(m)'
  BY <1>0, TruthfulKept
<1>2. CASE uiBus' = uiBus
  BY <1>0, <1>1, <1>2
<1>3. CASE uiBus # <<>> /\ uiBus' = Tail(uiBus)
  BY <1>0, <1>1, <1>3, InTail
<1>4. ASSUME NEW m \in UiMessages, uiBus' = Sent(uiBus, m), Announces(m)'
      PROVE  /\ uiBus' \in Seq(UiMessages) /\ Len(uiBus') <= UiCap
             /\ \A n \in In(uiBus') : n.kind = "changed" => Announces(n)'
  <2>1. /\ uiBus' \in Seq(UiMessages) /\ Len(uiBus') <= UiCap
        /\ In(uiBus') \subseteq In(uiBus) \cup {m}
    BY <1>0, <1>4, SentHolds
  <2> QED
    BY <1>1, <1>4, <2>1
<1> QED
  BY <1>2, <1>3, <1>4, BusSteps
\* What the hub sends.
LEMMA FollowEffect ==
    ASSUME UiInv, [UiNext]_uiVars, FollowState
    PROVE  \/ UNCHANGED <<uiPipe, uiPipeLag, uiTold, uiStream>>
           \/ \E m \in UiMessages :
                 /\ uiStream = "open" /\ uiStream' = "open" /\ uiPipe' = Sent(uiPipe, m)
                 /\ uiPipeLag' = (uiPipeLag \/ Len(uiPipe) = UiCap)
                 /\ \/ m.kind = "resync" /\ uiTold' = uiTold
                    \/ m.kind = "changed" /\ Announces(m) /\ uiTold' = m.rev
<1>1. PICK m : /\ m \in UiMessages /\ HubSend(m) /\ (m.kind = "changed" => Announces(m))
  <2>1. uiBus \in Seq(UiMessages) /\ uiBus # <<>> /\ Truthful(In(uiBus))
    BY DEF UiInv, PathInv, FollowState
  <2>2. Head(uiBus) \in UiMessages /\ (Head(uiBus).kind = "changed" => Announces(Head(uiBus)))
    BY <2>1, InTail DEF Truthful
  <2>3. Resync \in UiMessages /\ Resync.kind = "resync"
    BY DEF Resync, Msg, UiMessages
  <2> QED
    BY <2>2, <2>3 DEF FollowState
<1>2. UNCHANGED uiStream
  BY DEF FollowState
<1>3. m.kind \in {"changed", "resync"}
  BY <1>1 DEF UiMessages
<1> QED
  BY <1>1, <1>2, <1>3 DEF HubSend

LEMMA PipeKept ==
    ASSUME UiInv, [UiNext]_uiVars
    PROVE  /\ uiPipe' \in Seq(UiMessages) /\ Len(uiPipe') <= UiCap
           /\ (uiPipe' = <<>> => ~uiPipeLag')
           /\ uiStream' \in {"none", "opening", "open"} /\ uiTold' \in 0 .. Now'
           /\ \A m \in In(uiPipe') : m.kind = "changed" => Announces(m)'
<1>0. /\ (uiPipe = <<>> => ~uiPipeLag)
      /\ uiPipe \in Seq(UiMessages) /\ Len(uiPipe) <= UiCap /\ Truthful(In(uiPipe))
      /\ uiStream \in {"none", "opening", "open"} /\ uiTold \in 0 .. Now
      /\ UiCap \in Nat /\ Len(uiPipe) \in Nat /\ Now \in Nat /\ Now' \in Nat /\ Now' >= Now
  BY LenProperties, UiAssumption, HistGrows DEF UiInv, PathInv, UiAssumption
<1>1. /\ \A m \in In(uiPipe) : m.kind = "changed" => Announces(m)'
      /\ uiTold \in 0 .. Now' /\ 0 \in 0 .. Now'
  BY <1>0, TruthfulKept
<1>2. /\ <<>> \in Seq(UiMessages) /\ Len(<<>>) = 0 /\ In(<<>>) = {}
  BY EmptySeq DEF In
<1>3. CASE FollowState
  <2>1. CASE UNCHANGED <<uiPipe, uiPipeLag, uiTold, uiStream>>
    BY <1>0, <1>1, <2>1
  <2>2. ASSUME NEW m \in UiMessages, uiStream' = "open", uiPipe' = Sent(uiPipe, m),
               \/ m.kind = "resync" /\ uiTold' = uiTold
               \/ m.kind = "changed" /\ Announces(m) /\ uiTold' = m.rev
        PROVE  /\ uiPipe' \in Seq(UiMessages) /\ Len(uiPipe') <= UiCap /\ uiPipe' # <<>>
               /\ uiStream' \in {"none", "opening", "open"} /\ uiTold' \in 0 .. Now'
               /\ \A n \in In(uiPipe') : n.kind = "changed" => Announces(n)'
    <3>1. /\ uiPipe' \in Seq(UiMessages) /\ Len(uiPipe') <= UiCap
          /\ In(uiPipe') \subseteq In(uiPipe) \cup {m} /\ m \in In(uiPipe')
      BY <1>0, <2>2, SentHolds
    <3>2. m.kind = "changed" => Announces(m)'
      BY <2>2, AnnouncesKept
    <3>3. uiTold' \in 0 .. Now'
      BY <1>0, <1>1, <2>2 DEF Announces
    <3>4. uiPipe' # <<>>
      BY <1>2, <3>1
    <3> QED
      BY <1>1, <2>2, <3>1, <3>2, <3>3, <3>4
  <2> QED
    BY <1>3, <2>1, <2>2, FollowEffect
<1>4. CASE Subscribed
  BY <1>0, <1>1, <1>2, <1>4 DEF Subscribed
<1>5. CASE StreamError
  BY <1>0, <1>1, <1>2, <1>5 DEF StreamError
<1>6. CASE StreamEvent
  <2>1. uiPipe # <<>> /\ uiPipe' \in {uiPipe, Tail(uiPipe)} /\ UNCHANGED <<uiStream, uiTold>>
        /\ uiPipeLag' = FALSE
    BY <1>6 DEF StreamEvent
  <2>2. /\ Tail(uiPipe) \in Seq(UiMessages) /\ Len(Tail(uiPipe)) = Len(uiPipe) - 1
        /\ In(Tail(uiPipe)) \subseteq In(uiPipe)
    BY <1>0, <2>1, InTail
  <2>3. PICK t : t = uiPipe'
    OBVIOUS
  <2>4. t \in Seq(UiMessages) /\ Len(t) <= UiCap /\ In(t) \subseteq In(uiPipe)
    <3>1. CASE t = uiPipe
      BY <1>0, <3>1
    <3>2. CASE t = Tail(uiPipe)
      BY <1>0, <2>2, <3>2
    <3> QED
      BY <2>1, <2>3, <3>1, <3>2
  <2> QED
    BY <1>0, <1>1, <2>1, <2>3, <2>4
<1>7. CASE Reconnect
  BY <1>0, <1>1, <1>7 DEF Reconnect
<1>8. CASE \/ UNCHANGED uiVars \/ OtherCommit
           \/ FetchDomain \/ FetchWhole \/ JobDone \/ JobFails \/ UiRest
  <2>1. UNCHANGED <<uiPipe, uiPipeLag, uiStream, uiTold>>
    BY <1>8 DEF uiVars, uiPath, OtherCommit, FetchDomain, FetchWhole, Fetch, JobDone, JobFails, UiRest
  <2> QED
    BY <1>0, <1>1, <2>1
<1>9. ASSUME NEW e \in Editors, EditorStep(e)
      PROVE  UNCHANGED <<uiPipe, uiPipeLag, uiStream, uiTold>>
  BY <1>9 DEF EditorStep, uiPath, Edit, SaveClicked, CommandAccepted, CommandRefused, SaveDeclined,
     CommandReply, NextCommand
<1>10. CASE \E e \in Editors : EditorStep(e)
  BY <1>0, <1>1, <1>9, <1>10
<1> QED
  BY <1>3, <1>4, <1>5, <1>6, <1>7, <1>8, <1>10 DEF UiNext

\* What the store does with its queue.
LEMMA QueueSteps ==
    ASSUME UiInv, [UiNext]_uiVars
    PROVE  \/ uiQueue' = uiQueue
           \/ uiQueue # <<>> /\ uiQueue' = Tail(uiQueue)
           \/ \E e \in Editors \cup {"page"} : uiQueue' = Append(uiQueue, Reload(e))
           \/ \E m \in In(uiPipe) : /\ uiPipe # <<>> /\ m.kind = "changed"
                                    /\ uiQueue' = Append(uiQueue, Job("changed", m.rev, m.domains, "page"))
<1>1. CASE StreamEvent
  <2>1. uiPipe \in Seq(UiMessages) /\ uiPipe # <<>>
    BY <1>1 DEF StreamEvent, UiInv, PathInv
  <2>2. Head(uiPipe) \in In(uiPipe) /\ Head(uiPipe) \in UiMessages
    BY <2>1, InTail
  <2>3. Head(uiPipe).kind \in {"changed", "resync"} /\ Resync.kind = "resync"
    BY <2>2 DEF UiMessages, Resync, Msg
  <2> QED
    BY <1>1, <2>1, <2>2, <2>3 DEF StreamEvent
<1>2. CASE Reconnect
  BY <1>2 DEF Reconnect
<1>3. CASE JobDone \/ JobFails
  BY <1>3 DEF JobDone, JobFails, Running
<1>4. ASSUME NEW e \in Editors, CommandReply(e)
      PROVE  uiQueue' = Append(uiQueue, Reload(e))
  BY <1>4 DEF CommandReply
<1>5. CASE \/ UNCHANGED uiVars \/ OtherCommit \/ FollowState \/ Subscribed \/ StreamError
           \/ FetchDomain \/ FetchWhole \/ UiRest
  BY <1>5 DEF uiVars, uiPath, OtherCommit, FollowState, Subscribed, StreamError, FetchDomain,
     FetchWhole, Fetch, UiRest
<1>6. ASSUME NEW e \in Editors, \/ Edit(e) \/ SaveClicked(e) \/ CommandAccepted(e) \/ CommandRefused(e)
                                \/ SaveDeclined(e) \/ NextCommand(e)
      PROVE  uiQueue' = uiQueue
  BY <1>6 DEF uiPath, Edit, SaveClicked, CommandAccepted, CommandRefused, SaveDeclined, NextCommand
<1> QED
  BY <1>1, <1>2, <1>3, <1>4, <1>5, <1>6 DEF UiNext, EditorStep

LEMMA QueueKept ==
    ASSUME UiInv, [UiNext]_uiVars
    PROVE  /\ uiQueue' \in Seq(UiJobs)
           /\ \A j \in In(uiQueue') : j.kind = "changed" => Announces(j)'
<1>0. /\ uiQueue \in Seq(UiJobs) /\ Truthful(In(uiQueue)) /\ uiPipe \in Seq(UiMessages)
      /\ Truthful(In(uiPipe))
  BY DEF UiInv, PathInv
<1>1. \A j \in In(uiQueue) : j.kind = "changed" => Announces(j)'
  BY <1>0, TruthfulKept
<1>2. CASE uiQueue' = uiQueue
  BY <1>0, <1>1, <1>2
<1>3. CASE uiQueue # <<>> /\ uiQueue' = Tail(uiQueue)
  BY <1>0, <1>1, <1>3, InTail
<1>4. ASSUME NEW e \in Editors \cup {"page"}, uiQueue' = Append(uiQueue, Reload(e))
      PROVE  /\ uiQueue' \in Seq(UiJobs)
             /\ \A j \in In(uiQueue') : j.kind = "changed" => Announces(j)'
  <2>1. Reload(e) \in UiJobs /\ Reload(e).kind = "reload"
    BY DEF Reload, Job, UiJobs
  <2>2. PICK r \in UiJobs : r = Reload(e) /\ r.kind = "reload"
    BY <2>1
  <2>3. Append(uiQueue, r) \in Seq(UiJobs) /\ In(Append(uiQueue, r)) = In(uiQueue) \cup {r}
    BY <1>0, InAppend
  <2> QED
    BY <1>1, <1>4, <2>2, <2>3
<1>5. ASSUME NEW m \in In(uiPipe), uiPipe # <<>>, m.kind = "changed",
             uiQueue' = Append(uiQueue, Job("changed", m.rev, m.domains, "page"))
      PROVE  /\ uiQueue' \in Seq(UiJobs)
             /\ \A j \in In(uiQueue') : j.kind = "changed" => Announces(j)'
  <2>1. m \in UiMessages /\ Announces(m)'
    BY <1>0, <1>5, InTail, TruthfulKept
  <2>2. PICK r \in UiJobs : /\ r = Job("changed", m.rev, m.domains, "page")
                            /\ r.rev = m.rev /\ r.domains = m.domains
    <3>1. Job("changed", m.rev, m.domains, "page") \in UiJobs
      BY <2>1 DEF UiMessages, UiJobs, Job
    <3> QED
      BY <3>1 DEF Job
  <2>3. Append(uiQueue, r) \in Seq(UiJobs) /\ In(Append(uiQueue, r)) = In(uiQueue) \cup {r}
    BY <1>0, InAppend
  <2>4. Announces(r)'
    BY <2>1, <2>2 DEF Announces
  <2> QED
    BY <1>1, <1>5, <2>2, <2>3, <2>4
<1> QED
  BY <1>2, <1>3, <1>4, <1>5, QueueSteps

LEMMA PathKept == ASSUME UiInv, [UiNext]_uiVars PROVE PathInv'
  BY BusKept, PipeKept, QueueKept DEF PathInv, Truthful
-------------------------------------------------------------------------------
(* What is shown.                                                              *)

\* A job publishes a document that the device had.
LEMMA JobPublishesRevision ==
    ASSUME UiInv, Running, ~Outdated(Current), uiGot["whole"] # 0 \/ Assembled(Current)
    PROVE  /\ JobDocument(Current) \in [rev : 1 .. Now, doc : UiDocs]
           /\ JobDocument(Current).doc = uiHist[JobDocument(Current).rev]
           /\ uiGot["whole"] # 0 => JobDocument(Current).rev = uiGot["whole"]
           /\ uiGot["whole"] = 0 => JobDocument(Current).rev = Current.rev
<1>0. /\ Now \in Nat /\ Now >= 1 /\ uiGot \in [UiDomains \cup {"whole"} -> 0 .. Now]
  BY LenProperties DEF UiInv, HistInv, SnapInv, Now
<1>1. CASE uiGot["whole"] # 0
  <2>1. PICK r : r = uiGot["whole"]
    OBVIOUS
  <2>2. r \in 1 .. Now
    BY <1>0, <1>1, <2>1
  <2>3. PICK doc \in UiDocs : doc = uiHist[r]
    BY <2>2, HistIsNumbers DEF UiInv
  <2>4. JobDocument(Current) = [rev |-> r, doc |-> doc]
    BY <1>1, <2>1, <2>3 DEF JobDocument
  <2> QED
    BY <1>1, <2>1, <2>2, <2>3, <2>4
<1>2. CASE uiGot["whole"] = 0
  <2>1. PICK j : j = Current
    OBVIOUS
  <2>2. Assembled(j)
    BY <1>2, <2>1
  <2>3. j \in In(uiQueue) /\ Announces(j)
    <3>1. uiQueue \in Seq(UiJobs) /\ uiQueue # <<>> /\ Truthful(In(uiQueue))
      BY DEF UiInv, PathInv, Running
    <3>2. j \in In(uiQueue)
      BY <2>1, <3>1, InTail DEF Current
    <3> QED
      BY <2>2, <3>1, <3>2 DEF Truthful, Assembled, Next1
  <2>4. /\ j.rev \in 2 .. Now /\ j.rev - 1 \in 1 .. Now /\ uiSnap.rev \in 1 .. Now
        /\ uiSnap.rev = j.rev - 1
    BY <1>0, <2>2, <2>3 DEF Assembled, Next1, Announces, UiInv, SnapInv
  <2>5. PICK new \in UiDocs : new = uiHist[j.rev]
    BY <1>0, <2>4, HistIsNumbers DEF UiInv
  <2>6. PICK before \in UiDocs : before = uiHist[j.rev - 1] /\ before = uiSnap.doc
    BY <1>0, <2>4, HistIsNumbers DEF UiInv, SnapInv, ShownWasCommitted
  <2>7. PICK doc : doc = [f \in UiFields |-> IF UiDomain(f) \in j.domains
                                             THEN uiHist[uiGot[UiDomain(f)]][f] ELSE uiSnap.doc[f]]
    OBVIOUS
  <2>8. ASSUME NEW f \in UiFields PROVE doc[f] = new[f]
    <3>1. CASE UiDomain(f) \in j.domains
      <4>1. uiGot[UiDomain(f)] = j.rev
        BY <2>2, <3>1 DEF Assembled
      <4> QED
        BY <2>5, <2>7, <3>1, <4>1
    <3>2. CASE UiDomain(f) \notin j.domains
      <4>1. UiDomain(f) \notin ChangedIn(j.rev)
        BY <2>3, <3>2 DEF Announces
      <4>2. uiHist[j.rev][f] = uiHist[j.rev - 1][f]
        BY <4>1 DEF ChangedIn
      <4> QED
        BY <2>5, <2>6, <2>7, <3>2, <4>2
    <3> QED
      BY <3>1, <3>2
  <2>9. doc = new
    <3>1. new = [f \in UiFields |-> new[f]]
      BY DEF UiDocs
    <3>2. doc = [f \in UiFields |-> doc[f]]
      BY <2>7
    <3> QED
      BY <2>8, <3>1, <3>2
  <2>10. JobDocument(Current) = [rev |-> j.rev, doc |-> doc]
    BY <1>2, <2>1, <2>7 DEF JobDocument
  <2>11. j.rev \in 1 .. Now
    BY <1>0, <2>4
  <2> QED
    BY <1>2, <2>1, <2>5, <2>9, <2>10, <2>11
<1> QED
  BY <1>0, <1>1, <1>2

\* The end of a job, in one of its three ways.
LEMMA JobDoneEffect ==
    ASSUME UiInv, JobDone
    PROVE  /\ uiGot' = NoGot /\ uiQueue # <<>> /\ uiQueue' = Tail(uiQueue)
           /\ \/ /\ Outdated(Current) \/ uiGot["whole"] # 0 \/ Assembled(Current)
                 /\ Outdated(Current) \/ JobDocument(Current).rev < uiSnap.rev
                 /\ UNCHANGED <<uiSnap, uiBase, uiForm>>
              \/ /\ ~Outdated(Current)
                 /\ uiGot["whole"] # 0 \/ Assembled(Current)
                 /\ JobDocument(Current).rev >= uiSnap.rev
                 /\ uiSnap' = JobDocument(Current) /\ Render(JobDocument(Current))
<1>1. uiSnap.rev \in 0 .. Now /\ Now \in Nat
  BY LenProperties DEF UiInv, HistInv, SnapInv, Now
<1>2. CASE Outdated(Current)
  BY <1>2 DEF JobDone, Running
<1>3. CASE ~Outdated(Current)
  <2>1. JobDocument(Current) \in [rev : 1 .. Now, doc : UiDocs]
    BY <1>3, JobPublishesRevision DEF JobDone
  <2>2. JobDocument(Current).rev \in Int
    BY <1>1, <2>1
  <2> QED
    BY <1>1, <1>3, <2>2 DEF JobDone, Running, Newer
<1> QED
  BY <1>2, <1>3

LEMMA SnapKept == ASSUME UiInv, [UiNext]_uiVars PROVE SnapInv'
<1>0. /\ Now \in Nat /\ Now >= 1 /\ Now' \in Nat /\ Now' >= Now
      /\ uiGot \in [UiDomains \cup {"whole"} -> 0 .. Now]
      /\ uiSnap \in [rev : 0 .. Now, doc : UiDocs]
      /\ \A r \in 1 .. Now : uiHist'[r] = uiHist[r]
  BY HistGrows DEF UiInv, HistInv, SnapInv
<1>1. \A n \in 0 .. Now : n \in 0 .. Now'
  BY <1>0
<1>2. uiGot \in [UiDomains \cup {"whole"} -> 0 .. Now']
  BY <1>0, <1>1
<1>3. uiSnap \in [rev : 0 .. Now', doc : UiDocs]
  BY <1>0, <1>1
<1>4. NoGot \in [UiDomains \cup {"whole"} -> 0 .. Now']
  BY <1>0 DEF NoGot
<1>5. uiSnap' = uiSnap => ShownWasCommitted'
  BY <1>0 DEF ShownWasCommitted, UiInv, SnapInv
<1>6. CASE FetchDomain \/ FetchWhole
  <2>1. PICK d : Fetch(d)
    BY <1>6 DEF FetchDomain, FetchWhole
  <2>2. PICK n : n = Now
    OBVIOUS
  <2>3. uiGot' = [uiGot EXCEPT ![d] = n] /\ uiSnap' = uiSnap /\ n \in 0 .. Now'
    BY <1>0, <1>1, <2>1, <2>2 DEF Fetch
  <2>4. uiGot' \in [UiDomains \cup {"whole"} -> 0 .. Now']
    BY <1>2, <2>3
  <2> QED
    BY <1>3, <1>5, <2>3, <2>4 DEF SnapInv
<1>7. CASE JobDone
  <2>1. CASE UNCHANGED uiSnap
    BY <1>3, <1>4, <1>5, <1>7, <2>1, JobDoneEffect DEF SnapInv
  <2>2. CASE ~Outdated(Current) /\ uiSnap' = JobDocument(Current)
    <3>1. /\ uiSnap' \in [rev : 1 .. Now, doc : UiDocs]
          /\ uiSnap'.doc = uiHist[uiSnap'.rev]
      BY <1>7, <2>2, JobPublishesRevision DEF JobDone
    <3>2. uiSnap'.rev \in 1 .. Now
      BY <3>1
    <3>3. ShownWasCommitted'
      BY <1>0, <3>1, <3>2 DEF ShownWasCommitted
    <3>4. uiSnap' \in [rev : 0 .. Now', doc : UiDocs]
      BY <1>0, <3>1
    <3> QED
      BY <1>4, <1>7, <3>3, <3>4, JobDoneEffect DEF SnapInv
  <2> QED
    BY <1>7, <2>1, <2>2 DEF JobDone
<1>8. CASE JobFails
  <2>1. uiGot' = NoGot /\ uiSnap' = uiSnap
    BY <1>8 DEF JobFails
  <2> QED
    BY <1>3, <1>4, <1>5, <2>1 DEF SnapInv
<1>9. CASE \/ UNCHANGED uiVars \/ OtherCommit \/ FollowState \/ Subscribed \/ StreamEvent
           \/ StreamError \/ Reconnect \/ UiRest
  <2>1. uiGot' = uiGot /\ uiSnap' = uiSnap
    BY <1>9 DEF uiVars, uiPath, OtherCommit, FollowState, Subscribed, StreamEvent, StreamError,
       Reconnect, UiRest
  <2> QED
    BY <1>2, <1>3, <1>5, <2>1 DEF SnapInv
<1>10. CASE \E e \in Editors : EditorStep(e)
  <2>1. uiGot' = uiGot /\ uiSnap' = uiSnap
    BY <1>10 DEF EditorStep, uiPath, Edit, SaveClicked, CommandAccepted, CommandRefused,
       SaveDeclined, CommandReply, NextCommand
  <2> QED
    BY <1>2, <1>3, <1>5, <2>1 DEF SnapInv
<1> QED
  BY <1>6, <1>7, <1>8, <1>9, <1>10 DEF UiNext
-------------------------------------------------------------------------------
(* What was announced is shown, or something on the way will show it.          *)

LEMMA ToldKept == ASSUME UiInv, [UiNext]_uiVars PROVE ToldInv'
<1>0. /\ Now \in Nat /\ Now >= 1 /\ uiGot \in [UiDomains \cup {"whole"} -> 0 .. Now]
      /\ uiSnap.rev \in 0 .. Now /\ uiTold \in 0 .. Now /\ uiTold' \in Int
      /\ uiPipe \in Seq(UiMessages) /\ uiQueue \in Seq(UiJobs)
      /\ Len(uiPipe) <= UiCap /\ uiGot["whole"] \in 0 .. Now
  <2>1. uiTold' \in Int
    <3>1. Now' \in Nat
      BY HistGrows
    <3> QED
      BY <3>1, PipeKept
  <2>2. Now \in Nat /\ Now >= 1
    BY HistGrows DEF UiInv, HistInv
  <2>3. /\ uiGot \in [UiDomains \cup {"whole"} -> 0 .. Now] /\ uiSnap.rev \in 0 .. Now
    BY DEF UiInv, SnapInv
  <2>4. uiGot["whole"] \in 0 .. Now
    BY <2>3
  <2>5. /\ uiTold \in 0 .. Now /\ uiPipe \in Seq(UiMessages) /\ uiQueue \in Seq(UiJobs)
        /\ Len(uiPipe) <= UiCap
    BY DEF UiInv, PathInv
  <2> QED
    BY <2>1, <2>2, <2>3, <2>4, <2>5
<1>1. CASE FollowState
  <2>1. UNCHANGED <<uiQueue, uiGot, uiSnap, uiLost>>
    BY <1>1 DEF FollowState
  <2>2. CASE UNCHANGED <<uiPipe, uiPipeLag, uiTold, uiStream>>
    BY <2>1, <2>2 DEF UiInv, ToldInv, Ahead, Covers, Outdated
  <2>3. ASSUME NEW m \in UiMessages, uiPipe' = Sent(uiPipe, m),
               uiPipeLag' = (uiPipeLag \/ Len(uiPipe) = UiCap), uiStream = "open",
               \/ m.kind = "resync" /\ uiTold' = uiTold
               \/ m.kind = "changed" /\ Announces(m) /\ uiTold' = m.rev
        PROVE  ToldInv'
    <3>1. m \in In(uiPipe')
      BY <1>0, <2>3, SentHolds
    <3>2. Covers(m)'
      BY <1>0, <2>3 DEF Covers, UiMessages
    <3>3. Ahead(In(uiQueue))' /\ Ahead(In(Tail(uiQueue)))'
      BY <3>1, <3>2 DEF Ahead
    <3>4. uiGot'["whole"] # 0 => uiQueue' # <<>> /\ ~Outdated(Head(uiQueue))'
      BY <2>1 DEF UiInv, ToldInv, Outdated
    <3> QED
      BY <3>3, <3>4 DEF ToldInv
  <2> QED
    BY <1>1, <2>2, <2>3, FollowEffect
<1>2. CASE Subscribed
  <2>1. UNCHANGED <<uiQueue, uiGot, uiSnap, uiLost>> /\ uiTold' = 0
    BY <1>2 DEF Subscribed
  <2>2. uiSnap'.rev >= uiTold' /\ uiGot'["whole"] >= uiTold'
    BY <1>0, <2>1
  <2> QED
    BY <2>1, <2>2 DEF UiInv, ToldInv, Outdated
<1>3. CASE StreamEvent
  <2>1. UNCHANGED <<uiStream, uiTold, uiGot, uiSnap, uiLost>> /\ uiPipe # <<>> /\ uiPipeLag' = FALSE
    BY <1>3 DEF StreamEvent
  <2>2. PICK m : m = IF uiPipeLag THEN Resync ELSE Head(uiPipe)
    OBVIOUS
  <2>3. PICK j : j = IF m.kind = "resync" THEN Reload("page") ELSE Job("changed", m.rev, m.domains, "page")
    OBVIOUS
  <2>4. uiQueue' = Append(uiQueue, j) /\ uiPipe' = IF uiPipeLag THEN uiPipe ELSE Tail(uiPipe)
    BY <1>3, <2>2, <2>3 DEF StreamEvent
  <2>5. m \in UiMessages /\ Head(uiPipe) \in UiMessages /\ In(uiPipe) = {Head(uiPipe)} \cup In(Tail(uiPipe))
    <3>1. Head(uiPipe) \in UiMessages /\ In(uiPipe) = {Head(uiPipe)} \cup In(Tail(uiPipe))
      BY <1>0, <2>1, InTail
    <3>2. Resync \in UiMessages
      BY DEF Resync, Msg, UiMessages
    <3> QED
      BY <2>2, <3>1, <3>2
  <2>6. j \in UiJobs /\ (Covers(m) => Covers(j))
    BY <2>3, <2>5 DEF UiMessages, UiJobs, Reload, Job, Covers
  <2>7. /\ uiQueue' # <<>> /\ In(uiQueue') = In(uiQueue) \cup {j}
        /\ In(uiQueue) \subseteq In(uiQueue') /\ j \in In(uiQueue')
    BY <1>0, <2>4, <2>6, InAppend
  <2>8. uiQueue # <<>> => In(Tail(uiQueue')) = In(Tail(uiQueue)) \cup {j}
    <3> SUFFICES ASSUME uiQueue # <<>> PROVE In(Tail(uiQueue')) = In(Tail(uiQueue)) \cup {j}
      OBVIOUS
    <3>1. Tail(uiQueue) \in Seq(UiJobs)
      BY <1>0, InTail
    <3>2. PICK t \in Seq(UiJobs) : t = Tail(uiQueue)
      BY <3>1
    <3>3. Tail(Append(uiQueue, j)) = Append(Tail(uiQueue), j)
      <4>1. PICK q \in Seq(UiJobs) : q = uiQueue
        BY <1>0
      <4>2. Tail(Append(q, j)) = IF q = <<>> THEN <<>> ELSE Append(Tail(q), j)
        BY <2>6, HeadTailAppend
      <4> QED
        BY <4>1, <4>2, Zenon
    <3>4. In(Append(t, j)) = In(t) \cup {j}
      BY <2>6, InAppend
    <3> QED
      BY <2>4, <3>2, <3>3, <3>4, Zenon
  <2>9. ASSUME NEW jobs, NEW more, Ahead(jobs), more = jobs \cup {j}
        PROVE  \E x \in In(uiPipe') \cup more : Covers(x)'
    <3>1. \A x : Covers(x)' <=> Covers(x)
      BY <2>1 DEF Covers
    <3>2. CASE uiPipeLag
      <4>1. Covers(j)
        BY <2>2, <2>6, <3>2 DEF Covers, Resync, Msg
      <4> QED
        BY <2>9, <3>1, <4>1
    <3>3. CASE ~uiPipeLag
      <4>1. PICK x \in In(uiPipe) \cup jobs : Covers(x)
        BY <2>9, <3>3 DEF Ahead
      <4>2. CASE x \in jobs
        BY <2>9, <3>1, <4>1, <4>2
      <4>3. CASE x = Head(uiPipe)
        BY <2>2, <2>6, <2>9, <3>1, <3>3, <4>1, <4>3
      <4>4. CASE x \in In(Tail(uiPipe))
        BY <2>4, <3>1, <3>3, <4>1, <4>4
      <4> QED
        BY <2>5, <4>1, <4>2, <4>3, <4>4
    <3> QED
      BY <3>2, <3>3
  <2>10. ASSUME uiStream = "open", ~uiLost, ~(uiSnap.rev >= uiTold)
         PROVE  Ahead(In(uiQueue))'
    <3>1. Ahead(In(uiQueue))
      BY <2>10 DEF UiInv, ToldInv
    <3> QED
      BY <2>7, <2>9, <3>1 DEF Ahead
  <2>11. ASSUME uiStream = "open", uiGot["whole"] # 0, ~(uiGot["whole"] >= uiTold)
         PROVE  Ahead(In(Tail(uiQueue)))'
    <3>1. Ahead(In(Tail(uiQueue))) /\ uiQueue # <<>>
      BY <2>11 DEF UiInv, ToldInv
    <3> QED
      BY <2>8, <2>9, <3>1 DEF Ahead
  <2>12. uiGot["whole"] # 0 => uiQueue # <<>> /\ ~Outdated(Head(uiQueue))
    BY DEF UiInv, ToldInv
  <2>13. uiQueue # <<>> => Head(uiQueue') = Head(uiQueue)
    BY <1>0, <2>4, <2>6, HeadTailAppend
  <2>14. uiGot'["whole"] # 0 => uiQueue' # <<>> /\ ~Outdated(Head(uiQueue))'
    BY <2>1, <2>7, <2>12, <2>13 DEF Outdated
  <2> QED
    BY <2>1, <2>10, <2>11, <2>14 DEF ToldInv
<1>4. CASE StreamError
  <2>1. UNCHANGED <<uiQueue, uiGot>> /\ uiStream' = "none"
    BY <1>4 DEF StreamError
  <2> QED
    BY <1>4, <2>1 DEF UiInv, ToldInv, Outdated, StreamError
<1>5. CASE Reconnect
  <2>1. Reload("page") \in UiJobs
    BY DEF Reload, Job, UiJobs
  <2>2. /\ uiQueue' # <<>> /\ uiStream' = "opening" /\ UNCHANGED <<uiGot, uiSnap>>
        /\ uiQueue # <<>> => Head(uiQueue') = Head(uiQueue)
    BY <1>0, <1>5, <2>1, InAppend, HeadTailAppend DEF Reconnect
  <2> QED
    BY <2>2 DEF UiInv, ToldInv, Outdated
<1>6. CASE FetchDomain \/ FetchWhole
  <2>1. UNCHANGED <<uiPipe, uiPipeLag, uiTold, uiStream, uiQueue, uiSnap, uiLost>> /\ uiQueue # <<>>
    BY <1>6 DEF FetchDomain, FetchWhole, Fetch, uiPath, Running
  <2>2. uiGot'["whole"] \in {uiGot["whole"], Now}
    <3>1. PICK d : Fetch(d)
      BY <1>6 DEF FetchDomain, FetchWhole
    <3>2. uiGot' = [uiGot EXCEPT ![d] = Now]
      BY <3>1 DEF Fetch
    <3> QED
      BY <1>0, <3>2
  <2>3. Now >= uiTold
    BY <1>0
  <2>4. uiGot'["whole"] # uiGot["whole"] => ~Outdated(Head(uiQueue))
    <3>1. CASE FetchWhole
      BY <3>1 DEF FetchWhole, NeedsWhole, Current
    <3>2. CASE FetchDomain
      <4>1. PICK d \in Wanted(Current) : Fetch(d)
        BY <3>2 DEF FetchDomain
      <4>2. d \in UiDomains
        <5>1. Current \in UiJobs
          BY <1>0, <2>1, InTail DEF Current
        <5>2. Current.domains \subseteq UiDomains /\ d \in Current.domains
          BY <4>1, <5>1 DEF Wanted, UiJobs
        <5> QED
          BY <5>2
      <4>3. uiGot' = [uiGot EXCEPT ![d] = Now] /\ d # "whole"
        BY <4>1, <4>2 DEF Fetch, UiDomains
      <4> QED
        BY <1>0, <4>3
    <3> QED
      BY <1>6, <3>1, <3>2
  <2>5. uiGot'["whole"] # 0 => uiQueue' # <<>> /\ ~Outdated(Head(uiQueue))'
    BY <2>1, <2>4 DEF UiInv, ToldInv, Outdated
  <2> QED
    BY <2>1, <2>2, <2>3, <2>5 DEF UiInv, ToldInv, Ahead, Covers
<1>7. CASE JobDone
  <2>1. /\ uiGot'["whole"] = 0 /\ uiQueue # <<>> /\ uiQueue' = Tail(uiQueue)
        /\ UNCHANGED <<uiPipe, uiPipeLag, uiTold, uiStream>>
        /\ uiLost' = (uiLost /\ uiGot["whole"] = 0)
    BY <1>7, JobDoneEffect DEF JobDone, uiPath, NoGot
  <2>2. SUFFICES ASSUME uiStream = "open", ~uiLost', ~(uiSnap'.rev >= uiTold)
                 PROVE  Ahead(In(Tail(uiQueue)))
    BY <2>1 DEF ToldInv, Ahead, Covers
  <2>3. PICK head : head = Current
    OBVIOUS
  <2>4. head \in UiJobs /\ In(uiQueue) = {head} \cup In(Tail(uiQueue))
    BY <1>0, <2>1, <2>3, InTail DEF Current
  <2>5. uiSnap'.rev \in Int /\ uiSnap'.rev >= uiSnap.rev
        /\ (~Outdated(head) /\ uiGot["whole"] # 0 => uiSnap'.rev >= uiGot["whole"])
        /\ (~Outdated(head) /\ uiGot["whole"] = 0 => uiSnap'.rev >= head.rev)
    <3>1. CASE Outdated(head)
      BY <1>0, <1>7, <2>3, <3>1, JobDoneEffect
    <3>2. CASE ~Outdated(head)
      <4>1. PICK s : s = JobDocument(Current)
        OBVIOUS
      <4>2. /\ s.rev \in 1 .. Now
            /\ uiGot["whole"] # 0 => s.rev = uiGot["whole"]
            /\ uiGot["whole"] = 0 => s.rev = head.rev
        BY <1>7, <2>3, <3>2, <4>1, JobPublishesRevision DEF JobDone
      <4>3. \/ uiSnap' = uiSnap /\ s.rev < uiSnap.rev
            \/ uiSnap' = s /\ s.rev >= uiSnap.rev
        BY <1>7, <2>3, <3>2, <4>1, JobDoneEffect
      <4> QED
        BY <1>0, <4>2, <4>3
    <3> QED
      BY <3>1, <3>2
  <2>6. ~Outdated(head) \/ uiSnap.rev >= head.rev
    BY <1>0, <2>4 DEF Outdated, UiJobs
  <2>7. CASE uiGot["whole"] # 0
    <3>1. ~Outdated(head)
      BY <2>3, <2>7 DEF UiInv, ToldInv, Current
    <3> QED
      BY <1>0, <2>2, <2>5, <2>7, <3>1 DEF UiInv, ToldInv
  <2>8. CASE uiGot["whole"] = 0
    <3>1. Ahead(In(uiQueue))
      <4>1. ~uiLost
        BY <2>1, <2>2, <2>8, Zenon
      <4>2. ~(uiSnap.rev >= uiTold)
        BY <1>0, <2>2, <2>5
      <4> QED
        BY <2>2, <4>1, <4>2 DEF UiInv, ToldInv
    <3>2. head.kind = "changed"
      BY <1>7, <2>3, <2>8 DEF JobDone, Outdated, Assembled, Next1
    <3>3. uiSnap'.rev >= head.rev
      BY <1>0, <2>4, <2>5, <2>6, <2>8 DEF UiJobs
    <3>4. ~Covers(head)
      BY <1>0, <2>2, <2>4, <2>5, <3>2, <3>3 DEF Covers, UiJobs
    <3> QED
      BY <2>4, <3>1, <3>4 DEF Ahead
  <2> QED
    BY <2>7, <2>8
<1>8. CASE JobFails
  <2>1. uiGot'["whole"] = 0 /\ uiLost' = TRUE
    BY <1>8 DEF JobFails, NoGot
  <2> QED
    BY <2>1 DEF ToldInv
<1>9. ASSUME NEW e \in Editors, CommandReply(e)
      PROVE  ToldInv'
  <2>1. PICK j : j = Reload(e)
    OBVIOUS
  <2>2. j \in UiJobs /\ Covers(j)' /\ j.kind = "reload"
    BY <2>1 DEF Reload, Job, UiJobs, Covers
  <2>3. UNCHANGED <<uiPipe, uiPipeLag, uiTold, uiStream, uiGot, uiSnap, uiLost>>
        /\ uiQueue' = Append(uiQueue, j)
    BY <1>9, <2>1 DEF CommandReply, uiPath
  <2>4. uiQueue' # <<>> /\ j \in In(uiQueue')
    BY <1>0, <2>2, <2>3, InAppend
  <2>5. Ahead(In(uiQueue))'
    BY <2>2, <2>4 DEF Ahead
  <2>6. ASSUME uiStream = "open", uiGot["whole"] # 0, ~(uiGot["whole"] >= uiTold)
        PROVE  Ahead(In(Tail(uiQueue)))'
    <3>1. Ahead(In(Tail(uiQueue))) /\ uiQueue # <<>>
      BY <2>6 DEF UiInv, ToldInv
    <3>2. Tail(uiQueue) \in Seq(UiJobs)
      BY <1>0, <3>1, InTail
    <3>3. PICK t \in Seq(UiJobs) : t = Tail(uiQueue)
      BY <3>2
    <3>4. Tail(Append(uiQueue, j)) = Append(Tail(uiQueue), j)
      BY <1>0, <2>2, <3>1, HeadTailAppend
    <3>5. j \in In(Tail(uiQueue'))
      BY <2>2, <2>3, <3>3, <3>4, InAppend
    <3> QED
      BY <2>2, <3>5 DEF Ahead
  <2>7. uiQueue # <<>> => Head(uiQueue') = Head(uiQueue)
    BY <1>0, <2>2, <2>3, HeadTailAppend
  <2>8. uiGot'["whole"] # 0 => uiQueue' # <<>> /\ ~Outdated(Head(uiQueue))'
    BY <2>3, <2>4, <2>7 DEF UiInv, ToldInv, Outdated
  <2> QED
    BY <2>3, <2>5, <2>6, <2>8 DEF ToldInv
<1>10. CASE UNCHANGED uiVars \/ OtherCommit \/ UiRest
  <2>1. UNCHANGED <<uiPipe, uiPipeLag, uiTold, uiStream, uiGot, uiSnap, uiLost, uiQueue>>
    BY <1>10 DEF uiVars, OtherCommit, UiRest
  <2> QED
    BY <2>1 DEF UiInv, ToldInv, Ahead, Covers, Outdated
<1>11. ASSUME NEW e \in Editors, \/ Edit(e) \/ SaveClicked(e) \/ CommandAccepted(e)
                                 \/ CommandRefused(e) \/ SaveDeclined(e) \/ NextCommand(e)
       PROVE  ToldInv'
  <2>1. UNCHANGED <<uiPipe, uiPipeLag, uiTold, uiStream, uiGot, uiSnap, uiLost, uiQueue>>
    BY <1>11 DEF uiPath, Edit, SaveClicked, CommandAccepted, CommandRefused, SaveDeclined, NextCommand
  <2> QED
    BY <2>1 DEF UiInv, ToldInv, Ahead, Covers, Outdated
<1> QED
  BY <1>1, <1>2, <1>3, <1>4, <1>5, <1>6, <1>7, <1>8, <1>9, <1>10, <1>11 DEF UiNext, EditorStep
-------------------------------------------------------------------------------
(* The forms and their saves.                                                  *)

\* The fields a form writes.
LEMMA ChainFields ==
    ASSUME NEW e \in Editors, NEW k \in 1 .. Len(Chain(e))
    PROVE  /\ Chain(e)[k] \in UiFields /\ k \in 1 .. 2
           /\ e = "discovery" => k = 1 /\ Chain(e)[k] = "grp"
           /\ e = "decoder" => Chain(e)[k] = IF k = 1 THEN "recv" ELSE "mode"
<1>1. CASE e = "discovery"
  <2>1. Chain(e) = <<"grp">> /\ Len(<<"grp">>) = 1
    BY <1>1 DEF Chain
  <2>2. k = 1
    BY <2>1
  <2> QED
    BY <1>1, <2>1, <2>2 DEF UiFields
<1>2. CASE e = "decoder"
  <2>1. Chain(e) = <<"recv", "mode">> /\ Len(<<"recv", "mode">>) = 2
    BY <1>2 DEF Chain
  <2>2. k = 1 \/ k = 2
    BY <2>1
  <2> QED
    BY <1>2, <2>1, <2>2 DEF UiFields
<1> QED
  BY <1>1, <1>2 DEF Editors

\* A form keeps its revision, and the page what it has shown.
LEMMA FormKeeps ==
    ASSUME UiInv, [UiNext]_uiVars
    PROVE  /\ uiBase' \in [Editors -> 0 .. Now'] /\ uiForm' \in UiDocs
           /\ uiStale' \in BOOLEAN /\ (uiStale => uiStale')
           /\ uiSnap.rev # 0 => uiSnap'.rev # 0
           /\ \A e \in Editors : uiBase[e] # 0 => uiBase'[e] # 0
<1>0. /\ Now \in Nat /\ Now' \in Nat /\ Now' >= Now
      /\ uiBase \in [Editors -> 0 .. Now] /\ uiForm \in UiDocs /\ uiStale \in BOOLEAN
      /\ uiSnap \in [rev : 0 .. Now, doc : UiDocs]
      /\ uiSave \in [Editors -> UiSaves] /\ \A e \in Editors : SaveOK(e)
  BY HistGrows DEF UiInv, SnapInv, FormInv, SaveInv
<1>1. \A n \in 0 .. Now : n \in 0 .. Now'
  BY <1>0
<1>2. uiBase \in [Editors -> 0 .. Now']
  BY <1>0, <1>1
<1>3. CASE JobDone
  <2>1. UNCHANGED uiStale
    BY <1>3 DEF JobDone
  <2>2. CASE UNCHANGED <<uiSnap, uiBase, uiForm>>
    BY <1>0, <1>2, <2>1, <2>2
  <2>3. ASSUME ~Outdated(Current), uiGot["whole"] # 0 \/ Assembled(Current),
               uiSnap' = JobDocument(Current), Render(JobDocument(Current))
        PROVE  /\ uiBase' \in [Editors -> 0 .. Now'] /\ uiForm' \in UiDocs
               /\ uiSnap'.rev # 0 /\ \A e \in Editors : uiBase[e] # 0 => uiBase'[e] # 0
    <3>1. PICK s : s = JobDocument(Current)
      OBVIOUS
    <3>2. s \in [rev : 1 .. Now, doc : UiDocs]
      BY <1>3, <2>3, <3>1, JobPublishesRevision DEF JobDone
    <3>3. s.rev \in 0 .. Now' /\ s.rev # 0 /\ s.doc \in UiDocs
      BY <1>0, <3>2
    <3>4. \/ UNCHANGED <<uiBase, uiForm>>
          \/ uiBase' = [e \in Editors |-> s.rev] /\ uiForm' = s.doc
      BY <2>3, <3>1 DEF Render
    <3>5. CASE UNCHANGED <<uiBase, uiForm>>
      BY <1>0, <1>2, <2>3, <3>1, <3>3, <3>5
    <3>6. CASE uiBase' = [e \in Editors |-> s.rev] /\ uiForm' = s.doc
      <4>1. uiBase' \in [Editors -> 0 .. Now'] /\ \A e \in Editors : uiBase'[e] # 0
        <5>1. PICK r : r = s.rev
          OBVIOUS
        <5>2. r \in 0 .. Now' /\ r # 0 /\ uiBase' = [e \in Editors |-> r]
          BY <3>3, <3>6, <5>1
        <5>3. [e \in Editors |-> r] \in [Editors -> 0 .. Now']
          BY <5>2
        <5>4. \A e \in Editors : [x \in Editors |-> r][e] = r
          OBVIOUS
        <5> QED
          BY <5>2, <5>3, <5>4, Zenon
      <4> QED
        BY <2>3, <3>1, <3>3, <3>6, <4>1
    <3> QED
      BY <3>4, <3>5, <3>6
  <2> QED
    <3>1. CASE UNCHANGED <<uiSnap, uiBase, uiForm>>
      BY <2>2, <3>1
    <3>2. CASE ~ UNCHANGED <<uiSnap, uiBase, uiForm>>
      <4>1. /\ ~Outdated(Current) /\ (uiGot["whole"] # 0 \/ Assembled(Current))
            /\ uiSnap' = JobDocument(Current) /\ Render(JobDocument(Current))
        BY <1>3, <3>2, JobDoneEffect, Zenon
      <4>2. /\ uiBase' \in [Editors -> 0 .. Now'] /\ uiForm' \in UiDocs /\ uiSnap'.rev # 0
            /\ \A e \in Editors : uiBase[e] # 0 => uiBase'[e] # 0
        BY <2>3, <4>1, Zenon
      <4> QED
        BY <1>0, <2>1, <4>2
    <3> QED
      BY <3>1, <3>2
<1>4. ASSUME NEW e \in Editors, Edit(e)
      PROVE  /\ uiBase' \in [Editors -> 0 .. Now']
             /\ \A x \in Editors : uiBase[x] # 0 => uiBase'[x] # 0
             /\ UNCHANGED <<uiForm, uiStale, uiSnap>>
  <2>1. PICK n : n = IF uiBase[e] = 0 THEN uiSnap.rev ELSE uiBase[e]
    OBVIOUS
  <2>2. n \in 0 .. Now' /\ n # 0
    BY <1>0, <1>1, <1>4, <2>1 DEF Edit
  <2>3. uiBase' = [uiBase EXCEPT ![e] = n] /\ UNCHANGED <<uiForm, uiStale, uiSnap>>
    BY <1>4, <2>1 DEF Edit
  <2> QED
    BY <1>2, <2>2, <2>3
<1>5. ASSUME NEW e \in Editors, CommandReply(e)
      PROVE  /\ uiBase' \in [Editors -> 0 .. Now'] /\ uiForm' \in UiDocs
             /\ \A x \in Editors : uiBase[x] # 0 => uiBase'[x] # 0
             /\ UNCHANGED <<uiStale, uiSnap>>
  <2>1. PICK s : s = uiSave[e]
    OBVIOUS
  <2>2. s.at = "accepted" /\ s.last \in 2 .. Now /\ s.k \in 1 .. Len(Chain(e))
    BY <1>0, <1>5, <2>1 DEF CommandReply, SaveOK
  <2>3. PICK n : n = s.last
    OBVIOUS
  <2>4. n \in 0 .. Now' /\ n # 0 /\ n \in Nat
    BY <1>0, <2>2, <2>3
  <2>5. PICK f \in UiFields : f = Chain(e)[s.k]
    BY <2>2, ChainFields
  <2>6. /\ uiBase' = [x \in Editors |-> IF uiBase[x] = s.expect THEN n ELSE uiBase[x]]
        /\ uiForm' = [uiForm EXCEPT ![f] = n]
        /\ UNCHANGED <<uiStale, uiSnap>>
    BY <1>5, <2>1, <2>3, <2>5 DEF CommandReply
  <2>7. uiForm' \in UiDocs
    BY <1>0, <2>4, <2>6 DEF UiDocs
  <2>8. uiBase' \in [Editors -> 0 .. Now']
    BY <1>2, <2>4, <2>6
  <2> QED
    BY <2>4, <2>6, <2>7, <2>8
<1>6. ASSUME NEW e \in Editors, NextCommand(e)
      PROVE  /\ uiBase' \in [Editors -> 0 .. Now']
             /\ \A x \in Editors : uiBase[x] # 0 => uiBase'[x] # 0
             /\ UNCHANGED <<uiForm, uiStale, uiSnap>>
  <2>1. PICK s : s = uiSave[e]
    OBVIOUS
  <2>2. PICK n : n = s.last
    OBVIOUS
  <2>3. UNCHANGED <<uiForm, uiStale, uiSnap>>
    BY <1>6 DEF NextCommand
  <2>4. \/ uiBase' = uiBase
        \/ s.at = "reloading" /\ uiBase' = [uiBase EXCEPT ![e] = n]
    BY <1>6, <2>1, <2>2 DEF NextCommand
  <2>5. s.at = "reloading" => n \in 0 .. Now' /\ n # 0
    BY <1>0, <2>1, <2>2 DEF SaveOK
  <2> QED
    BY <1>2, <2>3, <2>4, <2>5
<1>7. ASSUME NEW e \in Editors, CommandAccepted(e)
      PROVE  UNCHANGED <<uiBase, uiForm, uiSnap>> /\ uiStale' \in BOOLEAN /\ (uiStale => uiStale')
  BY <1>0, <1>7 DEF CommandAccepted
<1>8. CASE \/ UNCHANGED uiVars \/ OtherCommit \/ FollowState \/ Subscribed \/ StreamEvent
           \/ StreamError \/ Reconnect \/ FetchDomain \/ FetchWhole \/ JobFails \/ UiRest
  <2>1. UNCHANGED <<uiBase, uiForm, uiStale, uiSnap>>
    BY <1>8 DEF uiVars, uiForms, OtherCommit, FollowState, Subscribed, StreamEvent, StreamError,
       Reconnect, FetchDomain, FetchWhole, Fetch, JobFails, UiRest
  <2> QED
    BY <1>0, <1>2, <2>1
<1>9. ASSUME NEW e \in Editors, SaveClicked(e) \/ CommandRefused(e) \/ SaveDeclined(e)
      PROVE  UNCHANGED <<uiBase, uiForm, uiStale, uiSnap>>
  BY <1>9 DEF SaveClicked, CommandRefused, SaveDeclined
<1> QED
  BY <1>0, <1>2, <1>3, <1>4, <1>5, <1>6, <1>7, <1>8, <1>9 DEF UiNext, EditorStep

\* A save that a step does not touch stays right.
LEMMA SaveStays ==
    ASSUME UiInv, [UiNext]_uiVars, NEW e \in Editors, uiSave'[e] = uiSave[e],
           uiDirty'[e] => uiDirty[e]
    PROVE  SaveOK(e)'
<1>1. PICK s : s = uiSave[e]
  OBVIOUS
<1>2. SaveOK(e)
  BY DEF UiInv, SaveInv
<1>3. /\ Now \in Nat /\ Now' \in Nat /\ Now' >= Now
      /\ \A r \in 1 .. Now : uiHist'[r] = uiHist[r] /\ (r \in uiOthers' <=> r \in uiOthers)
  BY HistGrows
<1>4. ASSUME s.at # "idle"
      PROVE  /\ uiSnap'.rev # 0 /\ s.k \in 1 .. Len(Chain(e))
             /\ s.expect \in 1 .. Now' /\ s.from \in 1 .. Now'
  <2>1. /\ uiSnap.rev # 0 /\ s.k \in 1 .. Len(Chain(e))
        /\ s.expect \in 1 .. Now /\ s.from \in 1 .. Now
    BY <1>1, <1>2, <1>4 DEF SaveOK
  <2> QED
    BY <1>3, <2>1, FormKeeps
<1>5. ASSUME uiDirty'[e]
      PROVE  s.at = "idle" /\ uiBase'[e] # 0 /\ uiSnap'.rev # 0
  BY <1>1, <1>2, <1>5, FormKeeps DEF SaveOK
<1>6. ASSUME s.at \in {"accepted", "reloading"}
      PROVE  /\ s.last = s.expect + 1 /\ s.last \in 2 .. Now'
             /\ ~uiStale' => uiHist'[s.last]["grp"] \in {s.last, uiHist'[s.expect]["grp"]}
             /\ e = "discovery" => uiHist'[s.last]["grp"] = s.last
             /\ s.last \notin uiOthers'
  <2>1. /\ s.last = s.expect + 1 /\ s.last \in 2 .. Now /\ s.expect \in 1 .. Now
        /\ ~uiStale => uiHist[s.last]["grp"] \in {s.last, uiHist[s.expect]["grp"]}
        /\ e = "discovery" => uiHist[s.last]["grp"] = s.last
        /\ s.last \notin uiOthers
    BY <1>1, <1>2, <1>6 DEF SaveOK
  <2>2. s.last \in 1 .. Now /\ s.last \in 2 .. Now'
    BY <1>3, <2>1
  <2>3. /\ uiHist'[s.last] = uiHist[s.last] /\ uiHist'[s.expect] = uiHist[s.expect]
        /\ s.last \notin uiOthers'
    BY <1>3, <2>1, <2>2
  <2> QED
    BY <2>1, <2>2, <2>3, FormKeeps
<1> QED
  BY <1>1, <1>4, <1>5, <1>6 DEF SaveOK

\* One form's save changes, the other's stays.
LEMMA SaveAlone ==
    ASSUME UiInv, [UiNext]_uiVars, NEW e \in Editors, NEW t \in UiSaves, NEW b \in BOOLEAN,
           uiSave' = [uiSave EXCEPT ![e] = t], uiDirty' = [uiDirty EXCEPT ![e] = b],
           e = "discovery" => t.ok, SaveOK(e)'
    PROVE  SaveInv'
<1>1. uiSave \in [Editors -> UiSaves] /\ uiDirty \in [Editors -> BOOLEAN] /\ uiSave["discovery"].ok
  BY DEF UiInv, SaveInv
<1>2. uiSave' \in [Editors -> UiSaves] /\ uiDirty' \in [Editors -> BOOLEAN]
  BY <1>1
<1>3. uiSave'["discovery"].ok
  <2>1. CASE e = "discovery"
    BY <1>1, <2>1
  <2>2. CASE e # "discovery"
    BY <1>1, <2>2
  <2> QED
    BY <2>1, <2>2
<1>4. ASSUME NEW x \in Editors PROVE SaveOK(x)'
  <2>1. CASE x # e
    <3>1. uiSave'[x] = uiSave[x] /\ uiDirty'[x] = uiDirty[x]
      BY <1>1, <2>1
    <3> QED
      BY <3>1, SaveStays
  <2>2. CASE x = e
    BY <2>2
  <2> QED
    BY <2>1, <2>2
<1> QED
  BY <1>2, <1>3, <1>4 DEF SaveInv

\* An edit, and the click that sends it.
LEMMA SaveBegins ==
    ASSUME UiInv, [UiNext]_uiVars, NEW e \in Editors, Edit(e) \/ SaveClicked(e)
    PROVE  SaveInv'
<1>0. /\ uiSave \in [Editors -> UiSaves] /\ uiDirty \in [Editors -> BOOLEAN]
      /\ uiSave["discovery"].ok /\ SaveOK(e)
      /\ uiBase \in [Editors -> 0 .. Now] /\ uiForm \in UiDocs
      /\ uiSnap \in [rev : 0 .. Now, doc : UiDocs]
      /\ Now \in Nat
  BY LenProperties DEF UiInv, HistInv, SnapInv, SaveInv, FormInv, Now
<1>1. CASE Edit(e)
  <2>1. PICK s \in UiSaves : s = uiSave[e]
    BY <1>0
  <2>2. /\ s.at = "idle" /\ uiSave' = uiSave /\ uiDirty' = [uiDirty EXCEPT ![e] = TRUE]
        /\ uiBase' = [uiBase EXCEPT ![e] = IF uiBase[e] = 0 THEN uiSnap.rev ELSE uiBase[e]]
        /\ uiSnap.rev # 0 /\ uiSnap' = uiSnap
    BY <1>1, <2>1 DEF Edit
  <2>3. uiSave' = [uiSave EXCEPT ![e] = s]
    BY <1>0, <2>1, <2>2
  <2>4. uiBase'[e] # 0
    BY <1>0, <2>2
  <2>5. SaveOK(e)'
    BY <2>1, <2>2, <2>4 DEF SaveOK
  <2>6. e = "discovery" => s.ok
    BY <1>0, <2>1
  <2> QED
    BY <2>2, <2>3, <2>5, <2>6, SaveAlone
<1>2. CASE SaveClicked(e)
  <2>1. PICK t : t = [at |-> "sent", k |-> 1, expect |-> nativeRevision(e), from |-> uiSnap.rev,
                      seen |-> uiForm, ok |-> TRUE, last |-> 0]
    OBVIOUS
  <2>2. /\ uiDirty[e] /\ uiDirty' = [uiDirty EXCEPT ![e] = FALSE]
        /\ uiSave' = [uiSave EXCEPT ![e] = t] /\ UNCHANGED <<uiHist, uiSnap>>
    BY <1>2, <2>1 DEF SaveClicked
  <2>3. uiSave[e].at = "idle" /\ uiBase[e] # 0 /\ uiSnap.rev # 0
    BY <1>0, <2>2 DEF SaveOK
  <2>4. /\ nativeRevision(e) = uiBase[e] /\ uiBase[e] \in 1 .. Now /\ uiSnap.rev \in 1 .. Now
    BY <1>0, <2>3 DEF nativeRevision
  <2>5. /\ t \in UiSaves /\ t.at = "sent" /\ t.k = 1 /\ t.expect \in 1 .. Now
        /\ t.from \in 1 .. Now /\ t.ok
    BY <1>0, <2>1, <2>4 DEF UiSaves
  <2>6. uiSave'[e] = t /\ uiDirty'[e] = FALSE /\ Now' = Now
    BY <1>0, <2>2 DEF Now
  <2>7. 1 \in 1 .. Len(Chain(e))
    BY DEF Chain, Editors
  <2>8. SaveOK(e)'
    BY <2>2, <2>3, <2>5, <2>6, <2>7 DEF SaveOK
  <2> QED
    BY <2>2, <2>5, <2>8, SaveAlone
<1> QED
  BY <1>1, <1>2

\* What an accepted command leaves of the discovery form's field.
LEMMA WriteOfGroup ==
    ASSUME UiInv, NEW e \in Editors, uiSave[e].at = "sent", uiSave[e].expect = Now
    PROVE  /\ e = "discovery" => ComposedWrite(e)["grp"] = Now + 1
           /\ e = "decoder" /\ (uiSave[e].k = 1 => uiSave[e].from = uiSave[e].expect)
                => ComposedWrite(e)["grp"] = uiHist[Now]["grp"]
<1>1. PICK k : k = uiSave[e].k
  OBVIOUS
<1>2. k \in 1 .. Len(Chain(e))
  BY <1>1 DEF UiInv, SaveInv, SaveOK
<1>3. /\ Chain(e)[k] \in UiFields /\ k \in 1 .. 2
      /\ e = "discovery" => k = 1 /\ Chain(e)[k] = "grp"
      /\ e = "decoder" => Chain(e)[k] = IF k = 1 THEN "recv" ELSE "mode"
  BY <1>2, ChainFields
<1>4. PICK f : f = Chain(e)[k]
  OBVIOUS
<1>5. ComposedWrite(e)["grp"] = IF "grp" = f THEN Now + 1
                                ELSE IF f # "mode" /\ UiDomain("grp") = "ndi"
                                     THEN uiHist[uiSave[e].from]["grp"]
                                     ELSE uiHist[Now]["grp"]
  BY <1>1, <1>4 DEF ComposedWrite, UiFields
<1>6. CASE e = "discovery"
  BY <1>3, <1>4, <1>5, <1>6
<1>7. CASE e = "decoder" /\ k = 1
  BY <1>1, <1>3, <1>4, <1>5, <1>7
<1>8. CASE e = "decoder" /\ k # 1
  BY <1>3, <1>4, <1>5, <1>8
<1> QED
  BY <1>6, <1>7, <1>8 DEF Editors

\* A command takes effect.
LEMMA SaveAccepted ==
    ASSUME UiInv, [UiNext]_uiVars, NEW e \in Editors, CommandAccepted(e)
    PROVE  SaveInv'
<1>0. /\ uiSave \in [Editors -> UiSaves] /\ uiDirty \in [Editors -> BOOLEAN]
      /\ uiSave["discovery"].ok /\ SaveOK(e) /\ uiOthers \subseteq 1 .. Now
      /\ Now \in Nat /\ Now >= 1 /\ Now' \in Nat /\ Now' >= Now /\ uiStale \in BOOLEAN
      /\ \A r \in 1 .. Now : uiHist'[r] = uiHist[r]
  BY HistGrows DEF UiInv, HistInv, SaveInv, FormInv
<1>1. PICK s \in UiSaves : s = uiSave[e]
  BY <1>0
<1>2. PICK n \in Nat : n = Now
  BY <1>0
<1>3. /\ s.at = "sent" /\ s.expect = n
      /\ uiSave' = [uiSave EXCEPT ![e] = [s EXCEPT !.at = "accepted", !.last = n + 1]]
      /\ uiStale' = (uiStale \/ (s.k = 1 /\ s.from # s.expect))
      /\ uiHist' = Append(uiHist, ComposedWrite(e))
      /\ UNCHANGED <<uiOthers, uiDirty, uiSnap>>
  <2>1. uiSave' = [uiSave EXCEPT ![e] = [uiSave[e] EXCEPT !.at = "accepted", !.last = Now + 1]]
    BY Zenon DEF CommandAccepted
  <2> QED
    BY <1>1, <1>2, <2>1 DEF CommandAccepted, Compared, Committed
<1>4. PICK t : t = [s EXCEPT !.at = "accepted", !.last = n + 1]
  OBVIOUS
<1>5. /\ t.at = "accepted" /\ t.k = s.k /\ t.expect = s.expect /\ t.from = s.from
      /\ t.ok = s.ok /\ t.last = n + 1
  BY <1>1, <1>4 DEF UiSaves
<1>6. t \in UiSaves
  <2>1. PICK u \in UiSaves : u = [s EXCEPT !.at = "accepted"]
    BY <1>1 DEF UiSaves
  <2>2. t = [u EXCEPT !.last = n + 1]
    BY <1>1, <1>4, <2>1 DEF UiSaves
  <2>3. PICK l \in Nat : l = n + 1
    BY <1>2
  <2>4. [u EXCEPT !.last = l] \in UiSaves
    BY <2>3 DEF UiSaves
  <2> QED
    BY <2>2, <2>3, <2>4
<1>7. Now' = n + 1 /\ uiHist'[n + 1] = ComposedWrite(e)
  <2>1. PICK doc : doc = ComposedWrite(e)
    OBVIOUS
  <2>2. doc \in UiDocs /\ \A f \in UiFields : doc[f] <= Now + 1
    BY <1>1, <1>3, <2>1, ComposedIsDocument
  <2> QED
    BY <1>2, <1>3, <2>1, <2>2, CommittedEffect DEF UiInv
<1>8. /\ s.k \in 1 .. Len(Chain(e)) /\ s.expect \in 1 .. Now /\ s.from \in 1 .. Now
      /\ uiSnap.rev # 0 /\ ~uiDirty[e]
  BY <1>0, <1>1, <1>3 DEF SaveOK
<1>9. n + 1 \in 2 .. Now' /\ n + 1 \notin uiOthers'
  BY <1>0, <1>2, <1>3, <1>7
<1>10. ~uiStale' => uiHist'[n + 1]["grp"] \in {n + 1, uiHist'[n]["grp"]}
  <2> SUFFICES ASSUME ~uiStale' PROVE uiHist'[n + 1]["grp"] \in {n + 1, uiHist'[n]["grp"]}
    OBVIOUS
  <2>1. s.k = 1 => s.from = s.expect
    BY <1>3, Zenon
  <2>2. uiHist'[n] = uiHist[n]
    BY <1>0, <1>2
  <2>3. CASE e = "discovery"
    BY <1>1, <1>2, <1>3, <1>7, <2>3, WriteOfGroup
  <2>4. CASE e = "decoder"
    BY <1>1, <1>2, <1>3, <1>7, <2>1, <2>2, <2>4, WriteOfGroup
  <2> QED
    BY <2>3, <2>4 DEF Editors
<1>11. e = "discovery" => uiHist'[n + 1]["grp"] = n + 1
  BY <1>1, <1>2, <1>3, <1>7, WriteOfGroup
<1>12. SaveOK(e)'
  <2>1. uiSave'[e] = t /\ uiDirty' = uiDirty
    BY <1>0, <1>3, <1>4
  <2>2. t.expect \in 1 .. Now' /\ t.from \in 1 .. Now'
    BY <1>0, <1>5, <1>8
  <2>3. t.last = t.expect + 1 /\ t.last \in 2 .. Now' /\ t.last \notin uiOthers'
    BY <1>3, <1>5, <1>9
  <2>4. /\ ~uiStale' => uiHist'[t.last]["grp"] \in {t.last, uiHist'[t.expect]["grp"]}
        /\ e = "discovery" => uiHist'[t.last]["grp"] = t.last
    BY <1>3, <1>5, <1>10, <1>11
  <2> QED
    BY <1>3, <1>5, <1>8, <2>1, <2>2, <2>3, <2>4 DEF SaveOK
<1>13. uiDirty' = [uiDirty EXCEPT ![e] = uiDirty[e]] /\ uiDirty[e] \in BOOLEAN
  BY <1>0, <1>3
<1>14. e = "discovery" => t.ok
  BY <1>0, <1>1, <1>5
<1> QED
  BY <1>3, <1>4, <1>6, <1>12, <1>13, <1>14, SaveAlone

\* The ways a save moves without a commit.
LEMMA SaveMoves ==
    ASSUME UiInv, [UiNext]_uiVars, NEW e \in Editors,
           CommandRefused(e) \/ SaveDeclined(e) \/ CommandReply(e) \/ NextCommand(e)
    PROVE  SaveInv'
<1>0. /\ uiSave \in [Editors -> UiSaves] /\ uiDirty \in [Editors -> BOOLEAN]
      /\ uiSave["discovery"].ok /\ SaveOK(e) /\ FormInv
      /\ Now \in Nat /\ Now >= 1
  BY LenProperties DEF UiInv, HistInv, SaveInv, Now
<1>1. PICK s \in UiSaves : s = uiSave[e]
  BY <1>0
<1>2. /\ UNCHANGED <<uiHist, uiOthers, uiSnap, uiDirty, uiStale>> /\ s.at # "idle" /\ Now' = Now
  BY <1>1 DEF CommandRefused, SaveDeclined, CommandReply, NextCommand, Now
<1>3. /\ uiSnap.rev # 0 /\ s.k \in 1 .. Len(Chain(e)) /\ ~uiDirty[e]
      /\ s.expect \in 1 .. Now /\ s.from \in 1 .. Now
      /\ e = "discovery" => s.ok
  BY <1>0, <1>1, <1>2 DEF SaveOK
<1>4. uiDirty' = [uiDirty EXCEPT ![e] = uiDirty[e]] /\ uiDirty[e] \in BOOLEAN
  BY <1>0, <1>2
<1>5. ASSUME NEW t \in UiSaves, uiSave' = [uiSave EXCEPT ![e] = t], e = "discovery" => t.ok,
             \/ t.at = "idle"
             \/ /\ t.at \in {"sent", "refused"} /\ t.k \in 1 .. Len(Chain(e))
                /\ t.expect \in 1 .. Now /\ t.from = s.from
             \/ /\ t.at = "reloading" /\ s.at = "accepted" /\ t.k = s.k /\ t.expect = s.expect
                /\ t.from = s.from /\ t.last = s.last
      PROVE  SaveInv'
  <2>1. uiSave'[e] = t /\ ~uiDirty'[e]
    BY <1>0, <1>2, <1>3, <1>5
  <2>2. SaveOK(e)'
    <3>1. CASE t.at # "reloading"
      BY <1>2, <1>3, <1>5, <2>1, <3>1 DEF SaveOK
    <3>2. CASE t.at = "reloading"
      <4>1. /\ s.last = s.expect + 1 /\ s.last \in 2 .. Now
            /\ ~uiStale => uiHist[s.last]["grp"] \in {s.last, uiHist[s.expect]["grp"]}
            /\ e = "discovery" => uiHist[s.last]["grp"] = s.last
            /\ s.last \notin uiOthers
        BY <1>0, <1>1, <1>5, <3>2 DEF SaveOK
      <4> QED
        BY <1>2, <1>3, <1>5, <2>1, <3>2, <4>1 DEF SaveOK
    <3> QED
      BY <3>1, <3>2
  <2> QED
    BY <1>4, <1>5, <2>2, SaveAlone
<1>6. CASE CommandRefused(e)
  <2>1. PICK t : t = [s EXCEPT !.at = "refused"]
    OBVIOUS
  <2>2. t \in UiSaves /\ t.at = "refused" /\ t.k = s.k /\ t.expect = s.expect /\ t.from = s.from
        /\ t.ok = s.ok
    BY <1>1, <2>1 DEF UiSaves
  <2>3. uiSave' = [uiSave EXCEPT ![e] = t]
    BY <1>1, <1>6, <2>1 DEF CommandRefused
  <2> QED
    BY <1>3, <1>5, <2>2, <2>3
<1>7. NoSave \in UiSaves /\ NoSave.at = "idle" /\ NoSave.ok
  BY DEF NoSave, UiSaves, UiDocs
<1>8. CASE SaveDeclined(e)
  BY <1>5, <1>7, <1>8 DEF SaveDeclined
<1>9. CASE CommandReply(e)
  <2>1. PICK t : t = [s EXCEPT !.at = "reloading"]
    OBVIOUS
  <2>2. t \in UiSaves /\ t.at = "reloading" /\ t.k = s.k /\ t.expect = s.expect /\ t.from = s.from
        /\ t.ok = s.ok /\ t.last = s.last
    BY <1>1, <2>1 DEF UiSaves
  <2>3. uiSave' = [uiSave EXCEPT ![e] = t] /\ s.at = "accepted"
    BY <1>1, <1>9, <2>1 DEF CommandReply
  <2> QED
    BY <1>3, <1>5, <2>2, <2>3
<1>10. CASE NextCommand(e)
  <2>1. PICK accepted : accepted = (s.at = "reloading")
    OBVIOUS
  <2>2. CASE s.k < Len(Chain(e))
    <3>1. PICK n : n = IF accepted THEN s.last ELSE nativeRevision(e)
      OBVIOUS
    <3>2. n \in 1 .. Now
      <4>1. CASE accepted
        <5>1. s.at = "reloading" /\ n = s.last
          BY <2>1, <3>1, <4>1, Zenon
        <5> QED
          BY <1>0, <1>1, <5>1 DEF SaveOK
      <4>2. CASE ~accepted
        <5>1. uiBase[e] \in 0 .. Now /\ uiSnap.rev \in 0 .. Now
          BY <1>0 DEF FormInv, UiInv, SnapInv
        <5> QED
          BY <1>3, <3>1, <4>2, <5>1 DEF nativeRevision
      <4> QED
        BY <4>1, <4>2
    <3>3. PICK t : t = [s EXCEPT !.at = "sent", !.k = s.k + 1, !.ok = accepted, !.expect = n]
      OBVIOUS
    <3>4. t \in UiSaves /\ t.at = "sent" /\ t.k = s.k + 1 /\ t.expect = n /\ t.from = s.from
      <4>1. accepted \in BOOLEAN /\ s.k + 1 \in Nat /\ n \in Nat
        BY <1>0, <1>1, <2>1, <3>2 DEF UiSaves
      <4>2. PICK u \in UiSaves : u = [s EXCEPT !.at = "sent", !.k = s.k + 1]
        <5>1. PICK v \in UiSaves : v = [s EXCEPT !.at = "sent"]
          BY <1>1 DEF UiSaves
        <5>2. [v EXCEPT !.k = s.k + 1] \in UiSaves
          BY <4>1 DEF UiSaves
        <5> QED
          BY <5>1, <5>2
      <4>3. PICK w \in UiSaves : w = [u EXCEPT !.ok = accepted]
        BY <4>1 DEF UiSaves
      <4>4. t = [w EXCEPT !.expect = n]
        BY <3>3, <4>2, <4>3
      <4>5. t \in UiSaves
        BY <4>1, <4>4 DEF UiSaves
      <4>6. t.at = "sent" /\ t.k = s.k + 1 /\ t.expect = n /\ t.from = s.from
        BY <1>1, <3>3 DEF UiSaves
      <4> QED
        BY <4>5, <4>6
    <3>5. uiSave' = [uiSave EXCEPT ![e] = t]
      BY <1>1, <1>10, <2>1, <2>2, <3>1, <3>3, Zenon DEF NextCommand
    <3>6. e # "discovery"
      <4>1. e = "discovery" => Chain(e) = <<"grp">> /\ Len(<<"grp">>) = 1
        BY DEF Chain
      <4> QED
        BY <1>3, <2>2, <4>1, ChainFields
    <3>7. s.k + 1 \in 1 .. Len(Chain(e))
      <4>1. Len(Chain(e)) \in Nat
        BY DEF Chain, Editors
      <4> QED
        BY <1>1, <1>3, <2>2, <4>1 DEF UiSaves
    <3> QED
      BY <1>5, <3>2, <3>4, <3>5, <3>6, <3>7
  <2>3. CASE ~(s.k < Len(Chain(e)))
    BY <1>1, <1>5, <1>7, <1>10, <2>3 DEF NextCommand
  <2> QED
    BY <2>2, <2>3
<1> QED
  BY <1>6, <1>8, <1>9, <1>10

LEMMA SaveKept == ASSUME UiInv, [UiNext]_uiVars PROVE SaveInv'
<1>1. ASSUME UNCHANGED <<uiSave, uiDirty>> PROVE SaveInv'
  <2>1. /\ uiSave \in [Editors -> UiSaves] /\ uiDirty \in [Editors -> BOOLEAN]
        /\ uiSave["discovery"].ok
    BY DEF UiInv, SaveInv
  <2>2. \A e \in Editors : SaveOK(e)'
    BY <1>1, SaveStays
  <2> QED
    BY <1>1, <2>1, <2>2 DEF SaveInv
<1>2. CASE \/ UNCHANGED uiVars \/ OtherCommit \/ FollowState \/ Subscribed \/ StreamEvent
           \/ StreamError \/ Reconnect \/ FetchDomain \/ FetchWhole \/ JobDone \/ JobFails \/ UiRest
  <2>1. UNCHANGED <<uiSave, uiDirty>>
    BY <1>2 DEF uiVars, uiForms, OtherCommit, FollowState, Subscribed, StreamEvent, StreamError,
       Reconnect, FetchDomain, FetchWhole, Fetch, JobDone, JobFails, UiRest
  <2> QED
    BY <1>1, <2>1
<1>3. ASSUME NEW e \in Editors, EditorStep(e)
      PROVE  SaveInv'
  BY <1>3, SaveBegins, SaveAccepted, SaveMoves DEF EditorStep
<1> QED
  BY <1>2, <1>3 DEF UiNext

\* What a form shows of a revision, it shows as long as the revision is there.
LEMMA ShowsKept ==
    ASSUME UiInv, [UiNext]_uiVars, NEW doc, NEW r \in 1 .. Now, Shows(doc, r)
    PROVE  uiHist'[r]["grp"] \in uiOthers' => doc["grp"] = uiHist'[r]["grp"]
<1>1. PICK v : v = uiHist[r]["grp"]
  OBVIOUS
<1>2. v \in Nat /\ v <= Now /\ Now \in Nat
  BY <1>1, HistIsNumbers DEF UiInv, HistInv, UiDocs, UiFields
<1>3. uiHist'[r]["grp"] = v
  BY <1>1, HistGrows
<1>4. v \in uiOthers' => v \in uiOthers
  <2>1. uiOthers' \subseteq 1 .. Now' /\ Now' \in Nat
    BY HistGrows DEF HistInv
  <2>2. v \in uiOthers' => v \in 1 .. Now
    BY <1>2, <2>1
  <2> QED
    BY <2>2, HistGrows
<1> QED
  BY <1>1, <1>3, <1>4 DEF Shows

LEMMA FormKept == ASSUME UiInv, [UiNext]_uiVars PROVE FormInv'
<1> DEFINE d == "discovery"
           A == uiBase[d] # 0 /\ uiSave[d].at # "reloading" => Shows(uiForm, uiBase[d])
           B == uiSave[d].at = "sent" => Shows(uiSave[d].seen, uiSave[d].expect)
<1>0. /\ Now \in Nat /\ Now >= 1 /\ d \in Editors
      /\ uiBase \in [Editors -> 0 .. Now] /\ uiForm \in UiDocs
      /\ uiSave \in [Editors -> UiSaves]
      /\ uiSnap.rev # 0 => \A e \in Editors : uiBase[e] # 0
      /\ ~uiStale => A /\ B
  BY LenProperties DEF UiInv, HistInv, FormInv, SaveInv, Now, Editors
<1>1. SaveOK(d) /\ uiSave[d].ok
  BY <1>0 DEF UiInv, SaveInv
<1>2. ~uiStale /\ uiSave'[d] = uiSave[d] => B'
  <2> SUFFICES ASSUME ~uiStale, uiSave'[d] = uiSave[d], uiSave[d].at = "sent"
               PROVE  B'
    BY DEF B
  <2>1. PICK s : s = uiSave[d]
    OBVIOUS
  <2>2. s.expect \in 1 .. Now /\ Shows(s.seen, s.expect)
    BY <1>0, <1>1, <2>1 DEF SaveOK
  <2>3. uiHist'[s.expect]["grp"] \in uiOthers' => s.seen["grp"] = uiHist'[s.expect]["grp"]
    BY <2>2, ShowsKept
  <2> QED
    BY <2>1, <2>3 DEF Shows
<1>3. ASSUME ~uiStale, uiBase'[d] = uiBase[d], uiForm'["grp"] = uiForm["grp"],
             uiSave'[d].at # "reloading" => uiSave[d].at # "reloading"
      PROVE  A'
  <2> SUFFICES ASSUME uiBase[d] # 0, uiSave[d].at # "reloading"
               PROVE  Shows(uiForm, uiBase[d])'
    BY <1>3
  <2>1. PICK r \in 1 .. Now : r = uiBase[d]
    BY <1>0
  <2>2. PICK doc : doc = uiForm
    OBVIOUS
  <2>3. Shows(doc, r)
    BY <1>0, <1>3, <2>1, <2>2
  <2>4. uiHist'[r]["grp"] \in uiOthers' => doc["grp"] = uiHist'[r]["grp"]
    BY <2>3, ShowsKept
  <2> QED
    BY <1>3, <2>1, <2>2, <2>4 DEF Shows
<1>4. (~uiStale' => A' /\ B') /\ (uiSnap'.rev # 0 => uiSnap.rev # 0 \/ \A e \in Editors : uiBase'[e] # 0)
      => FormInv'
  BY <1>0, FormKeeps DEF FormInv
<1> HIDE DEF A, B
<1>5. CASE \/ UNCHANGED uiVars \/ OtherCommit \/ FollowState \/ Subscribed \/ StreamEvent
           \/ StreamError \/ Reconnect \/ FetchDomain \/ FetchWhole \/ JobFails \/ UiRest
  <2>1. UNCHANGED <<uiBase, uiForm, uiSave, uiStale, uiSnap>>
    BY <1>5 DEF uiVars, uiForms, OtherCommit, FollowState, Subscribed, StreamEvent, StreamError,
       Reconnect, FetchDomain, FetchWhole, Fetch, JobFails, UiRest
  <2> QED
    BY <1>2, <1>3, <1>4, <2>1
<1>6. CASE JobDone
  <2>1. UNCHANGED <<uiHist, uiOthers, uiSave, uiStale, uiDirty>>
    BY <1>6 DEF JobDone
  <2>2. CASE UNCHANGED <<uiSnap, uiBase, uiForm>>
    BY <1>2, <1>3, <1>4, <2>1, <2>2
  <2>3. CASE ~Outdated(Current) /\ uiSnap' = JobDocument(Current) /\ Render(JobDocument(Current))
    <3>1. PICK s : s = JobDocument(Current)
      OBVIOUS
    <3>2. s \in [rev : 1 .. Now, doc : UiDocs] /\ s.doc = uiHist[s.rev]
      BY <1>6, <2>3, <3>1, JobPublishesRevision DEF JobDone
    <3>3. CASE \A e \in Editors : ~uiDirty[e]
      <4>1. uiBase' = [e \in Editors |-> s.rev] /\ uiForm' = s.doc
        BY <2>3, <3>1, <3>3 DEF Render
      <4>2. \A e \in Editors : uiBase'[e] = s.rev /\ uiBase'[e] # 0
        BY <3>2, <4>1
      <4>3. A'
        BY <1>0, <2>1, <3>2, <4>1, <4>2 DEF A, Shows
      <4> QED
        BY <1>2, <1>4, <2>1, <4>2, <4>3
    <3>4. CASE ~ \A e \in Editors : ~uiDirty[e]
      <4>1. uiBase' = uiBase /\ uiForm' = uiForm
        BY <2>3, <3>1, <3>4 DEF Render
      <4>2. uiSnap.rev # 0
        BY <3>4 DEF UiInv, SaveInv, SaveOK
      <4> QED
        BY <1>2, <1>3, <1>4, <2>1, <4>1, <4>2
    <3> QED
      BY <3>3, <3>4
  <2> QED
    BY <1>6, <2>2, <2>3, JobDoneEffect
<1>7. ASSUME NEW e \in Editors, Edit(e)
      PROVE  FormInv'
  <2>1. /\ UNCHANGED <<uiSave, uiForm, uiSnap, uiStale>> /\ uiSnap.rev # 0
        /\ uiBase' = [uiBase EXCEPT ![e] = IF uiBase[e] = 0 THEN uiSnap.rev ELSE uiBase[e]]
    BY <1>7 DEF Edit
  <2>2. uiBase'[d] = uiBase[d]
    BY <1>0, <2>1
  <2> QED
    BY <1>2, <1>3, <1>4, <2>1, <2>2
<1>8. ASSUME NEW e \in Editors, SaveClicked(e)
      PROVE  FormInv'
  <2>1. PICK t : t = [at |-> "sent", k |-> 1, expect |-> nativeRevision(e), from |-> uiSnap.rev,
                      seen |-> uiForm, ok |-> TRUE, last |-> 0]
    OBVIOUS
  <2>2. /\ uiDirty[e] /\ UNCHANGED <<uiHist, uiOthers, uiBase, uiForm, uiSnap, uiStale>>
        /\ uiSave' = [uiSave EXCEPT ![e] = t]
    BY <1>8, <2>1 DEF SaveClicked
  <2>3. uiBase[e] # 0 /\ uiSave[e].at = "idle"
    BY <2>2 DEF UiInv, SaveInv, SaveOK
  <2>4. t.at = "sent" /\ t.seen = uiForm /\ t.expect = uiBase[e] /\ uiSave'[e] = t
    BY <1>0, <2>1, <2>2, <2>3 DEF nativeRevision
  <2>5. e # d => uiSave'[d] = uiSave[d]
    BY <1>0, <2>2
  <2>6. ~uiStale => A'
    BY <1>3, <2>2, <2>3, <2>4, <2>5
  <2>7. ~uiStale => B'
    <3>1. CASE e # d
      BY <1>2, <2>5, <3>1
    <3>2. CASE e = d
      BY <1>0, <2>2, <2>3, <2>4, <3>2 DEF A, B, Shows
    <3> QED
      BY <3>1, <3>2
  <2> QED
    BY <1>4, <2>2, <2>6, <2>7
<1>9. ASSUME NEW e \in Editors, CommandAccepted(e) \/ CommandRefused(e) \/ SaveDeclined(e)
      PROVE  FormInv'
  <2>1. /\ UNCHANGED <<uiBase, uiForm, uiSnap>> /\ uiSave[e].at = "sent"
        /\ \A x \in Editors : x # e => uiSave'[x] = uiSave[x]
    BY <1>0, <1>9 DEF CommandAccepted, CommandRefused, SaveDeclined
  <2>2. uiSave'[e].at # "sent"
    BY <1>0, <1>9 DEF CommandAccepted, CommandRefused, SaveDeclined, NoSave, UiSaves
  <2>3. ~uiStale => A'
    BY <1>0, <1>3, <2>1
  <2>4. ~uiStale => B'
    BY <1>0, <1>2, <2>1, <2>2 DEF B
  <2>5. ~uiStale' => ~uiStale
    BY FormKeeps
  <2> QED
    BY <1>4, <2>1, <2>3, <2>4, <2>5
<1>10. ASSUME NEW e \in Editors, CommandReply(e)
       PROVE  FormInv'
  <2>1. PICK s \in UiSaves : s = uiSave[e]
    BY <1>0
  <2>2. PICK t : t = [s EXCEPT !.at = "reloading"]
    OBVIOUS
  <2>3. PICK f : f = Chain(e)[s.k]
    OBVIOUS
  <2>4. /\ s.at = "accepted" /\ UNCHANGED <<uiHist, uiOthers, uiSnap, uiStale>>
        /\ uiBase' = [x \in Editors |-> IF uiBase[x] = s.expect THEN s.last ELSE uiBase[x]]
        /\ uiForm' = [uiForm EXCEPT ![f] = s.last]
        /\ uiSave' = [uiSave EXCEPT ![e] = t]
    BY <1>10, <2>1, <2>2, <2>3 DEF CommandReply
  <2>5. t.at = "reloading"
    BY <2>1, <2>2 DEF UiSaves
  <2>6. CASE e = d
    <3>1. uiSave'[d].at = "reloading"
      BY <1>0, <2>4, <2>5, <2>6
    <3> QED
      BY <1>4, <2>4, <3>1 DEF A, B
  <2>7. CASE e # d
    <3>1. e = "decoder" /\ uiSave'[d] = uiSave[d]
      BY <1>0, <2>4, <2>7 DEF Editors
    <3>2. /\ s.last = s.expect + 1 /\ s.last \in 2 .. Now /\ s.k \in 1 .. Len(Chain(e))
          /\ ~uiStale => uiHist[s.last]["grp"] \in {s.last, uiHist[s.expect]["grp"]}
          /\ s.last \notin uiOthers
      BY <2>1, <2>4 DEF UiInv, SaveInv, SaveOK
    <3>3. uiForm'["grp"] = uiForm["grp"]
      <4>1. f \in UiFields /\ f # "grp"
        BY <2>3, <3>1, <3>2, ChainFields
      <4> QED
        BY <1>0, <2>4, <4>1 DEF UiDocs
    <3>4. CASE uiBase[d] # s.expect
      <4>1. uiBase'[d] = uiBase[d]
        BY <1>0, <2>4, <3>4
      <4> QED
        BY <1>2, <1>3, <1>4, <2>4, <3>1, <3>3, <4>1
    <3>5. CASE uiBase[d] = s.expect
      <4>1. uiBase'[d] = s.last
        BY <1>0, <2>4, <3>5
      <4>2. uiBase[d] # 0
        BY <1>0, <2>1, <2>4, <3>2 DEF UiInv, SaveInv, SaveOK
      <4>3. ~uiStale => A'
        <5> SUFFICES ASSUME ~uiStale, uiSave[d].at # "reloading",
                            uiHist[s.last]["grp"] \in uiOthers
                     PROVE  uiForm["grp"] = uiHist[s.last]["grp"]
          BY <2>4, <3>1, <3>3, <4>1 DEF A, Shows
        <5>1. Shows(uiForm, s.expect)
          BY <1>0, <3>5, <4>2 DEF A
        <5>2. uiHist[s.last]["grp"] = uiHist[s.expect]["grp"]
          BY <3>2
        <5> QED
          BY <5>1, <5>2 DEF Shows
      <4> QED
        BY <1>2, <1>4, <2>4, <3>1, <4>3
    <3> QED
      BY <3>4, <3>5
  <2> QED
    BY <2>6, <2>7
<1>11. ASSUME NEW e \in Editors, NextCommand(e)
       PROVE  FormInv'
  <2>1. /\ UNCHANGED <<uiHist, uiOthers, uiForm, uiSnap, uiStale>>
        /\ uiSave[e].at \in {"refused", "reloading"}
    BY <1>11 DEF NextCommand
  <2>2. CASE e = d
    <3>1. uiSave[d].k \in 1 .. Len(Chain(d))
      BY <1>1, <2>1, <2>2 DEF SaveOK
    <3>2. ~(uiSave[d].k < Len(Chain(d)))
      <4>1. Chain(d) = <<"grp">> /\ Len(<<"grp">>) = 1
        BY DEF Chain
      <4> QED
        BY <1>0, <3>1, <4>1, ChainFields
    <3>3. /\ uiSave' = [uiSave EXCEPT ![d] = NoSave]
          /\ uiBase' = IF uiSave[d].at = "reloading" THEN [uiBase EXCEPT ![d] = uiSave[d].last]
                       ELSE uiBase
      BY <1>1, <1>11, <2>2, <3>2 DEF NextCommand
    <3>4. uiSave'[d].at = "idle"
      BY <1>0, <3>3 DEF NoSave
    <3>5. B'
      BY <3>4 DEF B
    <3>6. CASE uiSave[d].at = "reloading"
      <4>1. PICK n : n = uiSave[d].last
        OBVIOUS
      <4>2. uiHist[n]["grp"] = n /\ n \notin uiOthers
        BY <1>1, <3>6, <4>1 DEF SaveOK
      <4>3. uiBase'[d] = n
        BY <1>0, <3>3, <3>6, <4>1
      <4>4. A'
        BY <2>1, <4>2, <4>3 DEF A, Shows
      <4> QED
        BY <1>4, <2>1, <3>5, <4>4
    <3>7. CASE uiSave[d].at # "reloading"
      BY <1>3, <1>4, <2>1, <3>3, <3>5, <3>7
    <3> QED
      BY <3>6, <3>7
  <2>3. CASE e # d
    <3>1. uiSave'[d] = uiSave[d] /\ uiBase'[d] = uiBase[d]
      BY <1>0, <1>11, <2>3, Zenon DEF NextCommand
    <3> QED
      BY <1>2, <1>3, <1>4, <2>1, <3>1
  <2> QED
    BY <2>2, <2>3
<1> QED
  BY <1>5, <1>6, <1>7, <1>8, <1>9, <1>10, <1>11 DEF UiNext, EditorStep
-------------------------------------------------------------------------------
(* The page keeps its promises.                                                *)

LEMMA UiInvAtFirst == ASSUME UiInit PROVE UiInv
<1>1. PICK doc : doc = [f \in UiFields |-> 1]
  OBVIOUS
<1>2. doc \in UiDocs /\ \A f \in UiFields : doc[f] = 1
  BY <1>1 DEF UiDocs
<1>3. uiHist = <<doc>> /\ uiHist \in Seq(UiDocs) /\ Len(uiHist) = 1 /\ uiHist[1] = doc
  BY <1>1, <1>2 DEF UiInit
<1>4. HistInv
  BY <1>2, <1>3 DEF HistInv, Now, UiInit
<1>5. PICK j : j = Reload("page")
  OBVIOUS
<1>6. j \in UiJobs /\ j.kind = "reload"
  BY <1>5 DEF Reload, Job, UiJobs
<1>7. uiQueue = <<j>> /\ In(uiQueue) = {j} /\ uiQueue \in Seq(UiJobs)
  <2>1. uiQueue = <<j>>
    BY <1>5 DEF UiInit
  <2>2. DOMAIN <<j>> = 1 .. 1 /\ <<j>>[1] = j /\ <<j>> \in Seq(UiJobs)
    BY <1>6
  <2> QED
    BY <2>1, <2>2 DEF In
<1>8. PathInv
  <2>1. uiBus = <<>> /\ uiPipe = <<>> /\ uiPipeLag = FALSE /\ uiStream = "opening" /\ uiTold = 0
    BY DEF UiInit
  <2>2. <<>> \in Seq(UiMessages) /\ Len(<<>>) = 0 /\ In(<<>>) = {} /\ UiCap \in Nat
    BY EmptySeq, UiAssumption DEF In, UiAssumption
  <2> QED
    BY <1>3, <1>6, <1>7, <2>1, <2>2 DEF PathInv, Truthful, Now
<1>9. SnapInv
  BY <1>2, <1>3 DEF SnapInv, UiInit, NoGot, Now, ShownWasCommitted
<1>10. ToldInv
  BY DEF ToldInv, UiInit, NoGot
<1>11. NoSave \in UiSaves /\ NoSave.at = "idle" /\ NoSave.ok
  BY DEF NoSave, UiSaves, UiDocs
<1>12. SaveInv
  BY <1>11 DEF SaveInv, SaveOK, UiInit, Editors
<1>13. FormInv
  <2>1. /\ uiBase = [e \in Editors |-> 0] /\ uiForm = doc /\ uiStale = FALSE /\ uiSnap.rev = 0
        /\ uiSave = [e \in Editors |-> NoSave]
    BY <1>1 DEF UiInit
  <2>2. uiBase \in [Editors -> 0 .. Now] /\ uiBase["discovery"] = 0
    BY <1>3, <2>1 DEF Now, Editors
  <2>3. uiSave["discovery"].at = "idle"
    BY <1>11, <2>1 DEF Editors
  <2> QED
    BY <1>2, <2>1, <2>2, <2>3 DEF FormInv
<1> QED
  BY <1>4, <1>8, <1>9, <1>10, <1>12, <1>13 DEF UiInv

LEMMA UiInvKept == ASSUME UiInv, [UiNext]_uiVars PROVE UiInv'
  BY HistGrows, PathKept, SnapKept, ToldKept, SaveKept, FormKept DEF UiInv

\* The history, the path of an announcement, the snapshot and the forms keep the invariant
\* (store.ts, native-page.ts, sse.rs, event_bridge.rs).
THEOREM UiInvHolds == UiSafe => []UiInv
<1>1. UiInit => UiInv
  BY UiInvAtFirst
<1>2. UiInv /\ [UiNext]_uiVars => UiInv'
  BY UiInvKept
<1> QED
  BY <1>1, <1>2, PTL DEF UiSafe

\* An accepted command of the discovery form.
LEMMA ReplacesSeen == ASSUME UiInv, [UiNext]_uiVars PROVE ReplacesOnlySeen("discovery")
<1> DEFINE d == "discovery"
<1> SUFFICES ASSUME uiSave[d].at = "sent", uiSave'[d].at = "accepted", ~uiStale',
                    uiHist[Now][Chain(d)[uiSave[d].k]] \in uiOthers
             PROVE  uiHist[Now][Chain(d)[uiSave[d].k]] = uiSave[d].seen[Chain(d)[uiSave[d].k]]
  BY DEF ReplacesOnlySeen
<1>0. uiSave \in [Editors -> UiSaves] /\ d \in Editors /\ SaveOK(d)
  BY DEF UiInv, SaveInv, Editors
<1>1. Chain(d)[uiSave[d].k] = "grp"
  BY <1>0, ChainFields DEF SaveOK
<1>2. uiSave[d].expect = Now
  <2>1. uiSave' # uiSave
    OBVIOUS
  <2>2. ASSUME NEW e \in Editors, e # d, EditorStep(e) PROVE uiSave'[d] = uiSave[d]
    BY <1>0, <2>2, Zenon DEF EditorStep, Edit, SaveClicked, CommandAccepted, CommandRefused,
       SaveDeclined, CommandReply, NextCommand
  <2>3. EditorStep(d)
    BY <2>1, <2>2 DEF UiNext, uiVars, uiForms, OtherCommit, FollowState, Subscribed, StreamEvent,
       StreamError, Reconnect, FetchDomain, FetchWhole, Fetch, JobDone, JobFails, UiRest
  <2>4. CASE CommandAccepted(d)
    BY <2>4 DEF CommandAccepted, Compared
  <2>5. CASE CommandRefused(d)
    BY <1>0, <2>5 DEF CommandRefused, UiSaves
  <2>6. CASE SaveDeclined(d)
    BY <1>0, <2>6 DEF SaveDeclined, NoSave
  <2>7. CASE Edit(d)
    BY <2>1, <2>7 DEF Edit
  <2>8. CASE SaveClicked(d) \/ CommandReply(d) \/ NextCommand(d)
    BY <1>0, <2>8 DEF SaveClicked, CommandReply, NextCommand, SaveOK
  <2> QED
    BY <2>3, <2>4, <2>5, <2>6, <2>7, <2>8 DEF EditorStep
<1>3. ~uiStale
  BY FormKeeps
<1>4. Shows(uiSave[d].seen, Now)
  BY <1>2, <1>3 DEF UiInv, FormInv
<1> QED
  BY <1>1, <1>4 DEF Shows

\* What is shown was committed, what was announced is shown when the page comes to rest, and a
\* save of the discovery form replaces nothing of another session that the form did not show
\* (store.ts apply, sse.rs, native-page.ts).
THEOREM UiPromisesHold == UiSafe => UiPromises
<1>1. UiInv => UiTypeOK
  BY DEF UiInv, PathInv, SnapInv, SaveInv, FormInv, UiTypeOK, UiSaves
<1>2. UiInv => ShownWasCommitted
  BY DEF UiInv, SnapInv
<1>3. UiInv => AnnouncedIsShown
  <2>1. In(<<>>) = {}
    BY DEF In
  <2> QED
    BY <2>1 DEF UiInv, ToldInv, PathInv, Ahead, AnnouncedIsShown
<1>4. UiInv /\ [UiNext]_uiVars => [ReplacesOnlySeen("discovery")]_uiVars
  BY ReplacesSeen
<1> QED
  BY <1>1, <1>2, <1>3, <1>4, UiInvHolds, PTL DEF UiSafe, UiPromises, SaveReplacesSeen

-------------------------------------------------------------------------------
(* The session store and the login gate.                                       *)

\* The sessions by themselves, without what the scheduler owes the gate.
SesSafe == SesInit /\ [][SesNext]_sesVars

SesTypes ==
    /\ SesTypeOK
    /\ sesReq \in [Clients -> LoginRequest \cup {Free}]
    /\ sesLogins \in 0 .. MaxLogins

\* A request that got past the hash presented the password it had read, and
\* one that sets a password has one to set.
RequestInv ==
    \A c \in Clients :
        /\ sesReq[c].at \in {"upgrading", "verified"} => sesReq[c].pw = sesReq[c].read.pw
        /\ sesReq[c].at \in {"setting", "set"} => sesReq[c].new # {}

\* One password was written with each stamp, and everything that holds a stamp
\* holds the password written with it: the file, the writes still under way,
\* what the requests have read, and the sessions.
Wrote(h, n, x) == x.stamp <= n /\ x.pw = h[x.stamp]
HasRead(c) == sesReq[c].at \notin {"idle", "waiting"}
OfHistory(h) ==
    /\ Wrote(h, sesWrites, sesFile)
    /\ \A r \in sesLate : Wrote(h, sesWrites, r)
    /\ \A c \in Clients : HasRead(c) => Wrote(h, sesWrites, sesReq[c].read)
    /\ sesLive \in Seq({s \in Session : Wrote(h, sesWrites, s)})
HistoryInv == \E h \in [0 .. MaxWrites -> Passwords] : OfHistory(h)

SesInv == SesTypes /\ RequestInv /\ HistoryInv
-------------------------------------------------------------------------------
LEMMA RemoveKeeps ==
    ASSUME NEW T, NEW s \in Seq(T), NEW i \in 1 .. Len(s)
    PROVE  RemoveAt(s, i) \in Seq(T) /\ Len(RemoveAt(s, i)) = Len(s) - 1
<1>1. Len(s) \in Nat /\ \A j \in 1 .. Len(s) : s[j] \in T
  BY LenProperties, ElementOfSeq
<1>2. /\ SubSeq(s, 1, i - 1) \in Seq(T)
      /\ Len(SubSeq(s, 1, i - 1)) = IF 1 <= i - 1 THEN (i - 1) - 1 + 1 ELSE 0
  <2>1. 1 \in Int /\ i - 1 \in Int /\ \A j \in 1 .. i - 1 : s[j] \in T
    BY <1>1
  <2> QED
    BY <2>1, SubSeqProperties
<1>3. /\ SubSeq(s, i + 1, Len(s)) \in Seq(T)
      /\ Len(SubSeq(s, i + 1, Len(s))) = IF i + 1 <= Len(s) THEN Len(s) - (i + 1) + 1 ELSE 0
  <2>1. i + 1 \in Int /\ Len(s) \in Int /\ \A j \in i + 1 .. Len(s) : s[j] \in T
    BY <1>1
  <2> QED
    BY <2>1, SubSeqProperties
<1>4. PICK a, b : a = SubSeq(s, 1, i - 1) /\ b = SubSeq(s, i + 1, Len(s))
  OBVIOUS
<1>5. /\ a \in Seq(T) /\ Len(a) = IF 1 <= i - 1 THEN (i - 1) - 1 + 1 ELSE 0
      /\ b \in Seq(T) /\ Len(b) = IF i + 1 <= Len(s) THEN Len(s) - (i + 1) + 1 ELSE 0
  BY <1>2, <1>3, <1>4
<1>6. a \o b \in Seq(T) /\ Len(a \o b) = Len(a) + Len(b)
  BY <1>5, ConcatProperties
<1>7. RemoveAt(s, i) = a \o b
  BY <1>4 DEF RemoveAt
<1>8. Len(a) + Len(b) = Len(s) - 1
  <2>1. i \in Int /\ 1 <= i /\ i <= Len(s)
    BY <1>1
  <2>2. Len(a) = i - 1
    BY <1>5, <2>1
  <2>3. Len(b) = Len(s) - i
    BY <1>1, <1>5, <2>1
  <2> QED
    BY <1>1, <2>1, <2>2, <2>3
<1> QED
  BY <1>6, <1>7, <1>8, Zenon

\* A session is opened in a store that is not above its limit.
LEMMA CreateKeeps ==
    ASSUME NEW T, NEW s \in Seq(T), Len(s) <= SessionCap, NEW x \in T
    PROVE  CreateSession(s, x) \in Seq(T) /\ Len(CreateSession(s, x)) <= SessionCap
<1>1. Len(s) \in Nat /\ SessionCap \in Nat \ {0}
  BY LenProperties, SesAssumption
<1>2. CASE Len(s) >= SessionCap
  <2>1. s # <<>>
    BY <1>1, <1>2, EmptySeq
  <2>2. Tail(s) \in Seq(T) /\ Len(Tail(s)) = Len(s) - 1
    BY <2>1, HeadTailProperties
  <2>3. Append(Tail(s), x) \in Seq(T) /\ Len(Append(Tail(s), x)) = Len(Tail(s)) + 1
    BY <2>2, AppendProperties
  <2> QED
    BY <1>1, <1>2, <2>2, <2>3 DEF CreateSession
<1>3. CASE ~(Len(s) >= SessionCap)
  <2>1. Append(s, x) \in Seq(T) /\ Len(Append(s, x)) = Len(s) + 1
    BY AppendProperties
  <2> QED
    BY <1>1, <1>3, <2>1 DEF CreateSession
<1> QED
  BY <1>2, <1>3

\* What the store becomes when it is asked for a session, or drops one.
LEMMA LookupKeeps ==
    ASSUME NEW T, sesLive \in Seq(T), Len(sesLive) <= SessionCap, NEW t
    PROVE  /\ Lookup(t) \in Seq(T) /\ Len(Lookup(t)) <= SessionCap
           /\ \A i \in Entry(t) : /\ RemoveAt(sesLive, i) \in Seq(T)
                                  /\ Len(RemoveAt(sesLive, i)) <= SessionCap
<1>1. Len(sesLive) \in Nat /\ SessionCap \in Nat
  BY LenProperties, SesAssumption
<1>2. ASSUME NEW i \in Entry(t)
      PROVE  /\ RemoveAt(sesLive, i) \in Seq(T)
             /\ Len(RemoveAt(sesLive, i)) = Len(sesLive) - 1
             /\ sesLive[i] \in T
  <2>1. i \in 1 .. Len(sesLive)
    BY DEF Entry
  <2> QED
    BY <2>1, RemoveKeeps, ElementOfSeq
<1>3. Lookup(t) \in Seq(T) /\ Len(Lookup(t)) <= SessionCap
  <2>1. CASE Entry(t) = {}
    BY <2>1 DEF Lookup
  <2>2. CASE Entry(t) # {}
    <3> DEFINE i == CHOOSE j \in Entry(t) : TRUE
    <3>1. i \in Entry(t)
      BY <2>2
    <3> HIDE DEF i
    <3>2. PICK rest : rest = RemoveAt(sesLive, i)
      OBVIOUS
    <3>3. rest \in Seq(T) /\ Len(rest) = Len(sesLive) - 1 /\ sesLive[i] \in T
      BY <1>2, <3>1, <3>2
    <3>4. Append(rest, sesLive[i]) \in Seq(T) /\ Len(Append(rest, sesLive[i])) = Len(rest) + 1
      BY <3>3, AppendProperties
    <3>5. Lookup(t) \in {Append(rest, sesLive[i]), rest}
      BY <2>2, <3>2 DEF Lookup, i
    <3> QED
      BY <1>1, <3>3, <3>4, <3>5
  <2> QED
    BY <2>1, <2>2
<1> QED
  BY <1>1, <1>2, <1>3

\* A request moves on, with what it has read or with another record.
LEMMA RequestMoves ==
    ASSUME NEW q \in LoginRequest, NEW at \in Steps, NEW r \in AuthRecord
    PROVE  /\ [q EXCEPT !.at = at] \in LoginRequest
           /\ [q EXCEPT !.at = at, !.read = r] \in LoginRequest
<1>1. [q EXCEPT !.at = at] \in LoginRequest
  BY DEF LoginRequest
<1>2. PICK u : u = [q EXCEPT !.at = at]
  OBVIOUS
<1>3. [u EXCEPT !.read = r] \in LoginRequest
  BY <1>1, <1>2 DEF LoginRequest
<1>4. [q EXCEPT !.at = at, !.read = r] = [u EXCEPT !.read = r]
  BY <1>2
<1> QED
  BY <1>1, <1>3, <1>4

\* A request that is not idle, and what it may write.
LEMMA RequestUnderWay ==
    ASSUME SesTypes, NEW c \in Clients, sesReq[c].at # "idle"
    PROVE  /\ sesReq[c] \in LoginRequest
           /\ sesReq[c].at \in Steps /\ sesReq[c].from \in Addresses
           /\ sesReq[c].pw \in Passwords /\ sesReq[c].token \in 1 .. MaxLogins
           /\ sesReq[c].read \in AuthRecord
           /\ sesReq[c].new # {} => \E p \in Passwords : sesReq[c].new = {p}
<1>1. sesReq[c] \in LoginRequest
  BY DEF SesTypes, Free
<1> QED
  BY <1>1 DEF LoginRequest

LEMMA RecordWritten ==
    ASSUME SesTypes, RequestInv, NEW c \in Clients, sesReq[c].at \in {"upgrading", "setting"},
           sesWrites < MaxWrites
    PROVE  /\ Written(c) \in AuthRecord /\ Written(c).stamp = sesWrites + 1
           /\ sesReq[c].at = "upgrading" => Written(c).pw = sesReq[c].pw
           /\ sesWrites + 1 \in 0 .. MaxWrites
<1>1. sesReq[c].at # "idle"
  OBVIOUS
<1>2. sesWrites \in Nat /\ MaxWrites \in Nat /\ sesWrites + 1 \in 0 .. MaxWrites
  BY SesAssumption DEF SesTypes, SesTypeOK
<1>3. sesReq[c].pw \in Passwords
  BY <1>1, RequestUnderWay
<1>4. sesReq[c].at = "setting" => (CHOOSE p \in sesReq[c].new : TRUE) \in Passwords
  <2>1. SUFFICES ASSUME sesReq[c].at = "setting" PROVE (CHOOSE p \in sesReq[c].new : TRUE) \in Passwords
    OBVIOUS
  <2>2. sesReq[c].new # {}
    BY <2>1 DEF RequestInv
  <2>3. PICK p \in Passwords : sesReq[c].new = {p}
    BY <1>1, <2>2, RequestUnderWay
  <2> QED
    BY <2>3
<1>5. PICK p : p = IF sesReq[c].at = "upgrading" THEN sesReq[c].pw ELSE CHOOSE x \in sesReq[c].new : TRUE
  OBVIOUS
<1>6. p \in Passwords /\ (sesReq[c].at = "upgrading" => p = sesReq[c].pw)
  BY <1>3, <1>4, <1>5
<1>7. Written(c) = [pw |-> p, algo |-> "argon2id", stamp |-> sesWrites + 1]
  BY <1>5 DEF Written
<1> QED
  BY <1>2, <1>6, <1>7 DEF AuthRecord, Algos

\* The requests, when one of them moves on or ends.
LEMMA RequestsKept ==
    ASSUME SesTypes, NEW c \in Clients, NEW q \in LoginRequest \cup {Free}
    PROVE  /\ [sesReq EXCEPT ![c] = q] \in [Clients -> LoginRequest \cup {Free}]
           /\ [sesReq EXCEPT ![c] = q][c] = q
           /\ \A d \in Clients \ {c} : [sesReq EXCEPT ![c] = q][d] = sesReq[d]
  BY DEF SesTypes

\* The steps, and what becomes of the request that takes one.
Ends(c) == sesReq' = [sesReq EXCEPT ![c] = Free] /\ sesGate' = "free"
Moves(c, at, r) == /\ at \in Steps /\ r \in AuthRecord
                   /\ sesReq' = [sesReq EXCEPT ![c] = [sesReq[c] EXCEPT !.at = at, !.read = r]]
                   /\ sesGate' \in {c, sesGate}

LEMMA GateKept ==
    ASSUME SesTypes, NEW c \in Clients,
           \/ Ends(c)
           \/ sesReq[c].at # "idle" /\ \E at, r : Moves(c, at, r)
    PROVE  /\ sesReq' \in [Clients -> LoginRequest \cup {Free}]
           /\ sesGate' \in Clients \cup {"free"}
<1>1. sesGate \in Clients \cup {"free"}
  BY DEF SesTypes, SesTypeOK
<1>2. CASE Ends(c)
  BY <1>2, RequestsKept DEF Ends
<1>3. CASE sesReq[c].at # "idle" /\ \E at, r : Moves(c, at, r)
  <2>1. PICK at, r : Moves(c, at, r)
    BY <1>3
  <2>2. sesReq[c] \in LoginRequest /\ at \in Steps /\ r \in AuthRecord
    BY <1>3, <2>1, RequestUnderWay DEF Moves
  <2>3. [sesReq[c] EXCEPT !.at = at, !.read = r] \in LoginRequest
    BY <2>2, RequestMoves
  <2>4. PICK q : q = [sesReq[c] EXCEPT !.at = at, !.read = r]
    OBVIOUS
  <2>5. [sesReq EXCEPT ![c] = q] \in [Clients -> LoginRequest \cup {Free}]
    BY <2>3, <2>4, RequestsKept
  <2>6. sesReq' = [sesReq EXCEPT ![c] = q] /\ sesGate' \in {c, sesGate}
    BY <2>1, <2>4 DEF Moves
  <2> QED
    BY <1>1, <2>5, <2>6
<1> QED
  BY <1>2, <1>3

\* A request keeps its record, or reads one.
LEMMA MoveWays ==
    ASSUME SesTypes, NEW c \in Clients, sesReq[c].at # "idle", NEW at \in Steps
    PROVE  /\ [sesReq EXCEPT ![c].at = at]
                 = [sesReq EXCEPT ![c] = [sesReq[c] EXCEPT !.at = at, !.read = sesReq[c].read]]
           /\ \A r : [sesReq EXCEPT ![c].at = at, ![c].read = r]
                 = [sesReq EXCEPT ![c] = [sesReq[c] EXCEPT !.at = at, !.read = r]]
<1>1. sesReq[c] \in LoginRequest /\ sesReq[c].read \in AuthRecord
  BY RequestUnderWay
<1>2. [sesReq[c] EXCEPT !.at = at] = [sesReq[c] EXCEPT !.at = at, !.read = sesReq[c].read]
  BY <1>1 DEF LoginRequest
<1>3. [sesReq EXCEPT ![c].at = at] = [sesReq EXCEPT ![c] = [sesReq[c] EXCEPT !.at = at]]
  BY DEF SesTypes
<1>4. ASSUME NEW r
      PROVE  [sesReq EXCEPT ![c].at = at, ![c].read = r]
                 = [sesReq EXCEPT ![c] = [sesReq[c] EXCEPT !.at = at, !.read = r]]
  BY DEF SesTypes
<1> QED
  BY <1>2, <1>3, <1>4

\* A step of the request at the gate ends it or moves it on.
LEMMA StepMoves ==
    ASSUME SesTypes, RequestInv, NEW c \in Clients, GateSteps(c)
    PROVE  sesReq[c].at # "idle" /\ (Ends(c) \/ \E at, r : Moves(c, at, r))
<1>1. sesReq[c].at # "idle"
  BY DEF GateSteps, Hashed, WriteRecord, Writing, WriteTimeout, Verified, PasswordSet
<1>2. sesReq[c].read \in AuthRecord
  BY <1>1, RequestUnderWay
<1>3. ASSUME NEW at \in Steps, sesReq' = [sesReq EXCEPT ![c].at = at], sesGate' = sesGate
      PROVE  Moves(c, at, sesReq[c].read)
  BY <1>1, <1>2, <1>3, MoveWays DEF Moves
<1>4. CASE Hashed(c)
  <2>1. CASE Leave(c)
    BY <1>1, <2>1 DEF Leave, Ends
  <2>2. CASE ~Leave(c)
    <3>1. PICK at : at = IF sesFile.algo = "scrypt" THEN "upgrading" ELSE "verified"
      OBVIOUS
    <3>2. at \in Steps /\ sesReq' = [sesReq EXCEPT ![c].at = at] /\ sesGate' = sesGate
      BY <1>4, <2>2, <3>1 DEF Hashed, Steps
    <3> QED
      BY <1>1, <1>3, <3>2
  <2> QED
    BY <2>1, <2>2
<1>5. CASE WriteRecord(c)
  <2>1. PICK at : at = IF sesReq[c].at = "upgrading" THEN "verified" ELSE "set"
    OBVIOUS
  <2>2. at \in Steps /\ Written(c) \in AuthRecord
    BY <1>5, <2>1, RecordWritten DEF WriteRecord, Writing, Steps
  <2>3. sesReq' = [sesReq EXCEPT ![c].at = at, ![c].read = Written(c)] /\ sesGate' = sesGate
    BY <1>5, <2>1 DEF WriteRecord
  <2>4. Moves(c, at, Written(c))
    BY <1>1, <2>2, <2>3, MoveWays DEF Moves
  <2> QED
    BY <1>1, <2>4
<1>6. CASE WriteTimeout(c)
  BY <1>1, <1>6 DEF WriteTimeout, Leave, Ends
<1>7. CASE Verified(c)
  <2>1. CASE Leave(c)
    BY <1>1, <2>1 DEF Leave, Ends
  <2>2. CASE ~Leave(c)
    <3>1. sesReq' = [sesReq EXCEPT ![c].at = "setting"] /\ sesGate' = sesGate
      BY <1>7, <2>2 DEF Verified
    <3> QED
      BY <1>1, <1>3, <3>1 DEF Steps
  <2> QED
    BY <2>1, <2>2
<1>8. CASE PasswordSet(c)
  BY <1>1, <1>8 DEF PasswordSet, Leave, Ends
<1> QED
  BY <1>4, <1>5, <1>6, <1>7, <1>8 DEF GateSteps

LEMMA SesTypesKept == ASSUME SesInv, [SesNext]_sesVars PROVE SesTypes'
<1> USE DEF SesInv
<1>1. /\ sesFile \in AuthRecord /\ sesWrites \in 0 .. MaxWrites /\ sesLate \subseteq AuthRecord
      /\ sesLive \in Seq(Session) /\ Len(sesLive) <= SessionCap
      /\ sesFailed \in [Addresses -> 0 .. PerAddress + 5] /\ sesWait \in [Addresses -> BOOLEAN]
      /\ sesGate \in Clients \cup {"free"} /\ sesLogins \in 0 .. MaxLogins
      /\ sesReq \in [Clients -> LoginRequest \cup {Free}]
  BY DEF SesTypes, SesTypeOK
<1>2. /\ MaxWrites \in Nat /\ MaxLogins \in Nat /\ PerAddress \in Nat \ {0}
      /\ SessionCap \in Nat \ {0}
  BY SesAssumption
<1>3. SUFFICES /\ sesFile' \in AuthRecord /\ sesWrites' \in 0 .. MaxWrites
               /\ sesLate' \subseteq AuthRecord
               /\ sesLive' \in Seq(Session) /\ Len(sesLive') <= SessionCap
               /\ sesGate' \in Clients \cup {"free"}
               /\ sesReq' \in [Clients -> LoginRequest \cup {Free}]
               /\ sesFailed' \in [Addresses -> 0 .. PerAddress + 5]
               /\ sesWait' \in [Addresses -> BOOLEAN]
               /\ sesLogins' \in 0 .. MaxLogins
  BY DEF SesTypes, SesTypeOK
<1>4. ASSUME NEW c \in Clients, NEW a \in Addresses, NEW p \in Passwords,
             NEW new \in {{}} \cup {{q} : q \in Passwords}, Arrive(c, a, p, new)
      PROVE  /\ sesReq' \in [Clients -> LoginRequest \cup {Free}]
             /\ sesLogins' \in 0 .. MaxLogins
  <2>1. UnreadRecord \in AuthRecord
    BY <1>2 DEF UnreadRecord, AuthRecord, Algos
  <2>2. sesLogins + 1 \in 1 .. MaxLogins
    BY <1>1, <1>2, <1>4 DEF Arrive
  <2>3. PICK q : q = [at |-> "waiting", from |-> a, pw |-> p, new |-> new,
                      token |-> sesLogins + 1, read |-> UnreadRecord]
    OBVIOUS
  <2>4. q \in LoginRequest
    BY <2>1, <2>2, <2>3 DEF LoginRequest, Steps
  <2>5. sesReq' = [sesReq EXCEPT ![c] = q] /\ sesLogins' = sesLogins + 1
    BY <1>4, <2>3 DEF Arrive
  <2> QED
    BY <1>1, <2>2, <2>4, <2>5
<1>5. ASSUME NEW c \in Clients, Refused(c) \/ EnterGate(c)
      PROVE  /\ sesReq' \in [Clients -> LoginRequest \cup {Free}]
             /\ sesGate' \in Clients \cup {"free"}
  <2>1. CASE Refused(c)
    BY <1>1, <2>1 DEF Refused
  <2>2. CASE EnterGate(c)
    <3>1. sesReq[c].at # "idle" /\ "hashing" \in Steps
      BY <2>2 DEF EnterGate, Steps
    <3>2. Moves(c, "hashing", sesFile)
      BY <1>1, <2>2, <3>1, MoveWays DEF Moves, EnterGate
    <3> QED
      BY <3>1, <3>2, GateKept
  <2> QED
    BY <1>5, <2>1, <2>2
<1>6. ASSUME NEW c \in Clients, GateSteps(c)
      PROVE  /\ sesReq' \in [Clients -> LoginRequest \cup {Free}]
             /\ sesGate' \in Clients \cup {"free"}
  BY <1>6, StepMoves, GateKept
<1>7. ASSUME NEW c \in Clients, GateSteps(c)
      PROVE  /\ sesFailed' \in [Addresses -> 0 .. PerAddress + 5]
             /\ sesWait' \in [Addresses -> BOOLEAN]
  <2>1. UNCHANGED <<sesFailed, sesWait>> \/ Succeeded(sesReq[c].from)
           \/ CountFailure(sesReq[c].from)
    BY <1>7 DEF GateSteps, Hashed, WriteRecord, WriteTimeout, Verified, PasswordSet
  <2>2. PICK a : a = sesReq[c].from
    OBVIOUS
  <2>3. CASE UNCHANGED <<sesFailed, sesWait>>
    BY <1>1, <2>3
  <2>4. CASE Succeeded(a)
    <3>1. 0 \in 0 .. PerAddress + 5
      BY <1>2
    <3>2. sesFailed' = [sesFailed EXCEPT ![a] = 0] /\ sesWait' = [sesWait EXCEPT ![a] = FALSE]
      BY <2>4 DEF Succeeded
    <3> QED
      BY <1>1, <3>1, <3>2
  <2>5. CASE CountFailure(a)
    <3>1. sesFailed[a] < PerAddress + 5 /\ a \in Addresses
             => sesFailed[a] + 1 \in 0 .. PerAddress + 5
      BY <1>1, <1>2
    <3> QED
      BY <1>1, <2>5, <3>1 DEF CountFailure
  <2> QED
    BY <2>1, <2>2, <2>3, <2>4, <2>5
<1>8. ASSUME NEW c \in Clients, GateSteps(c)
      PROVE  /\ sesFile' \in AuthRecord /\ sesWrites' \in 0 .. MaxWrites
             /\ sesLate' \subseteq AuthRecord /\ sesLogins' = sesLogins
  <2>1. CASE UNCHANGED <<sesFile, sesWrites, sesLate>>
    BY <1>1, <1>8, <2>1 DEF GateSteps, Hashed, WriteRecord, WriteTimeout, Verified, PasswordSet
  <2>2. CASE WriteRecord(c)
    <3>1. Written(c) \in AuthRecord /\ sesWrites + 1 \in 0 .. MaxWrites
      BY <2>2, RecordWritten DEF WriteRecord, Writing
    <3> QED
      BY <1>1, <2>2, <3>1 DEF WriteRecord
  <2>3. CASE WriteTimeout(c) /\ sesWrites < MaxWrites
                /\ sesLate' = sesLate \cup {Written(c)} /\ sesWrites' = sesWrites + 1
    <3>1. Written(c) \in AuthRecord /\ sesWrites + 1 \in 0 .. MaxWrites
      BY <2>3, RecordWritten DEF WriteTimeout
    <3> QED
      BY <1>1, <2>3, <3>1 DEF WriteTimeout
  <2> QED
    BY <1>8, <2>1, <2>2, <2>3 DEF GateSteps, Hashed, WriteTimeout, Verified, PasswordSet
<1>9. ASSUME NEW c \in Clients, GateSteps(c)
      PROVE  sesLive' \in Seq(Session) /\ Len(sesLive') <= SessionCap
  <2>1. CASE UNCHANGED sesLive
    BY <1>1, <2>1
  <2>2. CASE ~UNCHANGED sesLive
    <3>1. PICK s, x : /\ s \in {sesLive, <<>>} /\ sesLive' = CreateSession(s, x)
                      /\ x \in {[token |-> sesReq[c].token, stamp |-> sesReq[c].read.stamp,
                                 pw |-> sesReq[c].pw],
                                [token |-> sesReq[c].token, stamp |-> sesReq[c].read.stamp,
                                 pw |-> sesReq[c].read.pw]}
      BY <1>9, <2>2 DEF GateSteps, Hashed, WriteRecord, WriteTimeout, Verified, PasswordSet
    <3>2. sesReq[c].at # "idle"
      BY <1>9, StepMoves
    <3>3. /\ sesReq[c].pw \in Passwords /\ sesReq[c].token \in 1 .. MaxLogins
          /\ sesReq[c].read.stamp \in 0 .. MaxWrites /\ sesReq[c].read.pw \in Passwords
      BY <3>2, RequestUnderWay DEF AuthRecord
    <3>4. x \in Session
      BY <3>1, <3>3 DEF Session
    <3>5. s \in Seq(Session) /\ Len(s) <= SessionCap
      <4>1. <<>> \in Seq(Session) /\ Len(<<>>) = 0 /\ 0 <= SessionCap
        BY <1>2, EmptySeq
      <4>2. CASE s = sesLive
        BY <1>1, <4>2
      <4>3. CASE s = <<>>
        BY <4>1, <4>3
      <4> QED
        BY <3>1, <4>2, <4>3
    <3>6. CreateSession(s, x) \in Seq(Session) /\ Len(CreateSession(s, x)) <= SessionCap
      BY <3>4, <3>5, CreateKeeps
    <3> QED
      BY <3>1, <3>6
  <2> QED
    BY <2>1, <2>2
<1>10. ASSUME NEW t \in 1 .. MaxLogins, Logout(t) \/ \E q \in WebRequest : Guarded(t, q)
       PROVE  sesLive' \in Seq(Session) /\ Len(sesLive') <= SessionCap
  BY <1>1, <1>10, LookupKeeps DEF Logout, Guarded
<1>11. CASE UNCHANGED sesVars
  BY <1>1, <1>11 DEF sesVars
<1>12. CASE \E c \in Clients, a \in Addresses, p \in Passwords :
              \E new \in {{}} \cup {{q} : q \in Passwords} : Arrive(c, a, p, new)
  <2>1. PICK c \in Clients, a \in Addresses, p \in Passwords,
             new \in {{}} \cup {{q} : q \in Passwords} : Arrive(c, a, p, new)
    BY <1>12
  <2> QED
    BY <1>1, <1>4, <2>1 DEF Arrive
<1>13. ASSUME NEW c \in Clients, Refused(c) \/ EnterGate(c)
       PROVE  UNCHANGED <<sesFile, sesWrites, sesLate, sesLive, sesFailed, sesWait, sesLogins>>
  BY <1>13 DEF Refused, EnterGate
<1>14. CASE \E c \in Clients : Refused(c) \/ EnterGate(c)
  BY <1>1, <1>5, <1>13, <1>14
<1>15. CASE \E c \in Clients : GateSteps(c)
  BY <1>1, <1>6, <1>7, <1>8, <1>9, <1>15
<1>16. CASE \E a \in Addresses : Waited(a)
  <2>1. PICK a \in Addresses : Waited(a)
    BY <1>16
  <2>2. [sesFailed EXCEPT ![a] = 0] \in [Addresses -> 0 .. PerAddress + 5]
    BY <1>1, <1>2
  <2>3. [sesWait EXCEPT ![a] = FALSE] \in [Addresses -> BOOLEAN]
    BY <1>1
  <2> QED
    BY <1>1, <2>1, <2>2, <2>3 DEF Waited
<1>17. CASE \E p \in Passwords, algo \in {"scrypt", "argon2id"} : RestoreAuth(p, algo)
  <2>1. PICK p \in Passwords, algo \in {"scrypt", "argon2id"} : RestoreAuth(p, algo)
    BY <1>17
  <2>2. sesWrites + 1 \in 0 .. MaxWrites
    BY <1>1, <1>2, <2>1 DEF RestoreAuth
  <2>3. [pw |-> p, algo |-> algo, stamp |-> sesWrites + 1] \in AuthRecord
    BY <2>2 DEF AuthRecord, Algos
  <2> QED
    BY <1>1, <2>1, <2>2, <2>3 DEF RestoreAuth
<1>18. CASE LateWrite
  BY <1>1, <1>18 DEF LateWrite
<1>19. CASE \E t \in 1 .. MaxLogins : Logout(t) \/ \E q \in WebRequest : Guarded(t, q)
  <2>1. UNCHANGED <<sesFile, sesWrites, sesLate, sesGate, sesReq, sesFailed, sesWait, sesLogins>>
    BY <1>19 DEF Logout, Guarded
  <2> QED
    BY <1>1, <1>10, <1>19, <2>1
<1> QED
  BY <1>11, <1>12, <1>14, <1>15, <1>16, <1>17, <1>18, <1>19 DEF SesNext
-------------------------------------------------------------------------------
\* What a request holds after its step at the gate.
LEMMA StepOutcome ==
    ASSUME SesTypes, RequestInv, NEW c \in Clients, GateSteps(c)
    PROVE  \/ sesReq'[c] = Free
           \/ /\ sesReq'[c].pw = sesReq[c].pw /\ sesReq'[c].new = sesReq[c].new
              /\ \/ /\ sesReq'[c].at \in {"upgrading", "verified"}
                    /\ sesReq[c].pw = sesReq[c].read.pw /\ sesReq'[c].read = sesReq[c].read
                 \/ /\ sesReq'[c].at = "setting" /\ sesReq[c].new # {}
                    /\ sesReq'[c].read = sesReq[c].read
                 \/ /\ sesReq[c].at = "upgrading" /\ sesReq'[c].at = "verified"
                    /\ sesReq'[c].read = Written(c) /\ WriteRecord(c)
                 \/ /\ sesReq[c].at = "setting" /\ sesReq'[c].at = "set"
                    /\ sesReq'[c].read = Written(c) /\ WriteRecord(c)
<1>1. sesReq[c].at # "idle" /\ sesReq[c] \in LoginRequest /\ sesReq \in [Clients -> LoginRequest \cup {Free}]
  BY StepMoves, RequestUnderWay DEF SesTypes
<1>2. PICK q : q = sesReq[c]
  OBVIOUS
<1>3. ASSUME NEW at
      PROVE  /\ [q EXCEPT !.at = at].at = at /\ [q EXCEPT !.at = at].pw = q.pw
             /\ [q EXCEPT !.at = at].new = q.new /\ [q EXCEPT !.at = at].read = q.read
  BY <1>1, <1>2 DEF LoginRequest
<1>4. ASSUME NEW at, NEW r
      PROVE  LET u == [q EXCEPT !.at = at, !.read = r]
             IN  u.at = at /\ u.pw = q.pw /\ u.new = q.new /\ u.read = r
  BY <1>1, <1>2 DEF LoginRequest
<1>5. CASE Leave(c)
  BY <1>1, <1>5 DEF Leave
<1>6. CASE ~Leave(c) /\ Hashed(c)
  <2>1. PICK at \in {"upgrading", "verified"} : sesReq' = [sesReq EXCEPT ![c].at = at]
    BY <1>6 DEF Hashed
  <2>2. sesReq'[c] = [q EXCEPT !.at = at]
    BY <1>1, <1>2, <2>1
  <2>3. sesReq[c].pw = sesReq[c].read.pw
    BY <1>6 DEF Hashed
  <2> QED
    BY <1>2, <1>3, <2>2, <2>3
<1>7. CASE WriteRecord(c)
  <2>1. PICK at : at = IF sesReq[c].at = "upgrading" THEN "verified" ELSE "set"
    OBVIOUS
  <2>2. sesReq' = [sesReq EXCEPT ![c].at = at, ![c].read = Written(c)]
    BY <1>7, <2>1 DEF WriteRecord
  <2>3. sesReq'[c] = [q EXCEPT !.at = at, !.read = Written(c)]
    BY <1>1, <1>2, <2>2
  <2>4. sesReq[c].at \in {"upgrading", "setting"}
    BY <1>7 DEF WriteRecord, Writing
  <2> QED
    BY <1>2, <1>4, <1>7, <2>1, <2>3, <2>4
<1>8. CASE ~Leave(c) /\ Verified(c)
  <2>1. sesReq' = [sesReq EXCEPT ![c].at = "setting"] /\ sesReq[c].new # {}
    BY <1>8 DEF Verified
  <2>2. sesReq'[c] = [q EXCEPT !.at = "setting"]
    BY <1>1, <1>2, <2>1
  <2>3. /\ sesReq'[c].at = "setting" /\ sesReq'[c].pw = q.pw
        /\ sesReq'[c].new = q.new /\ sesReq'[c].read = q.read
    BY <1>3, <2>2
  <2> QED
    BY <1>2, <2>1, <2>3
<1> QED
  BY <1>5, <1>6, <1>7, <1>8 DEF GateSteps, WriteTimeout, PasswordSet

\* The requests another one leaves alone, and one that enters the gate.
LEMMA OthersStay ==
    ASSUME SesTypes, RequestInv, [SesNext]_sesVars, NEW d \in Clients
    PROVE  \/ sesReq'[d] = sesReq[d]
           \/ sesReq'[d] = Free
           \/ sesReq'[d].at = "waiting"
           \/ sesReq'[d].at = "hashing" /\ sesReq'[d].read = sesFile /\ EnterGate(d)
           \/ GateSteps(d)
<1>1. sesReq \in [Clients -> LoginRequest \cup {Free}]
  BY DEF SesTypes
<1>2. CASE UNCHANGED sesReq
  BY <1>2
<1>3. ASSUME NEW c \in Clients, NEW a \in Addresses, NEW p \in Passwords, NEW new, Arrive(c, a, p, new)
      PROVE  sesReq'[d] = sesReq[d] \/ sesReq'[d].at = "waiting"
  BY <1>1, <1>3 DEF Arrive
<1>4. ASSUME NEW c \in Clients, Refused(c)
      PROVE  sesReq'[d] = sesReq[d] \/ sesReq'[d] = Free
  BY <1>1, <1>4 DEF Refused
<1>5. ASSUME NEW c \in Clients, EnterGate(c)
      PROVE  \/ sesReq'[d] = sesReq[d]
             \/ sesReq'[d].at = "hashing" /\ sesReq'[d].read = sesFile /\ EnterGate(d)
  <2>1. CASE d # c
    <3>1. sesReq[c].at # "idle" /\ "hashing" \in Steps
      BY <1>5 DEF EnterGate, Steps
    <3>2. sesReq' = [sesReq EXCEPT ![c] = [sesReq[c] EXCEPT !.at = "hashing", !.read = sesFile]]
      BY <1>5, <3>1, MoveWays DEF EnterGate
    <3>3. PICK q : q = [sesReq[c] EXCEPT !.at = "hashing", !.read = sesFile]
      OBVIOUS
    <3>4. sesReq' = [sesReq EXCEPT ![c] = q]
      BY <3>2, <3>3
    <3> QED
      BY <1>1, <2>1, <3>4
  <2>2. CASE d = c
    <3>1. sesReq[c].at # "idle"
      BY <1>5 DEF EnterGate
    <3>2. PICK q : q = sesReq[c] /\ q \in LoginRequest
      BY <3>1, RequestUnderWay
    <3>3. sesReq'[c] = [q EXCEPT !.at = "hashing", !.read = sesFile]
      BY <1>1, <1>5, <3>2 DEF EnterGate
    <3> QED
      BY <1>5, <2>2, <3>2, <3>3 DEF LoginRequest
  <2> QED
    BY <2>1, <2>2
<1>6. ASSUME NEW c \in Clients, GateSteps(c), c # d
      PROVE  sesReq'[d] = sesReq[d]
  <2>1. Ends(c) \/ \E at, r : Moves(c, at, r)
    BY <1>6, StepMoves
  <2> QED
    BY <1>1, <1>6, <2>1 DEF Ends, Moves
<1> QED
  BY <1>2, <1>3, <1>4, <1>5, <1>6
     DEF SesNext, sesVars, Waited, RestoreAuth, LateWrite, Logout, Guarded

LEMMA RequestInvKept == ASSUME SesInv, [SesNext]_sesVars PROVE RequestInv'
<1> SUFFICES ASSUME NEW d \in Clients
             PROVE  /\ sesReq'[d].at \in {"upgrading", "verified"} => sesReq'[d].pw = sesReq'[d].read.pw
                    /\ sesReq'[d].at \in {"setting", "set"} => sesReq'[d].new # {}
  BY DEF RequestInv
<1>1. SesTypes /\ RequestInv
  BY DEF SesInv
<1>2. CASE sesReq'[d] = sesReq[d]
  BY <1>1, <1>2 DEF RequestInv
<1>3. CASE sesReq'[d] = Free \/ sesReq'[d].at \in {"waiting", "hashing"}
  BY <1>3 DEF Free
<1>4. CASE GateSteps(d)
  <2>1. CASE WriteRecord(d) /\ sesReq[d].at = "upgrading" /\ sesReq'[d].read = Written(d)
                 /\ sesReq'[d].at = "verified" /\ sesReq'[d].pw = sesReq[d].pw
    <3>1. Written(d).pw = sesReq[d].pw
      BY <1>1, <2>1, RecordWritten DEF WriteRecord, Writing
    <3> QED
      BY <2>1, <3>1
  <2>2. sesReq[d].at = "setting" => sesReq[d].new # {}
    BY <1>1 DEF RequestInv
  <2> QED
    BY <1>1, <1>4, <2>1, <2>2, StepOutcome DEF Free
<1> QED
  BY <1>1, <1>2, <1>3, <1>4, OthersStay
-------------------------------------------------------------------------------
\* A record is written with the next stamp.
LEMMA HistoryExtended ==
    ASSUME SesTypes, NEW h \in [0 .. MaxWrites -> Passwords], NEW r \in AuthRecord,
           r.stamp = sesWrites + 1, sesWrites' = sesWrites + 1
    PROVE  \E g \in [0 .. MaxWrites -> Passwords] :
              (\A n \in 0 .. sesWrites : g[n] = h[n]) /\ Wrote(g, sesWrites', r)
<1>1. sesWrites \in Nat /\ r.stamp \in 0 .. MaxWrites /\ r.pw \in Passwords
  BY DEF SesTypes, SesTypeOK, AuthRecord
<1>2. PICK g : g = [h EXCEPT ![r.stamp] = r.pw]
  OBVIOUS
<1>3. g \in [0 .. MaxWrites -> Passwords] /\ g[r.stamp] = r.pw
  BY <1>1, <1>2
<1>4. \A n \in 0 .. sesWrites : g[n] = h[n]
  BY <1>1, <1>2
<1>5. Wrote(g, sesWrites', r)
  BY <1>1, <1>3 DEF Wrote
<1> QED
  BY <1>3, <1>4, <1>5

\* What was written before is still what was written.
LEMMA WroteStays ==
    ASSUME SesTypes, NEW h, NEW g, \A n \in 0 .. sesWrites : g[n] = h[n],
           sesWrites' \in {sesWrites, sesWrites + 1}
    PROVE  /\ \A x : x.stamp \in Nat /\ Wrote(h, sesWrites, x) => Wrote(g, sesWrites', x)
           /\ {s \in Session : Wrote(h, sesWrites, s)} \subseteq {s \in Session : Wrote(g, sesWrites', s)}
<1>1. sesWrites \in Nat /\ sesWrites' \in Nat /\ sesWrites <= sesWrites'
  BY DEF SesTypes, SesTypeOK
<1>2. ASSUME NEW x, x.stamp \in Nat, Wrote(h, sesWrites, x) PROVE Wrote(g, sesWrites', x)
  BY <1>1, <1>2 DEF Wrote
<1>3. ASSUME NEW s \in Session, Wrote(h, sesWrites, s) PROVE Wrote(g, sesWrites', s)
  <2>1. s.stamp \in Nat
    BY SesAssumption DEF Session
  <2> QED
    BY <1>2, <1>3, <2>1
<1> QED
  BY <1>2, <1>3

LEMMA HistoryCarried ==
    ASSUME SesInv, NEW h, OfHistory(h), NEW g, \A n \in 0 .. sesWrites : g[n] = h[n],
           sesWrites' \in {sesWrites, sesWrites + 1},
           sesFile' \in {sesFile} \cup sesLate \/ Wrote(g, sesWrites', sesFile'),
           \A r \in sesLate' : r \in sesLate \/ Wrote(g, sesWrites', r),
           \A d \in Clients : HasRead(d)' =>
               \/ HasRead(d) /\ sesReq'[d].read = sesReq[d].read
               \/ sesReq'[d].read = sesFile
               \/ Wrote(g, sesWrites', sesReq'[d].read),
           sesLive' \in Seq({s \in Session : Wrote(h, sesWrites, s)})
    PROVE  OfHistory(g)'
<1>1. SesTypes
  BY DEF SesInv
<1>2. /\ \A x : x.stamp \in Nat /\ Wrote(h, sesWrites, x) => Wrote(g, sesWrites', x)
      /\ {s \in Session : Wrote(h, sesWrites, s)} \subseteq {s \in Session : Wrote(g, sesWrites', s)}
  BY <1>1, WroteStays
<1>3. ASSUME NEW r \in AuthRecord, Wrote(h, sesWrites, r) PROVE Wrote(g, sesWrites', r)
  <2>1. r.stamp \in Nat
    BY SesAssumption DEF AuthRecord
  <2> QED
    BY <1>2, <1>3, <2>1
<1>4. \A r \in {sesFile} \cup sesLate : Wrote(g, sesWrites', r)
  BY <1>1, <1>3 DEF OfHistory, SesTypes, SesTypeOK
<1>5. ASSUME NEW d \in Clients, HasRead(d)' PROVE Wrote(g, sesWrites', sesReq'[d].read)
  <2>1. CASE HasRead(d) /\ sesReq'[d].read = sesReq[d].read
    <3>1. sesReq[d].read \in AuthRecord
      BY <1>1, <2>1, RequestUnderWay DEF HasRead
    <3>2. Wrote(h, sesWrites, sesReq[d].read)
      BY <2>1 DEF OfHistory
    <3> QED
      BY <1>3, <2>1, <3>1, <3>2
  <2> QED
    BY <1>4, <1>5, <2>1
<1>6. sesLive' \in Seq({s \in Session : Wrote(g, sesWrites', s)})
  BY <1>2, SeqMonotonic
<1> QED
  BY <1>4, <1>5, <1>6 DEF OfHistory
-------------------------------------------------------------------------------
\* The sessions in the store are those it had, or one more.
LEMMA LiveKept ==
    ASSUME SesInv, NEW h, OfHistory(h), [SesNext]_sesVars
    PROVE  sesLive' \in Seq({s \in Session : Wrote(h, sesWrites, s)})
<1> DEFINE T == {s \in Session : Wrote(h, sesWrites, s)}
<1>1. /\ SesTypes /\ RequestInv /\ sesLive \in Seq(T) /\ Len(sesLive) <= SessionCap
  BY DEF SesInv, OfHistory, SesTypes, SesTypeOK
<1>2. ASSUME NEW c \in Clients, NEW s \in {sesLive, <<>>}, NEW pw,
             sesReq[c].at \in {"verified", "set"}, pw = sesReq[c].read.pw
      PROVE  CreateSession(s, [token |-> sesReq[c].token, stamp |-> sesReq[c].read.stamp, pw |-> pw])
                \in Seq(T)
  <2>1. sesReq[c].at # "idle" /\ HasRead(c)
    BY <1>2 DEF HasRead
  <2>2. /\ sesReq[c].token \in 1 .. MaxLogins /\ sesReq[c].read.stamp \in 0 .. MaxWrites
        /\ pw \in Passwords
    BY <1>1, <1>2, <2>1, RequestUnderWay DEF AuthRecord
  <2>3. Wrote(h, sesWrites, sesReq[c].read)
    BY <2>1 DEF OfHistory
  <2>4. PICK x : x = [token |-> sesReq[c].token, stamp |-> sesReq[c].read.stamp, pw |-> pw]
    OBVIOUS
  <2>5. x \in Session /\ x.stamp = sesReq[c].read.stamp /\ x.pw = sesReq[c].read.pw
    BY <1>2, <2>2, <2>4 DEF Session
  <2>6. x \in T
    BY <2>3, <2>5 DEF Wrote
  <2>7. s \in Seq(T) /\ Len(s) <= SessionCap
    <3>1. <<>> \in Seq(T) /\ Len(<<>>) = 0 /\ 0 <= SessionCap
      BY EmptySeq, SesAssumption
    <3>2. CASE s = sesLive
      BY <1>1, <3>2
    <3>3. CASE s = <<>>
      BY <3>1, <3>3
    <3> QED
      BY <3>2, <3>3
  <2>8. CreateSession(s, x) \in Seq(T)
    BY <2>6, <2>7, CreateKeeps
  <2> QED
    BY <2>4, <2>8
<1>3. ASSUME NEW c \in Clients, GateSteps(c) PROVE sesLive' \in Seq(T)
  <2>1. CASE UNCHANGED sesLive
    BY <1>1, <2>1
  <2>2. CASE ~UNCHANGED sesLive /\ Verified(c)
    <3>1. /\ sesReq[c].at = "verified"
          /\ sesLive' = CreateSession(sesLive, [token |-> sesReq[c].token,
                              stamp |-> sesReq[c].read.stamp, pw |-> sesReq[c].pw])
      BY <2>2 DEF Verified
    <3>2. sesReq[c].pw = sesReq[c].read.pw
      BY <1>1, <3>1 DEF RequestInv
    <3> QED
      BY <1>2, <3>1, <3>2
  <2>3. CASE ~UNCHANGED sesLive /\ PasswordSet(c)
    <3>1. /\ sesReq[c].at = "set"
          /\ sesLive' = CreateSession(<<>>, [token |-> sesReq[c].token,
                              stamp |-> sesReq[c].read.stamp, pw |-> sesReq[c].read.pw])
      BY <2>3 DEF PasswordSet
    <3> QED
      BY <1>2, <3>1
  <2> QED
    BY <1>3, <2>1, <2>2, <2>3 DEF GateSteps, Hashed, WriteRecord, WriteTimeout
<1>4. ASSUME NEW t, Logout(t) \/ \E q \in WebRequest : Guarded(t, q) PROVE sesLive' \in Seq(T)
  BY <1>1, <1>4, LookupKeeps DEF Logout, Guarded
<1>5. CASE UNCHANGED sesLive
  BY <1>1, <1>5
<1> QED
  BY <1>3, <1>4, <1>5
     DEF SesNext, sesVars, Arrive, Refused, EnterGate, Waited, RestoreAuth, LateWrite

\* What a request reads is what it had read, the file, or what it has written.
LEMMA ReadingKept ==
    ASSUME SesInv, [SesNext]_sesVars, NEW d \in Clients, HasRead(d)'
    PROVE  \/ HasRead(d) /\ sesReq'[d].read = sesReq[d].read
           \/ sesReq'[d].read = sesFile
           \/ WriteRecord(d) /\ sesReq'[d].read = Written(d)
<1>1. SesTypes /\ RequestInv
  BY DEF SesInv
<1>2. CASE sesReq'[d] = sesReq[d]
  BY <1>2 DEF HasRead
<1>3. CASE sesReq'[d] = Free \/ sesReq'[d].at = "waiting"
  BY <1>3 DEF HasRead, Free
<1>4. CASE GateSteps(d)
  <2>1. HasRead(d)
    BY <1>4 DEF GateSteps, Hashed, WriteRecord, Writing, WriteTimeout, Verified, PasswordSet, HasRead
  <2> QED
    BY <1>1, <1>4, <2>1, StepOutcome DEF HasRead, Free
<1> QED
  BY <1>1, <1>2, <1>3, <1>4, OthersStay

\* Only the request that writes reads what it has written.
LEMMA OneWriter ==
    ASSUME SesInv, NEW c \in Clients, NEW d \in Clients, WriteRecord(c), WriteRecord(d)
    PROVE  Written(c) = Written(d)
  BY DEF WriteRecord

LEMMA HistoryInvKept == ASSUME SesInv, [SesNext]_sesVars PROVE HistoryInv'
<1>1. SesTypes /\ RequestInv
  BY DEF SesInv
<1>2. PICK h \in [0 .. MaxWrites -> Passwords] : OfHistory(h)
  BY DEF SesInv, HistoryInv
<1>3. sesLive' \in Seq({s \in Session : Wrote(h, sesWrites, s)})
  BY <1>2, LiveKept
<1>4. SUFFICES \E g \in [0 .. MaxWrites -> Passwords] : OfHistory(g)'
  BY DEF HistoryInv
<1>5. ASSUME NEW r \in AuthRecord, r.stamp = sesWrites + 1, sesWrites' = sesWrites + 1,
             sesFile' \in {sesFile, r}, sesLate' \subseteq sesLate \cup {r},
             \A d \in Clients : WriteRecord(d) => Written(d) = r
      PROVE  \E g \in [0 .. MaxWrites -> Passwords] : OfHistory(g)'
  <2>1. PICK g \in [0 .. MaxWrites -> Passwords] :
             (\A n \in 0 .. sesWrites : g[n] = h[n]) /\ Wrote(g, sesWrites', r)
    BY <1>1, <1>5, HistoryExtended
  <2>2. \A d \in Clients : HasRead(d)' =>
               \/ HasRead(d) /\ sesReq'[d].read = sesReq[d].read
               \/ sesReq'[d].read = sesFile
               \/ Wrote(g, sesWrites', sesReq'[d].read)
    BY <1>5, <2>1, ReadingKept
  <2>3. OfHistory(g)'
    BY <1>2, <1>3, <1>5, <2>1, <2>2, HistoryCarried
  <2> QED
    BY <2>3
<1>6. CASE UNCHANGED sesWrites /\ sesFile' \in {sesFile} \cup sesLate /\ sesLate' \subseteq sesLate
  <2>1. \A d \in Clients : ~WriteRecord(d)
    BY <1>1, <1>6 DEF WriteRecord, SesTypes, SesTypeOK
  <2>2. \A d \in Clients : HasRead(d)' =>
               \/ HasRead(d) /\ sesReq'[d].read = sesReq[d].read
               \/ sesReq'[d].read = sesFile
               \/ Wrote(h, sesWrites', sesReq'[d].read)
    BY <2>1, ReadingKept
  <2>3. OfHistory(h)'
    BY <1>2, <1>3, <1>6, <2>2, HistoryCarried
  <2> QED
    BY <1>2, <2>3
<1>7. ASSUME NEW c \in Clients, WriteRecord(c)
      PROVE  \E g \in [0 .. MaxWrites -> Passwords] : OfHistory(g)'
  <2>1. Written(c) \in AuthRecord /\ Written(c).stamp = sesWrites + 1
    BY <1>1, <1>7, RecordWritten DEF WriteRecord, Writing
  <2>2. sesWrites' = sesWrites + 1 /\ sesFile' = Written(c) /\ sesLate' = sesLate
    BY <1>7 DEF WriteRecord
  <2>3. \A d \in Clients : WriteRecord(d) => Written(d) = Written(c)
    BY <1>7, OneWriter
  <2> QED
    BY <1>5, <2>1, <2>2, <2>3
<1>8. ASSUME NEW c \in Clients, WriteTimeout(c), sesWrites < MaxWrites,
             sesLate' = sesLate \cup {Written(c)}, sesWrites' = sesWrites + 1
      PROVE  \E g \in [0 .. MaxWrites -> Passwords] : OfHistory(g)'
  <2>1. Written(c) \in AuthRecord /\ Written(c).stamp = sesWrites + 1
    BY <1>1, <1>8, RecordWritten DEF WriteTimeout
  <2>2. sesFile' = sesFile
    BY <1>8 DEF WriteTimeout
  <2>3. ASSUME NEW d \in Clients, WriteRecord(d) PROVE FALSE
    <3>1. Written(d).stamp = sesWrites + 1 /\ sesFile = Written(d)
      BY <1>1, <2>2, <2>3, RecordWritten DEF WriteRecord, Writing
    <3>2. sesFile.stamp <= sesWrites /\ sesWrites \in Nat
      BY <1>1, <1>2 DEF OfHistory, Wrote, SesTypes, SesTypeOK
    <3> QED
      BY <3>1, <3>2
  <2> QED
    BY <1>5, <1>8, <2>1, <2>2, <2>3
<1>9. ASSUME NEW p \in Passwords, NEW algo \in {"scrypt", "argon2id"}, RestoreAuth(p, algo)
      PROVE  \E g \in [0 .. MaxWrites -> Passwords] : OfHistory(g)'
  <2>1. PICK r : r = [pw |-> p, algo |-> algo, stamp |-> sesWrites + 1]
    OBVIOUS
  <2>2. /\ sesWrites' = sesWrites + 1 /\ sesFile' = r /\ sesLate' = sesLate /\ sesWrites < MaxWrites
    BY <1>9, <2>1 DEF RestoreAuth
  <2>3. sesWrites + 1 \in 0 .. MaxWrites
    BY <1>1, <2>2, SesAssumption DEF SesTypes, SesTypeOK
  <2>4. r \in AuthRecord /\ r.stamp = sesWrites + 1
    BY <2>1, <2>3 DEF AuthRecord, Algos
  <2>5. \A d \in Clients : WriteRecord(d) => Written(d) = r
    BY <2>2 DEF WriteRecord
  <2> QED
    BY <1>5, <2>2, <2>4, <2>5
<1> QED
  BY <1>6, <1>7, <1>8, <1>9
     DEF SesNext, sesVars, Arrive, Refused, EnterGate, GateSteps, Hashed, WriteTimeout, Verified,
         PasswordSet, Waited, LateWrite, Logout, Guarded
-------------------------------------------------------------------------------
LEMMA SesInvAtFirst == ASSUME SesInit PROVE SesInv
<1>1. /\ MaxWrites \in Nat /\ MaxLogins \in Nat /\ PerAddress \in Nat \ {0}
      /\ SessionCap \in Nat \ {0}
  BY SesAssumption
<1>2. PICK p \in Passwords, algo \in {"default", "scrypt"} :
           sesFile = [pw |-> p, algo |-> algo, stamp |-> 0]
  BY DEF SesInit
<1>3. sesFile \in AuthRecord
  BY <1>1, <1>2 DEF AuthRecord, Algos
<1>4. SesTypes
  <2>1. sesLive \in Seq(Session) /\ Len(sesLive) <= SessionCap
    BY <1>1, EmptySeq DEF SesInit
  <2>2. 0 \in 0 .. MaxWrites /\ 0 \in 0 .. MaxLogins /\ 0 \in 0 .. PerAddress + 5
    BY <1>1
  <2>3. sesReq \in [Clients -> LoginRequest \cup {Free}]
    BY DEF SesInit
  <2>4. sesFailed \in [Addresses -> 0 .. PerAddress + 5] /\ sesWait \in [Addresses -> BOOLEAN]
    BY <2>2 DEF SesInit
  <2> QED
    BY <1>3, <2>1, <2>2, <2>3, <2>4 DEF SesInit, SesTypes, SesTypeOK
<1>5. RequestInv
  BY DEF SesInit, RequestInv, Free
<1>6. HistoryInv
  <2>1. PICK h : h = [n \in 0 .. MaxWrites |-> p]
    OBVIOUS
  <2>2. h \in [0 .. MaxWrites -> Passwords] /\ h[0] = p
    BY <1>1, <2>1
  <2>3. Wrote(h, sesWrites, sesFile)
    BY <1>2, <2>2 DEF SesInit, Wrote
  <2>4. sesLive \in Seq({s \in Session : Wrote(h, sesWrites, s)})
    BY EmptySeq DEF SesInit
  <2>5. OfHistory(h)
    BY <2>3, <2>4 DEF SesInit, OfHistory, HasRead, Free
  <2> QED
    BY <2>2, <2>5 DEF HistoryInv
<1> QED
  BY <1>4, <1>5, <1>6 DEF SesInv

\* SesInv is an inductive invariant of the sessions: for any number of clients,
\* records and logins, a stamp stands for one password wherever it is held (the
\* digest of auth.rs that binds sessions to the record they were opened under).
THEOREM SesInvHolds == SesSafe => []SesInv
<1>1. SesInit => SesInv
  BY SesInvAtFirst
<1>2. SesInv /\ [SesNext]_sesVars => SesInv'
  BY SesTypesKept, RequestInvKept, HistoryInvKept DEF SesInv
<1> QED
  BY <1>1, <1>2, PTL DEF SesSafe

LEMMA StampTellsPassword ==
    ASSUME SesInv, NEW x, sesFile.stamp = x.stamp,
           \A h : OfHistory(h) => Wrote(h, sesWrites, x)
    PROVE  x.pw = sesFile.pw
  BY DEF SesInv, HistoryInv, OfHistory, Wrote

LEMMA SessionsAreOfHistory ==
    ASSUME SesInv, NEW t, NEW i \in Entry(t), NEW h, OfHistory(h)
    PROVE  Wrote(h, sesWrites, sesLive[i])
<1>1. sesLive \in Seq({s \in Session : Wrote(h, sesWrites, s)}) /\ i \in 1 .. Len(sesLive)
  BY DEF OfHistory, Entry
<1> QED
  BY <1>1, ElementOfSeq

\* Whoever is let in to a protected path knew the password now in force, and a
\* password is changed only by someone who did, whatever a restore or a late
\* write put in place of the record meanwhile (auth.rs).
THEOREM SessionsAreCurrent == SesSafe => SessionsPromises
<1>1. SesInv => SesTypeOK
  BY DEF SesInv, SesTypes
<1>2. ASSUME SesInv PROVE OnlyCurrentPasswordActs
  <2> SUFFICES ASSUME NEW t \in 1 .. MaxLogins, NEW q \in WebRequest, Admitted(t, q), q.path = "protected"
               PROVE  \E i \in Entry(t) : sesLive[i].pw = sesFile.pw
    BY DEF OnlyCurrentPasswordActs
  <2>1. PICK i \in Entry(t) : sesLive[i].stamp = sesFile.stamp
    BY DEF Admitted, Authenticated, BoundToRecord
  <2>2. sesLive[i].pw = sesFile.pw
    BY <1>2, <2>1, SessionsAreOfHistory, StampTellsPassword
  <2> QED
    BY <2>2
<1>3. ASSUME SesInv, [SesNext]_sesVars
      PROVE  \A c \in Clients : Verified(c) /\ sesReq'[c].at = "setting" => sesReq[c].pw = sesFile.pw
  <2> SUFFICES ASSUME NEW c \in Clients, Verified(c), sesReq'[c].at = "setting"
               PROVE  sesReq[c].pw = sesFile.pw
    OBVIOUS
  <2>1. sesReq[c].at = "verified" /\ sesReq[c].pw = sesReq[c].read.pw /\ HasRead(c)
    BY <1>3 DEF Verified, SesInv, RequestInv, HasRead
  <2>2. ~Leave(c)
    BY <1>3 DEF Leave, Free, SesInv, SesTypes
  <2>3. sesFile.stamp = sesReq[c].read.stamp
    BY <2>2 DEF Verified, StampChecked, Unchanged
  <2>4. \A h : OfHistory(h) => Wrote(h, sesWrites, sesReq[c].read)
    BY <2>1 DEF OfHistory
  <2>5. sesReq[c].read.pw = sesFile.pw
    BY <1>3, <2>3, <2>4, StampTellsPassword
  <2> QED
    BY <2>1, <2>5
<1>4. ASSUME [SesNext]_sesVars
      PROVE  \A c \in Clients : EnterGate(c) => ~Limited(sesReq[c].from)
  BY DEF EnterGate
<1> QED
  BY <1>1, <1>2, <1>3, <1>4, SesInvHolds, PTL
     DEF SesSafe, SessionsPromises, ChangeNeedsPasswordInForce, LimitHoldsAtGate

-------------------------------------------------------------------------------
(* The applied-value caches of the state actor.                                *)

\* The actor and the machine by themselves, without what the scheduler owes them.
AplSafe == AplInit /\ [][AplNext]_aplVars

-------------------------------------------------------------------------------
(* The inductive invariant.                                                    *)

AplVersions == [Domains -> 0 .. AplWrites]
AplFiles == [doc : AplVersions, net : Nat]
AplReading == [none : {FALSE}, files : AplFiles, life : Nat]
AplCounters == {"writes", "faults", "events"}
AplSteps == {"idle", "render", "last", "dev", "tes", "net", "tesReplay", "devReplay",
             "tesSent", "tesReplaySent"}

AplTypes ==
    /\ aPhase \in {"idle", "apply", "rollback", "replay", "boot"}
    /\ aStep \in AplSteps /\ (aPhase = "idle" <=> aStep = "idle")
    /\ aWant \in AplVersions /\ aCand \in AplVersions /\ aPlan \subseteq Domains
    /\ aArt \in AplFiles /\ aSet \in 0 .. AplWrites
    /\ aApplied \in {NoneYet} \cup [none : {FALSE}, of : 0 .. AplWrites]
    /\ aDaemon \in [up : BOOLEAN, life : Nat \ {0}, loaded : AplFiles]
    /\ aLast \in {NoneYet} \cup AplReading /\ aSeen \in {NoneYet} \cup AplReading
    /\ aDecoder \in BOOLEAN /\ aObs \in BOOLEAN /\ aPending \in BOOLEAN
    /\ aLate \subseteq [kind : {"render", "set", "stage"}, of : AplVersions]
    /\ aStray \in BOOLEAN /\ aAgreed \in BOOLEAN
    /\ aSpent \in [AplCounters -> Nat] /\ aSpent["writes"] \in 0 .. AplWrites

\* The engine's file only grows, and the daemon's process numbers do: a reading
\* is never ahead of them.
NotAhead(r) == /\ r.files.net <= aArt.net
               /\ r.life <= aDaemon.life
               /\ r.life = aDaemon.life => r.files.net <= aDaemon.loaded.net

\* What the daemon has read, next to the reload that is remembered: the same
\* document, and a file of the engine at least as new; while a reload is under
\* way, the document it was sent for.
Away == aStep \in {"tesSent", "tesReplaySent"}
LoadedInv ==
    /\ aDaemon.loaded.net <= aArt.net
    /\ aLast # NoneYet => NotAhead(aLast)
    /\ aSeen # NoneYet => /\ aStep \in {"tes", "tesReplay"} \/ Away
                          /\ aSeen.files.net <= aArt.net /\ aSeen.life <= aDaemon.life
                          /\ aStep = "tes" => "tes" \in aPlan
                          /\ ~aStray => /\ aSeen.files.doc = aArt.doc
                                        /\ aDaemon.up /\ aSeen.life # aDaemon.life
                                              => aDaemon.loaded.doc = aArt.doc
    /\ Away => /\ aSeen # NoneYet
               /\ aSeen.life = aDaemon.life => aSeen.files.net <= aDaemon.loaded.net
               /\ ~aStray => aDaemon.loaded.doc = aArt.doc
    /\ ~aStray /\ ~Away /\ aLast # NoneYet /\ aLast.life = aDaemon.life
          => aDaemon.loaded.doc = aLast.files.doc

\* No request is on its way that was given up, and none has taken effect.
Clean == ~aStray /\ aLate = {}

\* How far a transaction, a rollback or a replay has brought the machine.
Brought ==
    /\ aArt.doc = Target
    /\ aStep \in {"devReplay", "last"} => (aDaemon.up => aDaemon.loaded.doc = Target)
    /\ aStep = "last" => aSet = Target["dev"]
AtTarget ==
    /\ aArt.doc = Target /\ aSet = Target["dev"]
    /\ aDaemon.up => aDaemon.loaded.doc = Target
ProgressInv ==
    Clean /\ aAgreed =>
        /\ aPhase \in {"apply", "rollback"} /\ aStep # "render" => Brought
        /\ aPhase \in {"idle", "replay"} => AtTarget
        /\ aPhase # "boot"

PhaseInv ==
    /\ aPhase = "boot" => aStep = "render"
    /\ aStep = "last" => aPhase = "rollback"
    /\ aPhase = "replay" => aStep \notin {"render", "dev", "tes", "tesSent"}

AplInv == /\ AplTypes /\ PhaseInv /\ LoadedInv /\ ProgressInv
          /\ SkippedIsInEffect /\ KeptMeansSettled
-------------------------------------------------------------------------------
\* The next step is one, and what a finished or failed step leaves of the phase.
LEMMA AfterIsStep ==
    ASSUME NEW s
    PROVE  /\ After(s) \in {"idle", "dev", "tes", "net", "tesReplay", "devReplay", "last"}
           /\ After(s) = "last" => aPhase = "rollback" /\ s = "devReplay"
           /\ After(s) = "idle" => s \notin {"dev", "tes", "net", "tesReplay"}
           /\ After(s) = "dev" => s = "render" /\ aPhase # "boot"
           /\ After(s) = "tes" => s = "dev"
           /\ After(s) = "net" => s = "tes"
           /\ After(s) = "tesReplay" => s = "net"
           /\ After(s) = "devReplay" => s = "tesReplay"
  BY DEF After

LEMMA GotoTypes ==
    ASSUME AplTypes, PhaseInv, NEW s \in AplSteps, aStep # "idle", Goto(s),
           s = "last" => aPhase = "rollback", aPhase = "boot" => s = "idle",
           aPhase = "replay" => s \notin {"render", "dev", "tes", "tesSent"}, s # "render"
    PROVE  /\ aPhase' \in {"idle", "apply", "rollback", "replay", "boot"}
           /\ aStep' \in AplSteps /\ (aPhase' = "idle" <=> aStep' = "idle")
           /\ aWant' \in AplVersions /\ aCand' \in AplVersions /\ aAgreed' \in BOOLEAN
           /\ aPlan' = aPlan /\ PhaseInv'
<1>1. Target \in AplVersions
  BY DEF Target, AplTypes
<1> QED
  BY <1>1 DEF Goto, AplTypes, PhaseInv, AplSteps

LEMMA FailureTypes ==
    ASSUME AplTypes, PhaseInv, aStep # "idle", AfterFailure
    PROVE  /\ aPhase' \in {"idle", "apply", "rollback", "replay", "boot"}
           /\ aStep' \in {"render", "last", "idle"} /\ (aPhase' = "idle" <=> aStep' = "idle")
           /\ aWant' \in AplVersions /\ aCand' \in AplVersions /\ aAgreed' \in BOOLEAN
           /\ aPlan' = aPlan /\ PhaseInv'
  BY DEF AfterFailure, AplTypes, PhaseInv

\* Where a step of the actor takes its phase.
LEMMA StepFlow ==
    ASSUME AplTypes, PhaseInv, ActorStep
    PROVE  /\ aStep # "idle"
           /\ \/ AfterFailure
              \/ aStep \notin {"tesSent", "tesReplaySent"} /\ Goto(After(aStep))
              \/ aStep = "tesSent" /\ Goto("net")
              \/ aStep = "tesReplaySent" /\ Goto("devReplay")
              \/ UNCHANGED <<aWant, aCand, aPlan, aPhase, aStep, aAgreed>>
              \/ /\ aStep \in {"tes", "tesReplay"} /\ aStep' = SentStep(aStep)
                 /\ UNCHANGED <<aWant, aCand, aPlan, aPhase, aAgreed>>
<1>1. CASE RenderFiles \/ RenderFails
  BY <1>1 DEF RenderFiles, RenderFails
<1>2. CASE Skip
  <2>1. aStep # "idle" /\ aStep \notin {"tesSent", "tesReplaySent"}
    BY <1>2 DEF Skip, Skips, Domains
  <2> QED
    BY <1>2, <2>1 DEF Skip
<1>3. CASE Configure \/ ConfigureFails
  BY <1>3 DEF Configure, ConfigureFails
<1>4. CASE Look \/ NothingDue
  BY <1>4 DEF Look, NothingDue, history
<1>5. CASE ReloadDue
  BY <1>5 DEF ReloadDue, history
<1>6. CASE Reloaded
  BY <1>6 DEF Reloaded, After
<1>7. CASE ReloadFails
  BY <1>7 DEF ReloadFails
<1>8. CASE Deliver \/ DeliverFails
  BY <1>8 DEF Deliver, DeliverFails
<1> QED
  BY <1>1, <1>2, <1>3, <1>4, <1>5, <1>6, <1>7, <1>8 DEF ActorStep

LEMMA FlowTypes ==
    ASSUME AplTypes, PhaseInv, ActorStep
    PROVE  /\ aPhase' \in {"idle", "apply", "rollback", "replay", "boot"}
           /\ aStep' \in AplSteps /\ (aPhase' = "idle" <=> aStep' = "idle")
           /\ aWant' \in AplVersions /\ aCand' \in AplVersions /\ aAgreed' \in BOOLEAN
           /\ aPlan' = aPlan /\ PhaseInv'
<1>1. aStep # "idle" /\ aStep \in AplSteps
  BY StepFlow DEF AplTypes, AplSteps
<1>2. CASE AfterFailure
  BY <1>1, <1>2, FailureTypes DEF AplSteps
<1>3. CASE aStep \notin {"tesSent", "tesReplaySent"} /\ Goto(After(aStep))
  <2>1. PICK s : s = After(aStep)
    OBVIOUS
  <2>2. /\ s \in AplSteps /\ s # "render" /\ (s = "last" => aPhase = "rollback")
        /\ aPhase = "boot" => s = "idle"
        /\ aPhase = "replay" => s \notin {"render", "dev", "tes", "tesSent"}
    BY <1>1, <1>3, <2>1 DEF After, AplSteps, PhaseInv
  <2> QED
    BY <1>1, <1>3, <2>1, <2>2, GotoTypes
<1>4. CASE aStep = "tesSent" /\ Goto("net")
  BY <1>1, <1>4, GotoTypes DEF AplSteps, PhaseInv
<1>5. CASE aStep = "tesReplaySent" /\ Goto("devReplay")
  BY <1>1, <1>5, GotoTypes DEF AplSteps, PhaseInv
<1>6. CASE UNCHANGED <<aWant, aCand, aPlan, aPhase, aStep, aAgreed>>
  BY <1>1, <1>6 DEF AplTypes, PhaseInv
<1>7. CASE /\ aStep \in {"tes", "tesReplay"} /\ aStep' = SentStep(aStep)
           /\ UNCHANGED <<aWant, aCand, aPlan, aPhase, aAgreed>>
  BY <1>1, <1>7 DEF AplTypes, PhaseInv, SentStep, AplSteps
<1> QED
  BY <1>2, <1>3, <1>4, <1>5, <1>6, <1>7, StepFlow
-------------------------------------------------------------------------------
\* A bound is spent on one counter.
LEMMA SpendTypes ==
    ASSUME AplTypes, NEW k \in AplCounters, NEW bound, AplSpend(k, bound),
           k = "writes" => bound = AplWrites
    PROVE  /\ aSpent' \in [AplCounters -> Nat]
           /\ aSpent'["writes"] \in 0 .. AplWrites
           /\ k = "writes" => aSpent["writes"] + 1 \in 0 .. AplWrites
<1>1. /\ aSpent \in [AplCounters -> Nat] /\ aSpent["writes"] \in 0 .. AplWrites
      /\ AplWrites \in Nat
  BY AplAssumption DEF AplTypes
<1>2. aSpent' = [aSpent EXCEPT ![k] = aSpent[k] + 1] /\ aSpent[k] < bound
  BY DEF AplSpend
<1>3. aSpent' \in [AplCounters -> Nat]
  BY <1>1, <1>2
<1>4. CASE k = "writes"
  BY <1>1, <1>2, <1>3, <1>4 DEF AplCounters
<1>5. CASE k # "writes"
  BY <1>1, <1>2, <1>3, <1>5 DEF AplCounters
<1> QED
  BY <1>4, <1>5

LEMMA ReadingIsTyped == ASSUME AplTypes PROVE Reading \in AplReading
  BY DEF AplTypes, AplReading, Reading

LEMMA TargetIsTyped == ASSUME AplTypes PROVE Target \in AplVersions /\ Target["dev"] \in 0 .. AplWrites
  BY DEF AplTypes, Target, AplVersions, Domains

LEMMA ActorTypes == ASSUME AplTypes, PhaseInv, ActorStep PROVE AplTypes'
<1>1. /\ aPhase' \in {"idle", "apply", "rollback", "replay", "boot"}
      /\ aStep' \in AplSteps /\ (aPhase' = "idle" <=> aStep' = "idle")
      /\ aWant' \in AplVersions /\ aCand' \in AplVersions /\ aAgreed' \in BOOLEAN
      /\ aPlan' = aPlan
  BY FlowTypes
<1>2. PICK target : target = Target
  OBVIOUS
<1>3. target \in AplVersions /\ target["dev"] \in 0 .. AplWrites
  BY <1>2, TargetIsTyped
<1>4. SUFFICES /\ aArt' \in AplFiles /\ aSet' \in 0 .. AplWrites
               /\ aApplied' \in {NoneYet} \cup [none : {FALSE}, of : 0 .. AplWrites]
               /\ aDaemon' \in [up : BOOLEAN, life : Nat \ {0}, loaded : AplFiles]
               /\ aLast' \in {NoneYet} \cup AplReading /\ aSeen' \in {NoneYet} \cup AplReading
               /\ aDecoder' \in BOOLEAN /\ aObs' \in BOOLEAN /\ aPending' \in BOOLEAN
               /\ aLate' \subseteq [kind : {"render", "set", "stage"}, of : AplVersions]
               /\ aStray' \in BOOLEAN
               /\ aSpent' \in [AplCounters -> Nat] /\ aSpent'["writes"] \in 0 .. AplWrites
  BY <1>1 DEF AplTypes, AplSteps
<1>5. /\ aArt \in AplFiles /\ aSet \in 0 .. AplWrites
      /\ aApplied \in {NoneYet} \cup [none : {FALSE}, of : 0 .. AplWrites]
      /\ aDaemon \in [up : BOOLEAN, life : Nat \ {0}, loaded : AplFiles]
      /\ aLast \in {NoneYet} \cup AplReading /\ aSeen \in {NoneYet} \cup AplReading
      /\ aDecoder \in BOOLEAN /\ aObs \in BOOLEAN /\ aPending \in BOOLEAN
      /\ aLate \subseteq [kind : {"render", "set", "stage"}, of : AplVersions]
      /\ aStray \in BOOLEAN
      /\ aSpent \in [AplCounters -> Nat] /\ aSpent["writes"] \in 0 .. AplWrites
  BY DEF AplTypes
<1>6. ASSUME AplSpend("faults", AplFaults)
      PROVE  aSpent' \in [AplCounters -> Nat] /\ aSpent'["writes"] \in 0 .. AplWrites
  BY <1>6, SpendTypes DEF AplCounters
<1>7. CASE RenderFiles
  <2>1. [aArt EXCEPT !.doc = target] \in AplFiles
    BY <1>3, <1>5 DEF AplFiles
  <2> QED
    BY <1>2, <1>5, <1>7, <2>1 DEF RenderFiles, memory
<1>8. CASE RenderFails
  <2>1. aLate \union {[kind |-> "render", of |-> target]}
           \subseteq [kind : {"render", "set", "stage"}, of : AplVersions]
    BY <1>3, <1>5
  <2> QED
    BY <1>2, <1>5, <1>6, <1>8, <2>1 DEF RenderFails, memory, world
<1>9. CASE Skip
  BY <1>5, <1>9 DEF Skip, world
<1>10. CASE Configure
  <2>1. Version(target["dev"]) \in [none : {FALSE}, of : 0 .. AplWrites]
    BY <1>3 DEF Version
  <2> QED
    BY <1>2, <1>3, <1>5, <1>10, <2>1 DEF Configure
<1>11. CASE ConfigureFails
  <2>1. aLate \union {[kind |-> "set", of |-> target]}
           \subseteq [kind : {"render", "set", "stage"}, of : AplVersions]
    BY <1>3, <1>5
  <2> QED
    BY <1>2, <1>3, <1>5, <1>6, <1>11, <2>1 DEF ConfigureFails
<1>12. CASE Look
  BY <1>5, <1>12, ReadingIsTyped DEF Look, world, memory, history
<1>13. CASE NothingDue
  BY <1>5, <1>13 DEF NothingDue, world, memory
<1>14. CASE ReloadDue
  <2>1. [aDaemon EXCEPT !.loaded = aArt] \in [up : BOOLEAN, life : Nat \ {0}, loaded : AplFiles]
    BY <1>5
  <2> QED
    BY <1>5, <1>14, <2>1 DEF ReloadDue, memory, history
<1>15. CASE Reloaded
  BY <1>5, <1>15 DEF Reloaded, world
<1>16. CASE ReloadFails
  BY <1>5, <1>6, <1>16 DEF ReloadFails, world, memory
<1>17. CASE Deliver
  BY <1>5, <1>17 DEF Deliver, world, Kept
<1>18. CASE DeliverFails
  BY <1>5, <1>18 DEF DeliverFails, world, memory
<1> QED
  BY <1>7, <1>8, <1>9, <1>10, <1>11, <1>12, <1>13, <1>14, <1>15, <1>16, <1>17, <1>18 DEF ActorStep

Outside == \/ LateLands \/ Publishes \/ DaemonStops \/ DaemonStarts
           \/ DecoderStops \/ DecoderStarts \/ ControlRestarts
Entering == Submit \/ StartReplay \/ Poll \/ ObservationAges \/ Stage \/ Decide

\* What happens around the actor leaves it where it is.
LEMMA TypesAround ==
    ASSUME AplTypes, UNCHANGED <<aWant, aCand, aPlan, aPhase, aStep, aSet, aApplied, aLast, aSeen, aAgreed>>,
           aArt' \in AplFiles, aDaemon' \in [up : BOOLEAN, life : Nat \ {0}, loaded : AplFiles],
           aDecoder' \in BOOLEAN, aObs' \in BOOLEAN, aPending' \in BOOLEAN, aStray' \in BOOLEAN,
           UNCHANGED aLate,
           aSpent' \in [AplCounters -> Nat], aSpent'["writes"] \in 0 .. AplWrites
    PROVE  AplTypes'
<1>1. /\ aPhase' \in {"idle", "apply", "rollback", "replay", "boot"}
      /\ aStep' \in AplSteps /\ (aPhase' = "idle" <=> aStep' = "idle")
      /\ aWant' \in AplVersions /\ aCand' \in AplVersions /\ aPlan' \subseteq Domains
      /\ aSet' \in 0 .. AplWrites
  BY DEF AplTypes
<1>2. /\ aApplied' \in {NoneYet} \cup [none : {FALSE}, of : 0 .. AplWrites]
      /\ aLast' \in {NoneYet} \cup AplReading /\ aSeen' \in {NoneYet} \cup AplReading
      /\ aAgreed' \in BOOLEAN
      /\ aLate' \subseteq [kind : {"render", "set", "stage"}, of : AplVersions]
  BY DEF AplTypes
<1> QED
  BY <1>1, <1>2, ZenonT(60) DEF AplTypes

LEMMA OutsideTypes == ASSUME AplTypes, Outside PROVE AplTypes'
<1>1. \A k \in AplCounters : \A bound : AplSpend(k, bound) /\ k # "writes" =>
         aSpent' \in [AplCounters -> Nat] /\ aSpent'["writes"] \in 0 .. AplWrites
  BY SpendTypes
<1>2. CASE LateLands
  <2>1. PICK r \in aLate :
          /\ aLate' = aLate \ {r} /\ aStray' = TRUE
          /\ aArt' \in {aArt, [aArt EXCEPT !.doc = r.of]}
          /\ aSet' \in {aSet, r.of["dev"]} /\ aPending' \in {aPending, TRUE}
          /\ UNCHANGED <<aWant, aCand, aPlan, aPhase, aStep, aDaemon, aDecoder, memory, aSeen,
                         aAgreed, aSpent>>
    BY <1>2 DEF LateLands
  <2>2. r.of \in AplVersions /\ r.of["dev"] \in 0 .. AplWrites
    BY DEF AplTypes, AplVersions, Domains
  <2>3. [aArt EXCEPT !.doc = r.of] \in AplFiles
    BY <2>2 DEF AplTypes, AplFiles
  <2> QED
    <3>1. /\ aArt' \in AplFiles /\ aSet' \in 0 .. AplWrites /\ aPending' \in BOOLEAN
          /\ aLate' \subseteq [kind : {"render", "set", "stage"}, of : AplVersions]
      BY <2>1, <2>2, <2>3 DEF AplTypes
    <3>2. UNCHANGED <<aWant, aCand, aPlan, aPhase, aStep, aDaemon, aDecoder, aApplied, aLast, aObs,
                      aSeen, aAgreed, aSpent>> /\ aStray' = TRUE
      BY <2>1 DEF memory
    <3> QED
      BY <3>1, <3>2 DEF AplTypes
<1>3. CASE Publishes
  <2>1. [aArt EXCEPT !.net = aArt.net + 1] \in AplFiles
    BY DEF AplTypes, AplFiles
  <2>2. /\ UNCHANGED <<aWant, aCand, aPlan, aPhase, aStep, aSet, aApplied, aLast, aSeen, aAgreed>>
        /\ UNCHANGED <<aDaemon, aDecoder, aObs, aPending, aStray, aLate>>
    BY <1>3 DEF Publishes, memory, history
  <2> QED
    BY <1>1, <1>3, <2>1, <2>2, TypesAround DEF AplTypes, Publishes, AplCounters
<1>4. CASE DaemonStops
  <2>1. [aDaemon EXCEPT !.up = FALSE] \in [up : BOOLEAN, life : Nat \ {0}, loaded : AplFiles]
    BY DEF AplTypes
  <2>2. /\ UNCHANGED <<aWant, aCand, aPlan, aPhase, aStep, aSet, aApplied, aLast, aSeen, aAgreed>>
        /\ UNCHANGED <<aArt, aDecoder, aObs, aPending, aStray, aLate>>
    BY <1>4 DEF DaemonStops, memory, history
  <2> QED
    BY <1>1, <1>4, <2>1, <2>2, TypesAround DEF AplTypes, DaemonStops, AplCounters
<1>5. CASE DaemonStarts
  <2>1. [up |-> TRUE, life |-> aDaemon.life + 1, loaded |-> aArt]
           \in [up : BOOLEAN, life : Nat \ {0}, loaded : AplFiles]
    BY DEF AplTypes
  <2>2. /\ UNCHANGED <<aWant, aCand, aPlan, aPhase, aStep, aSet, aApplied, aLast, aSeen, aAgreed>>
        /\ UNCHANGED <<aArt, aDecoder, aObs, aPending, aStray, aLate, aSpent>>
    BY <1>5 DEF DaemonStarts, memory, history
  <2> QED
    BY <1>5, <2>1, <2>2, TypesAround DEF AplTypes, DaemonStarts
<1>6. CASE DecoderStops
  <2>1. /\ UNCHANGED <<aWant, aCand, aPlan, aPhase, aStep, aSet, aApplied, aLast, aSeen, aAgreed>>
        /\ UNCHANGED <<aArt, aDaemon, aObs, aPending, aStray, aLate>> /\ aDecoder' = FALSE
    BY <1>6 DEF DecoderStops, memory, history
  <2> QED
    BY <1>1, <1>6, <2>1, TypesAround DEF AplTypes, DecoderStops, AplCounters
<1>7. CASE DecoderStarts
  <2>1. /\ UNCHANGED <<aWant, aCand, aPlan, aPhase, aStep, aSet, aApplied, aLast, aSeen, aAgreed>>
        /\ UNCHANGED <<aArt, aDaemon, aObs, aPending, aStray, aLate, aSpent>> /\ aDecoder' = TRUE
    BY <1>7 DEF DecoderStarts, memory, history
  <2> QED
    BY <2>1, TypesAround DEF AplTypes
<1>8. CASE ControlRestarts
  BY <1>1, <1>8 DEF AplTypes, AplSteps, ControlRestarts, world, AplCounters
<1> QED
  BY <1>2, <1>3, <1>4, <1>5, <1>6, <1>7, <1>8 DEF Outside

LEMMA EnteringTypes == ASSUME AplTypes, Entering PROVE AplTypes'
<1>1. CASE Submit
  <2>1. /\ aSpent' \in [AplCounters -> Nat] /\ aSpent'["writes"] \in 0 .. AplWrites
        /\ aSpent["writes"] + 1 \in 0 .. AplWrites
    BY <1>1, SpendTypes DEF Submit, AplCounters
  <2>2. PICK plan \in SUBSET Domains :
          aPlan' = plan /\ aCand' = [d \in Domains |-> IF d \in plan THEN aSpent["writes"] + 1 ELSE aWant[d]]
    BY <1>1 DEF AplTypes, Submit
  <2>3. aCand' \in AplVersions
    BY <2>1, <2>2 DEF AplTypes, AplVersions
  <2> QED
    BY <1>1, <2>1, <2>2, <2>3 DEF AplTypes, AplSteps, Submit, NetworkGuard, Kept, world
<1>2. CASE StartReplay
  BY <1>2 DEF AplTypes, AplSteps, StartReplay, world, memory, history
<1>3. CASE Poll
  BY <1>3 DEF AplTypes, Poll, Kept, world, history
<1>4. CASE ObservationAges
  <2>1. /\ UNCHANGED <<aWant, aCand, aPlan, aPhase, aStep, aSet, aApplied, aLast, aSeen, aAgreed>>
        /\ UNCHANGED <<aArt, aDaemon, aDecoder, aPending, aStray, aLate, aSpent>> /\ aObs' = FALSE
    BY <1>4 DEF ObservationAges, world, memory, history
  <2> QED
    BY <2>1, TypesAround DEF AplTypes
<1>5. CASE Stage
  <2>1. /\ aSpent' \in [AplCounters -> Nat] /\ aSpent'["writes"] \in 0 .. AplWrites
    BY <1>5, SpendTypes DEF Stage, AplCounters
  <2>2. aLate \union {[kind |-> "stage", of |-> aWant]}
           \subseteq [kind : {"render", "set", "stage"}, of : AplVersions]
    BY DEF AplTypes
  <2> QED
    BY <1>5, <2>1, <2>2 DEF AplTypes, Stage, Invalidated, history
<1>6. CASE Decide
  BY <1>6 DEF AplTypes, Decide, Invalidated, history
<1> QED
  BY <1>1, <1>2, <1>3, <1>4, <1>5, <1>6 DEF Entering

LEMMA AplTypesKept ==
    ASSUME AplTypes, PhaseInv, [AplNext]_aplVars PROVE AplTypes' /\ PhaseInv'
<1>1. CASE UNCHANGED aplVars
  <2>1. AplTypes'
    <3>1. /\ UNCHANGED <<aWant, aCand, aPlan, aPhase, aStep, aSet, aApplied, aLast, aSeen, aAgreed>>
          /\ UNCHANGED <<aArt, aDaemon, aDecoder, aObs, aPending, aStray, aLate, aSpent>>
      BY <1>1 DEF aplVars
    <3> QED
      BY <3>1, TypesAround DEF AplTypes
  <2>2. PhaseInv'
    BY <1>1 DEF aplVars, PhaseInv
  <2> QED
    BY <2>1, <2>2
<1>2. CASE ActorStep
  BY <1>2, ActorTypes, FlowTypes
<1>3. CASE Outside
  <2>1. PhaseInv'
    BY <1>3 DEF PhaseInv, Outside, LateLands, Publishes, DaemonStops, DaemonStarts, DecoderStops,
                DecoderStarts, ControlRestarts
  <2> QED
    BY <1>3, <2>1, OutsideTypes
<1>4. CASE Entering
  <2>1. PhaseInv'
    BY <1>4 DEF PhaseInv, Entering, Submit, StartReplay, Poll, ObservationAges, Stage, Decide
  <2> QED
    BY <1>4, <2>1, EnteringTypes
<1> QED
  BY <1>1, <1>2, <1>3, <1>4 DEF AplNext, Outside, Entering
-------------------------------------------------------------------------------
\* What takes nothing from what the daemon has read and is remembered of it.
LEMMA LoadedSame ==
    ASSUME LoadedInv, UNCHANGED <<aArt, aDaemon, aLast, aSeen, aStray, aPlan>>,
           \/ UNCHANGED aStep
           \/ aSeen = NoneYet /\ aStep \notin {"tesSent", "tesReplaySent"}
                /\ aStep' \notin {"tesSent", "tesReplaySent"}
    PROVE  LoadedInv'
  BY DEF LoadedInv, NotAhead, Away

\* Only the steps of the daemon's reload hold a reading.
LEMMA NothingSeen ==
    ASSUME LoadedInv, aStep \notin {"tes", "tesReplay", "tesSent", "tesReplaySent"}
    PROVE  aSeen = NoneYet
  BY DEF LoadedInv, Away

LEMMA LoadedByActor == ASSUME AplTypes, PhaseInv, LoadedInv, ActorStep PROVE LoadedInv'
<1>1. /\ aArt \in AplFiles /\ aDaemon \in [up : BOOLEAN, life : Nat \ {0}, loaded : AplFiles]
      /\ aLast \in {NoneYet} \cup AplReading /\ aSeen \in {NoneYet} \cup AplReading
      /\ aStray \in BOOLEAN
  BY DEF AplTypes
<1>2. /\ After("render") \notin {"tesSent", "tesReplaySent"} /\ aPlan' = aPlan
      /\ \A s : After(s) \notin {"tesSent", "tesReplaySent"}
  BY FlowTypes DEF After
<1>3. AfterFailure \/ (\E s : Goto(After(s))) => aStep' \notin {"tesSent", "tesReplaySent"}
  BY <1>2 DEF AfterFailure, Goto
<1>4. CASE RenderFiles
  <2>1. aSeen = NoneYet /\ ~Away
    BY <1>4, NothingSeen DEF RenderFiles, Away
  <2>2. ~Away'
    BY <1>3, <1>4 DEF RenderFiles, Away
  <2>3. aArt' = [aArt EXCEPT !.doc = Target] /\ aArt'.net = aArt.net
    BY <1>1, <1>4 DEF RenderFiles, AplFiles
  <2> QED
    BY <1>4, <2>1, <2>2, <2>3 DEF RenderFiles, LoadedInv, NotAhead, memory
<1>5. CASE RenderFails \/ Configure \/ ConfigureFails \/ Deliver \/ DeliverFails
  <2>1. aSeen = NoneYet /\ aStep \notin {"tesSent", "tesReplaySent"}
    BY <1>5, NothingSeen DEF RenderFails, Configure, ConfigureFails, Deliver, DeliverFails
  <2>2. aStep' \notin {"tesSent", "tesReplaySent"}
    BY <1>3, <1>5 DEF RenderFails, Configure, ConfigureFails, Deliver, DeliverFails
  <2>3. UNCHANGED <<aArt, aDaemon, aLast, aSeen, aStray>>
    BY <1>5 DEF RenderFails, Configure, ConfigureFails, Deliver, DeliverFails, world, memory
  <2> QED
    BY <1>2, <2>1, <2>2, <2>3, LoadedSame
<1>6. CASE Skip
  <2>1. aSeen = NoneYet /\ ~Away
    BY <1>6 DEF Skip, Skips, LoadedInv, Away, Domains
  <2>2. ~Away'
    BY <1>3, <1>6 DEF Skip, Away
  <2>3. UNCHANGED <<aArt, aDaemon, aSeen, aStray>> /\ aLast' \in {NoneYet, aLast}
    BY <1>6 DEF Skip, world
  <2> QED
    BY <2>1, <2>2, <2>3 DEF LoadedInv, NotAhead
<1>7. CASE Look
  <2>1. ~Away /\ ~Away' /\ aStep' \in {"tes", "tesReplay"} /\ aSeen' # NoneYet /\ aSeen' = Reading
        /\ (aStep' = "tes" => "tes" \in aPlan')
    BY <1>2, <1>7 DEF Look, Away, Skips, Reading, NoneYet, Domains
  <2>2. aSeen'.files = aArt /\ aSeen'.life = IF aDaemon.up THEN aDaemon.life ELSE 0
    BY <2>1 DEF Reading
  <2>3. UNCHANGED <<aArt, aDaemon, aLast, aStray>>
    BY <1>7 DEF Look, world, memory, history
  <2>4. /\ aDaemon.life \in Nat \ {0} /\ aArt.net \in Nat
        /\ aSeen'.files.net = aArt.net /\ aSeen'.files.doc = aArt.doc
        /\ aSeen'.life <= aDaemon.life /\ (aDaemon.up => aSeen'.life = aDaemon.life)
    BY <1>1, <2>2 DEF AplFiles
  <2> QED
    BY <2>1, <2>3, <2>4 DEF LoadedInv, NotAhead
<1>8. CASE NothingDue \/ ReloadFails
  <2>1. ~Away /\ ~Away' /\ aSeen' = NoneYet
    BY <1>3, <1>8 DEF NothingDue, ReloadFails, Away
  <2>2. UNCHANGED <<aArt, aDaemon, aLast, aStray>>
    BY <1>8 DEF NothingDue, ReloadFails, world, memory
  <2> QED
    BY <2>1, <2>2 DEF LoadedInv, NotAhead
<1>9. CASE ReloadDue
  <2>1. /\ Away' /\ ~Away /\ aSeen # NoneYet
        /\ UNCHANGED <<aArt, aLast, aSeen, aStray>>
    BY <1>9 DEF ReloadDue, Away, SentStep, memory, history
  <2>2. aDaemon'.loaded = aArt /\ aDaemon'.life = aDaemon.life
    BY <1>1, <1>9 DEF ReloadDue
  <2>3. aArt.net \in Nat /\ aDaemon.loaded.net \in Nat /\ aStep' # "tes"
    BY <1>1, <1>9 DEF AplFiles, ReloadDue, SentStep
  <2> QED
    BY <1>1, <2>1, <2>2, <2>3 DEF LoadedInv, NotAhead, AplReading, AplFiles
<1>10. CASE Reloaded
  <2>1. Away /\ ~Away' /\ aSeen' = NoneYet /\ aLast' = aSeen /\ aSeen # NoneYet
    BY <1>3, <1>10 DEF Reloaded, Away, LoadedInv
  <2>2. UNCHANGED <<aArt, aDaemon, aStray>>
    BY <1>10 DEF Reloaded, world
  <2> QED
    BY <2>1, <2>2 DEF LoadedInv, NotAhead
<1> QED
  BY <1>4, <1>5, <1>6, <1>7, <1>8, <1>9, <1>10 DEF ActorStep

LEMMA LoadedByOutside == ASSUME AplTypes, PhaseInv, LoadedInv, Outside PROVE LoadedInv'
<1>1. /\ aArt \in AplFiles /\ aDaemon \in [up : BOOLEAN, life : Nat \ {0}, loaded : AplFiles]
      /\ aLast \in {NoneYet} \cup AplReading /\ aSeen \in {NoneYet} \cup AplReading
      /\ aStray \in BOOLEAN
  BY DEF AplTypes
<1>2. CASE LateLands
  <2>1. /\ aStray' = TRUE /\ aArt'.net = aArt.net
        /\ UNCHANGED <<aDaemon, aLast, aSeen, aStep, aPlan>>
    BY <1>1, <1>2 DEF LateLands, AplFiles, memory
  <2> QED
    BY <2>1 DEF LoadedInv, NotAhead, Away
<1>3. CASE Publishes
  <2>1. /\ aArt'.net = aArt.net + 1 /\ aArt'.doc = aArt.doc
        /\ UNCHANGED <<aDaemon, aLast, aSeen, aStep, aStray, aPlan>>
    BY <1>1, <1>3 DEF Publishes, AplFiles, memory, history
  <2>2. /\ aArt.net \in Nat /\ aDaemon.loaded.net \in Nat
        /\ aLast # NoneYet => aLast.files.net \in Nat
        /\ aSeen # NoneYet => aSeen.files.net \in Nat
    BY <1>1 DEF AplReading, AplFiles
  <2> QED
    BY <2>1, <2>2 DEF LoadedInv, NotAhead, Away
<1>4. CASE DaemonStops
  <2>1. /\ ~aDaemon'.up /\ aDaemon'.life = aDaemon.life /\ aDaemon'.loaded = aDaemon.loaded
        /\ UNCHANGED <<aArt, aLast, aSeen, aStep, aStray, aPlan>>
    BY <1>1, <1>4 DEF DaemonStops, memory, history
  <2> QED
    BY <2>1 DEF LoadedInv, NotAhead, Away
<1>5. CASE DaemonStarts
  <2>1. /\ aDaemon'.life = aDaemon.life + 1 /\ aDaemon'.loaded = aArt
        /\ UNCHANGED <<aArt, aLast, aSeen, aStep, aStray, aPlan>>
    BY <1>1, <1>5 DEF DaemonStarts, memory, history
  <2>2. /\ aArt.net \in Nat /\ aDaemon.life \in Nat
        /\ aLast # NoneYet => aLast.files.net \in Nat /\ aLast.life \in Nat
        /\ aSeen # NoneYet => aSeen.files.net \in Nat /\ aSeen.life \in Nat
    BY <1>1 DEF AplReading, AplFiles
  <2> QED
    BY <2>1, <2>2 DEF LoadedInv, NotAhead, Away
<1>6. CASE DecoderStops \/ DecoderStarts
  <2>1. UNCHANGED <<aArt, aDaemon, aLast, aSeen, aStray, aPlan, aStep>>
    BY <1>6 DEF DecoderStops, DecoderStarts, memory, history
  <2> QED
    BY <2>1, LoadedSame
<1>7. CASE ControlRestarts
  <2>1. /\ aLast' = NoneYet /\ aSeen' = NoneYet /\ aStep' = "render"
        /\ UNCHANGED <<aArt, aDaemon>>
    BY <1>7 DEF ControlRestarts, world
  <2> QED
    BY <2>1 DEF LoadedInv, Away
<1> QED
  BY <1>2, <1>3, <1>4, <1>5, <1>6, <1>7 DEF Outside

LEMMA LoadedByEntering == ASSUME AplTypes, LoadedInv, Entering PROVE LoadedInv'
<1>1. UNCHANGED <<aArt, aDaemon, aLast, aSeen, aStray>>
  BY DEF Entering, Submit, StartReplay, Poll, ObservationAges, Stage, Decide, world, memory, history
<1>2. CASE UNCHANGED <<aStep, aPlan>>
  BY <1>1, <1>2, LoadedSame
<1>3. CASE ~UNCHANGED <<aStep, aPlan>>
  <2>1. aStep = "idle" /\ aStep' \in {"render", "net"}
    BY <1>3 DEF Entering, Submit, StartReplay, Poll, ObservationAges, Stage, Decide, AplTypes
  <2>2. aSeen = NoneYet
    BY <2>1, NothingSeen
  <2> QED
    BY <1>1, <2>1, <2>2 DEF LoadedInv, NotAhead, Away
<1> QED
  BY <1>2, <1>3

LEMMA LoadedKept ==
    ASSUME AplTypes, PhaseInv, LoadedInv, [AplNext]_aplVars PROVE LoadedInv'
<1>1. CASE UNCHANGED aplVars
  BY <1>1, LoadedSame DEF aplVars
<1> QED
  BY <1>1, LoadedByActor, LoadedByOutside, LoadedByEntering DEF AplNext, Outside, Entering
-------------------------------------------------------------------------------
LEMMA SkippedKept ==
    ASSUME AplTypes, SkippedIsInEffect, [AplNext]_aplVars PROVE SkippedIsInEffect'
<1>1. CASE UNCHANGED <<aSet, aApplied, aStray>>
  BY <1>1 DEF SkippedIsInEffect
<1>2. CASE ~UNCHANGED <<aSet, aApplied, aStray>> /\ ActorStep
  <2>1. Configure \/ ConfigureFails
    BY <1>2 DEF ActorStep, RenderFiles, RenderFails, Skip, Look, NothingDue, ReloadDue, Reloaded,
                ReloadFails, Deliver, DeliverFails, world, memory, history
  <2> QED
    BY <2>1 DEF Configure, ConfigureFails, SkippedIsInEffect
<1>3. CASE ~UNCHANGED <<aSet, aApplied, aStray>> /\ Outside
  BY <1>3 DEF Outside, LateLands, Publishes, DaemonStops, DaemonStarts, DecoderStops, DecoderStarts,
              ControlRestarts, world, memory, history, SkippedIsInEffect
<1>4. CASE Entering
  BY <1>1, <1>4 DEF Entering, Submit, StartReplay, Poll, ObservationAges, Stage, Decide, world, memory,
              history
<1> QED
  BY <1>1, <1>2, <1>3, <1>4 DEF AplNext, Outside, Entering, aplVars

LEMMA KeptKept ==
    ASSUME AplTypes, KeptMeansSettled, [AplNext]_aplVars PROVE KeptMeansSettled'
<1>1. CASE UNCHANGED <<aObs, aPending, aStray>>
  BY <1>1 DEF KeptMeansSettled
<1>2. CASE ~UNCHANGED <<aObs, aPending, aStray>> /\ ActorStep
  <2>1. Deliver
    BY <1>2 DEF ActorStep, RenderFiles, RenderFails, Skip, Look, NothingDue, ReloadDue, Reloaded,
                ReloadFails, Configure, ConfigureFails, DeliverFails, world, memory, history
  <2> QED
    BY <2>1 DEF Deliver, Kept, KeptMeansSettled, AplTypes, world
<1>3. CASE ~UNCHANGED <<aObs, aPending, aStray>> /\ Outside
  BY <1>3 DEF Outside, LateLands, Publishes, DaemonStops, DaemonStarts, DecoderStops, DecoderStarts,
              ControlRestarts, world, memory, history, KeptMeansSettled
<1>4. CASE ~UNCHANGED <<aObs, aPending, aStray>> /\ Entering
  BY <1>4 DEF Entering, Submit, StartReplay, Poll, ObservationAges, Stage, Decide, NetworkGuard, Kept,
              Invalidated, world, memory, history, KeptMeansSettled, AplTypes
<1> QED
  BY <1>1, <1>2, <1>3, <1>4 DEF AplNext, Outside, Entering, aplVars

\* A failed step of a transaction or a rollback leaves nothing to show, and one
\* of a replay has taken nothing back.
LEMMA FailureKeeps ==
    ASSUME AplTypes, PhaseInv, ProgressInv, ActorStep, AfterFailure,
           Clean' => Clean /\ aArt' = aArt /\ aDaemon' = aDaemon /\ aSet' \in {aSet, Target["dev"]}
    PROVE  ProgressInv'
<1> SUFFICES ASSUME Clean', aAgreed'
             PROVE  /\ aPhase' \in {"apply", "rollback"} /\ aStep' # "render" => Brought'
                    /\ aPhase' \in {"idle", "replay"} => AtTarget'
                    /\ aPhase' # "boot"
  BY DEF ProgressInv
<1>1. Clean /\ aArt' = aArt /\ aDaemon' = aDaemon /\ aSet' \in {aSet, Target["dev"]}
  OBVIOUS
<1>2. aStep # "idle" /\ aPhase # "idle" /\ aPhase # "rollback" /\ aAgreed' = aAgreed
  BY StepFlow DEF AfterFailure, AplTypes, PhaseInv
<1>3. aPhase # "boot"
  BY <1>1, <1>2 DEF ProgressInv
<1>4. CASE aPhase = "apply"
  BY <1>4 DEF AfterFailure
<1>5. CASE aPhase = "replay"
  <2>1. AtTarget /\ aPhase' = "idle" /\ aWant' = aWant
    BY <1>1, <1>2, <1>5 DEF ProgressInv, AfterFailure
  <2>2. Target' = Target
    BY <1>5, <2>1 DEF Target
  <2> QED
    BY <1>1, <2>1, <2>2 DEF AtTarget
<1> QED
  BY <1>2, <1>3, <1>4, <1>5 DEF AplTypes

\* What a step that goes on to s has to have brought about.
Reached(s) ==
    /\ aArt'.doc = Target
    /\ s \in {"devReplay", "last", "idle"} \/ aPhase = "replay"
          => (aDaemon'.up => aDaemon'.loaded.doc = Target)
    /\ s \in {"last", "idle"} \/ aPhase = "replay" => aSet' = Target["dev"]

LEMMA GotoKeeps ==
    ASSUME AplTypes, PhaseInv, ProgressInv, ActorStep, NEW s, Goto(s),
           Clean' => Clean, Clean /\ aAgreed => Reached(s)
    PROVE  ProgressInv'
<1> SUFFICES ASSUME Clean', aAgreed'
             PROVE  /\ aPhase' \in {"apply", "rollback"} /\ aStep' # "render" => Brought'
                    /\ aPhase' \in {"idle", "replay"} => AtTarget'
                    /\ aPhase' # "boot"
  BY DEF ProgressInv
<1>1. Clean /\ aAgreed /\ aStep' = s /\ Reached(s)
  BY DEF Goto
<1>2. aPhase \in {"apply", "rollback", "replay"} /\ aStep # "idle"
  BY <1>1, StepFlow DEF ProgressInv, AplTypes, PhaseInv
<1>3. Target' = Target
  BY <1>2 DEF Target, Goto
<1>4. CASE s = "idle"
  <2>1. aPhase' = "idle"
    BY <1>4 DEF Goto
  <2> QED
    BY <1>1, <1>3, <1>4, <2>1 DEF AtTarget, Reached
<1>5. CASE s # "idle"
  <2>1. aPhase' = aPhase
    BY <1>5 DEF Goto
  <2>2. aPhase = "replay" => AtTarget'
    BY <1>1, <1>3 DEF AtTarget, Reached
  <2>3. Brought'
    BY <1>1, <1>3 DEF Brought, Reached
  <2> QED
    BY <1>2, <2>1, <2>2, <2>3
<1> QED
  BY <1>4, <1>5

\* What is brought about when nothing given up interferes: under way, and at
\* the step that finishes a phase.
LEMMA UnderWay ==
    ASSUME AplTypes, PhaseInv, ProgressInv, Clean, aAgreed, aStep # "idle"
    PROVE  /\ aPhase \in {"apply", "rollback", "replay"}
           /\ aStep # "render" => aArt.doc = Target
           /\ aStep = "render" => aPhase # "replay"
           /\ aPhase = "replay" => AtTarget
           /\ aStep \in {"devReplay", "last"} => (aDaemon.up => aDaemon.loaded.doc = Target)
           /\ aStep = "last" => aSet = Target["dev"]
  BY DEF AplTypes, PhaseInv, ProgressInv, Brought, AtTarget

LEMMA ProgressByActor == ASSUME AplInv, ActorStep PROVE ProgressInv'
<1>1. /\ AplTypes /\ PhaseInv /\ LoadedInv /\ ProgressInv /\ SkippedIsInEffect
      /\ aStep # "idle"
  BY StepFlow DEF AplInv
<1>2. /\ aArt \in AplFiles /\ aDaemon \in [up : BOOLEAN, life : Nat \ {0}, loaded : AplFiles]
      /\ aLast \in {NoneYet} \cup AplReading /\ aSeen \in {NoneYet} \cup AplReading
  BY <1>1 DEF AplTypes
<1>3. \A s : /\ After(s) \in {"devReplay"} => s = "tesReplay"
             /\ After(s) = "last" => s = "devReplay"
             /\ After(s) = "idle" => s \notin {"dev", "tes", "net", "tesReplay"}
  BY AfterIsStep
<1>4. CASE RenderFiles
  <2>1. Goto(After(aStep)) /\ UNCHANGED <<aLate, aStray, aDaemon, aSet>> /\ aStep \in {"render", "last"}
    BY <1>4 DEF RenderFiles
  <2>2. aArt'.doc = Target
    BY <1>2, <1>4 DEF RenderFiles, AplFiles
  <2>3. ASSUME Clean, aAgreed PROVE Reached(After(aStep))
    <3>1. aStep = "render" => After(aStep) = "dev" /\ aPhase # "replay"
      BY <1>1, <2>3, UnderWay DEF After
    <3>2. aStep = "last" => aPhase # "replay"
      BY <1>1 DEF PhaseInv
    <3> QED
      BY <1>1, <2>1, <2>2, <2>3, <3>1, <3>2, UnderWay DEF Reached
  <2>4. Clean' => Clean
    BY <2>1 DEF Clean
  <2> QED
    BY <1>1, <2>1, <2>3, <2>4, GotoKeeps
<1>5. CASE RenderFails
  <2>1. AfterFailure /\ (Clean' => Clean /\ aArt' = aArt /\ aDaemon' = aDaemon /\ aSet' = aSet)
    BY <1>5 DEF RenderFails, Clean, world
  <2> QED
    BY <1>1, <2>1, FailureKeeps
<1>6. CASE Skip
  <2>1. Goto(After(aStep)) /\ UNCHANGED <<aLate, aStray, aDaemon, aSet, aArt>> /\ Skips(aStep)
        /\ aStep \in {"dev", "tes", "tesReplay", "devReplay"}
    BY <1>6 DEF Skip, Skips, world, Domains
  <2>2. ASSUME Clean, aAgreed PROVE Reached(After(aStep))
    <3>1. aStep = "tesReplay" => ~aDaemon.up
      BY <2>1 DEF Skips, Domains
    <3>2. aStep = "devReplay" => aSet = Target["dev"]
      <4>1. SUFFICES ASSUME aStep = "devReplay" PROVE aSet = Target["dev"]
        OBVIOUS
      <4>2. aApplied = Version(Target["dev"])
        BY <2>1, <4>1 DEF Skips, Domains
      <4>3. aApplied # NoneYet => aApplied = Version(aSet)
        BY <1>1, <2>2 DEF SkippedIsInEffect, Clean
      <4> QED
        BY <4>2, <4>3 DEF Version, NoneYet
    <3> QED
      BY <1>1, <1>3, <2>1, <2>2, <3>1, <3>2, UnderWay DEF Reached, AtTarget
  <2>3. Clean' => Clean
    BY <2>1 DEF Clean
  <2> QED
    BY <1>1, <2>1, <2>2, <2>3, GotoKeeps
<1>7. CASE Configure
  <2>1. Goto(After(aStep)) /\ UNCHANGED <<aLate, aStray, aDaemon, aArt>> /\ aSet' = Target["dev"]
        /\ aStep \in {"dev", "devReplay"}
    BY <1>7 DEF Configure
  <2>2. ASSUME Clean, aAgreed PROVE Reached(After(aStep))
    BY <1>1, <1>3, <2>1, <2>2, UnderWay DEF Reached, AtTarget
  <2>3. Clean' => Clean
    BY <2>1 DEF Clean
  <2> QED
    BY <1>1, <2>1, <2>2, <2>3, GotoKeeps
<1>8. CASE ConfigureFails
  <2>1. AfterFailure /\ aArt' = aArt /\ aDaemon' = aDaemon
        /\ (Clean' => Clean /\ aSet' \in {aSet, Target["dev"]})
    BY <1>8 DEF ConfigureFails, Clean
  <2> QED
    BY <1>1, <2>1, FailureKeeps
<1>9. CASE Look
  BY <1>1, <1>9 DEF Look, world, memory, history, ProgressInv, Clean, Brought, AtTarget, Target
<1>10. CASE NothingDue
  <2>1. /\ Goto("devReplay") /\ UNCHANGED <<aLate, aStray, aDaemon, aSet, aArt>>
        /\ aStep = "tesReplay" /\ aSeen # NoneYet /\ aLast = aSeen
    BY <1>10 DEF NothingDue, Due, After, world
  <2>2. ASSUME Clean, aAgreed PROVE Reached("devReplay")
    <3>1. aSeen.files.doc = aArt.doc /\ (aDaemon.up => aDaemon.loaded.doc = aArt.doc)
      BY <1>1, <2>1, <2>2 DEF LoadedInv, Away, Clean
    <3> QED
      BY <1>1, <2>1, <2>2, <3>1, UnderWay DEF Reached, AtTarget
  <2>3. Clean' => Clean
    BY <2>1 DEF Clean
  <2> QED
    BY <1>1, <2>1, <2>2, <2>3, GotoKeeps
<1>11. CASE ReloadDue
  <2>1. /\ UNCHANGED <<aWant, aCand, aPhase, aArt, aSet, aLate, aStray, aAgreed>>
        /\ aDaemon'.loaded = aArt /\ aDaemon'.up = aDaemon.up
        /\ aStep \in {"tes", "tesReplay"} /\ aStep' \in {"tesSent", "tesReplaySent"}
    BY <1>2, <1>11 DEF ReloadDue, history, SentStep
  <2>2. aPhase # "idle"
    BY <1>1 DEF AplTypes
  <2> QED
    BY <1>1, <2>1, <2>2 DEF ProgressInv, Clean, Brought, AtTarget, Target
<1>12. CASE Reloaded
  <2>1. PICK s : /\ Goto(s) /\ s = IF aStep = "tesSent" THEN "net" ELSE "devReplay"
                 /\ aStep \in {"tesSent", "tesReplaySent"}
                 /\ UNCHANGED <<aLate, aStray, aDaemon, aSet, aArt>>
    BY <1>12 DEF Reloaded, After, world
  <2>2. ASSUME Clean, aAgreed PROVE Reached(s)
    <3>1. aDaemon.loaded.doc = aArt.doc
      BY <1>1, <2>1, <2>2 DEF LoadedInv, Away, Clean
    <3> QED
      BY <1>1, <2>1, <2>2, <3>1, UnderWay DEF Reached, AtTarget
  <2>3. Clean' => Clean
    BY <2>1 DEF Clean
  <2> QED
    BY <1>1, <2>1, <2>2, <2>3, GotoKeeps
<1>13. CASE ReloadFails \/ DeliverFails
  <2>1. AfterFailure /\ UNCHANGED <<aArt, aDaemon, aSet, aLate, aStray>>
    BY <1>13 DEF ReloadFails, DeliverFails, world
  <2> QED
    BY <1>1, <2>1, FailureKeeps DEF Clean
<1>14. CASE Deliver
  <2>1. Goto("tesReplay") /\ UNCHANGED <<aLate, aStray, aDaemon, aSet, aArt>> /\ aStep = "net"
    BY <1>14 DEF Deliver, After, world
  <2>2. ASSUME Clean, aAgreed PROVE Reached("tesReplay")
    BY <1>1, <2>1, <2>2, UnderWay DEF Reached, AtTarget
  <2>3. Clean' => Clean
    BY <2>1 DEF Clean
  <2> QED
    BY <1>1, <2>1, <2>2, <2>3, GotoKeeps
<1> QED
  BY <1>4, <1>5, <1>6, <1>7, <1>8, <1>9, <1>10, <1>11, <1>12, <1>13, <1>14 DEF ActorStep

LEMMA ProgressSame ==
    ASSUME ProgressInv, UNCHANGED <<aWant, aCand, aPhase, aStep, aSet, aAgreed>>, aArt'.doc = aArt.doc,
           aDaemon'.up => (aDaemon.up /\ aDaemon'.loaded = aDaemon.loaded) \/ aDaemon'.loaded = aArt,
           Clean' => Clean
    PROVE  ProgressInv'
  BY DEF ProgressInv, Brought, AtTarget, Target

LEMMA ProgressKept == ASSUME AplInv, [AplNext]_aplVars PROVE ProgressInv'
<1>1. AplTypes /\ ProgressInv
  BY DEF AplInv
<1>2. CASE ActorStep
  BY <1>2, ProgressByActor
<1>3. CASE LateLands \/ ControlRestarts
  BY <1>3 DEF LateLands, ControlRestarts, ProgressInv, Clean
<1>4. CASE UNCHANGED aplVars \/ Poll \/ ObservationAges \/ Stage \/ Decide \/ Publishes \/ DaemonStops
           \/ DaemonStarts \/ DecoderStops \/ DecoderStarts
  <2>1. UNCHANGED <<aWant, aCand, aPhase, aStep, aSet, aAgreed>> /\ aArt'.doc = aArt.doc
    BY <1>1, <1>4 DEF aplVars, Poll, ObservationAges, Stage, Decide, Publishes, DaemonStops, DaemonStarts,
              DecoderStops, DecoderStarts, world, memory, history, AplTypes, AplFiles
  <2>2. aDaemon'.up => (aDaemon.up /\ aDaemon'.loaded = aDaemon.loaded) \/ aDaemon'.loaded = aArt
    BY <1>1, <1>4 DEF aplVars, Poll, ObservationAges, Stage, Decide, Publishes, DaemonStops, DaemonStarts,
              DecoderStops, DecoderStarts, world, memory, history, AplTypes
  <2>3. Clean' => Clean
    BY <1>1, <1>4 DEF aplVars, Poll, ObservationAges, Stage, Decide, Publishes, DaemonStops, DaemonStarts,
              DecoderStops, DecoderStarts, world, memory, history, Clean
  <2> QED
    BY <1>1, <2>1, <2>2, <2>3, ProgressSame
<1>5. CASE Submit
  BY <1>5 DEF Submit, ProgressInv
<1>6. CASE StartReplay
  BY <1>1, <1>6 DEF StartReplay, world, history, ProgressInv, Clean, AtTarget, Target
<1> QED
  BY <1>2, <1>3, <1>4, <1>5, <1>6 DEF AplNext
-------------------------------------------------------------------------------
LEMMA AplInvAtFirst == ASSUME AplInit PROVE AplInv
<1>1. AplWrites \in Nat /\ 0 \in 0 .. AplWrites
  BY AplAssumption
<1>2. [d \in Domains |-> 0] \in AplVersions
  BY <1>1 DEF AplVersions
<1>3. aArt \in AplFiles /\ aArt.doc = aWant /\ aWant["dev"] = 0
  BY <1>2 DEF AplInit, AplFiles, Domains
<1>4. aSpent = [k \in AplCounters |-> 0]
  BY DEF AplInit, AplCounters
<1>5. AplTypes
  <2>1. aSpent \in [AplCounters -> Nat] /\ aSpent["writes"] \in 0 .. AplWrites
    BY <1>1, <1>4 DEF AplCounters
  <2>2. /\ aWant \in AplVersions /\ aCand \in AplVersions /\ aPlan \subseteq Domains
        /\ aArt \in AplFiles /\ aSet \in 0 .. AplWrites
        /\ aDaemon \in [up : BOOLEAN, life : Nat \ {0}, loaded : AplFiles]
    BY <1>1, <1>2, <1>3 DEF AplInit
  <2> QED
    BY <2>1, <2>2 DEF AplInit, AplTypes, AplSteps
<1>6. PhaseInv /\ LoadedInv
  BY <1>3 DEF AplInit, PhaseInv, LoadedInv, Away, AplFiles
<1>7. ProgressInv
  BY <1>3 DEF AplInit, ProgressInv, AtTarget, Target
<1>8. SkippedIsInEffect /\ KeptMeansSettled
  BY DEF AplInit, SkippedIsInEffect, KeptMeansSettled
<1> QED
  BY <1>5, <1>6, <1>7, <1>8 DEF AplInv

\* AplInv is an inductive invariant of the applier: for any number of commands,
\* faults and restarts, the machine is where the phase has brought it, whatever
\* the caches let it skip (apply.rs reconcile, device.rs, tessera.rs).
THEOREM AplInvHolds == AplSafe => []AplInv
<1>1. AplInit => AplInv
  BY AplInvAtFirst
<1>2. AplInv /\ [AplNext]_aplVars => AplInv'
  BY AplTypesKept, LoadedKept, ProgressKept, SkippedKept, KeptKept DEF AplInv
<1> QED
  BY <1>1, <1>2, PTL DEF AplSafe

LEMMA ReportedFollows == ASSUME AplInv PROVE ReportedIsReal
<1>1. SUFFICES ASSUME aPhase = "idle", aAgreed, ~aStray, aLate = {}
               PROVE  aArt.doc = aWant /\ aSet = aWant["dev"] /\ (aDaemon.up => aDaemon.loaded.doc = aWant)
  BY DEF ReportedIsReal
<1>2. AtTarget /\ Target = aWant
  BY <1>1 DEF AplInv, ProgressInv, Clean, Target
<1> QED
  BY <1>2 DEF AtTarget

LEMMA NotDueFollows == ASSUME AplInv PROVE NotDueIsLoaded
<1>1. SUFFICES ASSUME aDaemon.up, ~aStray, aLast = Reading PROVE aDaemon.loaded = aArt
  BY DEF NotDueIsLoaded
<1>2. /\ aLast # NoneYet /\ aLast.files = aArt /\ aLast.life = aDaemon.life
  BY <1>1 DEF Reading, NoneYet
<1>3. aArt \in AplFiles /\ aDaemon.loaded \in AplFiles
  BY DEF AplInv, AplTypes
<1>4. aDaemon.loaded.net = aArt.net
  BY <1>2, <1>3 DEF AplInv, LoadedInv, NotAhead, AplFiles
<1>5. aDaemon.loaded.doc = aArt.doc
  BY <1>1, <1>2 DEF AplInv, LoadedInv
<1> QED
  BY <1>3, <1>4, <1>5 DEF AplFiles

\* A transaction reported as accepted or taken back has left the machine at the
\* accepted document, and nothing the caches let the applier skip was missing.
THEOREM ApplierKeepsItsWord == AplSafe => []ApplierPromises
<1>1. AplInv => AplTypeOK
  BY DEF AplInv, AplTypes, AplTypeOK, AplSteps
<1>2. AplInv => ReportedIsReal /\ NotDueIsLoaded /\ SkippedIsInEffect /\ KeptMeansSettled
  BY ReportedFollows, NotDueFollows DEF AplInv
<1>3. AplInv => ApplierPromises
  BY <1>1, <1>2 DEF ApplierPromises
<1> QED
  BY <1>3, AplInvHolds, PTL
-------------------------------------------------------------------------------
(* The source supervisor.                                                      *)

\* The supervisor by itself, without what the scheduler owes it.
SupSafe == SupInit /\ [][SupNext]_supVars

-------------------------------------------------------------------------------
(* The inductive invariant.                                                    *)

\* An answer belongs to the request that is awaited.
ReplyInv ==
    supReply # NoReply =>
        /\ supPc \in {"status", "resync", "health"}
        /\ supReply # LostReply =>
             supReply \in [Outputs -> IF supPc = "health" THEN Healths ELSE Links]

\* What is adopted is an output's source.
AdoptInv == supPc = "adopt" => supTurn \in [output : Outputs, source : Sources]

\* Of a source that somebody chose, the last activity that is unread is such a choice.
TouchedLast == \A o \in Outputs : supTouched[o] /\ Heard(o) # {} => LastIsManual(o)

\* A choice that was read holds its output: no retry, and none may start.
Held(rec, o) == rec.grace[o] /\ rec.retries[o] = NoRetry
HeldInv == \A o \in Outputs : supTouched[o] => supLagged \/ Heard(o) # {} \/ Held(supRec, o)

\* While the sequence is the one that was read, nobody has chosen the source of
\* the retry at hand, and the mode is the one that was looked at.
SubmitInv ==
    supPc = "submit" /\ supFence => supTurn.output \in Outputs /\ ~supTouched[supTurn.output]
StalledInv ==
    supPc \in {"sources", "submit"} /\ supFence =>
        \A o \in Outputs : supRec.retries[o].stalled => supDoc.mode = "Active"

SupTypes == SupTypeOK /\ ReplyInv /\ AdoptInv
SupInv == SupTypes /\ TouchedLast /\ HeldInv /\ SubmitInv /\ StalledInv

-------------------------------------------------------------------------------
(* What the policy makes of a recovery state.                                  *)

\* Nothing starts or changes but what is dropped.
Dropping(rec, new) ==
    /\ new \in Recovery
    /\ \A o \in Outputs : new.retries[o] \in {rec.retries[o], NoRetry}

LEMMA ForgetDrops ==
    ASSUME NEW rec \in Recovery, NEW o \in Outputs
    PROVE  /\ Dropping(rec, ForgetRetry(rec, o)) /\ ForgetRetry(rec, o).saved = rec.saved
           /\ ForgetRetry(rec, o).grace = rec.grace
           /\ ForgetRetry(rec, o).retries[o] = NoRetry
           /\ \A p \in Outputs : p # o => ForgetRetry(rec, o).retries[p] = rec.retries[p]
<1>1. ForgetRetry(rec, o) = [saved |-> rec.saved, grace |-> rec.grace,
                             retries |-> [rec.retries EXCEPT ![o] = NoRetry]]
  BY DEF ForgetRetry, Recovery
<1> QED
  BY <1>1 DEF Dropping, Recovery

LEMMA UpdateDrops ==
    ASSUME NEW rec \in Recovery, NEW doc \in Document
    PROVE  /\ Dropping(rec, Update(rec, doc)) /\ Update(rec, doc).grace = rec.grace
           /\ \A o \in Outputs : Update(rec, doc).retries[o].stalled => doc.mode = "Active"
<1>1. ~NoRetry.stalled
  BY DEF NoRetry
<1>2. Update(rec, doc) \in Recovery
  BY DEF Update, Recovery
<1> QED
  BY <1>1, <1>2 DEF Update, Dropping, Recovery

LEMMA LagDrops ==
    ASSUME NEW rec \in Recovery
    PROVE  /\ Dropping(rec, AfterLag(rec))
           /\ \A o \in Outputs : Held(AfterLag(rec), o)
BY DEF AfterLag, Dropping, Held, Recovery

LEMMA CommandDrops ==
    ASSUME NEW rec \in Recovery, NEW a \in Activity
    PROVE  /\ Dropping(rec, CommandSeen(rec, a))
           /\ \A o \in Outputs :
                /\ a.kind = "manual" /\ a.output = o => Held(CommandSeen(rec, a), o)
                /\ (a.kind = "other" \/ a.output # o) /\ Held(rec, o)
                     => Held(CommandSeen(rec, a), o)
<1>0. a.kind \in {"manual", "forget"} => a.output \in Outputs
  BY DEF Activity, Other
<1>1. CASE a.kind = "other"
  BY <1>1 DEF CommandSeen, Dropping, Held
<1>2. ASSUME NEW g \in BOOLEAN, a.kind \in {"manual", "forget"},
             CommandSeen(rec, a) = [ForgetRetry(rec, a.output) EXCEPT !.grace[a.output] = g],
             a.kind = "manual" => g
      PROVE  /\ Dropping(rec, CommandSeen(rec, a))
             /\ \A o \in Outputs :
                  /\ a.kind = "manual" /\ a.output = o => Held(CommandSeen(rec, a), o)
                  /\ (a.kind = "other" \/ a.output # o) /\ Held(rec, o)
                       => Held(CommandSeen(rec, a), o)
  <2>1. PICK f : f = ForgetRetry(rec, a.output)
    OBVIOUS
  <2>2. /\ f \in Recovery /\ f.grace = rec.grace /\ f.retries[a.output] = NoRetry
        /\ \A p \in Outputs : /\ f.retries[p] \in {rec.retries[p], NoRetry}
                              /\ p # a.output => f.retries[p] = rec.retries[p]
    BY <1>0, <1>2, <2>1, ForgetDrops DEF Dropping
  <2>3. CommandSeen(rec, a) = [saved |-> f.saved, retries |-> f.retries,
                               grace |-> [f.grace EXCEPT ![a.output] = g]]
    BY <1>2, <2>1, <2>2 DEF Recovery
  <2> QED
    BY <1>0, <1>2, <2>2, <2>3 DEF Dropping, Held, Recovery
<1>3. CASE a.kind = "manual"
  BY <1>2, <1>3 DEF CommandSeen
<1>4. CASE a.kind = "forget"
  BY <1>2, <1>4 DEF CommandSeen
<1> QED
  BY <1>1, <1>3, <1>4 DEF Activity, Other

LEMMA StartKeeps ==
    ASSUME NEW rec \in Recovery, NEW o \in Outputs, NEW stalled \in BOOLEAN
    PROVE  /\ StartRetry(rec, o, stalled) \in Recovery
           /\ StartRetry(rec, o, stalled).grace = rec.grace
           /\ StartRetry(rec, o, stalled).saved = rec.saved
           /\ Held(rec, o) => Held(StartRetry(rec, o, stalled), o)
           /\ \A p \in Outputs : p # o => StartRetry(rec, o, stalled).retries[p] = rec.retries[p]
<1>1. CASE rec.grace[o]
  BY <1>1 DEF StartRetry
<1>2. CASE ~rec.grace[o] /\ rec.saved.source[o] = NoSource
  BY <1>2, ForgetDrops DEF StartRetry, Dropping, Held
<1>3. CASE ~rec.grace[o] /\ rec.saved.source[o] # NoSource
  <2>1. CASE rec.retries[o] # NoRetry
    BY <1>3, <2>1 DEF StartRetry
  <2>2. CASE rec.retries[o] = NoRetry
    <3>1. PICK r : r = [source |-> rec.saved.source[o], due |-> FALSE, stalled |-> stalled]
      OBVIOUS
    <3>2. r \in Retry
      BY <1>3, <3>1 DEF Recovery, Document, Retry
    <3>3. StartRetry(rec, o, stalled) = [saved |-> rec.saved, grace |-> rec.grace,
                                         retries |-> [rec.retries EXCEPT ![o] = r]]
      BY <1>3, <2>2, <3>1 DEF StartRetry, Recovery
    <3> QED
      BY <1>3, <3>2, <3>3 DEF Recovery, Held
  <2> QED
    BY <2>1, <2>2
<1> QED
  BY <1>1, <1>2, <1>3

LEMMA ConnectionKeeps ==
    ASSUME NEW rec \in Recovery, NEW o \in Outputs, NEW link \in Links
    PROVE  /\ Connection(rec, o, link) \in Recovery
           /\ Connection(rec, o, link).saved = rec.saved
           /\ link # "up" /\ Held(rec, o) => Held(Connection(rec, o, link), o)
           /\ \A p \in Outputs : p # o => /\ Connection(rec, o, link).retries[p] = rec.retries[p]
                                          /\ Connection(rec, o, link).grace[p] = rec.grace[p]
<1>1. CASE link = "nodrm"
  BY <1>1, ForgetDrops DEF Connection, Dropping, Held
<1>2. ASSUME link = "up"
      PROVE  /\ Connection(rec, o, link) \in Recovery
             /\ Connection(rec, o, link).saved = rec.saved
             /\ \A p \in Outputs : p # o => /\ Connection(rec, o, link).retries[p] = rec.retries[p]
                                            /\ Connection(rec, o, link).grace[p] = rec.grace[p]
  <2>1. PICK r : r = IF rec.retries[o].stalled THEN rec ELSE ForgetRetry(rec, o)
    OBVIOUS
  <2>2. r \in Recovery /\ r.saved = rec.saved /\ r.grace = rec.grace
        /\ \A p \in Outputs : p # o => r.retries[p] = rec.retries[p]
    BY <2>1, ForgetDrops DEF Dropping
  <2>3. Connection(rec, o, link) = [r EXCEPT !.grace[o] = FALSE]
    BY <1>2, <2>1 DEF Connection
  <2>4. Connection(rec, o, link) = [saved |-> r.saved, retries |-> r.retries,
                                    grace |-> [r.grace EXCEPT ![o] = FALSE]]
    BY <2>2, <2>3 DEF Recovery
  <2>5. PICK g : g = [r.grace EXCEPT ![o] = FALSE]
    OBVIOUS
  <2>6. g \in [Outputs -> BOOLEAN] /\ \A p \in Outputs : p # o => g[p] = rec.grace[p]
    BY <2>2, <2>5 DEF Recovery
  <2> QED
    BY <2>2, <2>4, <2>5, <2>6 DEF Recovery
<1>3. CASE link = "down"
  BY <1>3, StartKeeps DEF Connection
<1> QED
  BY <1>1, <1>2, <1>3 DEF Links

\* An event of the decoder: only the success of an output ends what holds it.
LEMMA EventKeeps ==
    ASSUME NEW rec \in Recovery, NEW o \in Outputs, NEW isUp \in BOOLEAN
    PROVE  /\ EventSeen(rec, o, isUp) \in Recovery
           /\ \A p \in Outputs : ~(isUp /\ p = o) /\ Held(rec, p)
                                    => Held(EventSeen(rec, o, isUp), p)
<1>1. CASE isUp
  <2>1. PICK f : f = ForgetRetry(rec, o)
    OBVIOUS
  <2>2. f \in Recovery /\ f.grace = rec.grace
        /\ \A p \in Outputs : p # o => f.retries[p] = rec.retries[p]
    BY <2>1, ForgetDrops DEF Dropping
  <2>3. EventSeen(rec, o, isUp) = Connection(f, o, "up")
    BY <1>1, <2>1 DEF EventSeen
  <2>4. /\ Connection(f, o, "up") \in Recovery
        /\ \A p \in Outputs : p # o => /\ Connection(f, o, "up").retries[p] = f.retries[p]
                                       /\ Connection(f, o, "up").grace[p] = f.grace[p]
    BY <2>2, ConnectionKeeps DEF Links
  <2> QED
    BY <1>1, <2>2, <2>3, <2>4 DEF Held
<1>2. CASE ~isUp
  <2>1. EventSeen(rec, o, isUp) = Connection(rec, o, "down")
    BY <1>2 DEF EventSeen
  <2>2. "down" \in Links /\ "down" # "up"
    BY DEF Links
  <2>3. /\ Connection(rec, o, "down") \in Recovery
        /\ Held(rec, o) => Held(Connection(rec, o, "down"), o)
        /\ \A p \in Outputs : p # o => /\ Connection(rec, o, "down").retries[p] = rec.retries[p]
                                       /\ Connection(rec, o, "down").grace[p] = rec.grace[p]
    BY <2>2, ConnectionKeeps
  <2> QED
    BY <2>1, <2>3 DEF Held
<1> QED
  BY <1>1, <1>2

\* The poll of the status: what is up and held stays so.
LEMMA StatusKeeps ==
    ASSUME NEW rec \in Recovery, NEW links \in [Outputs -> Links]
    PROVE  /\ StatusSeen(rec, links) \in Recovery
           /\ \A o \in Outputs : Held(rec, o) => Held(StatusSeen(rec, links), o)
<1> DEFINE One(o) == IF links[o] = "up" /\ rec.grace[o] THEN rec ELSE Connection(rec, o, links[o])
<1>1. \A o \in Outputs : One(o) \in Recovery /\ (Held(rec, o) => Held(One(o), o))
  <2>1. SUFFICES ASSUME NEW o \in Outputs
                 PROVE  One(o) \in Recovery /\ (Held(rec, o) => Held(One(o), o))
    OBVIOUS
  <2>2. links[o] \in Links
    OBVIOUS
  <2>3. CASE links[o] = "up" /\ rec.grace[o]
    BY <2>3
  <2>4. CASE ~(links[o] = "up" /\ rec.grace[o])
    BY <2>2, <2>4, ConnectionKeeps DEF Held
  <2> QED
    BY <2>3, <2>4
<1>2. StatusSeen(rec, links) = [saved |-> rec.saved,
                                retries |-> [o \in Outputs |-> One(o).retries[o]],
                                grace |-> [o \in Outputs |-> One(o).grace[o]]]
  BY DEF StatusSeen, OverOutputs
<1> HIDE DEF One
<1> QED
  BY <1>1, <1>2 DEF Recovery, Held

LEMMA HealthKeeps ==
    ASSUME NEW rec \in Recovery, NEW healths \in [Outputs -> Healths]
    PROVE  /\ HealthSeen(rec, healths) \in Recovery
           /\ \A o \in Outputs : Held(rec, o) => Held(HealthSeen(rec, healths), o)
<1> DEFINE One(o) == CASE healths[o] = "ok" -> IF rec.retries[o].stalled THEN ForgetRetry(rec, o) ELSE rec
                       [] healths[o] = "stuck" /\ rec.saved.mode = "Active" -> StartRetry(rec, o, TRUE)
                       [] OTHER -> rec
<1>1. \A o \in Outputs : One(o) \in Recovery /\ (Held(rec, o) => Held(One(o), o))
  <2>1. SUFFICES ASSUME NEW o \in Outputs
                 PROVE  One(o) \in Recovery /\ (Held(rec, o) => Held(One(o), o))
    OBVIOUS
  <2>2. CASE healths[o] = "ok" /\ rec.retries[o].stalled
    BY <2>2, ForgetDrops DEF Dropping, Held
  <2>3. CASE healths[o] = "stuck" /\ rec.saved.mode = "Active"
    BY <2>3, StartKeeps
  <2>4. CASE One(o) = rec
    BY <2>4
  <2> QED
    BY <2>2, <2>3, <2>4
<1>2. HealthSeen(rec, healths) = [saved |-> rec.saved,
                                  retries |-> [o \in Outputs |-> One(o).retries[o]],
                                  grace |-> [o \in Outputs |-> One(o).grace[o]]]
  BY DEF HealthSeen, OverOutputs
<1> HIDE DEF One
<1> QED
  BY <1>1, <1>2 DEF Recovery, Held

\* The drain: a gap, and a choice that was the last word, hold their output.
LEMMA DrainDrops ==
    ASSUME NEW rec \in Recovery
    PROVE  /\ Dropping(rec, Drained(rec))
           /\ \A o \in Outputs :
                /\ Heard(o) # {} /\ LastIsManual(o) => Held(Drained(rec), o)
                /\ Heard(o) = {} /\ (supLagged \/ Held(rec, o)) => Held(Drained(rec), o)
<1>1. PICK first : first = IF supLagged THEN AfterLag(rec) ELSE rec
  OBVIOUS
<1>2. /\ first \in Recovery
      /\ \A o \in Outputs : first.retries[o] \in {rec.retries[o], NoRetry}
      /\ \A o \in Outputs : supLagged \/ Held(rec, o) => Held(first, o)
  BY <1>1, LagDrops DEF Dropping
<1>3. Drained(rec) =
        [saved |-> first.saved,
         retries |-> [o \in Outputs |-> IF Heard(o) = {} THEN first.retries[o] ELSE NoRetry],
         grace |-> [o \in Outputs |-> IF Heard(o) = {} THEN first.grace[o] ELSE LastIsManual(o)]]
  BY <1>1 DEF Drained
<1>4. \A o \in Outputs : LastIsManual(o) \in BOOLEAN
  BY DEF LastIsManual
<1> HIDE DEF Heard, LastIsManual
<1> QED
  BY <1>2, <1>3, <1>4 DEF Dropping, Held, Recovery

-------------------------------------------------------------------------------
(* What the channel says of an output when an activity is read or recorded.    *)

HeardIn(s, o) == {i \in 1 .. Len(s) : s[i].kind # "other" /\ s[i].output = o}
LastIn(s, o) == \E i \in HeardIn(s, o) : s[i].kind = "manual" /\ \A k \in HeardIn(s, o) : k <= i

LEMMA HeardIsHeardIn ==
    ASSUME NEW o
    PROVE  /\ Heard(o) = HeardIn(supBus, o) /\ LastIsManual(o) = LastIn(supBus, o)
           /\ Heard(o)' = HeardIn(supBus', o) /\ LastIsManual(o)' = LastIn(supBus', o)
BY DEF Heard, HeardIn, LastIsManual, LastIn

\* The oldest activity is read: what is left has the same last one, or was nothing else.
LEMMA TailHears ==
    ASSUME NEW s \in Seq(Activity), s # <<>>, NEW o
    PROVE  /\ Tail(s) \in Seq(Activity) /\ Len(Tail(s)) = Len(s) - 1
           /\ HeardIn(Tail(s), o) # {}
                => HeardIn(s, o) # {} /\ (LastIn(s, o) => LastIn(Tail(s), o))
           /\ HeardIn(s, o) # {} /\ HeardIn(Tail(s), o) = {}
                => Head(s).kind # "other" /\ Head(s).output = o
                   /\ (LastIn(s, o) => Head(s).kind = "manual")
<1>1. PICK t : t = Tail(s)
  OBVIOUS
<1>2. /\ t \in Seq(Activity) /\ Len(s) \in Nat \ {0} /\ Len(t) = Len(s) - 1
      /\ \A i \in 1 .. Len(t) : t[i] = s[i + 1]
      /\ Head(s) = s[1]
  BY <1>1, HeadTailProperties, EmptySeq, LenProperties
<1>3. ASSUME NEW i \in HeardIn(t, o)
      PROVE  i + 1 \in HeardIn(s, o) /\ t[i] = s[i + 1] /\ i \in Nat
  BY <1>2, <1>3 DEF HeardIn
<1>4. ASSUME NEW i \in HeardIn(s, o)
      PROVE  i = 1 \/ (i - 1 \in HeardIn(t, o) /\ t[i - 1] = s[i])
  <2>1. CASE i # 1
    <3>1. i \in 1 .. Len(s) /\ i - 1 \in 1 .. Len(t) /\ (i - 1) + 1 = i
      BY <1>2, <1>4, <2>1 DEF HeardIn
    <3>2. t[i - 1] = s[i]
      BY <1>2, <3>1
    <3> QED
      BY <1>4, <3>1, <3>2 DEF HeardIn
  <2> QED
    BY <2>1
<1>5. \A i \in HeardIn(s, o) : i \in Nat /\ i >= 1
  BY <1>2 DEF HeardIn
<1>6. ASSUME HeardIn(t, o) # {}, LastIn(s, o)
      PROVE  LastIn(t, o)
  <2>1. PICK i \in HeardIn(s, o) : s[i].kind = "manual" /\ \A k \in HeardIn(s, o) : k <= i
    BY <1>6 DEF LastIn
  <2>2. PICK j \in HeardIn(t, o) : TRUE
    BY <1>6
  <2>3. j + 1 \in HeardIn(s, o) /\ j \in Nat /\ j >= 1
    BY <1>3 DEF HeardIn
  <2>4. i # 1
    BY <1>5, <2>1, <2>3
  <2>5. i - 1 \in HeardIn(t, o) /\ t[i - 1] = s[i]
    BY <1>4, <2>4
  <2>6. \A k \in HeardIn(t, o) : k <= i - 1
    BY <1>3, <1>5, <2>1
  <2> QED
    BY <2>1, <2>5, <2>6 DEF LastIn
<1>7. ASSUME HeardIn(s, o) # {}, HeardIn(t, o) = {}
      PROVE  /\ s[1].kind # "other" /\ s[1].output = o
             /\ LastIn(s, o) => s[1].kind = "manual"
  <2>1. \A i \in HeardIn(s, o) : i = 1
    BY <1>4, <1>7
  <2>2. 1 \in HeardIn(s, o)
    BY <1>7, <2>1
  <2>3. LastIn(s, o) => s[1].kind = "manual"
    BY <2>1 DEF LastIn
  <2> QED
    BY <2>2, <2>3 DEF HeardIn
<1>8. HeardIn(t, o) # {} => HeardIn(s, o) # {}
  BY <1>3
<1> QED
  BY <1>1, <1>2, <1>6, <1>7, <1>8

\* An activity is recorded: it is the last of its output, and says nothing of the others.
LEMMA AppendHears ==
    ASSUME NEW s \in Seq(Activity), NEW a \in Activity, NEW o
    PROVE  /\ Append(s, a) \in Seq(Activity) /\ Len(Append(s, a)) = Len(s) + 1
           /\ a.kind # "other" /\ a.output = o
                => HeardIn(Append(s, a), o) # {} /\ (a.kind = "manual" => LastIn(Append(s, a), o))
           /\ a.kind = "other" \/ a.output # o
                => /\ HeardIn(Append(s, a), o) = HeardIn(s, o)
                   /\ LastIn(s, o) => LastIn(Append(s, a), o)
<1>1. PICK t : t = Append(s, a)
  OBVIOUS
<1>2. /\ t \in Seq(Activity) /\ Len(s) \in Nat /\ Len(t) = Len(s) + 1
      /\ \A i \in 1 .. Len(s) : t[i] = s[i]
      /\ t[Len(s) + 1] = a
  BY <1>1, AppendProperties, LenProperties
<1>3. CASE a.kind # "other" /\ a.output = o
  <2>1. Len(s) + 1 \in HeardIn(t, o)
    BY <1>2, <1>3 DEF HeardIn
  <2>2. \A k \in HeardIn(t, o) : k <= Len(s) + 1
    BY <1>2 DEF HeardIn
  <2>3. a.kind = "manual" => LastIn(t, o)
    BY <1>2, <2>1, <2>2 DEF LastIn
  <2> QED
    BY <1>1, <1>2, <1>3, <2>1, <2>3
<1>4. CASE a.kind = "other" \/ a.output # o
  <2>1. \A i \in 1 .. Len(t) : i \in 1 .. Len(s) \/ i = Len(s) + 1
    BY <1>2
  <2>2. HeardIn(t, o) = HeardIn(s, o)
    BY <1>2, <1>4, <2>1 DEF HeardIn
  <2>3. \A i \in HeardIn(s, o) : t[i] = s[i]
    BY <1>2 DEF HeardIn
  <2>4. LastIn(s, o) => LastIn(t, o)
    BY <2>2, <2>3 DEF LastIn
  <2> QED
    BY <1>1, <1>2, <1>4, <2>2, <2>4
<1> QED
  BY <1>3, <1>4

LEMMA RecordHears ==
    ASSUME SupTypeOK, NEW a \in Activity, Record(a)
    PROVE  /\ supBus' \in Seq(Activity) /\ Len(supBus') <= BusCap
           /\ supLagged' \in BOOLEAN /\ supFence' = FALSE
           /\ supLagged => supLagged'
           /\ \A o : a.kind # "other" /\ a.output = o
                => Heard(o)' # {} /\ (a.kind = "manual" => LastIsManual(o)')
           /\ \A o : a.kind = "other" \/ a.output # o
                => /\ Heard(o)' # {} => Heard(o) # {} /\ (LastIsManual(o) => LastIsManual(o)')
                   /\ Heard(o) # {} => Heard(o)' # {} \/ supLagged'
<1>1. PICK s : s = IF Len(supBus) = BusCap THEN Tail(supBus) ELSE supBus
  OBVIOUS
<1>2. /\ supBus' = Append(s, a) /\ supFence' = FALSE
      /\ supLagged' = (supLagged \/ Len(supBus) = BusCap)
  BY <1>1 DEF Record
<1>3. supBus \in Seq(Activity) /\ Len(supBus) <= BusCap /\ BusCap \in Nat \ {0}
      /\ Len(supBus) \in Nat /\ supLagged \in BOOLEAN
  BY SupAssumption, LenProperties DEF SupTypeOK
<1>4. CASE Len(supBus) = BusCap
  <2>1. supBus # <<>>
    BY <1>3, <1>4, EmptySeq
  <2>2. s = Tail(supBus)
    BY <1>1, <1>4
  <2>3. s \in Seq(Activity) /\ Len(s) = Len(supBus) - 1
    BY <1>3, <2>1, <2>2, TailHears
  <2>4. \A o : HeardIn(s, o) # {} => HeardIn(supBus, o) # {} /\ (LastIn(supBus, o) => LastIn(s, o))
    BY <1>3, <2>1, <2>2, TailHears
  <2>5. supLagged'
    BY <1>2, <1>4
  <2>6. supBus' \in Seq(Activity) /\ Len(supBus') <= BusCap
    BY <1>2, <1>3, <2>3, AppendHears
  <2>7. \A o : a.kind # "other" /\ a.output = o
             => HeardIn(supBus', o) # {} /\ (a.kind = "manual" => LastIn(supBus', o))
    BY <1>2, <2>3, AppendHears
  <2>8. \A o : a.kind = "other" \/ a.output # o
             => /\ HeardIn(supBus', o) = HeardIn(s, o)
                /\ LastIn(s, o) => LastIn(supBus', o)
    BY <1>2, <2>3, AppendHears
  <2> HIDE DEF HeardIn, LastIn
  <2> QED
    BY <1>2, <1>3, <2>4, <2>5, <2>6, <2>7, <2>8, HeardIsHeardIn
<1>5. CASE Len(supBus) # BusCap
  <2>1. s = supBus
    BY <1>1, <1>5
  <2>2. supBus' \in Seq(Activity) /\ Len(supBus') <= BusCap
    BY <1>2, <1>3, <1>5, <2>1, AppendHears
  <2>3. \A o : a.kind # "other" /\ a.output = o
             => HeardIn(supBus', o) # {} /\ (a.kind = "manual" => LastIn(supBus', o))
    BY <1>2, <1>3, <2>1, AppendHears
  <2>4. \A o : a.kind = "other" \/ a.output # o
             => /\ HeardIn(supBus', o) = HeardIn(supBus, o)
                /\ LastIn(supBus, o) => LastIn(supBus', o)
    BY <1>2, <1>3, <2>1, AppendHears
  <2> QED
    BY <1>2, <1>3, <2>2, <2>3, <2>4, HeardIsHeardIn
<1> QED
  BY <1>4, <1>5

-------------------------------------------------------------------------------
(* The three ways in which a step meets what was chosen.                       *)

\* Something is recorded: the sequence moves, and a choice is the last word.
LEMMA RecordKeeps ==
    ASSUME SupInv, NEW a \in Activity, Record(a),
           \A p \in Outputs : Held(supRec, p) => Held(supRec', p),
           \A p \in Outputs : supTouched'[p] =>
                supTouched[p] \/ (a.kind = "manual" /\ a.output = p),
           \A p \in Outputs : a.kind = "forget" /\ a.output = p => ~supTouched'[p]
    PROVE  TouchedLast' /\ HeldInv' /\ SubmitInv' /\ StalledInv'
<1>0. SupTypeOK /\ TouchedLast /\ HeldInv
  BY DEF SupInv, SupTypes
<1>1. supFence' = FALSE /\ (supLagged => supLagged')
  BY <1>0, RecordHears
<1>2. ASSUME NEW p \in Outputs, supTouched'[p]
      PROVE  /\ Heard(p)' # {} => LastIsManual(p)'
             /\ supLagged' \/ Heard(p)' # {} \/ Held(supRec', p)
  <2>1. CASE a.kind # "other" /\ a.output = p
    <3>1. a.kind = "manual"
      BY <1>2, <2>1 DEF Activity, Other
    <3> QED
      BY <1>0, <2>1, <3>1, RecordHears
  <2>2. CASE a.kind = "other" \/ a.output # p
    <3>1. supTouched[p]
      BY <1>2, <2>2
    <3>2. Heard(p) # {} => LastIsManual(p)
      BY <1>0, <3>1 DEF TouchedLast
    <3>3. supLagged \/ Heard(p) # {} \/ Held(supRec, p)
      BY <1>0, <3>1 DEF HeldInv
    <3>4. /\ Heard(p)' # {} => Heard(p) # {} /\ (LastIsManual(p) => LastIsManual(p)')
          /\ Heard(p) # {} => Heard(p)' # {} \/ supLagged'
      BY <1>0, <2>2, RecordHears
    <3> QED
      BY <1>1, <3>2, <3>3, <3>4
  <2> QED
    BY <2>1, <2>2
<1>3. TouchedLast'
  BY <1>2 DEF TouchedLast
<1>4. HeldInv'
  BY <1>2 DEF HeldInv, Held
<1> QED
  BY <1>1, <1>3, <1>4 DEF SubmitInv, StalledInv

\* Nothing is recorded or read.
LEMMA QuietKeeps ==
    ASSUME SupInv, supBus' = supBus, supLagged' = supLagged,
           \A p \in Outputs : supTouched'[p] => supTouched[p],
           \A p \in Outputs : supTouched[p] /\ Held(supRec, p)
                => Held(supRec', p) \/ supLagged \/ Heard(p) # {}
    PROVE  TouchedLast' /\ HeldInv'
<1>1. \A p : Heard(p)' = Heard(p) /\ LastIsManual(p)' = LastIsManual(p)
  BY DEF Heard, LastIsManual
<1>2. TouchedLast'
  BY <1>1 DEF SupInv, TouchedLast
<1>3. HeldInv'
  BY <1>1 DEF SupInv, HeldInv, Held
<1> QED
  BY <1>2, <1>3

\* The channel is drained: every choice is known.
LEMMA DrainKeeps ==
    ASSUME SupInv, NEW rec \in Recovery, supBus' = <<>>, supLagged' = FALSE,
           \A p \in Outputs : Held(supRec, p) => Held(rec, p),
           \A p \in Outputs : supTouched'[p] =>
                supTouched[p] /\ (Held(Drained(rec), p) => Held(supRec', p))
    PROVE  /\ TouchedLast' /\ HeldInv'
           /\ \A p \in Outputs : supTouched[p] => Held(Drained(rec), p)
<1>1. \A p : Heard(p)' = {}
  <2>1. Len(supBus') = 0
    OBVIOUS
  <2> QED
    BY <2>1 DEF Heard
<1>2. ASSUME NEW p \in Outputs, supTouched[p]
      PROVE  Held(Drained(rec), p)
  <2>1. /\ Heard(p) # {} => LastIsManual(p)
        /\ supLagged \/ Heard(p) # {} \/ Held(supRec, p)
    BY <1>2 DEF SupInv, TouchedLast, HeldInv
  <2> QED
    BY <2>1, DrainDrops
<1>3. TouchedLast'
  BY <1>1 DEF TouchedLast
<1>4. HeldInv'
  BY <1>2 DEF HeldInv, Held
<1> QED
  BY <1>2, <1>3, <1>4
-------------------------------------------------------------------------------
(* Types.                                                                      *)

LEMMA DueTyped ==
    ASSUME NEW r \in Retry \cup {NoRetry}
    PROVE  /\ [r EXCEPT !.due = FALSE] \in Retry \cup {NoRetry}
           /\ [r EXCEPT !.due = FALSE].stalled = r.stalled
           /\ r = NoRetry => [r EXCEPT !.due = FALSE] = NoRetry
           /\ r # NoRetry => /\ [r EXCEPT !.due = TRUE] \in Retry
                             /\ [r EXCEPT !.due = TRUE].stalled = r.stalled
<1>1. [NoRetry EXCEPT !.due = FALSE] = NoRetry
  <2>1. NoRetry \in [source : {NoSource}, due : BOOLEAN, stalled : BOOLEAN]
    BY DEF NoRetry
  <2>2. PICK n : n = NoRetry
    OBVIOUS
  <2>3. PICK e : e = [n EXCEPT !.due = FALSE]
    OBVIOUS
  <2>4. e \in [source : {NoSource}, due : BOOLEAN, stalled : BOOLEAN]
        /\ e.source = n.source /\ e.stalled = n.stalled /\ e.due = FALSE
    BY <2>1, <2>2, <2>3
  <2>5. n.due = FALSE
    BY <2>2 DEF NoRetry
  <2> QED
    BY <2>1, <2>2, <2>3, <2>4, <2>5
<1>2. CASE r = NoRetry
  BY <1>1, <1>2
<1>3. CASE r # NoRetry
  <2>1. r \in Retry
    BY <1>3
  <2> QED
    BY <1>3, <2>1 DEF Retry
<1> QED
  BY <1>2, <1>3

\* What an attempt and the clock do to the retries: only their time.
Retimed(rec, new) ==
    /\ new \in Recovery /\ new.grace = rec.grace
    /\ \A o \in Outputs : /\ new.retries[o].stalled = rec.retries[o].stalled
                          /\ rec.retries[o] = NoRetry => new.retries[o] = NoRetry

LEMMA RescheduleRetimes ==
    ASSUME NEW o \in Outputs, supRec \in Recovery
    PROVE  Retimed(supRec, Reschedule(o))
<1>1. PICK r : r = [supRec.retries[o] EXCEPT !.due = FALSE]
  OBVIOUS
<1>2. /\ r \in Retry \cup {NoRetry} /\ r.stalled = supRec.retries[o].stalled
      /\ supRec.retries[o] = NoRetry => r = NoRetry
  BY <1>1, DueTyped DEF Recovery
<1>3. Reschedule(o) = [supRec EXCEPT !.retries[o] = r]
  BY <1>1 DEF Reschedule
<1>4. Reschedule(o) = [saved |-> supRec.saved, grace |-> supRec.grace,
                       retries |-> [supRec.retries EXCEPT ![o] = r]]
  BY <1>3 DEF Recovery
<1> QED
  BY <1>2, <1>4 DEF Retimed, Recovery

LEMMA DueRetimes ==
    ASSUME supRec \in Recovery, RetryDue
    PROVE  Retimed(supRec, supRec')
<1>1. PICK S \in SUBSET {o \in Outputs : supRec.retries[o] # NoRetry} :
        supRec' = [supRec EXCEPT !.retries = [o \in Outputs |->
                    IF o \in S THEN [supRec.retries[o] EXCEPT !.due = TRUE] ELSE supRec.retries[o]]]
  BY DEF RetryDue
<1>2. PICK f : f = [o \in Outputs |-> IF o \in S THEN [supRec.retries[o] EXCEPT !.due = TRUE] ELSE supRec.retries[o]]
  OBVIOUS
<1>3. ASSUME NEW o \in Outputs
      PROVE  /\ f[o] \in Retry \cup {NoRetry} /\ f[o].stalled = supRec.retries[o].stalled
             /\ supRec.retries[o] = NoRetry => f[o] = NoRetry
  <2>1. supRec.retries[o] \in Retry \cup {NoRetry}
    BY DEF Recovery
  <2>2. CASE o \in S
    <3>1. f[o] = [supRec.retries[o] EXCEPT !.due = TRUE] /\ supRec.retries[o] # NoRetry
      BY <1>2, <2>2
    <3> QED
      BY <2>1, <3>1, DueTyped
  <2>3. CASE o \notin S
    BY <1>2, <2>1, <2>3
  <2> QED
    BY <2>2, <2>3
<1>4. supRec' = [saved |-> supRec.saved, grace |-> supRec.grace, retries |-> f]
  BY <1>1, <1>2 DEF Recovery
<1>5. f \in [Outputs -> Retry \cup {NoRetry}]
  BY <1>2, <1>3
<1> QED
  BY <1>3, <1>4, <1>5 DEF Retimed, Recovery

LEMMA TouchTyped ==
    ASSUME SupTypeOK, NEW o, Touch(o)
    PROVE  supTouched' \in [Outputs -> BOOLEAN] /\ supAsked' \in [Outputs -> BOOLEAN]
           /\ \A p \in Outputs : supTouched'[p] => supTouched[p] \/ p = o
BY DEF SupTypeOK, Touch

LEMMA PublishTyped ==
    ASSUME SupTypeOK, NEW m \in Message, Publish(m)
    PROVE  supHub' \in Seq(Message) /\ Len(supHub') <= HubCap
<1>1. /\ supHub \in Seq(Message) /\ Len(supHub) <= HubCap /\ Len(supHub) \in Nat
      /\ HubCap \in Nat /\ HubCap >= 2
  BY SupAssumption, LenProperties DEF SupTypeOK
<1>2. CASE Len(supHub) < HubCap
  BY <1>1, <1>2, AppendProperties DEF Publish
<1>3. CASE ~(Len(supHub) < HubCap)
  <2>1. supHub # <<>> /\ Len(supHub) = HubCap
    BY <1>1, <1>3, EmptySeq
  <2>2. Tail(supHub) \in Seq(Message) /\ Len(Tail(supHub)) = HubCap - 1
    BY <1>1, <2>1, HeadTailProperties
  <2>3. Tail(supHub) # <<>>
    <3>1. Len(Tail(supHub)) # 0
      BY <1>1, <2>2
    <3> QED
      BY <2>2, <3>1, EmptySeq
  <2>4. Tail(Tail(supHub)) \in Seq(Message) /\ Len(Tail(Tail(supHub))) = (HubCap - 1) - 1
    BY <2>2, <2>3, HeadTailProperties
  <2>5. PICK first, rest : first = <<[kind |-> "resync"]>> /\ rest = Tail(Tail(supHub))
    OBVIOUS
  <2>6. first \in Seq(Message) /\ Len(first) = 1
    BY <2>5 DEF Message
  <2>7. first \o rest \in Seq(Message) /\ Len(first \o rest) = 1 + ((HubCap - 1) - 1)
    <3>1. rest \in Seq(Message) /\ Len(rest) = (HubCap - 1) - 1
      BY <2>4, <2>5
    <3>2. first \o rest \in Seq(Message) /\ Len(first \o rest) = Len(first) + Len(rest)
      BY <2>6, <3>1, ConcatProperties
    <3> QED
      BY <2>6, <3>1, <3>2
  <2>8. supHub' = Append(first \o rest, m)
    BY <1>3, <2>5 DEF Publish
  <2>9. supHub' \in Seq(Message) /\ Len(supHub') = (1 + ((HubCap - 1) - 1)) + 1
    BY <2>7, <2>8, AppendProperties
  <2> QED
    BY <1>1, <2>9
<1> QED
  BY <1>2, <1>3

LEMMA CommandTyped ==
    ASSUME SupInv, NEW a \in Activity, NEW doc \in Document, Command(a, doc),
           supTouched' \in [Outputs -> BOOLEAN], supAsked' \in [Outputs -> BOOLEAN]
    PROVE  SupTypes' /\ supRec' = supRec /\ Record(a)
<1>1. /\ Record(a) /\ supDoc' \in Document
      /\ UNCHANGED <<supHub, supRec, supPc, supReply, supTurn, supLink>>
  BY DEF Command, SupInv, SupTypes, SupTypeOK
<1>2. /\ supBus' \in Seq(Activity) /\ Len(supBus') <= BusCap
      /\ supLagged' \in BOOLEAN /\ supFence' = FALSE
  BY <1>1, RecordHears DEF SupInv, SupTypes
<1>3. SupTypeOK'
  BY <1>1, <1>2 DEF SupInv, SupTypes, SupTypeOK
<1>4. ReplyInv' /\ AdoptInv'
  BY <1>1 DEF SupInv, SupTypes, ReplyInv, AdoptInv
<1> QED
  BY <1>1, <1>3, <1>4 DEF SupTypes

-------------------------------------------------------------------------------
(* The steps of the operators and of the decoder.                              *)

LEMMA ManualKeeps ==
    ASSUME SupInv, NEW o \in Outputs, NEW doc \in Document, Touch(o),
           Command([kind |-> "manual", output |-> o], doc)
    PROVE  SupInv'
<1>1. PICK a : a = [kind |-> "manual", output |-> o]
  OBVIOUS
<1>2. a \in Activity /\ a.kind = "manual" /\ a.output = o /\ Command(a, doc)
  BY <1>1 DEF Activity
<1>3. /\ supTouched' \in [Outputs -> BOOLEAN] /\ supAsked' \in [Outputs -> BOOLEAN]
      /\ \A p \in Outputs : supTouched'[p] => supTouched[p] \/ p = o
  BY TouchTyped DEF SupInv, SupTypes
<1>4. SupTypes' /\ supRec' = supRec /\ Record(a)
  BY <1>2, <1>3, CommandTyped
<1>5. TouchedLast' /\ HeldInv' /\ SubmitInv' /\ StalledInv'
  BY <1>2, <1>3, <1>4, RecordKeeps
<1> QED
  BY <1>4, <1>5 DEF SupInv

LEMMA SourceTyped ==
    ASSUME SupInv, NEW o, NEW s \in Sources \cup {NoSource}
    PROVE  [supDoc EXCEPT !.source[o] = s] \in Document
BY DEF SupInv, SupTypes, SupTypeOK, Document

LEMMA ForgetKeeps ==
    ASSUME SupInv, NEW o \in Outputs, ForgetSource(o)
    PROVE  SupInv'
<1>1. PICK a : a = [kind |-> "forget", output |-> o]
  OBVIOUS
<1>2. PICK doc : doc = [supDoc EXCEPT !.source[o] = NoSource]
  OBVIOUS
<1>3. a \in Activity /\ a.kind = "forget" /\ a.output = o /\ Command(a, doc) /\ doc \in Document
  BY <1>1, <1>2, SourceTyped DEF Activity, ForgetSource
<1>4. supTouched' = [supTouched EXCEPT ![o] = FALSE] /\ supAsked' = supAsked
  BY DEF ForgetSource
<1>5. /\ supTouched' \in [Outputs -> BOOLEAN] /\ supAsked' \in [Outputs -> BOOLEAN]
      /\ ~supTouched'[o] /\ \A p \in Outputs : supTouched'[p] => supTouched[p]
  BY <1>4 DEF SupInv, SupTypes, SupTypeOK
<1>6. SupTypes' /\ supRec' = supRec /\ Record(a)
  BY <1>3, <1>5, CommandTyped
<1>7. TouchedLast' /\ HeldInv' /\ SubmitInv' /\ StalledInv'
  BY <1>3, <1>5, <1>6, RecordKeeps
<1> QED
  BY <1>6, <1>7 DEF SupInv

LEMMA WatchdogKeeps ==
    ASSUME SupInv, NEW m \in Modes, SetWatchdog(m)
    PROVE  SupInv'
<1>1. PICK doc : doc = [supDoc EXCEPT !.mode = m]
  OBVIOUS
<1>2. Other \in Activity /\ Other.kind = "other" /\ Command(Other, doc) /\ doc \in Document
  BY <1>1 DEF Activity, Other, SetWatchdog, SupInv, SupTypes, SupTypeOK, Document
<1>3. supTouched' = supTouched /\ supAsked' = supAsked
  BY DEF SetWatchdog
<1>4. supTouched' \in [Outputs -> BOOLEAN] /\ supAsked' \in [Outputs -> BOOLEAN]
  BY <1>3 DEF SupInv, SupTypes, SupTypeOK
<1>5. SupTypes' /\ supRec' = supRec /\ Record(Other)
  BY <1>2, <1>4, CommandTyped
<1>6. TouchedLast' /\ HeldInv' /\ SubmitInv' /\ StalledInv'
  BY <1>2, <1>3, <1>5, RecordKeeps
<1> QED
  BY <1>5, <1>6 DEF SupInv

\* A message is published; the supervisor's own state is untouched.
LEMMA PublishKeeps ==
    ASSUME SupInv, NEW m \in Message, Publish(m),
           supLink' \in [Outputs -> Links], supAsked' \in [Outputs -> BOOLEAN],
           UNCHANGED <<supDoc, supBus, supLagged, supFence, supRec, supPc, supReply, supTurn,
                       supTouched>>
    PROVE  SupInv'
<1>1. supHub' \in Seq(Message) /\ Len(supHub') <= HubCap
  BY PublishTyped DEF SupInv, SupTypes
<1>2. SupTypeOK'
  BY <1>1 DEF SupInv, SupTypes, SupTypeOK
<1>3. ReplyInv' /\ AdoptInv'
  BY DEF SupInv, SupTypes, ReplyInv, AdoptInv
<1>4. TouchedLast' /\ HeldInv'
  BY QuietKeeps
<1>5. SubmitInv' /\ StalledInv'
  BY DEF SupInv, SubmitInv, StalledInv
<1> QED
  BY <1>2, <1>3, <1>4, <1>5 DEF SupInv, SupTypes

LEMMA EdgeKeeps ==
    ASSUME SupInv, NEW o \in Outputs, NEW link \in Links, Edge(o, link)
    PROVE  SupInv'
<1>1. supLink' \in [Outputs -> Links] /\ supAsked' \in [Outputs -> BOOLEAN]
  BY DEF Edge, SupInv, SupTypes, SupTypeOK
<1>2. CASE link = "nodrm"
  <2>1. [kind |-> "resync"] \in Message
    BY DEF Message
  <2> QED
    BY <1>1, <1>2, <2>1, PublishKeeps DEF Edge
<1>3. CASE link # "nodrm"
  <2>1. PICK m : m = [kind |-> "connection", output |-> o, up |-> link = "up"]
    OBVIOUS
  <2>2. (link = "up") \in BOOLEAN
    OBVIOUS
  <2>3. m \in Message
    BY <2>1, <2>2 DEF Message
  <2>4. Publish(m)
    BY <1>3, <2>1 DEF Edge
  <2> QED
    BY <1>1, <2>3, <2>4, PublishKeeps DEF Edge
<1> QED
  BY <1>2, <1>3

LEMMA RouteKeeps ==
    ASSUME SupInv, NEW o \in Outputs, NEW s \in Sources, RemoteRoute(o, s)
    PROVE  SupInv'
<1>1. [kind |-> "remote_source", output |-> o, source |-> s] \in Message
  BY DEF Message
<1>2. supLink' \in [Outputs -> Links] /\ supAsked' \in [Outputs -> BOOLEAN]
  BY DEF RemoteRoute, supEnv, SupInv, SupTypes, SupTypeOK
<1> QED
  BY <1>1, <1>2, PublishKeeps DEF RemoteRoute, supEnv
-------------------------------------------------------------------------------
(* The turns of the loop.                                                      *)

LEMMA UpdateHolds ==
    ASSUME NEW rec \in Recovery, NEW doc \in Document
    PROVE  /\ Update(rec, doc) \in Recovery
           /\ \A o \in Outputs : Held(rec, o) => Held(Update(rec, doc), o)
BY UpdateDrops DEF Dropping, Held

LEMMA NothingAsked == ASSUME SupInv, supPc = "select" PROVE supReply = NoReply
BY DEF SupInv, SupTypes, ReplyInv

LEMMA ActivityKeeps ==
    ASSUME SupInv, ActivityArm
    PROVE  SupInv'
<1>1. /\ supPc = "select" /\ supPc' = "select" /\ supReply' = supReply /\ supReply = NoReply
      /\ UNCHANGED <<supDoc, supHub, supFence, supLink, supAsked, supTurn, supTouched>>
  BY NothingAsked DEF ActivityArm, Rest, supEnv
<1>2. /\ supRec \in Recovery /\ supDoc \in Document /\ supBus \in Seq(Activity)
      /\ Len(supBus) <= BusCap /\ BusCap \in Nat /\ supLagged \in BOOLEAN
  BY SupAssumption DEF SupInv, SupTypes, SupTypeOK
<1>3. CASE supLagged
  <2>1. supRec' = Update(AfterLag(supRec), supDoc) /\ supLagged' = FALSE /\ supBus' = supBus
    BY <1>3 DEF ActivityArm
  <2>2. AfterLag(supRec) \in Recovery /\ \A p \in Outputs : Held(AfterLag(supRec), p)
    BY <1>2, LagDrops DEF Dropping
  <2>3. supRec' \in Recovery /\ \A p \in Outputs : Held(supRec', p)
    BY <1>2, <2>1, <2>2, UpdateHolds
  <2>4. \A p : Heard(p)' = Heard(p) /\ LastIsManual(p)' = LastIsManual(p)
    BY <2>1 DEF Heard, LastIsManual
  <2>5. TouchedLast' /\ HeldInv'
    BY <1>1, <2>3, <2>4 DEF SupInv, TouchedLast, HeldInv, Held
  <2>6. SupTypeOK'
    BY <1>1, <2>1, <2>3 DEF SupInv, SupTypes, SupTypeOK
  <2> QED
    BY <1>1, <2>5, <2>6 DEF SupInv, SupTypes, ReplyInv, AdoptInv, SubmitInv, StalledInv
<1>4. CASE ~supLagged
  <2>1. /\ supBus # <<>> /\ supBus' = Tail(supBus) /\ supLagged' = supLagged
        /\ supRec' = Update(CommandSeen(supRec, Head(supBus)), supDoc)
    BY <1>4 DEF ActivityArm
  <2>2. PICK a \in Activity : a = Head(supBus)
    BY <1>2, <2>1, HeadTailProperties
  <2>3. CommandSeen(supRec, a) \in Recovery
    BY <1>2, CommandDrops DEF Dropping
  <2>4. /\ supRec' \in Recovery
        /\ \A p \in Outputs : Held(CommandSeen(supRec, a), p) => Held(supRec', p)
    BY <1>2, <2>1, <2>2, <2>3, UpdateHolds
  <2>5. /\ supBus' \in Seq(Activity) /\ Len(supBus') = Len(supBus) - 1
        /\ \A p : HeardIn(supBus', p) # {}
              => HeardIn(supBus, p) # {} /\ (LastIn(supBus, p) => LastIn(supBus', p))
        /\ \A p : HeardIn(supBus, p) # {} /\ HeardIn(supBus', p) = {}
              => a.kind # "other" /\ a.output = p /\ (LastIn(supBus, p) => a.kind = "manual")
    BY <1>2, <2>1, <2>2, TailHears
  <2>6. ASSUME NEW p \in Outputs, supTouched[p]
        PROVE  /\ Heard(p)' # {} => LastIsManual(p)'
               /\ Heard(p)' # {} \/ Held(supRec', p)
    <3>1. /\ Heard(p) # {} => LastIsManual(p)
          /\ Heard(p) # {} \/ Held(supRec, p)
      BY <1>4, <2>6 DEF SupInv, TouchedLast, HeldInv
    <3>2. CASE Heard(p)' # {}
      BY <2>5, <3>1, <3>2, HeardIsHeardIn
    <3>3. CASE Heard(p)' = {} /\ Heard(p) # {}
      <4>1. a.kind = "manual" /\ a.output = p
        BY <2>5, <3>1, <3>3, HeardIsHeardIn
      <4> QED
        BY <1>2, <2>4, <3>3, <4>1, CommandDrops
    <3>4. CASE Heard(p)' = {} /\ Heard(p) = {}
      <4>1. Held(supRec, p)
        BY <3>1, <3>4
      <4>2. a.kind = "other" \/ a.output # p
        <5>1. 1 \in 1 .. Len(supBus) /\ supBus[1] = a
          <6>1. Len(supBus) \in Nat /\ Len(supBus) # 0
            BY <1>2, <2>1, EmptySeq, LenProperties
          <6> QED
            BY <1>2, <2>1, <2>2, <6>1, HeadTailProperties
        <5> QED
          BY <3>4, <5>1 DEF Heard
      <4> QED
        BY <1>2, <2>4, <3>4, <4>1, <4>2, CommandDrops
    <3> QED
      BY <3>2, <3>3, <3>4
  <2>7. TouchedLast'
    BY <1>1, <2>6 DEF TouchedLast
  <2>8. HeldInv'
    BY <1>1, <2>6 DEF HeldInv, Held
  <2>9. Len(supBus') <= BusCap
    BY <1>2, <2>5, LenProperties
  <2>10. SupTypeOK'
    BY <1>1, <2>1, <2>4, <2>5, <2>9 DEF SupInv, SupTypes, SupTypeOK
  <2> QED
    BY <1>1, <2>7, <2>8, <2>10 DEF SupInv, SupTypes, ReplyInv, AdoptInv, SubmitInv, StalledInv
<1> QED
  BY <1>3, <1>4

LEMMA EmptyBus == <<>> \in Seq(Activity) /\ Len(<<>>) <= BusCap
<1>1. BusCap \in Nat
  BY SupAssumption
<1>2. <<>> \in Seq(Activity) /\ Len(<<>>) = 0
  OBVIOUS
<1> QED
  BY <1>1, <1>2

LEMMA EventKeepsAll ==
    ASSUME SupInv, EventArm
    PROVE  SupInv'
<1>1. PICK m, rec : m = Head(supHub) /\ rec = Update(supRec, supDoc)
  OBVIOUS
<1>2. /\ supPc = "select" /\ supHub # <<>> /\ supHub' = Tail(supHub)
      /\ supRec' = IF m.kind = "connection" THEN EventSeen(Drained(rec), m.output, m.up)
                   ELSE Drained(rec)
      /\ supTouched' = IF m.kind = "connection" /\ m.up
                       THEN [supTouched EXCEPT ![m.output] = FALSE] ELSE supTouched
      /\ supPc' = IF m.kind = "resync" THEN "resync"
                  ELSE IF Adoptable(m) THEN "adopt" ELSE "select"
      /\ supTurn' = IF Adoptable(m) THEN [output |-> m.output, source |-> m.source] ELSE NoTurn
      /\ supBus' = <<>> /\ supLagged' = FALSE
      /\ UNCHANGED <<supDoc, supFence, supLink, supAsked, supReply>> /\ supReply = NoReply
  BY <1>1, NothingAsked DEF EventArm, supEnv
<1>3. /\ supRec \in Recovery /\ supDoc \in Document /\ supHub \in Seq(Message)
      /\ Len(supHub) <= HubCap /\ HubCap \in Nat
  BY SupAssumption DEF SupInv, SupTypes, SupTypeOK
<1>4. /\ m \in Message /\ supHub' \in Seq(Message) /\ Len(supHub') <= HubCap
  <2>1. /\ m \in Message /\ supHub' \in Seq(Message) /\ Len(supHub') = Len(supHub) - 1
    BY <1>1, <1>2, <1>3, HeadTailProperties
  <2> QED
    BY <1>3, <2>1, LenProperties
<1>5. /\ rec \in Recovery /\ \A p \in Outputs : Held(supRec, p) => Held(rec, p)
  BY <1>1, <1>3, UpdateHolds
<1>6. Drained(rec) \in Recovery
  BY <1>5, DrainDrops DEF Dropping
<1>7. m.kind = "connection" => m.output \in Outputs /\ m.up \in BOOLEAN
  BY <1>4 DEF Message
<1>8. Adoptable(m) => m.output \in Outputs /\ m.source \in Sources
  BY <1>4 DEF Message, Adoptable
<1>9. supRec' \in Recovery
  BY <1>2, <1>6, <1>7, EventKeeps
<1>10. supTouched' \in [Outputs -> BOOLEAN]
  BY <1>2 DEF SupInv, SupTypes, SupTypeOK
<1>11. \A p \in Outputs : supTouched'[p] =>
             supTouched[p] /\ (Held(Drained(rec), p) => Held(supRec', p))
  <2>1. CASE m.kind = "connection"
    <3>1. \A p \in Outputs : ~(m.up /\ p = m.output) /\ Held(Drained(rec), p) => Held(supRec', p)
      BY <1>2, <1>6, <1>7, <2>1, EventKeeps
    <3>2. \A p \in Outputs : supTouched'[p] => supTouched[p] /\ ~(m.up /\ p = m.output)
      BY <1>2, <1>7, <2>1 DEF SupInv, SupTypes, SupTypeOK
    <3> QED
      BY <3>1, <3>2
  <2>2. CASE m.kind # "connection"
    BY <1>2, <2>2
  <2> QED
    BY <2>1, <2>2
<1>12. TouchedLast' /\ HeldInv'
  BY <1>2, <1>5, <1>11, DrainKeeps
<1>13. supTurn' \in [output : Outputs \cup {0}, source : Sources \cup {NoSource}]
  BY <1>2, <1>8 DEF NoTurn
<1>14. AdoptInv'
  BY <1>2, <1>8 DEF AdoptInv
<1>15. SupTypeOK'
  BY <1>2, <1>4, <1>9, <1>10, <1>13, EmptyBus DEF SupInv, SupTypes, SupTypeOK
<1>16. ReplyInv' /\ SubmitInv' /\ StalledInv'
  BY <1>2 DEF ReplyInv, SubmitInv, StalledInv
<1> QED
  BY <1>12, <1>14, <1>15, <1>16 DEF SupInv, SupTypes
LEMMA AdoptKeeps ==
    ASSUME SupInv, AdoptRemoteSource
    PROVE  SupInv'
<1>1. PICK o \in Outputs, s \in Sources : o = supTurn.output /\ s = supTurn.source
  BY DEF AdoptRemoteSource, SupInv, SupTypes, AdoptInv
<1>2. /\ supPc = "adopt" /\ supPc' = "adopted" /\ supTurn' = NoTurn
      /\ supHub' = supHub /\ supRec' = supRec /\ supReply' = supReply /\ supLink' = supLink
  BY DEF AdoptRemoteSource
<1>3. supTurn' \in [output : Outputs \cup {0}, source : Sources \cup {NoSource}]
  BY <1>2 DEF NoTurn
<1>4. ReplyInv' /\ AdoptInv'
  BY <1>2 DEF SupInv, SupTypes, ReplyInv, AdoptInv
<1>5. CASE Record([kind |-> "manual", output |-> o]) /\ Touch(o)
           /\ supDoc' = [supDoc EXCEPT !.source[o] = s]
  <2>1. PICK a : a = [kind |-> "manual", output |-> o]
    OBVIOUS
  <2>2. a \in Activity /\ a.kind = "manual" /\ a.output = o /\ Record(a)
    BY <1>5, <2>1 DEF Activity
  <2>3. /\ supTouched' \in [Outputs -> BOOLEAN] /\ supAsked' \in [Outputs -> BOOLEAN]
        /\ \A p \in Outputs : supTouched'[p] => supTouched[p] \/ p = o
    BY <1>5, TouchTyped DEF SupInv, SupTypes
  <2>4. supDoc' \in Document
    BY <1>5, SourceTyped
  <2>5. /\ supBus' \in Seq(Activity) /\ Len(supBus') <= BusCap
        /\ supLagged' \in BOOLEAN /\ supFence' = FALSE
    BY <2>2, RecordHears DEF SupInv, SupTypes
  <2>6. SupTypeOK'
    BY <1>2, <1>3, <2>3, <2>4, <2>5 DEF SupInv, SupTypes, SupTypeOK
  <2>7. TouchedLast' /\ HeldInv' /\ SubmitInv' /\ StalledInv'
    BY <1>2, <2>2, <2>3, RecordKeeps
  <2> QED
    BY <1>4, <2>6, <2>7 DEF SupInv, SupTypes
<1>6. CASE UNCHANGED <<supDoc, supFence, supBus, supLagged, supAsked, supTouched>>
  <2>1. TouchedLast' /\ HeldInv'
    BY <1>2, <1>6, QuietKeeps
  <2>2. SupTypeOK'
    BY <1>2, <1>3, <1>6 DEF SupInv, SupTypes, SupTypeOK
  <2>3. SubmitInv' /\ StalledInv'
    BY <1>2 DEF SubmitInv, StalledInv
  <2> QED
    BY <1>4, <2>1, <2>2, <2>3 DEF SupInv, SupTypes
<1> QED
  BY <1>1, <1>5, <1>6 DEF AdoptRemoteSource

LEMMA AdoptedKeeps ==
    ASSUME SupInv, Adopted
    PROVE  SupInv'
<1>1. PICK rec : rec = Update(supRec, supDoc)
  OBVIOUS
<1>2. /\ supPc = "adopted" /\ supPc' = "select" /\ supRec' = Drained(rec)
      /\ supBus' = <<>> /\ supLagged' = FALSE
      /\ UNCHANGED <<supDoc, supHub, supFence, supLink, supAsked, supReply, supTurn, supTouched>>
  BY <1>1 DEF Adopted, Drain, Rest, supEnv
<1>3. rec \in Recovery /\ \A p \in Outputs : Held(supRec, p) => Held(rec, p)
  BY <1>1, UpdateHolds DEF SupInv, SupTypes, SupTypeOK
<1>4. TouchedLast' /\ HeldInv'
  BY <1>2, <1>3, DrainKeeps
<1>5. supRec' \in Recovery
  BY <1>2, <1>3, DrainDrops DEF Dropping
<1>6. SupTypeOK'
  BY <1>2, <1>5, EmptyBus DEF SupInv, SupTypes, SupTypeOK
<1> QED
  BY <1>2, <1>4, <1>6 DEF SupInv, SupTypes, ReplyInv, AdoptInv, SubmitInv, StalledInv

\* The loop reads the document and goes on to something else than a retry.
LEMMA TickKeeps ==
    ASSUME SupInv, supPc = "select", supRec' = Update(supRec, supDoc),
           supPc' \in {"status", "health"},
           UNCHANGED <<supDoc, supHub, supFence, supLink, supAsked, supBus, supLagged, supReply,
                       supTurn, supTouched>>
    PROVE  SupInv'
<1>1. /\ supRec' \in Recovery
      /\ \A p \in Outputs : Held(supRec, p) => Held(supRec', p)
  BY UpdateHolds DEF SupInv, SupTypes, SupTypeOK
<1>2. TouchedLast' /\ HeldInv'
  BY <1>1, QuietKeeps
<1>3. SupTypeOK'
  BY <1>1 DEF SupInv, SupTypes, SupTypeOK
<1>4. ReplyInv'
  BY NothingAsked DEF ReplyInv
<1> QED
  BY <1>2, <1>3, <1>4 DEF SupInv, SupTypes, AdoptInv, SubmitInv, StalledInv

LEMMA AnswersKeep ==
    ASSUME SupInv, DecoderAnswers
    PROVE  SupInv'
<1>1. /\ supPc \in {"status", "resync", "health"}
      /\ UNCHANGED <<supDoc, supHub, supFence, supLink, supAsked, supRec, supBus, supLagged,
                     supPc, supTurn, supTouched>>
  BY DEF DecoderAnswers, Rest, supEnv
<1>2. /\ supReply' \in [Outputs -> Links \cup Healths \cup {"none", "lost"}]
      /\ ReplyInv'
  <2>1. CASE supReply' = LostReply
    BY <1>1, <2>1 DEF LostReply, ReplyInv
  <2>2. CASE supReply' = supLink /\ supPc # "health"
    BY <1>1, <2>2 DEF SupInv, SupTypes, SupTypeOK, ReplyInv
  <2>3. CASE supReply' \in [Outputs -> Healths] /\ supPc = "health"
    BY <1>1, <2>3 DEF ReplyInv
  <2> QED
    BY <2>1, <2>2, <2>3 DEF DecoderAnswers
<1>3. TouchedLast' /\ HeldInv'
  BY <1>1, QuietKeeps
<1>4. SupTypeOK'
  BY <1>1, <1>2 DEF SupInv, SupTypes, SupTypeOK
<1> QED
  BY <1>1, <1>2, <1>3, <1>4 DEF SupInv, SupTypes, AdoptInv, SubmitInv, StalledInv

LEMMA AnswerKeeps ==
    ASSUME SupInv, AnswerUsed
    PROVE  SupInv'
<1>1. /\ supReply # NoReply /\ supReply' = NoReply /\ supPc' = "select"
      /\ UNCHANGED <<supDoc, supHub, supFence, supLink, supAsked, supTurn, supTouched>>
  BY DEF AnswerUsed, Rest, supEnv
<1>2. /\ supPc \in {"status", "resync", "health"} /\ supRec \in Recovery
      /\ supReply # LostReply =>
           supReply \in [Outputs -> IF supPc = "health" THEN Healths ELSE Links]
  BY <1>1 DEF SupInv, SupTypes, SupTypeOK, ReplyInv
<1>3. /\ supRec' \in Recovery /\ supBus' \in Seq(Activity) /\ Len(supBus') <= BusCap
      /\ supLagged' \in BOOLEAN /\ TouchedLast' /\ HeldInv'
  <2>1. ASSUME supBus' = <<>>, supLagged' = FALSE, supRec' \in Recovery,
               \A p \in Outputs : Held(Drained(supRec), p) => Held(supRec', p)
        PROVE  /\ supRec' \in Recovery /\ supBus' \in Seq(Activity) /\ Len(supBus') <= BusCap
               /\ supLagged' \in BOOLEAN /\ TouchedLast' /\ HeldInv'
    BY <1>1, <1>2, <2>1, DrainKeeps, EmptyBus
  <2>2. ASSUME supBus' = supBus, supLagged' = supLagged, supRec' \in Recovery,
               \A p \in Outputs : Held(supRec, p) => Held(supRec', p)
        PROVE  /\ supRec' \in Recovery /\ supBus' \in Seq(Activity) /\ Len(supBus') <= BusCap
               /\ supLagged' \in BOOLEAN /\ TouchedLast' /\ HeldInv'
    BY <1>1, <2>2, QuietKeeps DEF SupInv, SupTypes, SupTypeOK
  <2>3. Drained(supRec) \in Recovery
    BY <1>2, DrainDrops DEF Dropping
  <2>4. CASE supPc = "status" /\ supReply # LostReply
    <3>1. supRec' = StatusSeen(Drained(supRec), supReply) /\ supBus' = <<>> /\ supLagged' = FALSE
      BY <2>4 DEF AnswerUsed
    <3>2. supReply \in [Outputs -> Links]
      BY <1>2, <2>4
    <3> QED
      BY <2>1, <2>3, <3>1, <3>2, StatusKeeps
  <2>5. CASE supPc = "resync" /\ supReply # LostReply
    <3>1. supRec' = StatusSeen(supRec, supReply) /\ UNCHANGED <<supBus, supLagged>>
      BY <2>5 DEF AnswerUsed
    <3>2. supReply \in [Outputs -> Links]
      BY <1>2, <2>5
    <3> QED
      BY <1>2, <2>2, <3>1, <3>2, StatusKeeps
  <2>6. CASE supPc = "health"
    <3>1. /\ supBus' = <<>> /\ supLagged' = FALSE
          /\ supRec' = IF supReply = LostReply THEN Drained(supRec)
                       ELSE HealthSeen(Drained(supRec), supReply)
      BY <2>6 DEF AnswerUsed
    <3>2. CASE supReply = LostReply
      BY <2>1, <2>3, <3>1, <3>2
    <3>3. CASE supReply # LostReply
      <4>1. supReply \in [Outputs -> Healths]
        BY <1>2, <2>6, <3>3
      <4> QED
        BY <2>1, <2>3, <3>1, <3>3, <4>1, HealthKeeps
    <3> QED
      BY <3>2, <3>3
  <2>7. CASE supPc \in {"status", "resync"} /\ supReply = LostReply
    <3>1. UNCHANGED <<supRec, supBus, supLagged>>
      BY <2>7 DEF AnswerUsed
    <3> QED
      BY <1>2, <2>2, <3>1
  <2> QED
    BY <1>2, <2>4, <2>5, <2>6, <2>7
<1>4. NoReply \in [Outputs -> Links \cup Healths \cup {"none", "lost"}]
  BY DEF NoReply
<1>5. SupTypeOK'
  BY <1>1, <1>3, <1>4 DEF SupInv, SupTypes, SupTypeOK
<1> QED
  BY <1>1, <1>3, <1>5 DEF SupInv, SupTypes, ReplyInv, AdoptInv, SubmitInv, StalledInv

-------------------------------------------------------------------------------
(* The retry of an output that is due, and time.                               *)

LEMMA ArmKeeps ==
    ASSUME SupInv, DeadlineArm
    PROVE  SupInv'
<1>1. /\ supPc = "select" /\ supPc' = "refresh" /\ supFence' = TRUE /\ supReply = NoReply
      /\ UNCHANGED <<supDoc, supHub, supLink, supAsked, supRec, supBus, supLagged, supReply,
                     supTurn, supTouched>>
  BY NothingAsked DEF DeadlineArm, supEnv
<1>2. TouchedLast' /\ HeldInv'
  BY <1>1, QuietKeeps
<1>3. SupTypeOK'
  BY <1>1 DEF SupInv, SupTypes, SupTypeOK
<1> QED
  BY <1>1, <1>2, <1>3 DEF SupInv, SupTypes, ReplyInv, AdoptInv, SubmitInv, StalledInv

LEMMA RefreshKeeps ==
    ASSUME SupInv, DeadlineRefresh
    PROVE  SupInv'
<1>1. /\ supPc = "refresh" /\ supPc' = "sources" /\ supRec' = Update(supRec, supDoc)
      /\ UNCHANGED <<supDoc, supHub, supFence, supLink, supAsked, supBus, supLagged, supReply,
                     supTurn, supTouched>>
  BY DEF DeadlineRefresh, Rest, supEnv
<1>2. /\ supRec' \in Recovery
      /\ \A p \in Outputs : Held(supRec, p) => Held(supRec', p)
  BY <1>1, UpdateHolds DEF SupInv, SupTypes, SupTypeOK
<1>3. \A p \in Outputs : supRec'.retries[p].stalled => supDoc'.mode = "Active"
  BY <1>1, UpdateDrops DEF SupInv, SupTypes, SupTypeOK
<1>4. TouchedLast' /\ HeldInv'
  BY <1>1, <1>2, QuietKeeps
<1>5. SupTypeOK'
  BY <1>1, <1>2 DEF SupInv, SupTypes, SupTypeOK
<1>6. ReplyInv' /\ AdoptInv' /\ SubmitInv'
  BY <1>1 DEF SupInv, SupTypes, ReplyInv, AdoptInv, SubmitInv
<1>7. StalledInv'
  BY <1>3 DEF StalledInv
<1> QED
  BY <1>4, <1>5, <1>6, <1>7 DEF SupInv, SupTypes

LEMMA DeadlineDrainKeeps ==
    ASSUME SupInv, DeadlineDrain
    PROVE  SupInv'
<1>1. PICK rec : rec = Drained(supRec)
  OBVIOUS
<1>2. /\ supPc = "sources" /\ supRec' = rec /\ supBus' = <<>> /\ supLagged' = FALSE
      /\ UNCHANGED <<supDoc, supHub, supFence, supLink, supAsked, supReply, supTouched>>
      /\ \/ supTurn' = NoTurn /\ supPc' = "select"
         \/ \E o \in DueOutputs(rec) :
              /\ supTurn' = [output |-> o, source |-> rec.retries[o].source]
              /\ supPc' = "submit"
  BY <1>1 DEF DeadlineDrain, Rest, supEnv
<1>3. supRec \in Recovery /\ supReply = NoReply
  BY <1>2 DEF SupInv, SupTypes, SupTypeOK, ReplyInv
<1>4. rec \in Recovery /\ \A p \in Outputs : rec.retries[p] \in {supRec.retries[p], NoRetry}
  BY <1>1, <1>3, DrainDrops DEF Dropping
<1>5. /\ TouchedLast' /\ HeldInv'
      /\ \A p \in Outputs : supTouched[p] => Held(rec, p)
  BY <1>1, <1>2, <1>3, DrainKeeps
<1>6. \A p \in Outputs : rec.retries[p].source \in Sources \cup {NoSource}
  BY <1>4 DEF Recovery, Retry, NoRetry
<1>7. supTurn' \in [output : Outputs \cup {0}, source : Sources \cup {NoSource}]
  BY <1>2, <1>6 DEF NoTurn, DueOutputs
<1>8. SupTypeOK'
  BY <1>2, <1>4, <1>7, EmptyBus DEF SupInv, SupTypes, SupTypeOK
<1>9. ReplyInv' /\ AdoptInv'
  BY <1>2, <1>3 DEF ReplyInv, AdoptInv
<1>10. SubmitInv'
  <2>1. \A p \in DueOutputs(rec) : p \in Outputs /\ ~supTouched[p]
    BY <1>5 DEF DueOutputs, Held, NoRetry
  <2> QED
    BY <1>2, <2>1 DEF SubmitInv
<1>11. StalledInv'
  <2>1. ~NoRetry.stalled
    BY DEF NoRetry
  <2> QED
    BY <1>2, <1>4, <2>1 DEF SupInv, StalledInv
<1> QED
  BY <1>5, <1>8, <1>9, <1>10, <1>11 DEF SupInv, SupTypes

LEMMA RetimedHolds ==
    ASSUME NEW rec, NEW new, Retimed(rec, new)
    PROVE  \A o \in Outputs : Held(rec, o) => Held(new, o)
BY DEF Retimed, Held

LEMMA RetryKeeps ==
    ASSUME SupInv, RetrySource
    PROVE  SupInv'
<1>1. /\ supPc = "submit" /\ supPc' = "select" /\ supTurn' = NoTurn
      /\ UNCHANGED <<supDoc, supHub, supLink, supReply, supTouched>>
  BY DEF RetrySource
<1>2. supReply = NoReply /\ supRec \in Recovery
  BY <1>1 DEF SupInv, SupTypes, SupTypeOK, ReplyInv
<1>3. supTurn' \in [output : Outputs \cup {0}, source : Sources \cup {NoSource}]
  BY <1>1 DEF NoTurn
<1>4. ReplyInv' /\ AdoptInv' /\ SubmitInv' /\ StalledInv'
  BY <1>1, <1>2 DEF ReplyInv, AdoptInv, SubmitInv, StalledInv
<1>5. ASSUME supRec' \in Recovery, UNCHANGED <<supFence, supBus, supLagged, supAsked>>,
             \A p \in Outputs : Held(supRec, p) => Held(supRec', p)
      PROVE  SupInv'
  <2>1. TouchedLast' /\ HeldInv'
    BY <1>1, <1>5, QuietKeeps
  <2>2. SupTypeOK'
    BY <1>1, <1>3, <1>5 DEF SupInv, SupTypes, SupTypeOK
  <2> QED
    BY <1>4, <2>1, <2>2 DEF SupInv, SupTypes
<1>6. CASE supRec' = supRec /\ UNCHANGED <<supFence, supBus, supLagged, supAsked>>
  BY <1>2, <1>5, <1>6
<1>7. ASSUME supFence, supRec' = Reschedule(supTurn.output)
      PROVE  supRec' \in Recovery /\ \A p \in Outputs : Held(supRec, p) => Held(supRec', p)
  <2>1. supTurn.output \in Outputs
    BY <1>1, <1>7 DEF SupInv, SubmitInv
  <2>2. Retimed(supRec, supRec')
    BY <1>2, <1>7, <2>1, RescheduleRetimes
  <2> QED
    BY <2>2, RetimedHolds DEF Retimed
<1>8. CASE /\ supFence /\ supRec' = Reschedule(supTurn.output)
           /\ UNCHANGED <<supFence, supBus, supLagged, supAsked>>
  BY <1>5, <1>7, <1>8
<1>9. CASE /\ supFence /\ supRec' = Reschedule(supTurn.output) /\ Record(Other)
           /\ supAsked' \in {supAsked, [supAsked EXCEPT ![supTurn.output] = TRUE]}
  <2>1. Other \in Activity /\ Other.kind = "other"
    BY DEF Activity, Other
  <2>2. /\ supBus' \in Seq(Activity) /\ Len(supBus') <= BusCap
        /\ supLagged' \in BOOLEAN /\ supFence' = FALSE
    BY <1>9, <2>1, RecordHears DEF SupInv, SupTypes
  <2>3. supAsked' \in [Outputs -> BOOLEAN]
    BY <1>9 DEF SupInv, SupTypes, SupTypeOK
  <2>4. supRec' \in Recovery /\ \A p \in Outputs : Held(supRec, p) => Held(supRec', p)
    BY <1>7, <1>9
  <2>5. TouchedLast' /\ HeldInv'
    BY <1>1, <1>9, <2>1, <2>4, RecordKeeps
  <2>6. SupTypeOK'
    BY <1>1, <1>3, <2>2, <2>3, <2>4 DEF SupInv, SupTypes, SupTypeOK
  <2> QED
    BY <1>4, <2>5, <2>6 DEF SupInv, SupTypes
<1> QED
  BY <1>6, <1>8, <1>9 DEF RetrySource, Admits

LEMMA DueKeeps ==
    ASSUME SupInv, RetryDue
    PROVE  SupInv'
<1>1. UNCHANGED <<supDoc, supHub, supFence, supLink, supAsked, supBus, supLagged, supPc, supReply,
                  supTurn, supTouched>>
  BY DEF RetryDue, Rest, supEnv
<1>2. Retimed(supRec, supRec')
  BY DueRetimes DEF SupInv, SupTypes, SupTypeOK
<1>3. supRec' \in Recovery /\ \A p \in Outputs : Held(supRec, p) => Held(supRec', p)
  BY <1>2, RetimedHolds DEF Retimed
<1>4. TouchedLast' /\ HeldInv'
  BY <1>1, <1>3, QuietKeeps
<1>5. SupTypeOK'
  BY <1>1, <1>3 DEF SupInv, SupTypes, SupTypeOK
<1>6. StalledInv'
  BY <1>1, <1>2 DEF SupInv, StalledInv, Retimed
<1> QED
  BY <1>1, <1>4, <1>5, <1>6 DEF SupInv, SupTypes, ReplyInv, AdoptInv, SubmitInv

LEMMA TimeKeeps ==
    ASSUME SupInv, NEW o \in Outputs, TouchedOver(o) \/ GraceOver(o)
    PROVE  SupInv'
<1>1. UNCHANGED <<supDoc, supHub, supFence, supLink, supAsked, supBus, supLagged, supPc, supReply,
                  supTurn>>
  BY DEF TouchedOver, GraceOver, Rest, supEnv
<1>2. CASE TouchedOver(o)
  <2>1. supTouched' \in [Outputs -> BOOLEAN] /\ \A p \in Outputs : supTouched'[p] => supTouched[p]
    BY <1>2 DEF TouchedOver, SupInv, SupTypes, SupTypeOK
  <2>2. supRec' = supRec
    BY <1>2 DEF TouchedOver
  <2>3. TouchedLast' /\ HeldInv'
    BY <1>1, <2>1, <2>2, QuietKeeps
  <2>4. SupTypeOK'
    BY <1>1, <2>1, <2>2 DEF SupInv, SupTypes, SupTypeOK
  <2> QED
    BY <1>1, <2>1, <2>2, <2>3, <2>4 DEF SupInv, SupTypes, ReplyInv, AdoptInv, SubmitInv, StalledInv
<1>3. CASE GraceOver(o)
  <2>1. /\ supTouched' = supTouched /\ (supTouched[o] => supLagged \/ Heard(o) # {})
        /\ supRec' = [supRec EXCEPT !.grace[o] = FALSE]
    BY <1>3 DEF GraceOver, Unread
  <2>2. supRec' = [saved |-> supRec.saved, retries |-> supRec.retries,
                   grace |-> [supRec.grace EXCEPT ![o] = FALSE]]
    BY <2>1 DEF SupInv, SupTypes, SupTypeOK, Recovery
  <2>3. supRec' \in Recovery /\ \A p \in Outputs : p # o /\ Held(supRec, p) => Held(supRec', p)
    BY <2>2 DEF SupInv, SupTypes, SupTypeOK, Recovery, Held
  <2>4. TouchedLast' /\ HeldInv'
    BY <1>1, <2>1, <2>3, QuietKeeps
  <2>5. SupTypeOK'
    BY <1>1, <2>1, <2>3 DEF SupInv, SupTypes, SupTypeOK
  <2>6. StalledInv'
    BY <1>1, <2>2 DEF SupInv, StalledInv
  <2> QED
    BY <1>1, <2>1, <2>4, <2>5, <2>6 DEF SupInv, SupTypes, ReplyInv, AdoptInv, SubmitInv
<1> QED
  BY <1>2, <1>3

-------------------------------------------------------------------------------
LEMMA SupInvAtFirst == SupInit => SupInv
<1> SUFFICES ASSUME SupInit PROVE SupInv
  OBVIOUS
<1>1. /\ supBus = <<>> /\ supHub = <<>> /\ <<>> \in Seq(Activity) /\ <<>> \in Seq(Message)
      /\ Len(<<>>) = 0 /\ BusCap \in Nat /\ HubCap \in Nat
  BY SupAssumption DEF SupInit
<1>2. supDoc \in Document /\ supRec \in Recovery
  BY DEF SupInit, Document, Modes, Recovery
<1>3. SupTypeOK
  <2>1. supReply \in [Outputs -> Links \cup Healths \cup {"none", "lost"}]
    BY DEF SupInit, NoReply
  <2>2. supLink \in [Outputs -> Links]
    BY DEF SupInit, Links
  <2>3. supAsked \in [Outputs -> BOOLEAN] /\ supTouched \in [Outputs -> BOOLEAN]
    BY DEF SupInit
  <2>4. supTurn \in [output : Outputs \cup {0}, source : Sources \cup {NoSource}]
    BY DEF SupInit, NoTurn
  <2>5. supLagged = FALSE /\ supFence = FALSE /\ supPc = "select"
    BY DEF SupInit
  <2>6. supBus \in Seq(Activity) /\ Len(supBus) <= BusCap
    BY <1>1
  <2>7. supHub \in Seq(Message) /\ Len(supHub) <= HubCap
    BY <1>1
  <2> QED
    BY <1>2, <2>1, <2>2, <2>3, <2>4, <2>5, <2>6, <2>7 DEF SupTypeOK
<1>4. ReplyInv /\ AdoptInv /\ SubmitInv /\ StalledInv
  BY DEF SupInit, ReplyInv, AdoptInv, SubmitInv, StalledInv
<1>5. \A p \in Outputs : ~supTouched[p]
  BY DEF SupInit
<1>6. TouchedLast /\ HeldInv
  BY <1>5 DEF TouchedLast, HeldInv
<1> QED
  BY <1>3, <1>4, <1>6 DEF SupInv, SupTypes

LEMMA SupInvKept == SupInv /\ [SupNext]_supVars => SupInv'
<1> SUFFICES ASSUME SupInv, [SupNext]_supVars PROVE SupInv'
  OBVIOUS
<1>1. CASE UNCHANGED supVars
  <2>1. UNCHANGED <<supDoc, supBus, supLagged, supHub, supFence, supRec, supPc, supReply,
                    supTurn, supLink, supAsked, supTouched>>
    BY <1>1 DEF supVars, supEnv
  <2>2. TouchedLast' /\ HeldInv'
    BY <2>1, QuietKeeps
  <2>3. SupTypeOK'
    BY <2>1 DEF SupInv, SupTypes, SupTypeOK
  <2> QED
    BY <2>1, <2>2, <2>3 DEF SupInv, SupTypes, ReplyInv, AdoptInv, SubmitInv, StalledInv
<1>2. ASSUME NEW o \in Outputs, NEW s \in Sources, SelectSource(o, s)
      PROVE  SupInv'
  <2>1. [supDoc EXCEPT !.source[o] = s] \in Document
    BY SourceTyped
  <2> QED
    BY <1>2, <2>1, ManualKeeps DEF SelectSource
<1>3. ASSUME NEW o \in Outputs, ReconnectSource(o)
      PROVE  SupInv'
  <2>1. supDoc \in Document
    BY DEF SupInv, SupTypes, SupTypeOK
  <2> QED
    BY <1>3, <2>1, ManualKeeps DEF ReconnectSource
<1>4. CASE StatusTick \/ HealthTick
  BY <1>4, TickKeeps DEF StatusTick, HealthTick, Rest, supEnv
<1> QED
  BY <1>1, <1>2, <1>3, <1>4, ForgetKeeps, WatchdogKeeps, EdgeKeeps, RouteKeeps, ActivityKeeps,
     EventKeepsAll, AdoptKeeps, AdoptedKeeps, AnswersKeep, AnswerKeeps, ArmKeeps, RefreshKeeps,
     DeadlineDrainKeeps, RetryKeeps, DueKeeps, TimeKeeps DEF SupNext

\* SupInv is an inductive invariant of the supervisor: for any number of commands,
\* edges and failures and any capacity of the channels, a choice that is still to
\* be read is in the channel, or the gap is known, and one that was read holds its
\* output (supervisor.rs run, drain, Recovery).
THEOREM SupInvHolds == SupSafe => []SupInv
BY SupInvAtFirst, SupInvKept, PTL DEF SupSafe

\* No retry is admitted over a manual choice of the last half minute, and none that
\* the watchdog started in another mode than Active, whatever is recorded, lost or
\* answered during the awaits of a turn (supervisor.rs run, `expected_sequence`).
THEOREM SupervisorObeys == SupSafe => SupervisorPromises
<1>1. SupInv => SupTypeOK
  BY DEF SupInv, SupTypes
<1>2. ASSUME SupInv, [SupNext]_supVars
      PROVE  \A o \in Outputs : RetrySource /\ Admits(o) => ~supTouched[o]
  BY <1>2 DEF SupInv, SubmitInv, Admits
<1>3. ASSUME SupInv, [SupNext]_supVars
      PROVE  \A o \in Outputs : RetrySource /\ Admits(o) /\ supRec.retries[o].stalled
                                => supDoc.mode = "Active"
  BY <1>3 DEF SupInv, StalledInv, Admits
<1> QED
  BY <1>1, <1>2, <1>3, SupInvHolds, PTL
     DEF SupSafe, SupervisorPromises, ManualCommandWins, PassiveNeverReconnects

===============================================================================
