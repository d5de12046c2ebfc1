------------------------------ MODULE UiStore ------------------------------
(***************************************************************************)
(* The browser's copy of the desired state (ui/src/store.ts), the event    *)
(* path that feeds it (ndimon-control's sse.rs) and two of the forms that  *)
(* save from it (native-page.ts, actions.ts).                              *)
(*                                                                         *)
(* A document is a function from fields to the revision that last gave the *)
(* field its value: a field that is written back to an older value shows   *)
(* an older stamp.  The server is the sequence of its documents.  A commit *)
(* goes to the state bus, follow_state moves it to the hub, the hub to the *)
(* browser's stream; bus and hub drop the oldest message when full and the *)
(* reader then sees Lagged, which both turn into a resync.  The store runs *)
(* its jobs one at a time (its promise queue), each fetch reading the      *)
(* server at a moment of its own.  StateStore.stop has no caller in the    *)
(* page, so the generation counter never moves here.                       *)
(***************************************************************************)
EXTENDS Naturals, Sequences, FiniteSets

CONSTANTS
    UiCommits,   \* commits of one behaviour, those of every session together
    UiFaults,    \* failed fetches and broken streams of one behaviour
    UiCap,       \* capacity of the state bus and of the hub
    UiElsewhere  \* fields the other sessions write

UiFields == {"recv", "grp", "mode"}
ASSUME UiAssumption ==
    UiCommits \in Nat /\ UiFaults \in Nat /\ UiCap \in Nat \ {0} /\ UiElsewhere \subseteq UiFields

UiDomain(f) == IF f = "mode" THEN "device" ELSE "ndi"
UiDomains == {"ndi", "device"}
Editors == {"decoder", "discovery"}

(* The fields the commands of one save of a form write, in the order sent.  *)
Chain(e) == IF e = "decoder" THEN <<"recv", "mode">> ELSE <<"grp">>

VARIABLES
    uiHist,    \* uiHist[r]: the document of revision r
    uiBus,     \* events of the state actor follow_state has not read
    uiBusLag,  \* follow_state's receiver has lost an event
    uiPipe,    \* messages of the hub the browser's stream has not read
    uiPipeLag, \* the stream's receiver has lost a message
    uiTold,    \* (history) the latest revision announced on the open stream, else 0
    uiStream,  \* "none", "opening" (asked for, not yet subscribed) or "open"
    uiQueue,   \* jobs the store has queued, the first one running
    uiGot,     \* what the running job has fetched: domain (or "whole") -> revision
    uiSnap,    \* [rev, doc]: the snapshot every view is drawn from, rev 0 before the first
    uiBase,    \* editRevisions: the revision a form was filled from, 0 when it has none
    uiDirty,   \* the card carries an edit of the operator
    uiForm,    \* the values the form shows
    uiSave,    \* the save of a form under way
    uiOthers,  \* the revisions other sessions committed
    uiSpent,   \* faults so far
    uiLost,    \* a job has failed since the last whole document was shown
    uiStale    \* a save was composed from a snapshot older than the revision it names

uiVars == <<uiHist, uiBus, uiBusLag, uiPipe, uiPipeLag, uiTold, uiStream, uiQueue, uiGot, uiSnap,
            uiBase, uiDirty, uiForm, uiSave, uiOthers, uiSpent, uiLost, uiStale>>
uiPath == <<uiBus, uiBusLag, uiPipe, uiPipeLag, uiTold, uiStream>>
uiForms == <<uiBase, uiDirty, uiForm, uiSave, uiStale>>

NoSave == [at |-> "idle", k |-> 0, expect |-> 0, from |-> 0, seen |-> [f \in UiFields |-> 1], ok |-> TRUE, last |-> 0]
NoGot == [d \in UiDomains \cup {"whole"} |-> 0]
Now == Len(uiHist)
Msg(kind, rev, domains) == [kind |-> kind, rev |-> rev, domains |-> domains]
Resync == Msg("resync", 0, {})
Job(kind, rev, domains, by) == [kind |-> kind, rev |-> rev, domains |-> domains, by |-> by]
Reload(by) == Job("reload", 0, {}, by)

UiInit ==
    /\ uiHist = <<[f \in UiFields |-> 1]>>
    /\ uiBus = <<>> /\ uiBusLag = FALSE
    /\ uiPipe = <<>> /\ uiPipeLag = FALSE /\ uiTold = 0
    \* start(): the stream is asked for, the first read queued.
    /\ uiStream = "opening"
    /\ uiQueue = <<Reload("page")>>
    /\ uiGot = NoGot
    /\ uiSnap = [rev |-> 0, doc |-> uiHist[1]]
    /\ uiBase = [e \in Editors |-> 0]
    /\ uiDirty = [e \in Editors |-> FALSE]
    /\ uiForm = [f \in UiFields |-> 1]
    /\ uiSave = [e \in Editors |-> NoSave]
    /\ uiOthers = {} /\ uiSpent = 0 /\ uiLost = FALSE /\ uiStale = FALSE

----------------------------------------------------------------------------
(* The event path.                                                          *)

(* tokio's broadcast: a full buffer gives up its oldest message.            *)
Sent(buffer, m) == Append(IF Len(buffer) = UiCap THEN Tail(buffer) ELSE buffer, m)

(* A commit: the state gains a revision and the actor announces it.         *)
Committed(doc) ==
    /\ uiHist' = Append(uiHist, doc)
    /\ uiBus' = Sent(uiBus, Msg("changed", Now + 1,
                                {UiDomain(f) : f \in {g \in UiFields : doc[g] # uiHist[Now][g]}}))
    /\ uiBusLag' = (uiBusLag \/ Len(uiBus) = UiCap)

(* Another session writes a field.                                          *)
OtherCommit ==
    /\ Now <= UiCommits
    /\ \E f \in UiElsewhere : Committed([uiHist[Now] EXCEPT ![f] = Now + 1])
    /\ uiOthers' = uiOthers \cup {Now + 1}
    /\ UNCHANGED <<uiPipe, uiPipeLag, uiTold, uiStream, uiQueue, uiGot, uiSnap, uiForms, uiSpent, uiLost>>

(* Only a subscribed stream has a receiver.                                 *)
HubSend(m) ==
    IF uiStream = "open"
    THEN /\ uiPipe' = Sent(uiPipe, m)
         /\ uiPipeLag' = (uiPipeLag \/ Len(uiPipe) = UiCap)
         /\ uiTold' = IF m.kind = "changed" THEN m.rev ELSE uiTold
    ELSE UNCHANGED <<uiPipe, uiPipeLag, uiTold>>

(* follow_state: one event, or a resync for those it has lost.              *)
FollowState ==
    /\ uiBus # <<>>
    /\ IF uiBusLag THEN HubSend(Resync) /\ uiBusLag' = FALSE /\ uiBus' = uiBus
       ELSE HubSend(Head(uiBus)) /\ uiBusLag' = FALSE /\ uiBus' = Tail(uiBus)
    /\ UNCHANGED <<uiHist, uiOthers, uiStream, uiQueue, uiGot, uiSnap, uiForms, uiSpent, uiLost>>

(* GET /api/v1/events reaches the server: the receiver starts here, with   *)
(* nothing of what was published before.                                    *)
Subscribed ==
    /\ uiStream = "opening"
    /\ uiStream' = "open"
    /\ uiPipe' = <<>> /\ uiPipeLag' = FALSE /\ uiTold' = 0
    /\ UNCHANGED <<uiHist, uiOthers, uiBus, uiBusLag, uiQueue, uiGot, uiSnap, uiForms, uiSpent, uiLost>>

(* The stream's listeners: an event is queued as a job, a resync (sent, or *)
(* made of a lag) as a reload.                                              *)
StreamEvent ==
    /\ uiStream = "open" /\ uiPipe # <<>>
    /\ LET m == IF uiPipeLag THEN Resync ELSE Head(uiPipe)
       IN  uiQueue' = Append(uiQueue, IF m.kind = "resync" THEN Reload("page")
                                      ELSE Job("changed", m.rev, m.domains, "page"))
    /\ uiPipeLag' = FALSE
    /\ uiPipe' = IF uiPipeLag THEN uiPipe ELSE Tail(uiPipe)
    /\ UNCHANGED <<uiHist, uiOthers, uiBus, uiBusLag, uiTold, uiStream, uiGot, uiSnap, uiForms, uiSpent, uiLost>>

(* onerror: the stream is closed and its unread messages are gone.          *)
StreamError ==
    /\ uiStream # "none" /\ uiSpent < UiFaults
    /\ uiSpent' = uiSpent + 1
    /\ uiStream' = "none" /\ uiPipe' = <<>> /\ uiPipeLag' = FALSE /\ uiTold' = 0
    /\ UNCHANGED <<uiHist, uiOthers, uiBus, uiBusLag, uiQueue, uiGot, uiSnap, uiForms, uiLost>>

(* Five seconds later: connect again and reload.                            *)
Reconnect ==
    /\ uiStream = "none"
    /\ uiStream' = "opening"
    /\ uiQueue' = Append(uiQueue, Reload("page"))
    /\ UNCHANGED <<uiHist, uiOthers, uiBus, uiBusLag, uiPipe, uiPipeLag, uiTold, uiGot, uiSnap, uiForms, uiSpent, uiLost>>

----------------------------------------------------------------------------
(* The store.                                                               *)

Running == uiQueue # <<>>
Current == Head(uiQueue)

(* apply: whether a job needs nothing, its domains, or the whole document. *)
Outdated(j) == j.kind = "changed" /\ uiSnap.rev # 0 /\ j.rev <= uiSnap.rev
Next1(j) == j.kind = "changed" /\ uiSnap.rev # 0 /\ j.rev = uiSnap.rev + 1
Wanted(j) == {d \in j.domains : uiGot[d] = 0}
(* Every changed domain was read at exactly the event's revision.          *)
Assembled(j) ==
    /\ Next1(j) /\ j.domains # {} /\ Wanted(j) = {}
    /\ \A d \in j.domains : uiGot[d] = j.rev
NeedsWhole(j) ==
    /\ ~Outdated(j) /\ uiGot["whole"] = 0
    /\ Next1(j) => Wanted(j) = {} /\ ~Assembled(j)

Fetch(d) ==
    /\ uiGot' = [uiGot EXCEPT ![d] = Now]
    /\ UNCHANGED <<uiHist, uiOthers, uiPath, uiQueue, uiSnap, uiForms, uiSpent, uiLost>>

(* One GET answered by the server.                                          *)
FetchDomain ==
    /\ Running /\ Next1(Current) /\ uiGot["whole"] = 0
    /\ \E d \in Wanted(Current) : Fetch(d)
FetchWhole == Running /\ NeedsWhole(Current) /\ Fetch("whole")

(* The document a finished job publishes: a whole one, or the snapshot with *)
(* the fetched domains put in.                                              *)
JobDocument(j) ==
    IF uiGot["whole"] # 0 THEN [rev |-> uiGot["whole"], doc |-> uiHist[uiGot["whole"]]]
    ELSE [rev |-> j.rev,
          doc |-> [f \in UiFields |-> IF UiDomain(f) \in j.domains THEN uiHist[uiGot[UiDomain(f)]][f]
                                      ELSE uiSnap.doc[f]]]
(* publish ignores a document older than the snapshot.                     *)
Newer(s) == s.rev >= uiSnap.rev

(* renderFromStore: clean cards are filled again from the snapshot and     *)
(* forget the revision they had; one dirty card keeps both.                *)
Render(s) ==
    IF \A e \in Editors : ~uiDirty[e]
    THEN /\ uiBase' = [e \in Editors |-> s.rev]
         /\ uiForm' = s.doc
    ELSE UNCHANGED <<uiBase, uiForm>>

(* The running job is over: nothing to do, or its document is published.   *)
JobDone ==
    /\ Running
    /\ LET j == Current
       IN  /\ Outdated(j) \/ uiGot["whole"] # 0 \/ Assembled(j)
           /\ LET s == JobDocument(j) IN
              IF ~Outdated(j) /\ Newer(s) THEN uiSnap' = s /\ Render(s)
              ELSE UNCHANGED <<uiSnap, uiBase, uiForm>>
           /\ uiLost' = (uiLost /\ uiGot["whole"] = 0)
    /\ uiQueue' = Tail(uiQueue)
    /\ uiGot' = NoGot
    /\ UNCHANGED <<uiHist, uiOthers, uiPath, uiDirty, uiSave, uiSpent, uiStale>>

(* A fetch of the job fails: the job is dropped, the queue goes on.        *)
JobFails ==
    /\ Running /\ ~Outdated(Current) /\ uiSpent < UiFaults
    /\ uiSpent' = uiSpent + 1
    /\ uiLost' = TRUE
    /\ uiQueue' = Tail(uiQueue)
    /\ uiGot' = NoGot
    /\ UNCHANGED <<uiHist, uiOthers, uiPath, uiSnap, uiForms>>

----------------------------------------------------------------------------
(* Forms and saves.                                                         *)

(* The operator edits a field: the card is dirty and, had the form no      *)
(* revision, the snapshot's becomes its own.                               *)
Edit(e) ==
    /\ uiSnap.rev # 0 /\ ~uiDirty[e] /\ uiSave[e].at = "idle" /\ Now <= UiCommits
    /\ uiDirty' = [uiDirty EXCEPT ![e] = TRUE]
    /\ uiBase' = [uiBase EXCEPT ![e] = IF @ = 0 THEN uiSnap.rev ELSE @]
    /\ UNCHANGED <<uiHist, uiOthers, uiPath, uiQueue, uiGot, uiSnap, uiForm, uiSave, uiSpent, uiLost, uiStale>>

nativeRevision(e) == IF uiBase[e] = 0 THEN uiSnap.rev ELSE uiBase[e]

(* Save is clicked: the marker goes at once, the values and the revision   *)
(* of the first command are taken.                                         *)
SaveClicked(e) ==
    /\ uiDirty[e]
    /\ uiDirty' = [uiDirty EXCEPT ![e] = FALSE]
    /\ uiSave' = [uiSave EXCEPT ![e] = [at |-> "sent", k |-> 1, expect |-> nativeRevision(e), from |-> uiSnap.rev,
                                       seen |-> uiForm, ok |-> TRUE, last |-> 0]]
    /\ UNCHANGED <<uiHist, uiOthers, uiPath, uiQueue, uiGot, uiSnap, uiBase, uiForm, uiSpent, uiLost, uiStale>>

(* What a command puts in the state: its own field anew.  set_ndi carries  *)
(* the whole domain, taken from the snapshot when the save began.          *)
ComposedWrite(e) ==
    LET f == Chain(e)[uiSave[e].k]
    IN  [g \in UiFields |-> IF g = f THEN Now + 1
                            ELSE IF f # "mode" /\ UiDomain(g) = "ndi" THEN uiHist[uiSave[e].from][g]
                            ELSE uiHist[Now][g]]

(* A mutant of Compared: the device takes any revision.                    *)
NotCompared(expect) == TRUE
(* The server's compare-and-set.                                           *)
Compared(expect) == expect = Now

(* The command reaches the device and the compare-and-set holds.           *)
(* Confirmation rounds resend the same body, so they only delay this step. *)
CommandAccepted(e) ==
    /\ uiSave[e].at = "sent" /\ Compared(uiSave[e].expect) /\ Now <= UiCommits
    /\ Committed(ComposedWrite(e))
    /\ uiSave' = [uiSave EXCEPT ![e].at = "accepted", ![e].last = Now + 1]
    /\ uiStale' = (uiStale \/ (uiSave[e].k = 1 /\ uiSave[e].from # uiSave[e].expect))
    /\ UNCHANGED <<uiOthers, uiPipe, uiPipeLag, uiTold, uiStream, uiQueue, uiGot, uiSnap, uiBase, uiDirty, uiForm, uiSpent, uiLost>>

(* revision_conflict.                                                       *)
CommandRefused(e) ==
    /\ uiSave[e].at = "sent" /\ uiSave[e].expect # Now
    /\ uiSave' = [uiSave EXCEPT ![e].at = "refused"]
    /\ UNCHANGED <<uiHist, uiOthers, uiPath, uiQueue, uiGot, uiSnap, uiBase, uiDirty, uiForm, uiSpent, uiLost, uiStale>>

(* The operator declines the confirmation the device asked for.            *)
SaveDeclined(e) ==
    /\ uiSave[e].at = "sent" /\ Compared(uiSave[e].expect)
    /\ uiSave' = [uiSave EXCEPT ![e] = NoSave]
    /\ UNCHANGED <<uiHist, uiOthers, uiPath, uiQueue, uiGot, uiSnap, uiBase, uiDirty, uiForm, uiSpent, uiLost, uiStale>>

(* nativeCommand's success: every form at the command's base revision moves *)
(* on with it, and the store reloads before the next command.              *)
CommandReply(e) ==
    /\ uiSave[e].at = "accepted"
    /\ LET s == uiSave[e] IN
       /\ uiBase' = [x \in Editors |-> IF uiBase[x] = s.expect THEN s.last ELSE uiBase[x]]
       /\ uiForm' = [uiForm EXCEPT ![Chain(e)[s.k]] = s.last]
       /\ uiQueue' = Append(uiQueue, Reload(e))
       /\ uiSave' = [uiSave EXCEPT ![e].at = "reloading"]
    /\ UNCHANGED <<uiHist, uiOthers, uiPath, uiGot, uiSnap, uiDirty, uiSpent, uiLost, uiStale>>

Reloading(e) == \E i \in DOMAIN uiQueue : uiQueue[i].by = e

(* The command after this one: after a success it names the accepted       *)
(* revision; saveDecoder, after a refusal, the form's revision as it is    *)
(* now, which a clean card may have taken from the snapshot meanwhile.     *)
NextCommand(e) ==
    /\ uiSave[e].at = "refused" \/ (uiSave[e].at = "reloading" /\ ~Reloading(e))
    /\ LET s == uiSave[e]
           accepted == s.at = "reloading"
       IN  IF s.k < Len(Chain(e))
           THEN /\ uiSave' = [uiSave EXCEPT ![e] = [s EXCEPT !.at = "sent", !.k = @ + 1, !.ok = accepted,
                                                             !.expect = IF accepted THEN s.last ELSE nativeRevision(e)]]
                /\ UNCHANGED uiBase
           ELSE \* the save is over; when every part was accepted the form takes its revision
                /\ uiBase' = IF accepted /\ s.ok THEN [uiBase EXCEPT ![e] = s.last] ELSE uiBase
                /\ uiSave' = [uiSave EXCEPT ![e] = NoSave]
    /\ UNCHANGED <<uiHist, uiOthers, uiPath, uiQueue, uiGot, uiSnap, uiDirty, uiForm, uiSpent, uiLost, uiStale>>

UiRest ==
    /\ Now > UiCommits /\ uiQueue = <<>> /\ uiBus = <<>> /\ uiPipe = <<>> /\ uiStream = "open"
    /\ UNCHANGED uiVars

EditorStep(e) ==
    \/ Edit(e) \/ SaveClicked(e) \/ CommandAccepted(e) \/ CommandRefused(e) \/ SaveDeclined(e)
    \/ CommandReply(e) \/ NextCommand(e)

UiNext ==
    \/ OtherCommit \/ FollowState \/ Subscribed \/ StreamEvent \/ StreamError \/ Reconnect
    \/ FetchDomain \/ FetchWhole \/ JobDone \/ JobFails
    \/ \E e \in Editors : EditorStep(e)
    \/ UiRest

(* The server's tasks and the browser's own work are always run again.     *)
UiFair ==
    /\ WF_uiVars(FollowState) /\ WF_uiVars(Subscribed) /\ WF_uiVars(StreamEvent)
    /\ WF_uiVars(Reconnect)
    /\ WF_uiVars(FetchDomain \/ FetchWhole \/ JobDone)

UiSpec == UiInit /\ [][UiNext]_uiVars /\ UiFair

----------------------------------------------------------------------------
(* Properties                                                               *)

(* The types of the state.                                                  *)
UiTypeOK ==
    /\ uiStream \in {"none", "opening", "open"}
    /\ uiSnap.rev \in 0..Now /\ uiBase \in [Editors -> 0..Now]
    /\ Len(uiBus) <= UiCap /\ Len(uiPipe) <= UiCap
    /\ \A e \in Editors : uiSave[e].at \in {"idle", "sent", "accepted", "refused", "reloading"}

(* The document shown is one the device had: a document assembled from     *)
(* domains read while other sessions commit never carries one revision's   *)
(* number and another one's values (store.ts apply).                       *)
ShownWasCommitted == uiSnap.rev # 0 => uiSnap.doc = uiHist[uiSnap.rev]

(* When the page has come to rest on a working stream, it shows every       *)
(* change that was announced there, however many events were dropped on the *)
(* way, unless a fetch failed (sse.rs lag to resync, store.ts apply's gap). *)
AnnouncedIsShown ==
    uiStream = "open" /\ uiPipe = <<>> /\ uiQueue = <<>> /\ ~uiLost => uiSnap.rev >= uiTold

(* A save of the discovery form never replaces a value of another session  *)
(* that the form was not showing, unless a failed reload had left an       *)
(* earlier save of this page out of the snapshot (native-page.ts           *)
(* editRevisions with the device's compare-and-set).                       *)
ReplacesOnlySeen(e) ==
    uiSave[e].at = "sent" /\ uiSave'[e].at = "accepted" /\ ~uiStale'
        => LET f == Chain(e)[uiSave[e].k] IN uiHist[Now][f] \in uiOthers => uiHist[Now][f] = uiSave[e].seen[f]
SaveReplacesSeen == [][ReplacesOnlySeen("discovery")]_uiVars

(* "Each editor keeps the revision its form was filled from; a save is     *)
(* refused with revision_conflict if the document moved on in the          *)
(* meantime" (native-page.ts), for the decoder form.                       *)
ConflictRefused == [][ReplacesOnlySeen("decoder")]_uiVars

(* "Subscribe first so changes during the initial read are not lost"       *)
(* (store.ts start): the views catch up with every change, unless a fetch  *)
(* failed.                                                                 *)
NoChangeLost == []<>(uiSnap.rev = Now \/ uiLost)

(* What the page promises to who looks at it and saves from it (store.ts,   *)
(* native-page.ts).                                                         *)
UiPromises ==
    []UiTypeOK /\ []ShownWasCommitted /\ []AnnouncedIsShown /\ SaveReplacesSeen
=============================================================================
