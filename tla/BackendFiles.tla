---------------------------- MODULE BackendFiles ----------------------------
(* Changes of the network on a host that systemd-networkd, Netplan or         *)
(* ifupdown runs (backend/networkd.rs, netplan.rs, ifupdown.rs and mod.rs,    *)
(* called from apply and recover_locked of engine.rs).  There the network is  *)
(* what a directory of files says: which file counts for an interface depends *)
(* on the others, and files of the operator may appear at any time.  The      *)
(* engine adopts the configuration it finds, writes files of its own that     *)
(* have to win, checks that they did, and puts everything back if not.        *)
(* The port is interface 0; interface 1 is a VLAN on it.                      *)
EXTENDS Naturals, Sequences, SequencesExt, FiniteSets

CONSTANTS BfChanges,  \* changes that are planned
          BfEdits,    \* files the operator writes or removes
          BfFaults    \* failing commands and deaths of a job

VARIABLES bKind,  \* the backend
          bFile,  \* the text of each file
          bHost,  \* addresses, file in use, ifupdown's state, and the VLAN link
          bDoc,   \* the committed document, and the file it was adopted from
          bPlan,  \* the plan in the journal
          bAt,    \* where the job is
          bLeft   \* the bounds still unspent

bfVars == <<bKind, bFile, bHost, bDoc, bPlan, bAt, bLeft>>
-----------------------------------------------------------------------------
BfIfs == {0, 1}
\* What an interface gets: {} nothing, {0} a lease, {n} the address n.  The
\* effect of a setting that no row of a document can express is BfOdd.
BfOdd == 3
BfRows == {{}, {0}, {1}, {2}}

\* Settings of a file, in its order.  An empty `Address=` drops those before it.
BfSettings == {<<"DHCP", 0>>, <<"DHCP", 1>>, <<"Address", 0>>, <<"Address", 1>>,
               <<"Address", 2>>, <<"Rule", 0>>}
BfAbsent == <<<<"absent", 0>>>>

\* The files.  `early` and `late` are the operator's, for the port, and sort
\* before and after ours; `old` is 05-ndimon-<port>.network; a `.d` is a drop-in;
\* `own` is the definition for Netplan.  Under Netplan `late` and `late.d` are
\* the YAML sources; under ifupdown `pin` is a stanza and `early` a second one.
BfPaths == {<<"early", 0>>, <<"old", 0>>, <<"late", 0>>, <<"late.d", 0>>, <<"own", 0>>}
           \cup ({"pin", "pin.d"} \X BfIfs)
There(path) == bFile[path] # BfAbsent
TextOf(path) == IF There(path) THEN bFile[path] ELSE <<>>

\* What the settings do, in the order they are read.
Settled(text) ==
    FoldLeft(LAMBDA got, s :
               CASE s[1] = "DHCP" -> [got EXCEPT !.dhcp = s[2] = 1]
                 [] s[1] = "Address" /\ s[2] = 0 -> [got EXCEPT !.addr = <<>>]
                 [] s[1] = "Address" /\ s[2] # 0 -> [got EXCEPT !.addr = Append(@, s[2])]
                 [] OTHER -> [got EXCEPT !.odd = TRUE],
             [dhcp |-> FALSE, addr |-> <<>>, odd |-> FALSE], text)

\* What the daemon makes of a configuration.
Effect(text) ==
    LET got == Settled(text)
    IN ToSet(got.addr) \cup (IF got.dhcp THEN {0} ELSE {}) \cup (IF got.odd THEN {BfOdd} ELSE {})
-----------------------------------------------------------------------------
(* Adoption: the row that a configuration stands for, {} when refused.        *)

\* networkd::parse: nothing is dropped that the row could not give back.
ParseNetworkd(text) ==
    LET got == Settled(text)
    IN IF got.odd THEN {}
       ELSE IF got.dhcp THEN IF got.addr = <<>> THEN {0} ELSE {}
       ELSE IF Len(got.addr) = 1 THEN {got.addr[1]} ELSE {}

\* netplan::parse, of the definition that `netplan get` merged from the sources.
Merged == TextOf(<<"late", 0>>) \o TextOf(<<"late.d", 0>>) \o TextOf(<<"own", 0>>)
ParseNetplan(text) ==
    LET addresses == SelectSeq(text, LAMBDA s : s[1] = "Address")
        dhcp == SelectSeq(text, LAMBDA s : s[1] = "DHCP")
        on == dhcp # <<>> /\ Last(dhcp)[2] = 1
    IN IF \E i \in DOMAIN text : text[i][1] = "Rule" \/ text[i] = <<"Address", 0>> THEN {}
       ELSE IF on THEN IF addresses = <<>> THEN {0} ELSE {}
       ELSE IF Len(addresses) = 1 THEN {addresses[1][2]} ELSE {}

\* adopt_ifupdown: one stanza, in our file; every key at most once.
AdoptIfupdown(text) ==
    LET addresses == SelectSeq(text, LAMBDA s : s[1] = "Address")
    IN IF text = <<>> \/ There(<<"early", 0>>)
          \/ (\E i \in DOMAIN text : text[i][1] = "Rule" \/ text[i] = <<"Address", 0>>)
          \/ Len(SelectSeq(text, LAMBDA s : s[1] = "DHCP")) # 1 \/ text[1][1] # "DHCP"
       THEN {}
       ELSE IF text[1][2] = 1 THEN IF addresses = <<>> THEN {0} ELSE {}
       ELSE IF Len(addresses) = 1 THEN {addresses[1][2]} ELSE {}

\* The file in which networkd finds the configuration of an interface: the
\* first that matches, in the order of the names.
Selected(i) ==
    CASE There(<<"early", 0>>) -> "early"
      [] ~There(<<"early", 0>>) /\ There(<<"pin", i>>) -> "pin"
      [] ~There(<<"early", 0>>) /\ ~There(<<"pin", i>>) /\ i = 0 /\ There(<<"old", 0>>) -> "old"
      [] OTHER -> IF i = 0 THEN "late" ELSE "none"

\* effective_networkd: a file, and then its drop-ins.
Effective(name, i) ==
    CASE name = "late" -> IF bKind = "netplan" THEN Merged
                          ELSE TextOf(<<"late", 0>>) \o TextOf(<<"late.d", 0>>)
      [] name = "pin" -> TextOf(<<"pin", i>>) \o TextOf(<<"pin.d", i>>)
      [] name \in {"early", "old"} -> TextOf(<<name, 0>>)
      [] OTHER -> <<>>

\* adopt_known: the row of the port, and where it was found.
Source == IF bKind = "ifupdown" THEN "pin" ELSE bHost.sel[0]
Adopted ==
    IF Cardinality(bHost.live[0]) > 1 \/ bHost.link THEN {}
    ELSE CASE bKind = "ifupdown" -> AdoptIfupdown(TextOf(<<"pin", 0>>))
           [] bKind = "netplan" /\ Source = "late" -> ParseNetplan(Merged)
           [] OTHER -> ParseNetworkd(Effective(Source, 0))
-----------------------------------------------------------------------------
NoBfPlan == [old |-> [i \in BfIfs |-> {}], new |-> [i \in BfIfs |-> {}], owned |-> FALSE,
             source |-> "none", read |-> <<>>, files |-> <<>>, touched |-> FALSE]
BfIdle == [step |-> "idle", i |-> 1]

BfTypeOK ==
    /\ bKind \in {"networkd", "netplan", "ifupdown"}
    /\ DOMAIN bFile = BfPaths
    /\ \A path \in BfPaths : ToSet(bFile[path]) \subseteq BfSettings \cup ToSet(BfAbsent)
    /\ bHost.live \in [BfIfs -> SUBSET (0 .. BfOdd)] /\ bHost.link \in BOOLEAN
    /\ bHost.up \subseteq BfIfs
    /\ bHost.sel \in [BfIfs -> {"early", "pin", "old", "late", "none"}]
    /\ bDoc.rows \in [BfIfs -> BfRows] /\ bDoc.owned \in BOOLEAN
    /\ bPlan.old \in [BfIfs -> BfRows] /\ bPlan.new \in [BfIfs -> BfRows]
    /\ bAt.step \in {"idle", "staged", "down", "write", "activate", "links", "ready", "applied",
                     "redown", "restore", "reactivate", "relinks", "verify"}
    /\ bLeft \in [changes : 0 .. BfChanges, edits : 0 .. BfEdits, faults : 0 .. BfFaults]

\* The host before the engine: configured by the operator, with a main file, a
\* drop-in of up to two settings, and perhaps the file of an older release.
BfMain == {<<<<"DHCP", 1>>>>, <<<<"DHCP", 0>>, <<"Address", 1>>>>}
BfDropIns == {BfAbsent} \cup {<<s>> : s \in BfSettings} \cup {<<s, t>> : s, t \in BfSettings}

BfInit ==
    \E kind \in {"networkd", "netplan", "ifupdown"}, main \in BfMain, more \in BfDropIns,
       old \in BfMain \cup {BfAbsent} :
       LET text == main \o (IF more = BfAbsent THEN <<>> ELSE more)
           kept == IF old = BfAbsent THEN text ELSE old
       IN /\ kind # "networkd" => old = BfAbsent
          /\ kind # "networkd" => more = BfAbsent \/ <<"Address", 0>> \notin ToSet(more)
          /\ more = BfAbsent \/ old = BfAbsent
          /\ bKind = kind
          /\ bFile = [path \in BfPaths |->
                        CASE kind = "ifupdown" /\ path = <<"pin", 0>> -> text
                          [] kind # "ifupdown" /\ path = <<"late", 0>> -> main
                          [] kind # "ifupdown" /\ path = <<"late.d", 0>> -> more
                          [] kind # "ifupdown" /\ path = <<"old", 0>> -> old
                          [] OTHER -> BfAbsent]
          /\ bHost = [live |-> [i \in BfIfs |-> IF i = 0 THEN Effect(kept) ELSE {}],
                      sel |-> [i \in BfIfs |-> IF i = 1 \/ kind = "ifupdown" THEN "none"
                                               ELSE IF old = BfAbsent THEN "late" ELSE "old"],
                      up |-> IF kind = "ifupdown" THEN {0} ELSE {}, link |-> FALSE]
          /\ bDoc = [rows |-> [i \in BfIfs |-> {}], owned |-> FALSE, source |-> "none"]
          /\ bPlan = NoBfPlan /\ bAt = BfIdle
          /\ bLeft = [changes |-> BfChanges, edits |-> BfEdits, faults |-> BfFaults]

BfTo(step) == bAt' = [step |-> step, i |-> 1]
BfSame == UNCHANGED <<bKind, bDoc, bPlan, bLeft>>
Named(rows) == {i \in BfIfs : i = 0 \/ rows[i] # {}}
-----------------------------------------------------------------------------
(* Planning.                                                                  *)

\* The text of our file for a row (address, entry, and the stanza of ifupdown).
Rendered(row) ==
    IF row = {0} THEN <<<<"DHCP", 1>>>>
    ELSE IF row = {} THEN <<<<"DHCP", 0>>>>
    ELSE <<<<"DHCP", 0>>, <<"Address", CHOOSE a \in row : TRUE>>>>

\* networkd_drift, ifupdown_drift: files that would win over ours, or alter them.
Blocked(rows) ==
    \/ There(<<"early", 0>>)
    \/ bKind # "ifupdown" /\ \E i \in Named(rows) : There(<<"pin", i>>) /\ There(<<"pin.d", i>>)

\* add: a file that is already what it should be is no change.
Change(path, after) ==
    IF bFile[path] = after THEN <<>> ELSE <<[path |-> path, before |-> bFile[path], after |-> after]>>

\* render_networkd: our file of every interface, none for a VLAN that goes.  The
\* file of an older release goes only if it is the one that was adopted.
OldFile(source) == IF source = "old" THEN Change(<<"old", 0>>, BfAbsent) ELSE <<>>
RenderNetworkd(rows, source) ==
    Change(<<"pin", 0>>, Rendered(rows[0]))
    \o Change(<<"pin", 1>>, IF rows[1] # {} THEN Rendered(rows[1]) ELSE BfAbsent)
    \o OldFile(source)

\* render_netplan: and the sources lose their addresses, which Netplan would
\* merge with those of our definition.
Cleared(path) == IF TextOf(path) = <<>> THEN <<>> ELSE Change(path, <<>>)
RenderNetplan(rows, source) ==
    RenderNetworkd(rows, source) \o Cleared(<<"late", 0>>) \o Cleared(<<"late.d", 0>>)
    \o Change(<<"own", 0>>, Rendered(rows[0]))

\* render_ifupdown: the stanza of the port, and those of the VLANs.
RenderIfupdown(rows) ==
    Change(<<"pin", 0>>, Rendered(rows[0]))
    \o Change(<<"pin", 1>>, IF rows[1] # {} THEN Rendered(rows[1]) ELSE BfAbsent)

FilesOf(rows, source) ==
    CASE bKind = "networkd" -> RenderNetworkd(rows, source)
      [] bKind = "netplan" -> RenderNetplan(rows, source)
      [] OTHER -> RenderIfupdown(rows)

\* Does the host run on what its files say?  (History: the engine cannot tell.)
Loaded == bKind = "ifupdown" \/ (/\ bHost.sel[0] = Selected(0)
                                 /\ bHost.live[0] = Effect(Effective(Selected(0), 0)))

\* plan, for the committed document or for what is adopted.
PlanFiles(new) ==
    LET old == IF bDoc.owned THEN bDoc.rows ELSE [i \in BfIfs |-> IF i = 0 THEN Adopted ELSE {}]
        source == IF bDoc.owned THEN bDoc.source ELSE Source
    IN /\ bAt.step = "idle" /\ bLeft.changes > 0
       /\ bDoc.owned \/ Adopted # {}
       /\ new # old /\ (new[0] # {} \/ new[1] # {})
       /\ bHost.link => old[1] # {}                                    \* check_links
       /\ ~Blocked(new)
       /\ bPlan' = [old |-> old, new |-> new, owned |-> bDoc.owned, source |-> source,
                    read |-> IF bDoc.owned THEN <<>> ELSE Effective(Source, 0),
                    files |-> FilesOf(new, source), touched |-> ~Loaded]
       /\ bLeft' = [bLeft EXCEPT !.changes = @ - 1]
       /\ BfTo("staged") /\ UNCHANGED <<bKind, bFile, bHost, bDoc>>

\* check_plan: nothing has changed that the plan replaces, and nothing competes.
CheckFiles ==
    /\ bAt.step = "staged"
    /\ IF /\ \A c \in ToSet(bPlan.files) : bFile[c.path] = c.before
          /\ bHost.link => bPlan.old[1] # {}
          /\ ~Blocked(bPlan.new)
       THEN BfTo("down") /\ UNCHANGED bPlan
       ELSE BfTo("idle") /\ bPlan' = NoBfPlan
    /\ UNCHANGED <<bKind, bFile, bHost, bDoc, bLeft>>
-----------------------------------------------------------------------------
(* The daemons.                                                               *)

\* networkctl reload, reconfigure: the file that counts now says what there is.
Reconfigured(host, names) ==
    [host EXCEPT !.sel = [i \in BfIfs |-> IF i \in names THEN Selected(i) ELSE @[i]],
                 !.live = [i \in BfIfs |-> IF i \in names THEN Effect(Effective(Selected(i), i)) ELSE @[i]],
                 !.link = @ \/ 1 \in names]

\* ifdown: takes away what the stanza gave, if the interface counts as up.
IfDown(host, i, force) ==
    IF ~force /\ i \notin host.up THEN host
    ELSE [host EXCEPT !.live[i] = @ \ Effect(TextOf(<<"pin", i>>)), !.up = @ \ {i},
                      !.link = IF i = 1 /\ There(<<"pin", 1>>) THEN FALSE ELSE @]

\* ifup: does nothing for an interface that counts as up.
IfUp(host, i) ==
    IF i \in host.up THEN host
    ELSE [host EXCEPT !.live[i] = @ \cup Effect(TextOf(<<"pin", i>>)), !.up = @ \cup {i},
                      !.link = @ \/ i = 1]

\* remove_links: the VLAN that the other document has and this one has not.
RemovedLinks(host, from, rows) ==
    IF from[1] # {} /\ rows[1] = {} THEN [host EXCEPT !.link = FALSE, !.live[1] = {}, !.sel[1] = "none"]
    ELSE host
-----------------------------------------------------------------------------
(* Applying: the interfaces of ifupdown go down while the files still say how *)
(* they came up; then the files are replaced one by one.                      *)

Downed(rows, force) ==
    LET vlan == IF rows[1] # {} THEN IfDown(bHost, 1, force) ELSE bHost
    IN IfDown(vlan, 0, force)

DownFirst == IF bKind = "ifupdown" THEN Downed(bPlan.old, FALSE) ELSE bHost
Deconfigure ==
    /\ bAt.step = "down"
    /\ bHost' = DownFirst
    /\ BfTo("write") /\ UNCHANGED bFile /\ BfSame

WriteFile ==
    /\ bAt.step = "write" /\ bAt.i <= Len(bPlan.files)
    /\ bFile' = [bFile EXCEPT ![bPlan.files[bAt.i].path] = bPlan.files[bAt.i].after]
    /\ bAt' = [bAt EXCEPT !.i = @ + 1]
    /\ UNCHANGED bHost /\ BfSame

FilesWritten ==
    /\ bAt.step = "write" /\ bAt.i > Len(bPlan.files)
    /\ BfTo("activate") /\ UNCHANGED <<bFile, bHost>> /\ BfSame

\* activate, of the candidate or in a recovery.  ifup takes one interface at a
\* time; the links that have to go are removed after it.
Activated(rows, next) ==
    /\ IF bKind # "ifupdown"
       THEN bHost' = Reconfigured(bHost, Named(rows)) /\ BfTo(next)
       ELSE /\ bHost' = IF bAt.i - 1 \in Named(rows) THEN IfUp(bHost, bAt.i - 1) ELSE bHost
            /\ IF bAt.i = 1 THEN bAt' = [bAt EXCEPT !.i = 2] ELSE BfTo(next)
    /\ UNCHANGED bFile /\ BfSame

ActivateFiles == bAt.step = "activate" /\ Activated(bPlan.new, "links")
RemoveVlan ==
    /\ bAt.step = "links"
    /\ bHost' = RemovedLinks(bHost, bPlan.old, bPlan.new)
    /\ BfTo("ready") /\ UNCHANGED bFile /\ BfSame

\* verify_addresses: one address for every row, the one it names; none on a port
\* without a row; and the file in use is ours (or the one that was adopted).
AnyFile(rows, owned, source) == TRUE    \* mutant of InUse
InUse(rows, owned, source) ==
    IF bKind = "ifupdown" THEN ~owned \/ (~There(<<"early", 0>>) /\ Named(rows) \subseteq bHost.up)
    ELSE IF owned THEN \A i \in Named(rows) : bHost.sel[i] = "pin"
    ELSE bHost.sel[0] = source
RowsReady(rows, owned, source) ==
    /\ \A i \in BfIfs : rows[i] # {} => Cardinality(bHost.live[i]) = 1
                                        /\ (rows[i] = {0} \/ bHost.live[i] = rows[i])
    /\ rows[0] = {} => bHost.live[0] = {}
    /\ InUse(rows, owned, source)

Verify ==
    /\ bAt.step = "ready"
    /\ IF RowsReady(bPlan.new, TRUE, "pin") THEN BfTo("applied") ELSE BfTo("redown")
    /\ UNCHANGED <<bFile, bHost>> /\ BfSame

\* confirm, or the window closes.
KeepFiles ==
    /\ bAt.step = "applied"
    /\ bDoc' = [rows |-> bPlan.new, owned |-> TRUE, source |-> bPlan.source]
    /\ bPlan' = NoBfPlan /\ BfTo("idle")
    /\ UNCHANGED <<bKind, bFile, bHost, bLeft>>
ExpireFiles == bAt.step = "applied" /\ BfTo("redown") /\ UNCHANGED <<bFile, bHost>> /\ BfSame
-----------------------------------------------------------------------------
(* recover_locked, from the journal, as often as it takes.                    *)

DownAgain == IF bKind = "ifupdown" THEN Downed(bPlan.new, TRUE) ELSE bHost
ReDeconfigure ==
    /\ bAt.step = "redown"
    /\ bHost' = DownAgain
    /\ BfTo("restore") /\ UNCHANGED bFile /\ BfSame

\* The files get their images back, in reverse order.
RestoreFile ==
    /\ bAt.step = "restore" /\ bAt.i <= Len(bPlan.files)
    /\ LET c == bPlan.files[Len(bPlan.files) + 1 - bAt.i]
       IN bFile' = [bFile EXCEPT ![c.path] = c.before]
    /\ bAt' = [bAt EXCEPT !.i = @ + 1]
    /\ UNCHANGED bHost /\ BfSame

FilesRestored ==
    /\ bAt.step = "restore" /\ bAt.i > Len(bPlan.files)
    /\ BfTo("reactivate") /\ UNCHANGED <<bFile, bHost>> /\ BfSame

ReactivateFiles == bAt.step = "reactivate" /\ Activated(bPlan.old, "relinks")
LinksGo == RemovedLinks(bHost, bPlan.new, bPlan.old)
RemoveVlanAgain ==
    /\ bAt.step = "relinks"
    /\ bHost' = LinksGo
    /\ BfTo("verify") /\ UNCHANGED bFile /\ BfSame

VerifyOld ==
    /\ bAt.step = "verify"
    /\ IF RowsReady(bPlan.old, bPlan.owned, bPlan.source)
       THEN BfTo("idle") /\ bPlan' = NoBfPlan ELSE BfTo("redown") /\ UNCHANGED bPlan
    /\ UNCHANGED <<bKind, bFile, bHost, bDoc, bLeft>>

\* A command fails or the job dies: a change that was only staged is dropped,
\* any other is recovered by the guard.
JobBreaks ==
    /\ bAt.step \notin {"idle", "applied"} /\ bLeft.faults > 0
    /\ bLeft' = [bLeft EXCEPT !.faults = @ - 1]
    /\ IF bAt.step = "staged" THEN BfTo("idle") /\ bPlan' = NoBfPlan
       ELSE BfTo("redown") /\ UNCHANGED bPlan
    /\ UNCHANGED <<bKind, bFile, bHost, bDoc>>
-----------------------------------------------------------------------------
\* The operator writes or removes a file of his own.
OperatorWrites(path, text) ==
    /\ bLeft.edits > 0 /\ bFile[path] # text
    /\ bFile' = [bFile EXCEPT ![path] = text]
    /\ bPlan' = [bPlan EXCEPT !.touched = @ \/ bAt.step # "idle"]
    /\ bLeft' = [bLeft EXCEPT !.edits = @ - 1]
    /\ UNCHANGED <<bKind, bHost, bDoc, bAt>>

BfJob == CheckFiles \/ Deconfigure \/ WriteFile \/ FilesWritten \/ ActivateFiles \/ RemoveVlan
         \/ Verify \/ ReDeconfigure \/ RestoreFile \/ FilesRestored \/ ReactivateFiles \/ RemoveVlanAgain
         \/ VerifyOld
BfOperator ==
    \/ OperatorWrites(<<"early", 0>>, <<<<"Address", 2>>>>) \/ OperatorWrites(<<"early", 0>>, BfAbsent)
    \/ bKind # "ifupdown" /\ OperatorWrites(<<"old", 0>>, <<<<"DHCP", 1>>>>)
    \/ bKind # "ifupdown" /\ OperatorWrites(<<"late", 0>>, <<<<"DHCP", 0>>, <<"Address", 2>>>>)
    \/ bKind # "ifupdown" /\ OperatorWrites(<<"pin.d", 0>>, <<<<"DHCP", 0>>, <<"Address", 2>>>>)
BfNext ==
    \/ \E port \in {{}, {0}, {1}}, vlan \in {{}, {2}} :
          PlanFiles([i \in BfIfs |-> IF i = 0 THEN port ELSE vlan])
    \/ BfJob \/ KeepFiles \/ ExpireFiles \/ JobBreaks \/ BfOperator
-----------------------------------------------------------------------------
\* A configuration that is adopted is adopted whole: the row of the document,
\* rendered again, gives the port exactly what the files gave it that were read.
\* Anything else would drop an address or a rule of the operator with the first
\* change (parse of the three backends, "discovery may not silently truncate").
AdoptedIsWhole ==
    bAt.step # "idle" /\ ~bPlan.owned => Effect(Rendered(bPlan.old[0])) = Effect(bPlan.read)

\* When a change counts as applied, every interface has what the candidate says,
\* whatever files appeared since the plan was checked; only a drop-in on our own
\* file can still alter it.  Under Netplan the merged definition says the same,
\* unless the operator wrote one meanwhile.
AppliedIsOurs ==
    [][bAt.step = "ready" /\ bAt'.step = "applied" =>
         /\ \A i \in BfIfs : bHost.live[i] = bPlan.new[i] \/ There(<<"pin.d", i>>)
         /\ bKind = "netplan" /\ ~bPlan.touched => Effect(Merged) = bPlan.new[0]]_bfVars

\* At rest, after a commit as after a recovery, our files and the VLAN link are
\* those of the committed document: a leftover would be configured at the next
\* boot, or refuse the next change as foreign_vlan.
OursAtRest ==
    bAt.step = "idle" /\ bKind # "ifupdown" =>
        /\ \A i \in BfIfs : There(<<"pin", i>>) <=> bDoc.owned /\ i \in Named(bDoc.rows)
        /\ bHost.link <=> bDoc.rows[1] # {}

\* Files that are not ours are only touched as far as they were adopted: the
\* addresses of Netplan's sources, and the file of an older release that the
\* port was adopted from.  A recovery gives them back.
ForeignUntouched ==
    [][bLeft'.edits = bLeft.edits =>
         \A path \in BfPaths : bFile'[path] # bFile[path] =>
             \/ path[1] \in {"pin", "own"}
             \/ bKind = "netplan" /\ path[1] \in {"late", "late.d"}
             \/ path[1] = "old" /\ bPlan.source = "old"]_bfVars

\* A change that nothing disturbs is applied: no address of the old network is
\* left to count against the new one.
UndisturbedApplies ==
    [][bAt.step = "ready" /\ bAt'.step = "redown" /\ bLeft'.faults = bLeft.faults =>
         bPlan.touched \/ There(<<"pin.d", 0>>)]_bfVars

\* A recovery that gets to its end finds the old network back, and is over: the
\* next one would do the same again.  Unless the operator changed files meanwhile.
RestoreEnds ==
    [][bAt.step = "verify" /\ bAt'.step = "redown" /\ bLeft'.faults = bLeft.faults =>
         bPlan.touched]_bfVars

\* What a change of the files of networkd, Netplan or ifupdown promises.
FilesPromises ==
    /\ []BfTypeOK /\ []AdoptedIsWhole /\ []OursAtRest /\ AppliedIsOurs
    /\ ForeignUntouched /\ UndisturbedApplies /\ RestoreEnds
=============================================================================
