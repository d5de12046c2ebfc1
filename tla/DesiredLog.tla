------------------------------ MODULE DesiredLog ------------------------------
(***************************************************************************)
(* What the desired-state store promises its readers: one published        *)
(* envelope that only moves forward.  A publication either advances the    *)
(* revision by exactly one and changes the ordinary domains or the network *)
(* decision, never both, or keeps the revision and changes only the plugin *)
(* job metadata (`StateFile::plugin_job`).                                 *)
(***************************************************************************)
EXTENDS Naturals

CONSTANT JobStates          \* the values of StateFile::plugin_job

VARIABLE pub                \* the envelope a reader of the store would load

Envelope == [rev : Nat,     \* StateFile::revision
             doc : Nat,     \* the transaction that last wrote the ordinary domains
             docrev : Nat,  \* domain_revisions of those domains
             net : Nat,     \* network_commit_job_id (with its section and metadata)
             netrev : Nat,  \* network_commit_revision
             job : JobStates]

Init == /\ pub \in Envelope
        /\ pub.docrev <= pub.rev
        /\ pub.netrev <= pub.rev

\* One transaction of the actor: a new document under the next revision.
CommitDocument ==
    pub' = [pub EXCEPT !.rev = pub.rev + 1, !.doc = pub'.doc,
                       !.docrev = pub.rev + 1, !.job = pub'.job]

\* One Keep of the network engine: a new decision under the next revision.
CommitNetwork ==
    pub' = [pub EXCEPT !.rev = pub.rev + 1, !.net = pub'.net, !.netrev = pub.rev + 1]

\* A reservation, acceptance or settlement of the plugin job.
SaveMetadata == pub' = [pub EXCEPT !.job = pub'.job]

Next == /\ CommitDocument \/ CommitNetwork \/ SaveMetadata
        /\ pub' \in Envelope

Spec == Init /\ [][Next]_pub
===============================================================================
