------------------------------- MODULE MCOutputs -------------------------------
(*
  The threads of an output worker, as to what they get done.

  They share no state in the model: `part` names the one that takes steps, the
  others stay in an initial state.
*)
EXTENDS Receiver, Display, OutputWorker

VARIABLE part

Parts == {"receiver", "display", "worker"}

mcVars == <<rcvVars, dispVars, wkVars, part>>

Init ==
    /\ part \in Parts
    /\ RcvInit /\ DispInit /\ WkInit
    /\ part # "receiver" => server = NoName /\ rcvSpent.setting = RcvSettings
    /\ part # "worker" => wdisplay

Next ==
    /\ UNCHANGED part
    /\ \/ part = "receiver" /\ RcvNext
             /\ UNCHANGED <<dispVars, wkVars>>
       \/ part = "display" /\ DispNext
             /\ UNCHANGED <<rcvVars, wkVars>>
       \/ part = "worker" /\ WkNext
             /\ UNCHANGED <<rcvVars, dispVars>>

FairSpec ==
    /\ Init /\ [][Next]_mcVars
    /\ \/ part = "receiver" /\ RcvFair
       \/ part = "display" /\ DispFair
       \/ part = "worker" /\ WkFair

\* What they get done: the receiver is on what was asked of it, a source's mode is
\* matched, and a route or a lost display is followed up.
OutputsGetDone == ReceiverGetsDone /\ SourceIsMatched /\ SourceSettles
================================================================================
