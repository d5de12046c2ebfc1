------------------------------- MODULE MCSafety --------------------------------
(*
  The parts whose promises are safety alone, and the safety of the receiver, of
  the display and of the finder on other instances than those of MCOutputs and
  MCHost.

  They share no state in the model: `part` names the one that takes steps, the
  others stay in an initial state.
*)
EXTENDS UiStore, Backup, PluginFiles, NetworkRules, VideoDelay, BackendFiles,
        Receiver, Display, Finder

VARIABLE part

Parts == {"ui", "backup", "packages", "rules", "delay", "files", "receiver",
          "display", "finder"}

mcVars == <<uiVars, bkVars, pfVars, nrVars, vdVars, bfVars, rcvVars, dispVars, finVars, part>>

Init ==
    /\ part \in Parts
    /\ UiInit /\ BkInit /\ PfInit /\ NrInit /\ VdInit /\ BfInit /\ RcvInit /\
       DispInit /\ FinInit
    /\ part # "packages" => fFeed.serves = (CHOOSE c \in PfContents : TRUE)
    /\ part # "delay" => vdBudget = (CHOOSE n \in VdMemory : TRUE)
    /\ part # "files" => bKind = "ifupdown" /\ bFile[<<"pin", 0>>] = <<<<"DHCP", 1>>>>
    /\ part # "receiver" => server = NoName /\ rcvSpent = (CHOOSE b \in Budgets : TRUE)
    /\ part # "finder" => fSees = [s \in FinSettings |-> 0]

Next ==
    /\ UNCHANGED part
    /\ \/ part = "ui" /\ UiNext
             /\ UNCHANGED <<bkVars, pfVars, nrVars, vdVars, bfVars, rcvVars, dispVars, finVars>>
       \/ part = "backup" /\ BkNext
             /\ UNCHANGED <<uiVars, pfVars, nrVars, vdVars, bfVars, rcvVars, dispVars, finVars>>
       \/ part = "packages" /\ PfNext
             /\ UNCHANGED <<uiVars, bkVars, nrVars, vdVars, bfVars, rcvVars, dispVars, finVars>>
       \/ part = "rules" /\ NrNext
             /\ UNCHANGED <<uiVars, bkVars, pfVars, vdVars, bfVars, rcvVars, dispVars, finVars>>
       \/ part = "delay" /\ VdNext
             /\ UNCHANGED <<uiVars, bkVars, pfVars, nrVars, bfVars, rcvVars, dispVars, finVars>>
       \/ part = "files" /\ BfNext
             /\ UNCHANGED <<uiVars, bkVars, pfVars, nrVars, vdVars, rcvVars, dispVars, finVars>>
       \/ part = "receiver" /\ RcvNext
             /\ UNCHANGED <<uiVars, bkVars, pfVars, nrVars, vdVars, bfVars, dispVars, finVars>>
       \/ part = "display" /\ DispNext
             /\ UNCHANGED <<uiVars, bkVars, pfVars, nrVars, vdVars, bfVars, rcvVars, finVars>>
       \/ part = "finder" /\ FinNext
             /\ UNCHANGED <<uiVars, bkVars, pfVars, nrVars, vdVars, bfVars, rcvVars, dispVars>>

Spec == Init /\ [][Next]_mcVars
================================================================================
