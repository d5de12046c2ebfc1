-------------------------------- MODULE MCHost ---------------------------------
(*
  The jobs that run as root, and the finder, which follows the network that they
  select: the transfer and import of the network, plugins, updates, NetworkManager
  and the finder.

  They share no state in the model: `part` names the one that takes steps, the
  others stay in an initial state.
*)
EXTENDS Handoff, Migration, PluginRuntime, Updates, NmProfiles, Finder

VARIABLE part

Parts == {"handoff", "migration", "runtime", "updates", "profiles", "finder"}

mcVars == <<handVars, migVars, prVars, upVars, nmVars, finVars, part>>

Init ==
    /\ part \in Parts
    /\ HandInit /\ MigInit /\ PrInit /\ UpInit /\ NmInit /\ FinInit
    /\ part # "migration" => sources = {"committed"} /\ live = "old" /\ unsound
    /\ part # "runtime" => ~pDoc.enabled
    /\ part # "profiles" => ~nNetplan
    /\ part # "finder" => fSees = [s \in FinSettings |-> 0]

Next ==
    /\ UNCHANGED part
    /\ \/ part = "handoff" /\ HandNext
             /\ UNCHANGED <<migVars, prVars, upVars, nmVars, finVars>>
       \/ part = "migration" /\ MigNext
             /\ UNCHANGED <<handVars, prVars, upVars, nmVars, finVars>>
       \/ part = "runtime" /\ PrNext
             /\ UNCHANGED <<handVars, migVars, upVars, nmVars, finVars>>
       \/ part = "updates" /\ UpNext
             /\ UNCHANGED <<handVars, migVars, prVars, nmVars, finVars>>
       \/ part = "profiles" /\ NmNext
             /\ UNCHANGED <<handVars, migVars, prVars, upVars, finVars>>
       \/ part = "finder" /\ FinNext
             /\ UNCHANGED <<handVars, migVars, prVars, upVars, nmVars>>

FairSpec ==
    /\ Init /\ [][Next]_mcVars
    /\ \/ part = "handoff" /\ HandFair
       \/ part = "migration" /\ MigFair
       \/ part = "runtime" /\ PrFair
       \/ part = "updates" /\ UpFair
       \/ part = "profiles" /\ NmFair
       \/ part = "finder" /\ FinFair

\* What they get done: a transfer and an import end, the processes of the plugins
\* follow the document, a configured release starts the stack, a change of
\* NetworkManager's connections is kept or restored, and the list that the finder
\* publishes becomes that of the selected network.
HostGetsDone ==
    /\ HandoffEnds /\ ImportFinishes /\ ProcessesFollow /\ ConfiguredComesUp /\ NmChangeEnds
    /\ ListIsCurrent
================================================================================
