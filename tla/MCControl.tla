------------------------------- MODULE MCControl -------------------------------
(*
  The control process beside its store, and the audio engine that it configures:
  the supervisor, the login gate, the state actor with its applier, and the engine.

  They share no state in the model: `part` names the one that takes steps, the
  others stay in an initial state.
*)
EXTENDS Supervisor, Sessions, Applier, AudioGraph

VARIABLE part

Parts == {"supervisor", "sessions", "applier", "audio"}

mcVars == <<supVars, sesVars, aplVars, auVars, part>>

Init ==
    /\ part \in Parts
    /\ SupInit /\ SesInit /\ AplInit /\ AuInit
    /\ part # "supervisor" => supDoc.source = [o \in Outputs |-> CHOOSE s \in Sources : TRUE]
    /\ part # "sessions" => sesFile.pw = (CHOOSE p \in Passwords : TRUE) /\ sesFile.algo = "scrypt"
    /\ part # "audio" => aHeap[1].settings.version = 1 /\ aHeap[1].settings.pcm.s = CHOOSE q \in AuPcms : TRUE

Next ==
    /\ UNCHANGED part
    /\ \/ part = "supervisor" /\ SupNext
             /\ UNCHANGED <<sesVars, aplVars, auVars>>
       \/ part = "sessions" /\ SesNext
             /\ UNCHANGED <<supVars, aplVars, auVars>>
       \/ part = "applier" /\ AplNext
             /\ UNCHANGED <<supVars, sesVars, auVars>>
       \/ part = "audio" /\ AuNext
             /\ UNCHANGED <<supVars, sesVars, aplVars>>

FairSpec ==
    /\ Init /\ [][Next]_mcVars
    /\ \/ part = "supervisor" /\ SupFair
       \/ part = "sessions" /\ SesFair
       \/ part = "applier" /\ AplFair
       \/ part = "audio" /\ AuFair

(* What the loops bring about, whatever was lost, refused or late before: a    *)
(* lost source is tried again (supervisor.rs `run`), the login gate is left    *)
(* (auth.rs), the replays reach the accepted document (ndimon-state lib.rs     *)
(* `replay`), and the calls of the audio engine end and its devices are played *)
(* again when they are back (AudioEngine.cpp).                                 *)
ControlGetsDone == LostSourceRetried /\ GateReleased /\ ReplayConverges /\ AudioComesBack
================================================================================
