-------------------------------- MODULE Sessions --------------------------------
(***************************************************************************)
(* Logins, password changes and sessions of the control process.  A login  *)
(* waits for the authentication gate, hashes the password off the executor *)
(* against the record it read, may upgrade the record through privd, and   *)
(* binds the session to the stamp (digest) of the record.  The gate orders *)
(* only the process's own writers: a backup restore replaces the record at *)
(* any time, and a write privd was slow to acknowledge may land late.      *)
(***************************************************************************)
EXTENDS Naturals, Sequences, SequencesExt, FiniteSets

CONSTANTS
    Clients,       \* requests under way; each comes from an address of its own or not
    Addresses,     \* peers, after `source` has merged an IPv6 /64 or a mapped IPv4
    Passwords,     \* passwords ever set or presented
    SessionCap,    \* live sessions (64 in the code)
    PerAddress,    \* failures of a source before it has to wait (5 in the code)
    MaxWrites,     \* bound on records written
    MaxLogins      \* bound on requests that arrive

ASSUME SesAssumption ==
    /\ SessionCap \in Nat \ {0} /\ PerAddress \in Nat \ {0}
    /\ MaxWrites \in Nat /\ MaxLogins \in Nat

VARIABLES
    sesFile,      \* ndimon-auth.json: password, algorithm; `stamp` stands for its digest
    sesWrites,    \* records written so far: the next stamp
    sesLate,      \* records privd has not yet written although the caller gave up
    sesLive,      \* Sessions.entries, the least recently used first
    sesGate,      \* who holds auth_gate
    sesReq,       \* each request: where it is, what it presents, what it has read
    sesFailed,    \* failures of each address within the window
    sesWait,      \* must the address still wait since its last failure
    sesLogins     \* requests so far

sesVars == <<sesFile, sesWrites, sesLate, sesLive, sesGate, sesReq, sesFailed, sesWait,
             sesLogins>>

Algos == {"default", "scrypt", "argon2id"}
AuthRecord == [pw : Passwords, algo : Algos, stamp : 0 .. MaxWrites]
Session == [token : 1 .. MaxLogins, stamp : 0 .. MaxWrites, pw : Passwords]
Free == [at |-> "idle"]
UnreadRecord == [pw |-> CHOOSE p \in Passwords : TRUE, algo |-> "default", stamp |-> 0]
Steps == {"waiting", "hashing", "upgrading", "verified", "setting", "set"}
LoginRequest == [at : Steps, from : Addresses, pw : Passwords, new : {{}} \cup {{p} : p \in Passwords},
                 token : 1 .. MaxLogins, read : AuthRecord]

SesTypeOK ==
    /\ sesFile \in AuthRecord /\ sesWrites \in 0 .. MaxWrites
    /\ sesLate \subseteq AuthRecord
    /\ sesLive \in Seq(Session) /\ Len(sesLive) <= SessionCap
    /\ sesGate \in Clients \cup {"free"}
    /\ \A c \in Clients : sesReq[c] \in LoginRequest \cup {Free}
    /\ sesFailed \in [Addresses -> 0 .. PerAddress + 5]
    /\ sesWait \in [Addresses -> BOOLEAN]

-----------------------------------------------------------------------------
(* Sessions: `create` drops the least recently used one at the limit; `get`*)
(* drops a session of another record and moves a good one to the end.      *)

CreateSession(live, s) == Append(IF Len(live) >= SessionCap THEN Tail(live) ELSE live, s)

BoundToRecord(s) == s.stamp = sesFile.stamp

Entry(t) == {i \in 1 .. Len(sesLive) : sesLive[i].token = t}

Authenticated(t) == \E i \in Entry(t) : BoundToRecord(sesLive[i])

Lookup(t) ==
    IF Entry(t) = {} THEN sesLive
    ELSE LET i == CHOOSE j \in Entry(t) : TRUE
         IN  IF BoundToRecord(sesLive[i]) THEN Append(RemoveAt(sesLive, i), sesLive[i])
             ELSE RemoveAt(sesLive, i)

(* A request, as the guard sees it: is its path open, exempt (login,       *)
(* session status, network Keep) or protected; is the host name the        *)
(* device's own; may its method change state, and then, does Origin match  *)
(* Host; is the token a bearer's, or does it carry the CSRF token.         *)
WebRequest == [path : {"open", "exempt", "protected"}, host : BOOLEAN, mutates : BOOLEAN,
               origin : BOOLEAN, token : BOOLEAN]

Addressed(q) == (q.path # "open" => q.host) /\ (q.mutates => q.origin)

Admitted(t, q) ==
    /\ Addressed(q)
    /\ q.path = "protected" => Authenticated(t) /\ (q.mutates => q.token)

(* `guard`: host and origin are checked before the session is looked up, so*)
(* only a request that passes them touches the session.                    *)
Guarded(t, q) ==
    /\ Addressed(q) /\ Entry(t) # {}
    /\ sesLive' = Lookup(t)
    /\ UNCHANGED <<sesFile, sesWrites, sesLate, sesGate, sesReq, sesFailed, sesWait, sesLogins>>

Logout(t) ==
    /\ \E i \in Entry(t) : sesLive' = RemoveAt(sesLive, i)
    /\ UNCHANGED <<sesFile, sesWrites, sesLate, sesGate, sesReq, sesFailed, sesWait, sesLogins>>

-----------------------------------------------------------------------------
(* The limiter: only a source's own failures can refuse it.                *)

Limited(a) == sesFailed[a] >= PerAddress /\ sesWait[a]

CountFailure(a) ==
    /\ sesFailed' = [sesFailed EXCEPT ![a] = IF @ < PerAddress + 5 THEN @ + 1 ELSE @]
    /\ sesWait' = [sesWait EXCEPT ![a] = TRUE]

Succeeded(a) ==
    /\ sesFailed' = [sesFailed EXCEPT ![a] = 0]
    /\ sesWait' = [sesWait EXCEPT ![a] = FALSE]

Waited(a) ==
    /\ sesWait[a]
    /\ sesWait' = [sesWait EXCEPT ![a] = FALSE]
    /\ sesFailed' \in {sesFailed, [sesFailed EXCEPT ![a] = 0]}
    /\ UNCHANGED <<sesFile, sesWrites, sesLate, sesLive, sesGate, sesReq, sesLogins>>

-----------------------------------------------------------------------------
SesInit ==
    /\ sesFile \in {[pw |-> p, algo |-> a, stamp |-> 0] : p \in Passwords, a \in {"default", "scrypt"}}
    /\ sesWrites = 0 /\ sesLate = {} /\ sesLive = <<>> /\ sesGate = "free"
    /\ sesReq = [c \in Clients |-> Free]
    /\ sesFailed = [a \in Addresses |-> 0] /\ sesWait = [a \in Addresses |-> FALSE]
    /\ sesLogins = 0

(* A login, or a password change (`new`) by a client the guard has let in, *)
(* arrives; its source is not limited, and it waits for the gate.          *)
Arrive(c, a, p, new) ==
    /\ sesReq[c] = Free /\ sesLogins < MaxLogins
    /\ ~Limited(a)
    /\ new # {} => \E i \in 1 .. Len(sesLive) : BoundToRecord(sesLive[i])
    /\ sesLogins' = sesLogins + 1
    /\ sesReq' = [sesReq EXCEPT ![c] = [at |-> "waiting", from |-> a, pw |-> p, new |-> new,
                                        token |-> sesLogins + 1, read |-> UnreadRecord]]
    /\ UNCHANGED <<sesFile, sesWrites, sesLate, sesLive, sesGate, sesFailed, sesWait>>

(* Under the gate the source is checked again, then the record is read.    *)
Refused(c) ==
    /\ sesReq[c].at = "waiting" /\ sesGate = "free"
    /\ Limited(sesReq[c].from)
    /\ sesReq' = [sesReq EXCEPT ![c] = Free]
    /\ UNCHANGED <<sesFile, sesWrites, sesLate, sesLive, sesGate, sesFailed, sesWait, sesLogins>>

EnterGate(c) ==
    /\ sesReq[c].at = "waiting" /\ sesGate = "free"
    /\ ~Limited(sesReq[c].from)
    /\ sesGate' = c
    /\ sesReq' = [sesReq EXCEPT ![c].at = "hashing", ![c].read = sesFile]
    /\ UNCHANGED <<sesFile, sesWrites, sesLate, sesLive, sesFailed, sesWait, sesLogins>>

(* The request ends and the gate is released.                              *)
Leave(c) == sesReq' = [sesReq EXCEPT ![c] = Free] /\ sesGate' = "free"

(* The digest of the file against the one of the record that was read.     *)
Unchanged(c) == sesFile.stamp = sesReq[c].read.stamp

(* The hash is ready: wrong, read from a record since replaced, or right.  *)
Hashed(c) ==
    /\ sesReq[c].at = "hashing"
    /\ \/ /\ sesReq[c].pw # sesReq[c].read.pw
          /\ CountFailure(sesReq[c].from) /\ Leave(c)
       \/ /\ sesReq[c].pw = sesReq[c].read.pw
          /\ IF ~Unchanged(c) THEN Leave(c)
             ELSE /\ sesReq' = [sesReq EXCEPT ![c].at =
                        IF sesFile.algo = "scrypt" THEN "upgrading" ELSE "verified"]
                  /\ UNCHANGED sesGate
          /\ UNCHANGED <<sesFailed, sesWait>>
    /\ UNCHANGED <<sesFile, sesWrites, sesLate, sesLive, sesLogins>>

(* The record a step writes: the upgraded one, or that of the new password.*)
Written(c) ==
    [pw |-> IF sesReq[c].at = "upgrading" THEN sesReq[c].pw ELSE CHOOSE p \in sesReq[c].new : TRUE,
     algo |-> "argon2id", stamp |-> sesWrites + 1]

Writing(c) == sesReq[c].at \in {"upgrading", "setting"} /\ sesWrites < MaxWrites

WriteRecord(c) ==
    /\ Writing(c)
    /\ sesFile' = Written(c) /\ sesWrites' = sesWrites + 1
    /\ sesReq' = [sesReq EXCEPT ![c].at = IF @ = "upgrading" THEN "verified" ELSE "set",
                                ![c].read = Written(c)]
    /\ UNCHANGED <<sesLate, sesLive, sesGate, sesFailed, sesWait, sesLogins>>

(* privd does not answer within 10 s: the request fails, the write may     *)
(* have been refused or may still be carried out.                          *)
WriteTimeout(c) ==
    /\ sesReq[c].at \in {"upgrading", "setting"}
    /\ Leave(c)
    /\ \/ /\ sesWrites < MaxWrites
          /\ sesLate' = sesLate \cup {Written(c)} /\ sesWrites' = sesWrites + 1
       \/ UNCHANGED <<sesLate, sesWrites>>
    /\ UNCHANGED <<sesFile, sesLive, sesFailed, sesWait, sesLogins>>

LateWrite ==
    /\ \E r \in sesLate : sesFile' = r /\ sesLate' = sesLate \ {r}
    /\ UNCHANGED <<sesWrites, sesLive, sesGate, sesReq, sesFailed, sesWait, sesLogins>>

(* A backup restore replaces the record without the gate.                  *)
RestoreAuth(p, algo) ==
    /\ sesWrites < MaxWrites
    /\ sesWrites' = sesWrites + 1
    /\ sesFile' = [pw |-> p, algo |-> algo, stamp |-> sesWrites + 1]
    /\ UNCHANGED <<sesLate, sesLive, sesGate, sesReq, sesFailed, sesWait, sesLogins>>

(* A mutant: a record that was replaced meanwhile still counts.            *)
StampUnchecked(c) == TRUE

(* The record must still be the one that was verified, or written.         *)
StampChecked(c) == Unchanged(c)

Verified(c) ==
    /\ sesReq[c].at = "verified"
    /\ IF ~StampChecked(c)
       THEN Leave(c) /\ UNCHANGED <<sesLive, sesFailed, sesWait>>
       ELSE IF sesReq[c].new # {}
       THEN /\ \/ sesReq' = [sesReq EXCEPT ![c].at = "setting"] /\ UNCHANGED sesGate
               \/ Leave(c)      \* the new password is too short
            /\ UNCHANGED <<sesLive, sesFailed, sesWait>>
       ELSE /\ Succeeded(sesReq[c].from) /\ Leave(c)
            /\ sesLive' = CreateSession(sesLive, [token |-> sesReq[c].token,
                              stamp |-> sesReq[c].read.stamp, pw |-> sesReq[c].pw])
    /\ UNCHANGED <<sesFile, sesWrites, sesLate, sesLogins>>

(* A changed password ends every session but the one of this reply.        *)
PasswordSet(c) ==
    /\ sesReq[c].at = "set"
    /\ Leave(c)
    /\ IF ~StampChecked(c) THEN UNCHANGED <<sesLive, sesFailed, sesWait>>
       ELSE /\ Succeeded(sesReq[c].from)
            /\ sesLive' = CreateSession(<<>>, [token |-> sesReq[c].token,
                              stamp |-> sesReq[c].read.stamp, pw |-> sesReq[c].read.pw])
    /\ UNCHANGED <<sesFile, sesWrites, sesLate, sesLogins>>

GateSteps(c) == Hashed(c) \/ WriteRecord(c) \/ WriteTimeout(c) \/ Verified(c) \/ PasswordSet(c)

-----------------------------------------------------------------------------
SesNext ==
    \/ \E c \in Clients, a \in Addresses, p \in Passwords :
          \E new \in {{}} \cup {{q} : q \in Passwords} : Arrive(c, a, p, new)
    \/ \E c \in Clients : Refused(c) \/ EnterGate(c) \/ GateSteps(c)
    \/ \E a \in Addresses : Waited(a)
    \/ \E p \in Passwords, algo \in {"scrypt", "argon2id"} : RestoreAuth(p, algo)
    \/ LateWrite
    \/ \E t \in 1 .. MaxLogins : Logout(t) \/ \E q \in WebRequest : Guarded(t, q)

(* The request that holds the gate is not preempted for ever, and the       *)
(* timeout of a write to privd runs out.                                    *)
SesFair ==
    \A c \in Clients :
        /\ WF_sesVars(Hashed(c)) /\ WF_sesVars(WriteTimeout(c))
        /\ WF_sesVars(Verified(c)) /\ WF_sesVars(PasswordSet(c))

-----------------------------------------------------------------------------
(* A request to a protected path is admitted only with a session opened by *)
(* someone who presented the password now in force: also when a restore or *)
(* a late write replaced the record while a login was hashing or upgrading.*)
OnlyCurrentPasswordActs ==
    \A t \in 1 .. MaxLogins : \A q \in WebRequest :
        Admitted(t, q) /\ q.path = "protected"
            => \E i \in Entry(t) : sesLive[i].pw = sesFile.pw

(* A new password is written only for someone who presented the one in     *)
(* force when the record was last compared, not one that a restore had     *)
(* replaced while it was being hashed.                                     *)
ChangeNeedsPasswordInForce ==
    [][\A c \in Clients : Verified(c) /\ sesReq'[c].at = "setting"
                          => sesReq[c].pw = sesFile.pw]_sesVars

(* No password is verified for a source that has to wait: requests which   *)
(* passed the first check together and queued at the gate do not add up.   *)
LimitHoldsAtGate ==
    [][\A c \in Clients : EnterGate(c) => ~Limited(sesReq[c].from)]_sesVars

(* The gate is always released, whatever privd does with a write.          *)
GateReleased == []<>(sesGate = "free")

(* What the session store and the login gate promise together (auth.rs).    *)
SessionsPromises ==
    /\ []SesTypeOK /\ []OnlyCurrentPasswordActs /\ ChangeNeedsPasswordInForce
    /\ LimitHoldsAtGate
==============================================================================
