----------------------------- MODULE CertStore -----------------------------
(***************************************************************************)
(* The certificate store (pkg/cert/store.go): replicas of the webhook that *)
(* keep their serving certificate in one Secret, each through the          *)
(* certificate manager of client-go (external), which asks Current when it *)
(* is created and calls Update with every pair that it is issued.          *)
(*                                                                         *)
(* A write with the version of a Secret that changed since is refused by   *)
(* the API server; of that version the model keeps which replicas hold     *)
(* the present one.  A request to the API server can fail, and a write can *)
(* be done though its answer is lost.                                      *)
(***************************************************************************)
CONSTANTS
    Replicas,
    Pairs,      \* certificates with their keys
    Loadable,   \* those that loadX509KeyPairData accepts
    Keyless,    \* what a Secret without tls.crt or tls.key holds
    None

ASSUME PairAssumption ==
    /\ Loadable \subseteq Pairs
    /\ Keyless \notin Pairs /\ None \notin Pairs \cup {Keyless} \cup Replicas

VARIABLES
    secret,  \* what the Secret holds, None when there is no Secret
    author,  \* who wrote it last: a replica, or None for anybody else
    fresh,   \* replicas whose fetched Secret is the present one
    pc,      \* where each replica is
    pair,    \* the pair that Update is called with, or None
    served,  \* the pair that certManager.Current returns, or None
    stored   \* pairs that the Secret has held (history)

vars == <<secret, author, fresh, pc, pair, served, stored>>

Contents == Pairs \cup {Keyless, None}

Init ==
    /\ secret \in Contents
    /\ author = None
    /\ fresh = {}
    /\ pc = [r \in Replicas |-> "start"]
    /\ pair = [r \in Replicas |-> None]
    /\ served = [r \in Replicas |-> None]
    /\ stored = {secret}

-----------------------------------------------------------------------------
(* Current, when NewServerCertificateManager creates the manager.          *)

\* The Secret has a pair: without an error it is served; a pair that does
\* not load is an error other than NoCertKeyError, fatal to main.
CurrentReads(r) ==
    /\ pc[r] = "start" /\ secret \in Pairs
    /\ IF secret \in Loadable
       THEN /\ pc' = [pc EXCEPT ![r] = "idle"]
            /\ served' = [served EXCEPT ![r] = secret]
       ELSE /\ pc' = [pc EXCEPT ![r] = "dead"]
            /\ UNCHANGED served
    /\ UNCHANGED <<secret, author, fresh, pair, stored>>

\* Mutant: a failing Get is an error like any other.
CurrentFindsNoneFatal(r) ==
    /\ pc[r] = "start"
    /\ pc' = [pc EXCEPT ![r] = "dead"]
    /\ UNCHANGED <<secret, author, fresh, pair, served, stored>>

\* NoCertKeyError: Get failed, for whatever reason, or a key is missing.
\* The manager goes on without a certificate.
CurrentFindsNone(r) ==
    /\ pc[r] = "start"
    /\ pc' = [pc EXCEPT ![r] = "idle"]
    /\ UNCHANGED <<secret, author, fresh, pair, served, stored>>

-----------------------------------------------------------------------------
(* Update.                                                                 *)

\* The manager got a pair signed (external), the first or a renewal.
Issue(r, p) ==
    /\ pc[r] = "idle"
    /\ pair' = [pair EXCEPT ![r] = p]
    /\ pc' = [pc EXCEPT ![r] = "get"]
    /\ UNCHANGED <<secret, author, fresh, served, stored>>

GetOK(r) ==
    /\ pc[r] = "get" /\ secret # None
    /\ fresh' = fresh \cup {r}
    /\ pc' = [pc EXCEPT ![r] = "update"]
    /\ UNCHANGED <<secret, author, pair, served, stored>>

\* Mutant: a failing Get ends Update.
GetFailsForGood(r) ==
    /\ pc[r] = "get"
    /\ pc' = [pc EXCEPT ![r] = "idle"]
    /\ UNCHANGED <<secret, author, fresh, pair, served, stored>>

\* Any error of Get is taken for a Secret that is not there.
GetFails(r) ==
    /\ pc[r] = "get"
    /\ pc' = [pc EXCEPT ![r] = "create"]
    /\ UNCHANGED <<secret, author, fresh, pair, served, stored>>

\* Mutant: an existing Secret is replaced, not updated.
WritableBlindly(r) == pc[r] \in {"create", "update"}

\* The API server accepts: Create when there is no Secret, Update with the
\* version of the present one.
Writable(r) ==
    \/ pc[r] = "create" /\ secret = None
    \/ pc[r] = "update" /\ r \in fresh

Store(r) ==
    /\ Writable(r)
    /\ secret' = pair[r] /\ author' = r
    /\ fresh' = {}
    /\ stored' = stored \cup {pair[r]}
    /\ pc' = [pc EXCEPT ![r] = "idle"]
    /\ pair' = [pair EXCEPT ![r] = None]

\* Mutant: Update does not look whether the pair loads.
WriteUnparsed(r) ==
    Store(r) /\ served' = [served EXCEPT ![r] = pair[r]]

\* The pair is parsed once it is written; the manager serves what Update
\* returns and keeps what it has when Update returns an error.
Write(r) ==
    /\ Store(r)
    /\ served' = [served EXCEPT ![r] = IF pair[r] \in Loadable THEN pair[r] ELSE @]

WriteLosesAnswer(r) == Store(r) /\ UNCHANGED served

\* Mutant: the manager is given the pair before it is written.
WriteFailsServing(r) ==
    /\ pc[r] \in {"create", "update"}
    /\ fresh' = fresh \ {r}
    /\ pc' = [pc EXCEPT ![r] = "idle"]
    /\ pair' = [pair EXCEPT ![r] = None]
    /\ served' = [served EXCEPT ![r] = IF pair[r] \in Loadable THEN pair[r] ELSE @]
    /\ UNCHANGED <<secret, author, stored>>

\* A conflict, a Secret that exists or is gone, or any other error.
WriteFails(r) ==
    /\ pc[r] \in {"create", "update"}
    /\ fresh' = fresh \ {r}
    /\ pc' = [pc EXCEPT ![r] = "idle"]
    /\ pair' = [pair EXCEPT ![r] = None]
    /\ UNCHANGED <<secret, author, served, stored>>

-----------------------------------------------------------------------------
(* Around the store (external).                                            *)

\* A replica is restarted, or comes back after it died.
Restart(r) ==
    /\ pc[r] # "start"
    /\ pc' = [pc EXCEPT ![r] = "start"]
    /\ fresh' = fresh \ {r}
    /\ pair' = [pair EXCEPT ![r] = None]
    /\ served' = [served EXCEPT ![r] = None]
    /\ UNCHANGED <<secret, author, stored>>

\* Somebody else writes or deletes the Secret.
Edit(c) ==
    /\ secret' = c /\ author' = None
    /\ fresh' = {}
    /\ stored' = stored \cup {c}
    /\ UNCHANGED <<pc, pair, served>>

-----------------------------------------------------------------------------
UpdateStep(r) == GetOK(r) \/ GetFails(r) \/ Write(r) \/ WriteLosesAnswer(r) \/ WriteFails(r)

Next ==
    \/ \E r \in Replicas : \/ CurrentReads(r) \/ CurrentFindsNone(r)
                           \/ \E p \in Pairs : Issue(r, p)
                           \/ UpdateStep(r) \/ Restart(r)
    \/ \E c \in Contents : Edit(c)

Spec == Init /\ [][Next]_vars

\* Calls end; a manager without a certificate asks for one until it has one
\* that loads; with such a pair the API server does not fail a replica, nor
\* another writer get in its way, every time for ever.
Fairness ==
    \A r \in Replicas :
        /\ WF_vars(CurrentReads(r) \/ CurrentFindsNone(r)) /\ WF_vars(UpdateStep(r))
        /\ SF_vars(served[r] = None /\ \E p \in Loadable : Issue(r, p))
        /\ SF_vars(pair[r] \in Loadable /\ GetOK(r))
        /\ SF_vars(pair[r] \in Loadable /\ Write(r))

FairSpec == Spec /\ Fairness
=============================================================================
