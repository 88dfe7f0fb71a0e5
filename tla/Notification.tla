---------------------------- MODULE Notification ----------------------------
(***************************************************************************)
(* What Get promises a request that asks for a notification               *)
(* (pkg/cache/cache.go:115-118), without locks, channels or fetches: it    *)
(* registers only while its ServiceAccount is missing, and populating the  *)
(* ServiceAccount wakes, in that very step, everybody registered for it    *)
(* and nobody else.                                                        *)
(***************************************************************************)
CONSTANTS Keys, Requests, None

VARIABLES
    cached,   \* ServiceAccounts that have an entry
    waitsFor, \* [Requests -> the key it registered for, or None]
    woken     \* requests whose notifier has fired

vars == <<cached, waitsFor, woken>>

TypeOK ==
    /\ cached \subseteq Keys
    /\ waitsFor \in [Requests -> Keys \cup {None}]
    /\ woken \subseteq Requests

Init ==
    /\ cached = {}
    /\ waitsFor = [r \in Requests |-> None]
    /\ woken = {}

Register(r, k) ==
    /\ waitsFor[r] = None
    /\ k \notin cached
    /\ waitsFor' = [waitsFor EXCEPT ![r] = k]
    /\ UNCHANGED <<cached, woken>>

Populate(k) ==
    /\ cached' = cached \cup {k}
    /\ woken' = woken \cup {r \in Requests : waitsFor[r] = k}
    /\ UNCHANGED waitsFor

\* popSA, or Clear, which drops everything at once.
Evict(K) ==
    /\ cached' = cached \ K
    /\ UNCHANGED <<waitsFor, woken>>

Next ==
    \/ \E r \in Requests, k \in Keys : Register(r, k)
    \/ \E k \in Keys : Populate(k)
    \/ \E K \in SUBSET Keys : Evict(K)

Spec == Init /\ [][Next]_vars

\* Who is registered and not yet woken waits for something that is missing.
SleepersMiss ==
    \A r \in Requests : waitsFor[r] # None /\ r \notin woken => waitsFor[r] \notin cached
=============================================================================
