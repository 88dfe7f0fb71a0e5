--------------------------- MODULE ConfigMapCache ---------------------------
(***************************************************************************)
(* The half of the cache that the pod-identity-webhook ConfigMap fills:    *)
(* populateCacheFromCM and the informer callbacks that run it, against     *)
(* lookups that read the exact key and then the "*/name" key               *)
(* (pkg/cache/cache.go).  Every setCM, popCM and getCM holds mu for one    *)
(* entry only, so a lookup and a repopulation interleave entry by entry.   *)
(*                                                                         *)
(* The ConfigMap itself is external.  What its "config" text does to the   *)
(* callback is all that matters of it: "good" text maps keys to entries;   *)
(* "malformed" text does not unmarshal; "broken" text unmarshals, but to a *)
(* key without a "/" or to a null entry, on which the callback panics, and *)
(* with it the process.                                                    *)
(***************************************************************************)
EXTENDS FiniteSets

CONSTANTS
    Keys,      \* namespace/name of a ServiceAccount
    CMKeys,    \* Keys and the "*/name" keys
    Wildcard,  \* [Keys -> CMKeys]
    Roles,     \* contents of an entry
    Configs,   \* texts the ConfigMap may hold, see ConfigAssumption
    Requests,  \* lookups
    None       \* no entry, no ConfigMap

Mappings == UNION {[K -> Roles] : K \in SUBSET CMKeys}

ASSUME CMKeyAssumption ==
    /\ Keys \subseteq CMKeys
    /\ Wildcard \in [Keys -> CMKeys]
    /\ None \notin Roles \cup Configs

ASSUME ConfigAssumption ==
    Configs \subseteq [kind : {"good", "malformed", "broken"}, map : Mappings]

VARIABLES
    cm,         \* the ConfigMap in the API server, or None (external)
    store,      \* the ConfigMap the informer delivered last, or None
    cmCache,    \* [CMKeys -> Roles \cup {None}]
    step,       \* where the callback is: "idle", "set" or "pop"
    old,        \* oldCM of the callback, None in AddFunc
    todo,       \* keys the callback still has to set, or to pop
    pc,         \* where each lookup is: "start", "exact", "wild" or "done"
    key,        \* ServiceAccount of each lookup
    answer,     \* role of a finished lookup, or None
    orphans,    \* history: keys whose config the callback has lost sight of
    kept,       \* history: keys of a lookup that every config mapped so far
    mappedAll   \* history: lookups which every config mapped so far

historyVars == <<kept, mappedAll>>
lookupVars == <<pc, key, answer>>
vars == <<cm, store, cmCache, step, old, todo, lookupVars, orphans, historyVars>>

IsGood(c) == c # None /\ c.kind = "good"
KeysOf(c) == IF IsGood(c) THEN DOMAIN c.map ELSE {}
Cached == {k \in CMKeys : cmCache[k] # None}

\* The keys that a lookup reads, and whether a configuration has one of them.
KeysRead(r) == {key[r], Wildcard[key[r]]}
Maps(c, r) == KeysRead(r) \cap KeysOf(c) # {}

Init ==
    /\ cm \in Configs \cup {None}
    /\ store = None
    /\ cmCache = [k \in CMKeys |-> None]
    /\ step = "idle"
    /\ old = None
    /\ todo = {}
    /\ pc = [r \in Requests |-> "start"]
    /\ key \in [Requests -> Keys]
    /\ answer = [r \in Requests |-> None]
    /\ orphans = {}
    /\ kept = [r \in Requests |-> {}]
    /\ mappedAll = {}

-----------------------------------------------------------------------------
(* The ConfigMap (external).                                               *)

EditConfigMap(c) ==
    /\ c # cm
    /\ cm' = c
    /\ UNCHANGED <<store, cmCache, step, old, todo, lookupVars, orphans, historyVars>>

-----------------------------------------------------------------------------
(* The informer callback.                                                  *)

\* Mutant: an update sets only the entries that are new.
DeliverNewEntries ==
    /\ step = "idle"
    /\ cm # None
    /\ store' = cm
    /\ old' = store
    /\ IF cm.kind = "malformed"
       THEN step' = "idle" /\ todo' = {}
       ELSE step' = "set" /\ todo' = DOMAIN cm.map \ KeysOf(store)
    /\ orphans' = IF IsGood(cm) /\ (store = None \/ IsGood(store))
                  THEN orphans
                  ELSE orphans \cup KeysOf(store)
    /\ kept' = [r \in Requests |-> kept[r] \cap KeysOf(cm)]
    /\ mappedAll' = {r \in mappedAll : Maps(cm, r)}
    /\ UNCHANGED <<cm, cmCache, lookupVars>>

\* AddFunc or UpdateFunc: unmarshal the new text and start setting entries.
\* Malformed text ends the callback with the cache as it was.
Deliver ==
    /\ step = "idle"
    /\ cm # None
    /\ store' = cm
    /\ old' = store
    /\ IF cm.kind = "malformed"
       THEN step' = "idle" /\ todo' = {}
       ELSE step' = "set" /\ todo' = DOMAIN cm.map
    /\ orphans' = IF IsGood(cm) /\ (store = None \/ IsGood(store))
                  THEN orphans
                  ELSE orphans \cup KeysOf(store)
    /\ kept' = [r \in Requests |-> kept[r] \cap KeysOf(cm)]
    /\ mappedAll' = {r \in mappedAll : Maps(cm, r)}
    /\ UNCHANGED <<cm, cmCache, lookupVars>>

\* The ConfigMap is deleted: no DeleteFunc is registered for ConfigMaps, so
\* the informer forgets it and the cache does not.
DeliverDelete ==
    /\ step = "idle"
    /\ cm = None /\ store # None
    /\ store' = None
    /\ orphans' = orphans \cup KeysOf(store)
    /\ kept' = [r \in Requests |-> {}]
    /\ mappedAll' = {}
    /\ UNCHANGED <<cm, cmCache, step, old, todo, lookupVars>>

\* Mutant: an entry is written under another key's wildcard.
SetEntryAsWildcard(k) ==
    /\ step = "set"
    /\ k \in todo
    /\ cmCache' = [cmCache EXCEPT ![IF k \in Keys THEN Wildcard[k] ELSE k] = store.map[k]]
    /\ todo' = todo \ {k}
    /\ UNCHANGED <<cm, store, step, old, lookupVars, orphans, historyVars>>

\* setCM for one entry, in the random order of a map.
SetEntry(k) ==
    /\ step = "set"
    /\ k \in todo
    /\ cmCache' = [cmCache EXCEPT ![k] = store.map[k]]
    /\ todo' = todo \ {k}
    /\ UNCHANGED <<cm, store, step, old, lookupVars, orphans, historyVars>>

\* Mutant: the difference of the two configurations is taken the wrong way.
EndSetsPopsNew ==
    /\ step = "set"
    /\ todo = {} /\ store.kind = "good"
    /\ IF old = None \/ old.kind = "malformed"
       THEN step' = "idle" /\ todo' = {}
       ELSE step' = "pop" /\ todo' = DOMAIN store.map \ DOMAIN old.map
    /\ UNCHANGED <<cm, store, cmCache, old, lookupVars, orphans, historyVars>>

\* Mutant: every key of the old configuration is popped.
EndSetsPopsAll ==
    /\ step = "set"
    /\ todo = {} /\ store.kind = "good"
    /\ IF old = None \/ old.kind = "malformed"
       THEN step' = "idle" /\ todo' = {}
       ELSE step' = "pop" /\ todo' = DOMAIN old.map
    /\ UNCHANGED <<cm, store, cmCache, old, lookupVars, orphans, historyVars>>

\* All entries are set: AddFunc is done, and so is UpdateFunc when the old
\* text does not unmarshal; otherwise the keys that are gone are popped.
EndSets ==
    /\ step = "set"
    /\ todo = {} /\ store.kind = "good"
    /\ IF old = None \/ old.kind = "malformed"
       THEN step' = "idle" /\ todo' = {}
       ELSE step' = "pop" /\ todo' = DOMAIN old.map \ DOMAIN store.map
    /\ UNCHANGED <<cm, store, cmCache, old, lookupVars, orphans, historyVars>>

\* popCM for one key of the old configuration.
PopEntry(k) ==
    /\ step = "pop"
    /\ k \in todo
    /\ cmCache' = [cmCache EXCEPT ![k] = None]
    /\ todo' = todo \ {k}
    /\ UNCHANGED <<cm, store, step, old, lookupVars, orphans, historyVars>>

EndPops ==
    /\ step = "pop"
    /\ todo = {}
    /\ step' = "idle"
    /\ UNCHANGED <<cm, store, cmCache, old, todo, lookupVars, orphans, historyVars>>

\* Broken text: after some of its entries the callback panics.  The process
\* restarts with an empty cache and lists again; its lookups are lost.
Panic ==
    /\ step = "set"
    /\ store.kind = "broken"
    /\ store' = None
    /\ cmCache' = [k \in CMKeys |-> None]
    /\ step' = "idle"
    /\ old' = None
    /\ todo' = {}
    /\ pc' = [r \in Requests |-> IF pc[r] = "start" THEN "start" ELSE "done"]
    /\ orphans' = {}
    /\ kept' = [r \in Requests |-> {}]
    /\ mappedAll' = {}
    /\ UNCHANGED <<cm, key, answer>>

-----------------------------------------------------------------------------
(* Lookups.                                                                *)

\* The configurations whose entries a lookup may find now.
InForce == IF step = "idle" THEN {store} ELSE {old, store}

\* The SA half of Get found nothing: the lookup turns to the ConfigMap.
Start(r) ==
    /\ pc[r] = "start"
    /\ pc' = [pc EXCEPT ![r] = "exact"]
    /\ kept' = [kept EXCEPT ![r] = {k \in KeysRead(r) : \A c \in InForce : k \in KeysOf(c)}]
    /\ mappedAll' = IF \A c \in InForce : Maps(c, r)
                    THEN mappedAll \cup {r} ELSE mappedAll
    /\ UNCHANGED <<cm, store, cmCache, step, old, todo, key, answer, orphans>>

\* Mutant: the wildcard is not read.
ReadExactOnly(r) ==
    /\ pc[r] = "exact"
    /\ pc' = [pc EXCEPT ![r] = "done"]
    /\ answer' = [answer EXCEPT ![r] = cmCache[key[r]]]
    /\ UNCHANGED <<cm, store, cmCache, step, old, todo, key, orphans, historyVars>>

\* getCM(name, namespace).
ReadExact(r) ==
    LET role == cmCache[key[r]]
    IN /\ pc[r] = "exact"
       /\ pc' = [pc EXCEPT ![r] = IF role # None THEN "done" ELSE "wild"]
       /\ answer' = [answer EXCEPT ![r] = role]
       /\ UNCHANGED <<cm, store, cmCache, step, old, todo, key, orphans, historyVars>>

\* getCM(name, "*").
ReadWild(r) ==
    /\ pc[r] = "wild"
    /\ pc' = [pc EXCEPT ![r] = "done"]
    /\ answer' = [answer EXCEPT ![r] = cmCache[Wildcard[key[r]]]]
    /\ UNCHANGED <<cm, store, cmCache, step, old, todo, key, orphans, historyVars>>

-----------------------------------------------------------------------------
CallbackStep ==
    \/ \E k \in CMKeys : SetEntry(k) \/ PopEntry(k)
    \/ EndSets \/ EndPops \/ Panic

Next ==
    \/ \E c \in Configs \cup {None} : EditConfigMap(c)
    \/ Deliver \/ DeliverDelete
    \/ CallbackStep
    \/ \E r \in Requests : Start(r) \/ ReadExact(r) \/ ReadWild(r)

Spec == Init /\ [][Next]_vars

\* The callback goroutine runs; the informer delivers changes and resyncs.
FairSpec == Spec /\ WF_vars(CallbackStep) /\ WF_vars(Deliver) /\ WF_vars(DeliverDelete)
=============================================================================
