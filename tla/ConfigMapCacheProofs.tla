------------------------ MODULE ConfigMapCacheProofs ------------------------
(***************************************************************************)
(* That a good configuration is applied whatever came before it, and that  *)
(* a lookup of a key that stays is never disturbed by an update: for any   *)
(* keys, roles, configurations and lookups.                                *)
(***************************************************************************)
EXTENDS ConfigMapCacheProperties, TLAPS

\* Broken text is only ever in the hands of the callback that will panic on it.
BrokenInv ==
    /\ old # None => old.kind # "broken"
    /\ store # None /\ step # "set" => store.kind # "broken"

\* What the callback has done so far of the configuration in store.
AppliedInv ==
    /\ step = "set" => \A k \in DOMAIN store.map \ todo : cmCache[k] = store.map[k]
    /\ step # "set" /\ IsGood(store) => \A k \in DOMAIN store.map : cmCache[k] = store.map[k]

\* The entries of the previous configuration stay until they are overwritten,
\* and only entries that are gone are popped.
KeptInv ==
    /\ step = "set" => \A k \in KeysOf(old) :
          \/ cmCache[k] = old.map[k]
          \/ k \in DOMAIN store.map /\ cmCache[k] = store.map[k]
    /\ step = "pop" => todo \cap DOMAIN store.map = {}

\* The keys that the callback knows to be cached, or may still make so.
Tracked ==
    KeysOf(store) \cup (IF step = "set" THEN DOMAIN store.map \cup KeysOf(old)
                        ELSE IF step = "pop" THEN todo ELSE {})

TrackedInv == Cached \subseteq orphans \cup Tracked

\* A lookup of which a key stays is before its read of that key, or it has
\* found one.
LookupInv ==
    \A r \in Requests : \A k \in kept[r] :
        \/ /\ pc[r] = "exact" \/ (pc[r] = "wild" /\ k = Wildcard[key[r]])
           /\ k \in KeysRead(r) /\ \A c \in InForce : k \in KeysOf(c)
        \/ pc[r] = "done" /\ answer[r] # None

IInv == TypeOK /\ BrokenInv /\ AppliedInv /\ KeptInv /\ TrackedInv /\ LookupInv
-----------------------------------------------------------------------------
\* What a configuration is.
LEMMA ConfigFacts ==
    /\ None \notin Configs /\ None \notin Roles
    /\ \A c \in Configs :
          /\ c # None
          /\ c.kind \in {"good", "malformed", "broken"}
          /\ DOMAIN c.map \subseteq CMKeys
          /\ \A k \in DOMAIN c.map : c.map[k] \in Roles /\ c.map[k] # None
<1>1. None \notin Configs /\ None \notin Roles
  BY CMKeyAssumption
<1>2. ASSUME NEW c \in Configs
      PROVE  /\ c.kind \in {"good", "malformed", "broken"}
             /\ DOMAIN c.map \subseteq CMKeys
             /\ \A k \in DOMAIN c.map : c.map[k] \in Roles
  <2>1. c.kind \in {"good", "malformed", "broken"} /\ c.map \in Mappings
    BY ConfigAssumption
  <2>2. PICK K \in SUBSET CMKeys : c.map \in [K -> Roles]
    BY <2>1 DEF Mappings
  <2> QED
    BY <2>1, <2>2
<1> QED
  BY <1>1, <1>2

\* Nothing is cached, delivered or looked up.
LEMMA IInvInit == Init => IInv
<1> SUFFICES ASSUME Init PROVE IInv
  OBVIOUS
<1>1. TypeOK
  BY DEF Init, TypeOK, CallbackOK
<1>2. BrokenInv /\ AppliedInv /\ KeptInv /\ LookupInv
  BY DEF Init, BrokenInv, AppliedInv, KeptInv, LookupInv, IsGood
<1>3. TrackedInv
  BY DEF Init, TrackedInv, Cached
<1> QED
  BY <1>1, <1>2, <1>3 DEF IInv

\* Types are kept.
LEMMA TypeNext == IInv /\ [Next]_vars => TypeOK'
<1> SUFFICES ASSUME IInv, [Next]_vars PROVE TypeOK'
  OBVIOUS
<1> USE ConfigFacts, CMKeyAssumption DEF IInv, TypeOK, CallbackOK, BrokenInv
<1>1. ASSUME NEW c \in Configs \cup {None}, EditConfigMap(c) PROVE TypeOK'
  BY <1>1 DEF EditConfigMap, lookupVars, historyVars
<1>2. CASE Deliver
  BY <1>2 DEF Deliver, lookupVars, KeysOf, IsGood
<1>3. CASE DeliverDelete
  BY <1>3 DEF DeliverDelete, lookupVars, KeysOf, IsGood
<1>4. ASSUME NEW k \in CMKeys, SetEntry(k) PROVE TypeOK'
  BY <1>4 DEF SetEntry, lookupVars, historyVars
<1>5. ASSUME NEW k \in CMKeys, PopEntry(k) PROVE TypeOK'
  BY <1>5 DEF PopEntry, lookupVars, historyVars
<1>6. CASE EndSets
  BY <1>6 DEF EndSets, lookupVars, historyVars, IsGood, KeysOf
<1>7. CASE EndPops
  BY <1>7 DEF EndPops, lookupVars, historyVars
<1>8. CASE Panic
  BY <1>8 DEF Panic, IsGood, KeysOf
<1>9. ASSUME NEW r \in Requests, Start(r) PROVE TypeOK'
  <2>1. KeysRead(r) \subseteq CMKeys
    BY DEF KeysRead
  <2> QED
    BY <1>9, <2>1 DEF Start
<1>10. ASSUME NEW r \in Requests, ReadExact(r) \/ ReadWild(r) PROVE TypeOK'
  BY <1>10 DEF ReadExact, ReadWild, historyVars
<1>11. CASE UNCHANGED vars
  BY <1>11 DEF vars, lookupVars, historyVars
<1> QED
  BY <1>1, <1>2, <1>3, <1>4, <1>5, <1>6, <1>7, <1>8, <1>9, <1>10, <1>11
     DEF Next, CallbackStep

\* Broken text does not outlive its callback.
LEMMA BrokenNext == IInv /\ [Next]_vars => BrokenInv'
<1> SUFFICES ASSUME IInv, [Next]_vars PROVE BrokenInv'
  OBVIOUS
<1> USE ConfigFacts, CMKeyAssumption DEF IInv, TypeOK, BrokenInv
<1>1. ASSUME NEW c \in Configs \cup {None}, EditConfigMap(c) PROVE BrokenInv'
  BY <1>1 DEF EditConfigMap, lookupVars, historyVars
<1>2. CASE Deliver
  BY <1>2 DEF Deliver, lookupVars, KeysOf, IsGood
<1>3. CASE DeliverDelete
  BY <1>3 DEF DeliverDelete, lookupVars, KeysOf, IsGood
<1>4. ASSUME NEW k \in CMKeys, SetEntry(k) PROVE BrokenInv'
  BY <1>4 DEF SetEntry, lookupVars, historyVars
<1>5. ASSUME NEW k \in CMKeys, PopEntry(k) PROVE BrokenInv'
  BY <1>5 DEF PopEntry, lookupVars, historyVars
<1>6. CASE EndSets
  BY <1>6 DEF EndSets, lookupVars, historyVars, IsGood, KeysOf
<1>7. CASE EndPops
  BY <1>7 DEF EndPops, lookupVars, historyVars
<1>8. CASE Panic
  BY <1>8 DEF Panic, IsGood, KeysOf
<1>9. ASSUME NEW r \in Requests, Start(r) \/ ReadExact(r) \/ ReadWild(r) PROVE BrokenInv'
  BY <1>9 DEF Start, ReadExact, ReadWild, historyVars
<1>10. CASE UNCHANGED vars
  BY <1>10 DEF vars, lookupVars, historyVars
<1> QED
  BY <1>1, <1>2, <1>3, <1>4, <1>5, <1>6, <1>7, <1>8, <1>9, <1>10
     DEF Next, CallbackStep

\* An entry that is set stays set until the next configuration.
LEMMA AppliedNext == IInv /\ [Next]_vars => AppliedInv'
<1> SUFFICES ASSUME IInv, [Next]_vars PROVE AppliedInv'
  OBVIOUS
<1> USE ConfigFacts, CMKeyAssumption DEF IInv, TypeOK, CallbackOK, BrokenInv, AppliedInv, KeptInv, IsGood
<1>1. ASSUME NEW c \in Configs \cup {None}, EditConfigMap(c) PROVE AppliedInv'
  BY <1>1 DEF EditConfigMap, lookupVars, historyVars
<1>2. CASE Deliver
  BY <1>2 DEF Deliver, lookupVars, KeysOf, IsGood
<1>3. CASE DeliverDelete
  BY <1>3 DEF DeliverDelete, lookupVars, KeysOf, IsGood
<1>4. ASSUME NEW k \in CMKeys, SetEntry(k) PROVE AppliedInv'
  BY <1>4 DEF SetEntry, lookupVars, historyVars
<1>5. ASSUME NEW k \in CMKeys, PopEntry(k) PROVE AppliedInv'
  BY <1>5 DEF PopEntry, lookupVars, historyVars
<1>6. CASE EndSets
  BY <1>6 DEF EndSets, lookupVars, historyVars, IsGood, KeysOf
<1>7. CASE EndPops
  BY <1>7 DEF EndPops, lookupVars, historyVars
<1>8. CASE Panic
  BY <1>8 DEF Panic, IsGood, KeysOf
<1>9. ASSUME NEW r \in Requests, Start(r) \/ ReadExact(r) \/ ReadWild(r) PROVE AppliedInv'
  BY <1>9 DEF Start, ReadExact, ReadWild, historyVars
<1>10. CASE UNCHANGED vars
  BY <1>10 DEF vars, lookupVars, historyVars
<1> QED
  BY <1>1, <1>2, <1>3, <1>4, <1>5, <1>6, <1>7, <1>8, <1>9, <1>10
     DEF Next, CallbackStep

\* No entry of the previous configuration goes while entries are set.
LEMMA KeptNext == IInv /\ [Next]_vars => KeptInv'
<1> SUFFICES ASSUME IInv, [Next]_vars PROVE KeptInv'
  OBVIOUS
<1> USE ConfigFacts, CMKeyAssumption DEF IInv, TypeOK, CallbackOK, BrokenInv, AppliedInv, KeptInv, IsGood, KeysOf
<1>1. ASSUME NEW c \in Configs \cup {None}, EditConfigMap(c) PROVE KeptInv'
  BY <1>1 DEF EditConfigMap, lookupVars, historyVars
<1>2. CASE Deliver
  BY <1>2 DEF Deliver, lookupVars, KeysOf, IsGood
<1>3. CASE DeliverDelete
  BY <1>3 DEF DeliverDelete, lookupVars, KeysOf, IsGood
<1>4. ASSUME NEW k \in CMKeys, SetEntry(k) PROVE KeptInv'
  BY <1>4 DEF SetEntry, lookupVars, historyVars
<1>5. ASSUME NEW k \in CMKeys, PopEntry(k) PROVE KeptInv'
  BY <1>5 DEF PopEntry, lookupVars, historyVars
<1>6. CASE EndSets
  BY <1>6 DEF EndSets, lookupVars, historyVars, IsGood, KeysOf
<1>7. CASE EndPops
  BY <1>7 DEF EndPops, lookupVars, historyVars
<1>8. CASE Panic
  BY <1>8 DEF Panic, IsGood, KeysOf
<1>9. ASSUME NEW r \in Requests, Start(r) \/ ReadExact(r) \/ ReadWild(r) PROVE KeptInv'
  BY <1>9 DEF Start, ReadExact, ReadWild, historyVars
<1>10. CASE UNCHANGED vars
  BY <1>10 DEF vars, lookupVars, historyVars
<1> QED
  BY <1>1, <1>2, <1>3, <1>4, <1>5, <1>6, <1>7, <1>8, <1>9, <1>10
     DEF Next, CallbackStep

\* An entry that the callback loses sight of is an orphan.
LEMMA TrackedNext == IInv /\ [Next]_vars => TrackedInv'
<1> SUFFICES ASSUME IInv, [Next]_vars PROVE TrackedInv'
  OBVIOUS
<1> USE ConfigFacts, CMKeyAssumption DEF IInv, TypeOK, CallbackOK, BrokenInv, TrackedInv, Tracked, Cached, IsGood, KeysOf
<1>1. ASSUME NEW c \in Configs \cup {None}, EditConfigMap(c) PROVE TrackedInv'
  BY <1>1 DEF EditConfigMap, lookupVars, historyVars
<1>2. CASE Deliver
  BY <1>2 DEF Deliver, lookupVars, KeysOf, IsGood
<1>3. CASE DeliverDelete
  BY <1>3 DEF DeliverDelete, lookupVars, KeysOf, IsGood
<1>4. ASSUME NEW k \in CMKeys, SetEntry(k) PROVE TrackedInv'
  BY <1>4 DEF SetEntry, lookupVars, historyVars
<1>5. ASSUME NEW k \in CMKeys, PopEntry(k) PROVE TrackedInv'
  BY <1>5 DEF PopEntry, lookupVars, historyVars
<1>6. CASE EndSets
  BY <1>6 DEF EndSets, lookupVars, historyVars, IsGood, KeysOf
<1>7. CASE EndPops
  BY <1>7 DEF EndPops, lookupVars, historyVars
<1>8. CASE Panic
  BY <1>8 DEF Panic, IsGood, KeysOf
<1>9. ASSUME NEW r \in Requests, Start(r) \/ ReadExact(r) \/ ReadWild(r) PROVE TrackedInv'
  BY <1>9 DEF Start, ReadExact, ReadWild, historyVars
<1>10. CASE UNCHANGED vars
  BY <1>10 DEF vars, lookupVars, historyVars
<1> QED
  BY <1>1, <1>2, <1>3, <1>4, <1>5, <1>6, <1>7, <1>8, <1>9, <1>10
     DEF Next, CallbackStep

\* A key of all configurations in force has an entry of one of them.
LEMMA StayingKeysAreCached ==
    ASSUME IInv, NEW k \in CMKeys, \A c \in InForce : k \in KeysOf(c)
    PROVE  cmCache[k] \in {c.map[k] : c \in InForce} /\ cmCache[k] # None
<1> USE ConfigFacts DEF IInv, TypeOK, CallbackOK, AppliedInv, KeptInv, InForce, IsGood, KeysOf
<1>1. store \in InForce /\ store \in Configs /\ store.kind = "good" /\ k \in DOMAIN store.map
  OBVIOUS
<1>2. CASE step = "set"
  <2>1. old \in InForce /\ old \in Configs /\ old.kind = "good" /\ k \in DOMAIN old.map
    BY <1>2
  <2>2. cmCache[k] = old.map[k] \/ cmCache[k] = store.map[k]
    BY <1>2, <2>1
  <2> QED
    BY <1>1, <2>1, <2>2
<1>3. CASE step # "set"
  BY <1>1, <1>3
<1> QED
  BY <1>2, <1>3

\* A lookup of a key that stays finds it when it reads it.
LEMMA LookupNext == IInv /\ [Next]_vars => LookupInv'
<1> SUFFICES ASSUME IInv, [Next]_vars PROVE LookupInv'
  OBVIOUS
<1> USE ConfigFacts, CMKeyAssumption DEF IInv, TypeOK, CallbackOK, BrokenInv, AppliedInv, KeptInv, LookupInv, InForce, KeysRead, IsGood, KeysOf
<1>1. ASSUME NEW c \in Configs \cup {None}, EditConfigMap(c) PROVE LookupInv'
  BY <1>1 DEF EditConfigMap, lookupVars, historyVars
<1>2. CASE Deliver
  BY <1>2 DEF Deliver, lookupVars, KeysOf, IsGood
<1>3. CASE DeliverDelete
  BY <1>3 DEF DeliverDelete, lookupVars, KeysOf, IsGood
<1>4. ASSUME NEW k \in CMKeys, SetEntry(k) PROVE LookupInv'
  BY <1>4 DEF SetEntry, lookupVars, historyVars
<1>5. ASSUME NEW k \in CMKeys, PopEntry(k) PROVE LookupInv'
  BY <1>5 DEF PopEntry, lookupVars, historyVars
<1>6. CASE EndSets
  BY <1>6 DEF EndSets, lookupVars, historyVars, IsGood, KeysOf
<1>7. CASE EndPops
  BY <1>7 DEF EndPops, lookupVars, historyVars
<1>8. CASE Panic
  BY <1>8 DEF Panic, IsGood, KeysOf
<1>9. ASSUME NEW r \in Requests, Start(r) PROVE LookupInv'
  BY <1>9 DEF Start
<1>10. ASSUME NEW r \in Requests, ReadExact(r) PROVE LookupInv'
  BY <1>10, StayingKeysAreCached DEF ReadExact, historyVars
<1>11. ASSUME NEW r \in Requests, ReadWild(r) PROVE LookupInv'
  BY <1>11, StayingKeysAreCached DEF ReadWild, historyVars
<1>12. CASE UNCHANGED vars
  BY <1>12 DEF vars, lookupVars, historyVars
<1> QED
  BY <1>1, <1>2, <1>3, <1>4, <1>5, <1>6, <1>7, <1>8, <1>9, <1>10, <1>11, <1>12
     DEF Next, CallbackStep

LEMMA IInvNext == IInv /\ [Next]_vars => IInv'
BY TypeNext, BrokenNext, AppliedNext, KeptNext, TrackedNext, LookupNext DEF IInv

LEMMA IInvAlways == Spec => []IInv
BY IInvInit, IInvNext, PTL DEF Spec

-----------------------------------------------------------------------------
\* Every variable keeps its type, and the callback sets the entries of the
\* new configuration and pops those of the old one only.
THEOREM TypeCorrect == Spec => []TypeOK
<1>1. IInv => TypeOK
  BY DEF IInv
<1> QED
  BY <1>1, IInvAlways, PTL

\* populateCacheFromCM applies a good configuration, whatever malformed or
\* panicking texts and deletions came before it, but for the entries that it
\* lost sight of.
THEOREM GoodConfigIsApplied == Spec => []ConfigIsApplied
<1>1. IInv => ConfigIsApplied
  BY DEF IInv, AppliedInv, TrackedInv, Tracked, ConfigIsApplied, KeysOf
<1> QED
  BY <1>1, IInvAlways, PTL

\* Get finds a ServiceAccount while updates that keep one of its keys run,
\* although they hold the lock for one entry only.
THEOREM StayingKeyIsFound == Spec => []StayingIsFound
<1>1. IInv => StayingIsFound
  <2> SUFFICES ASSUME IInv PROVE StayingIsFound
    OBVIOUS
  <2>1. \A r \in Requests : kept[r] # {} /\ pc[r] = "done" => answer[r] # None
    BY DEF IInv, LookupInv
  <2> QED
    BY <2>1, StayingKeysAreCached DEF StayingIsFound
<1> QED
  BY <1>1, IInvAlways, PTL
=============================================================================
