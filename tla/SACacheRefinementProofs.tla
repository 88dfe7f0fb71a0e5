---------------------- MODULE SACacheRefinementProofs ----------------------
(***************************************************************************)
(* SACache implements Notification for every value of the constants: the   *)
(* misses of create are Register steps, the writes of setSA are Populate   *)
(* steps, popSA and Clear are Evict steps, and everything else stutters.   *)
(***************************************************************************)
EXTENDS SACacheRefinement, SACacheProofs

USE DEF Writers

cachedBar == {k \in Keys : saCache[k] # 0}

\* The refinement mapping reads these variables, and of the writers only who
\* is about to broadcast what.
LEMMA MappingStutters ==
    ASSUME UNCHANGED <<saCache, notifier, key, closed>>,
           \A k \in Keys : Populating(k)' <=> Populating(k),
           key \in [Requests -> Keys]
    PROVE  UNCHANGED Abstract!vars
<1>1. UNCHANGED <<cachedBar, waitsForBar>>
  BY DEF cachedBar, waitsForBar
<1>2. UNCHANGED wokenBar
  BY DEF wokenBar
<1>. QED
  BY <1>1, <1>2 DEF Abstract!vars, cachedBar

\* Nothing is cached, registered or woken at first.
LEMMA InitRefines == Init => Abstract!Init
<1>. SUFFICES ASSUME Init PROVE Abstract!Init
  OBVIOUS
<1>1. cachedBar = {} /\ waitsForBar = [r \in Requests |-> None] /\ wokenBar = {}
  BY DEF Init, cachedBar, waitsForBar, wokenBar
<1>. QED
  BY <1>1 DEF Abstract!Init, cachedBar

\* A request that gets a channel from create registers for a missing key.
LEMMA RegisterRefines ==
    ASSUME IInv, NEW r \in Requests, JoinHandler(r) \/ NewHandler(r)
    PROVE  Abstract!Register(r, key[r])
<1>. USE ProcessAssumption DEF IInv, TypeOK
<1>1. /\ pc[r] = "register" /\ notifier[r] = None
      /\ UNCHANGED <<saCache, key, closed, wpc, arg>>
  BY DEF JoinHandler, NewHandler, NotifiersOK
<1>2. PICK c \in Requests : /\ notifier' = [notifier EXCEPT ![r] = c]
                            /\ c \notin closed
  <2>1. CASE JoinHandler(r)
    <3>1. /\ notifier' = [notifier EXCEPT ![r] = handlers[key[r]]]
          /\ key[r] \in Keys /\ handlers[key[r]] # None
      BY <2>1 DEF JoinHandler
    <3>2. handlers[key[r]] \in Requests /\ handlers[key[r]] \notin closed
      BY <3>1 DEF RegistryOK
    <3>. QED
      BY <3>1, <3>2
  <2>2. CASE NewHandler(r)
    <3>1. notifier' = [notifier EXCEPT ![r] = r]
      BY <2>2 DEF NewHandler
    <3>2. r \notin closed
      BY <1>1 DEF RegistryOK
    <3>. QED
      BY <3>1, <3>2
  <2>. QED
    BY <2>1, <2>2
<1>3. waitsForBar[r] = None /\ waitsForBar' = [waitsForBar EXCEPT ![r] = key[r]]
  BY <1>1, <1>2 DEF waitsForBar
<1>4. \A k \in Keys : ~Populating(k) /\ ~Populating(k)'
  BY <1>1 DEF LocksExclude, ReadLocked, Owns, Populating
<1>5. wokenBar' = wokenBar
  BY <1>1, <1>2, <1>4 DEF wokenBar
<1>6. key[r] \notin cachedBar /\ cachedBar' = cachedBar
  BY <1>1 DEF MissOK, cachedBar
<1>. QED
  BY <1>3, <1>5, <1>6 DEF Abstract!Register, cachedBar

\* The write of setSA populates its key and wakes who waits for it.
LEMMA PopulateRefines ==
    ASSUME IInv, NEW w \in Writers, SetSA(w)
    PROVE  Abstract!Populate(arg[w].key)
<1>. DEFINE k == arg[w].key
<1>. USE ProcessAssumption DEF IInv, TypeOK, UpdatesOK
<1>1. /\ saCache' = [saCache EXCEPT ![k] = arg[w].ver]
      /\ wpc' = [wpc EXCEPT ![w] = "broadcast"]
      /\ wpc[w] = "drain" /\ k \in Keys /\ arg[w].ver # 0
      /\ UNCHANGED <<notifier, key, closed, arg>>
  BY DEF SetSA, lookupVars
<1>2. \A j \in Keys : ~Populating(j) /\ (Populating(j)' <=> j = k)
  BY <1>1 DEF LocksExclude, Owns, Populating
<1>3. cachedBar' = cachedBar \cup {k}
  BY <1>1 DEF cachedBar
<1>4. wokenBar' = wokenBar \cup {r \in Requests : waitsForBar[r] = k}
  BY <1>1, <1>2 DEF wokenBar, waitsForBar
<1>5. waitsForBar' = waitsForBar
  BY <1>1 DEF waitsForBar
<1>. QED
  BY <1>3, <1>4, <1>5 DEF Abstract!Populate, cachedBar

\* The broadcast closes the channel of those who were woken by the write.
LEMMA BroadcastRefines ==
    ASSUME IInv, NEW w \in Writers, Broadcast(w)
    PROVE  UNCHANGED Abstract!vars
<1>. DEFINE k == arg[w].key
<1>. USE ProcessAssumption DEF IInv, TypeOK, UpdatesOK
<1>1. /\ closed' = closed \cup ({handlers[k]} \ {None})
      /\ wpc' = [wpc EXCEPT ![w] = IF w = SAInformer THEN "idle" ELSE "done"]
      /\ wpc[w] = "broadcast" /\ w # CMInformer /\ k \in Keys
      /\ UNCHANGED <<saCache, notifier, key, arg>>
  BY DEF Broadcast, lookupVars
<1>2. \A j \in Keys : ~Populating(j)' /\ (Populating(j) <=> j = k)
  BY <1>1 DEF LocksExclude, Owns, Populating
<1>3. ASSUME NEW r \in Requests, notifier[r] # None
      PROVE  notifier[r] \in closed' <=> notifier[r] \in closed \/ key[r] = k
  <2>1. CASE notifier[r] \in closed
    BY <1>1, <2>1
  <2>2. CASE notifier[r] \notin closed
    <3>1. handlers[key[r]] = notifier[r] /\ key[notifier[r]] = key[r]
      BY <1>3, <2>2 DEF RegistryOK
    <3>2. handlers[k] # None => key[handlers[k]] = k
      BY <1>1 DEF RegistryOK
    <3>. QED
      BY <1>1, <1>3, <2>2, <3>1, <3>2
  <2>. QED
    BY <2>1, <2>2
<1>4. wokenBar' = wokenBar
  BY <1>1, <1>2, <1>3 DEF wokenBar
<1>5. UNCHANGED <<cachedBar, waitsForBar>>
  BY <1>1 DEF cachedBar, waitsForBar
<1>. QED
  BY <1>4, <1>5 DEF Abstract!vars, cachedBar

\* popSA and Clear evict; they wake nobody.
LEMMA EvictRefines ==
    ASSUME IInv, ClearSA \/ \E w \in Writers : PopSA(w)
    PROVE  \E K \in SUBSET Keys : Abstract!Evict(K)
<1>. USE ProcessAssumption DEF IInv, TypeOK, UpdatesOK
<1>1. CASE ClearSA
  <2>1. UNCHANGED <<notifier, key, closed, wpc, arg>> /\ cachedBar' = {}
    BY <1>1 DEF ClearSA, lookupVars, cachedBar
  <2>2. UNCHANGED <<waitsForBar, wokenBar>>
    BY <2>1 DEF waitsForBar, wokenBar, Populating, Owns
  <2>3. cachedBar' = cachedBar \ Keys
    BY <2>1 DEF cachedBar
  <2>. QED
    BY <2>2, <2>3 DEF Abstract!Evict, cachedBar
<1>2. ASSUME NEW w \in Writers, PopSA(w)
      PROVE  \E K \in SUBSET Keys : Abstract!Evict(K)
  <2>. DEFINE k == arg[w].key
  <2>1. /\ saCache' = [saCache EXCEPT ![k] = 0]
        /\ wpc' = [wpc EXCEPT ![w] = "idle"] /\ wpc[w] = "drain" /\ k \in Keys
        /\ UNCHANGED <<notifier, key, closed, arg>>
    BY <1>2 DEF PopSA, lookupVars
  <2>2. cachedBar' = cachedBar \ {k}
    BY <2>1 DEF cachedBar
  <2>3. \A j \in Keys : Populating(j)' <=> Populating(j)
    BY <2>1 DEF Populating, Owns
  <2>4. UNCHANGED <<waitsForBar, wokenBar>>
    BY <2>1, <2>3 DEF waitsForBar, wokenBar
  <2>5. PICK K \in SUBSET Keys : K = {k}
    BY <2>1
  <2>6. Abstract!Evict(K)
    BY <2>2, <2>4, <2>5 DEF Abstract!Evict, cachedBar
  <2>. QED
    BY <2>6
<1>. QED
  BY <1>1, <1>2

\* Every step of the cache is a step of the promise, or invisible to it.
LEMMA StepRefines == IInv /\ [Next]_vars => [Abstract!Next]_Abstract!vars
<1>. SUFFICES ASSUME IInv, [Next]_vars PROVE [Abstract!Next]_Abstract!vars
  OBVIOUS
<1>. USE ProcessAssumption DEF IInv, TypeOK
<1>0. UNCHANGED <<wpc, arg>> => \A k \in Keys : Populating(k)' <=> Populating(k)
  BY DEF Populating, Owns
<1>1. ASSUME NEW r \in Requests, JoinHandler(r) \/ NewHandler(r) PROVE Abstract!Next
  BY <1>1, RegisterRefines DEF Abstract!Next
<1>2. ASSUME NEW w \in Writers, SetSA(w) PROVE Abstract!Next
  <2>1. arg[w].key \in Keys
    BY <1>2 DEF SetSA, UpdatesOK
  <2>2. PICK k \in Keys : k = arg[w].key
    BY <2>1
  <2>3. Abstract!Populate(k)
    BY <1>2, <2>2, PopulateRefines DEF Abstract!Populate
  <2>. QED
    BY <2>3 DEF Abstract!Next
<1>3. ASSUME NEW w \in Writers, Broadcast(w) PROVE UNCHANGED Abstract!vars
  BY <1>3, BroadcastRefines
<1>4. CASE ClearSA \/ \E w \in Writers : PopSA(w)
  BY <1>4, EvictRefines DEF Abstract!Next
<1>5. CASE Spawn
  <2>1. Head(fetchRequests) \in Requests /\ wpc[Head(fetchRequests)] = "idle"
    BY <1>5, TailFacts DEF Spawn, SpawnReady, FetchesOK, OneFetchPerHandler
  <2>2. \A k \in Keys : Populating(k)' <=> Populating(k)
    BY <1>5, <2>1 DEF Spawn, SpawnReady, Populating, Owns
  <2>. QED
    BY <1>5, <2>2, MappingStutters DEF Spawn, SpawnReady, lookupVars
<1>6. ASSUME NEW r \in Requests, FetchAnswer(r) \/ FetchFail(r)
      PROVE  UNCHANGED Abstract!vars
  <2>1. \A k \in Keys : Populating(k)' <=> Populating(k)
    <3>1. CASE FetchAnswer(r)
      BY <3>1 DEF FetchAnswer, Populating, Owns
    <3>2. CASE FetchFail(r)
      BY <3>2 DEF FetchFail, Populating, Owns
    <3>. QED
      BY <1>6, <3>1, <3>2
  <2>. QED
    BY <1>6, <2>1, MappingStutters DEF FetchAnswer, FetchFail, lookupVars
<1>7. ASSUME NEW w \in Writers, Lock(w) PROVE UNCHANGED Abstract!vars
  <2>1. \A k \in Keys : Populating(k)' <=> Populating(k)
    BY <1>7 DEF Lock, Populating, Owns
  <2>. QED
    BY <1>7, <2>1, MappingStutters DEF Lock, lookupVars
<1>8. CASE WriteCM
  <2>1. \A k \in Keys : Populating(k)' <=> Populating(k)
    BY <1>8 DEF WriteCM, Populating, Owns
  <2>. QED
    BY <1>8, <2>1, MappingStutters DEF WriteCM, lookupVars
<1>9. ASSUME NEW k \in Keys, NEW v \in 0 .. MaxVersion, Deliver(k, v)
      PROVE  UNCHANGED Abstract!vars
  <2>1. \A j \in Keys : Populating(j)' <=> Populating(j)
    BY <1>9 DEF Deliver, Populating, Owns
  <2>. QED
    BY <1>9, <2>1, MappingStutters DEF Deliver, lookupVars
<1>10. ASSUME NEW op \in {"set", "pop"}, NEW k \in CMKeys, DeliverCM(op, k)
       PROVE  UNCHANGED Abstract!vars
  <2>1. \A j \in Keys : Populating(j)' <=> Populating(j)
    BY <1>10 DEF DeliverCM, Populating, Owns
  <2>. QED
    BY <1>10, <2>1, MappingStutters DEF DeliverCM, lookupVars
<1>11. CASE UNCHANGED <<saCache, notifier, key, closed, wpc, arg>>
  BY <1>0, <1>11, MappingStutters
<1>. QED
  BY <1>1, <1>2, <1>3, <1>4, <1>5, <1>6, <1>7, <1>8, <1>9, <1>10, <1>11
     DEF vars, Next, LookupStep, FetchStep, WriteStep, Admit, RLock, ReadSA,
         MissSA, Create, Send, ReadCM, ReadWild, Notified, Timeout, ClearCM,
         ApiChange, lookupVars

\* The cache keeps the promise of Get: whoever registers is woken by the very
\* store that ends the miss, and by nothing else.
THEOREM Implements == Spec => ImplementsNotification
<1>. QED
  BY Inductive, InitRefines, StepRefines, PTL
     DEF Spec, ImplementsNotification, Abstract!Spec

-----------------------------------------------------------------------------
(* What the promise gives to whoever waits.                                *)

\* Notification keeps its types and lets nobody sleep on what is cached.
LEMMA PromiseKept == Abstract!Spec => [](Abstract!TypeOK /\ Abstract!SleepersMiss)
<1> DEFINE Inv == Abstract!TypeOK /\ Abstract!SleepersMiss
<1>1. Abstract!Init => Inv
  BY DEF Abstract!Init, Abstract!TypeOK, Abstract!SleepersMiss
<1>2. Inv /\ [Abstract!Next]_Abstract!vars => Inv'
  <2> SUFFICES ASSUME Inv, [Abstract!Next]_Abstract!vars PROVE Inv'
    OBVIOUS
  <2> USE DEF Abstract!TypeOK, Abstract!SleepersMiss
  <2>1. ASSUME NEW r \in Requests, NEW k \in Keys, Abstract!Register(r, k) PROVE Inv'
    BY <2>1 DEF Abstract!Register
  <2>2. ASSUME NEW k \in Keys, Abstract!Populate(k) PROVE Inv'
    BY <2>2 DEF Abstract!Populate
  <2>3. ASSUME NEW K \in SUBSET Keys, Abstract!Evict(K) PROVE Inv'
    BY <2>3 DEF Abstract!Evict
  <2>4. CASE UNCHANGED Abstract!vars
    BY <2>4 DEF Abstract!vars
  <2> QED
    BY <2>1, <2>2, <2>3, <2>4 DEF Abstract!Next
<1> QED
  BY <1>1, <1>2, PTL DEF Abstract!Spec

\* So in the cache: from the moment an entry is written, before its broadcast
\* even, whoever registered for it is woken or about to be by the writer that
\* still holds mu, in spite of Clear and of fetches that come late.
THEOREM SleepersAreMissing == Spec => []Abstract!SleepersMiss
<1>1. ImplementsNotification => []Abstract!SleepersMiss
  BY PromiseKept, PTL DEF ImplementsNotification
<1> QED
  BY <1>1, Implements, PTL
=============================================================================
