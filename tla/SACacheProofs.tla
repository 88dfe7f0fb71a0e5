--------------------------- MODULE SACacheProofs ---------------------------
(***************************************************************************)
(* IInv is an inductive invariant of SACache, for every set of requests,   *)
(* ServiceAccounts and ConfigMap keys and every channel capacity.          *)
(*                                                                         *)
(* Each conjunct of IInv has a lemma.  It first proves the steps that touch*)
(* the variables of the conjunct, one by one, and its last step observes   *)
(* that the other actions leave those variables alone.                     *)
(***************************************************************************)
EXTENDS SACacheInvariant, TLAPS

USE DEF Writers

-----------------------------------------------------------------------------
(* Sequences: what receiving from and sending to the channel do.           *)

\* Receiving takes the first element out, and there is no other copy of it.
LEMMA TailFacts ==
    ASSUME NEW S, NEW q \in Seq(S), q # <<>>
    PROVE  /\ Head(q) \in S /\ Head(q) \in Range(q)
           /\ Tail(q) \in Seq(S) /\ Len(Tail(q)) < Len(q)
           /\ IsInjective(q) => /\ IsInjective(Tail(q))
                                /\ Range(Tail(q)) = Range(q) \ {Head(q)}
<1>1. /\ Head(q) = q[1] /\ Head(q) \in S
      /\ Len(q) \in Nat \ {0} /\ DOMAIN q = 1 .. Len(q)
      /\ Tail(q) \in Seq(S) /\ Len(Tail(q)) = Len(q) - 1
      /\ DOMAIN Tail(q) = 1 .. Len(Tail(q))
  OBVIOUS
<1>2. \A i \in DOMAIN Tail(q) : Tail(q)[i] = q[i + 1] /\ i + 1 \in 2 .. Len(q)
  OBVIOUS
<1>3. Head(q) \in Range(q)
  BY <1>1 DEF Range
<1>4. ASSUME IsInjective(q) PROVE IsInjective(Tail(q))
  BY <1>1, <1>2, <1>4 DEF IsInjective
<1>5. ASSUME IsInjective(q) PROVE Range(Tail(q)) = Range(q) \ {Head(q)}
  <2>1. ASSUME NEW i \in DOMAIN Tail(q)
        PROVE  Tail(q)[i] \in Range(q) \ {Head(q)}
    <3>1. i + 1 \in DOMAIN q /\ 1 \in DOMAIN q /\ i + 1 # 1
      BY <1>1, <1>2
    <3>. QED
      BY <1>1, <1>2, <1>5, <3>1 DEF Range, IsInjective
  <2>2. ASSUME NEW i \in DOMAIN q, q[i] # Head(q)
        PROVE  q[i] \in Range(Tail(q))
    <3>1. i - 1 \in DOMAIN Tail(q) /\ Tail(q)[i - 1] = q[i]
      BY <1>1, <1>2, <2>2
    <3>. QED
      BY <3>1 DEF Range
  <2>. QED
    BY <2>1, <2>2 DEF Range
<1>. QED
  BY <1>1, <1>3, <1>4, <1>5

\* Sending adds one element.
LEMMA AppendFacts ==
    ASSUME NEW S, NEW q \in Seq(S), NEW e \in S
    PROVE  /\ Append(q, e) \in Seq(S) /\ Len(Append(q, e)) = Len(q) + 1
           /\ Range(Append(q, e)) = Range(q) \cup {e}
           /\ IsInjective(q) /\ e \notin Range(q) => IsInjective(Append(q, e))
<1>1. /\ Append(q, e) \in Seq(S) /\ Len(q) \in Nat
      /\ Len(Append(q, e)) = Len(q) + 1
      /\ DOMAIN q = 1 .. Len(q) /\ DOMAIN Append(q, e) = 1 .. Len(q) + 1
      /\ \A i \in DOMAIN q : Append(q, e)[i] = q[i]
      /\ Append(q, e)[Len(q) + 1] = e
  OBVIOUS
<1>2. \A i \in DOMAIN Append(q, e) : i \in DOMAIN q \/ i = Len(q) + 1
  BY <1>1
<1>3. Range(Append(q, e)) = Range(q) \cup {e}
  BY <1>1, <1>2 DEF Range
<1>4. IsInjective(q) /\ e \notin Range(q) => IsInjective(Append(q, e))
  BY <1>1, <1>2 DEF Range, IsInjective
<1>. QED
  BY <1>1, <1>3, <1>4

\* What is in the channel was sent to it.
LEMMA RangeFacts ==
    ASSUME NEW S, NEW q \in Seq(S) PROVE Range(q) \subseteq S
  BY DEF Range

-----------------------------------------------------------------------------
(* The conjuncts of IInv.                                                  *)

\* The initial states satisfy the invariant.
LEMMA InitInv == Init => IInv
<1>. SUFFICES ASSUME Init PROVE IInv
  OBVIOUS
<1>. USE ProcessAssumption, BoundAssumption, FlagAssumption, KeyAssumption DEF Init
<1>1. TypeOK
  BY DEF TypeOK, LookupLabels, WriterLabels
<1>2. UpdatesOK /\ LocksExclude
  BY DEF UpdatesOK, LocksExclude, ReadLocked, Owns
<1>3. NotifiersOK /\ RegistryOK
  BY DEF NotifiersOK, RegistryOK
<1>4. MissOK /\ FetchesOK
  BY DEF MissOK, FetchesOK, OneFetchPerHandler, Range, IsInjective
<1>. QED
  BY <1>1, <1>2, <1>3, <1>4 DEF IInv

\* A fetch or a callback prepares an update; writing only consumes it.
LEMMA UpdatesStep == IInv /\ [Next]_vars => UpdatesOK'
<1>. SUFFICES ASSUME IInv, [Next]_vars PROVE UpdatesOK'
  OBVIOUS
<1>. USE ProcessAssumption, KeyAssumption DEF IInv, TypeOK, UpdatesOK
<1>1. ASSUME Spawn PROVE UpdatesOK'
  <2>1. Head(fetchRequests) \in Requests
    BY <1>1, TailFacts DEF Spawn, SpawnReady
  <2>. QED
    BY <1>1, <2>1 DEF Spawn, SpawnReady, lookupVars
<1>2. ASSUME NEW r \in Requests, FetchAnswer(r) PROVE UpdatesOK'
  BY <1>2 DEF FetchAnswer, Updates, Latest, StateAt, lookupVars
<1>3. ASSUME NEW r \in Requests, FetchFail(r) PROVE UpdatesOK'
  BY <1>3 DEF FetchFail, lookupVars
<1>4. ASSUME NEW w \in Writers, Lock(w) PROVE UpdatesOK'
  BY <1>4 DEF Lock, lookupVars
<1>5. ASSUME NEW w \in Writers, SetSA(w) PROVE UpdatesOK'
  BY <1>5 DEF SetSA, lookupVars
<1>6. ASSUME NEW w \in Writers, Broadcast(w) PROVE UpdatesOK'
  BY <1>6 DEF Broadcast, lookupVars
<1>7. ASSUME NEW w \in Writers, PopSA(w) PROVE UpdatesOK'
  BY <1>7 DEF PopSA, lookupVars
<1>8. ASSUME WriteCM PROVE UpdatesOK'
  BY <1>8 DEF WriteCM, lookupVars
<1>9. ASSUME NEW k \in Keys, NEW v \in 0 .. MaxVersion, Deliver(k, v)
      PROVE  UpdatesOK'
  BY <1>9 DEF Deliver, Updates, Latest, StateAt, lookupVars
<1>10. ASSUME NEW op \in {"set", "pop"}, NEW k \in CMKeys, DeliverCM(op, k)
      PROVE  UpdatesOK'
  BY <1>10 DEF DeliverCM, Updates, lookupVars
<1>11. CASE UNCHANGED <<wpc, arg, key>>
  BY <1>11
<1>. QED
  BY <1>1, <1>2, <1>3, <1>4, <1>5, <1>6, <1>7, <1>8, <1>9, <1>10, <1>11
     DEF vars, Next, LookupStep, FetchStep, WriteStep, Admit, RLock,
         ReadSA, MissSA, Create, JoinHandler, NewHandler, Send,
         ReadCM, ReadWild, Notified, Timeout, ClearSA, ClearCM,
         ApiChange, apiVars, lookupVars

\* RLock, Lock and create take their lock only when it is free for them.
LEMMA LocksStep == IInv /\ [Next]_vars => LocksExclude'
<1>. SUFFICES ASSUME IInv, [Next]_vars PROVE LocksExclude'
  OBVIOUS
<1>. USE ProcessAssumption, KeyAssumption
    DEF IInv, TypeOK, LookupLabels, LocksExclude, ReadLocked, Owns
<1>1. ASSUME NEW r \in Requests, Admit(r) PROVE LocksExclude'
  BY <1>1 DEF Admit
<1>2. ASSUME NEW r \in Requests, RLock(r) PROVE LocksExclude'
  BY <1>2 DEF RLock
<1>3. ASSUME NEW r \in Requests, ReadSA(r) PROVE LocksExclude'
  BY <1>3 DEF ReadSA
<1>4. ASSUME NEW r \in Requests, MissSA(r) PROVE LocksExclude'
  BY <1>4 DEF MissSA
<1>5. ASSUME NEW r \in Requests, Create(r) PROVE LocksExclude'
  BY <1>5 DEF Create
<1>6. ASSUME NEW r \in Requests, JoinHandler(r) PROVE LocksExclude'
  BY <1>6 DEF JoinHandler
<1>7. ASSUME NEW r \in Requests, NewHandler(r) PROVE LocksExclude'
  BY <1>7 DEF NewHandler
<1>8. ASSUME NEW r \in Requests, Send(r) PROVE LocksExclude'
  BY <1>8 DEF Send
<1>9. ASSUME NEW r \in Requests, ReadCM(r) PROVE LocksExclude'
  BY <1>9 DEF ReadCM
<1>10. ASSUME NEW r \in Requests, ReadWild(r) PROVE LocksExclude'
  BY <1>10 DEF ReadWild
<1>11. ASSUME NEW r \in Requests, Notified(r) PROVE LocksExclude'
  BY <1>11 DEF Notified
<1>12. ASSUME NEW r \in Requests, Timeout(r) PROVE LocksExclude'
  BY <1>12 DEF Timeout
<1>13. ASSUME NEW r \in Requests, FetchAnswer(r) PROVE LocksExclude'
  BY <1>13 DEF FetchAnswer
<1>14. ASSUME NEW r \in Requests, FetchFail(r) PROVE LocksExclude'
  BY <1>14 DEF FetchFail
<1>15. ASSUME Spawn PROVE LocksExclude'
  <2>1. /\ Head(fetchRequests) \in Requests
        /\ wpc[Head(fetchRequests)] = "idle"
    BY <1>15, TailFacts DEF Spawn, SpawnReady, FetchesOK, OneFetchPerHandler
  <2>. QED
    BY <1>15, <2>1 DEF Spawn, SpawnReady
<1>16. ASSUME NEW w \in Writers, Lock(w) PROVE LocksExclude'
  BY <1>16 DEF Lock
<1>17. ASSUME NEW w \in Writers, SetSA(w) PROVE LocksExclude'
  BY <1>17 DEF SetSA
<1>18. ASSUME NEW w \in Writers, Broadcast(w) PROVE LocksExclude'
  BY <1>18 DEF Broadcast
<1>19. ASSUME NEW w \in Writers, PopSA(w) PROVE LocksExclude'
  BY <1>19 DEF PopSA
<1>20. ASSUME WriteCM PROVE LocksExclude'
  BY <1>20 DEF WriteCM
<1>21. ASSUME NEW k \in Keys, NEW v \in 0 .. MaxVersion, Deliver(k, v)
      PROVE  LocksExclude'
  BY <1>21 DEF Deliver
<1>22. ASSUME NEW op \in {"set", "pop"}, NEW k \in CMKeys, DeliverCM(op, k)
      PROVE  LocksExclude'
  BY <1>22 DEF DeliverCM
<1>23. CASE UNCHANGED <<pc, readers, nmu, writer, wpc>>
  BY <1>23
<1>. QED
  BY <1>1, <1>2, <1>3, <1>4, <1>5, <1>6, <1>7, <1>8, <1>9, <1>10, <1>11,
     <1>12, <1>13, <1>14, <1>15, <1>16, <1>17, <1>18, <1>19, <1>20, <1>21,
     <1>22, <1>23
     DEF vars, Next, LookupStep, FetchStep, WriteStep, ClearSA,
         ClearCM, ApiChange, apiVars, lookupVars

\* create hands out a notifier before the read lock is released.
LEMMA NotifiersStep == IInv /\ [Next]_vars => NotifiersOK'
<1>. SUFFICES ASSUME IInv, [Next]_vars PROVE NotifiersOK'
  OBVIOUS
<1>. USE ProcessAssumption, KeyAssumption
    DEF IInv, TypeOK, LookupLabels, NotifiersOK
<1>1. ASSUME NEW r \in Requests, Admit(r) PROVE NotifiersOK'
  BY <1>1 DEF Admit, lookupVars
<1>2. ASSUME NEW r \in Requests, RLock(r) PROVE NotifiersOK'
  BY <1>2 DEF RLock, lookupVars
<1>3. ASSUME NEW r \in Requests, ReadSA(r) PROVE NotifiersOK'
  BY <1>3 DEF ReadSA
<1>4. ASSUME NEW r \in Requests, MissSA(r) PROVE NotifiersOK'
  BY <1>4 DEF MissSA, lookupVars
<1>5. ASSUME NEW r \in Requests, Create(r) PROVE NotifiersOK'
  BY <1>5 DEF Create, lookupVars
<1>6. ASSUME NEW r \in Requests, JoinHandler(r) PROVE NotifiersOK'
  BY <1>6 DEF JoinHandler
<1>7. ASSUME NEW r \in Requests, NewHandler(r) PROVE NotifiersOK'
  BY <1>7 DEF NewHandler
<1>8. ASSUME NEW r \in Requests, Send(r) PROVE NotifiersOK'
  BY <1>8 DEF Send, lookupVars
<1>9. ASSUME NEW r \in Requests, ReadCM(r) PROVE NotifiersOK'
  BY <1>9 DEF ReadCM
<1>10. ASSUME NEW r \in Requests, ReadWild(r) PROVE NotifiersOK'
  BY <1>10 DEF ReadWild
<1>11. ASSUME NEW r \in Requests, Notified(r) PROVE NotifiersOK'
  BY <1>11 DEF Notified
<1>12. ASSUME NEW r \in Requests, Timeout(r) PROVE NotifiersOK'
  BY <1>12 DEF Timeout, lookupVars
<1>13. CASE UNCHANGED <<pc, notify, found, notifier>>
  BY <1>13
<1>. QED
  BY <1>1, <1>2, <1>3, <1>4, <1>5, <1>6, <1>7, <1>8, <1>9, <1>10, <1>11,
     <1>12, <1>13
     DEF vars, Next, LookupStep, FetchStep, WriteStep, FetchAnswer,
         FetchFail, Spawn, SpawnReady, Lock, SetSA, Broadcast, PopSA, WriteCM,
         Deliver, DeliverCM, ClearSA, ClearCM, ApiChange, apiVars,
         lookupVars

\* Only a broadcast closes a channel, and it removes it from the registry.
LEMMA RegistryStep == IInv /\ [Next]_vars => RegistryOK'
<1>. SUFFICES ASSUME IInv, [Next]_vars PROVE RegistryOK'
  OBVIOUS
<1>. USE ProcessAssumption, KeyAssumption
    DEF IInv, TypeOK, UpdatesOK, NotifiersOK, RegistryOK
<1>1. ASSUME NEW r \in Requests, JoinHandler(r) PROVE RegistryOK'
  BY <1>1 DEF JoinHandler
<1>2. ASSUME NEW r \in Requests, NewHandler(r) PROVE RegistryOK'
  BY <1>2 DEF NewHandler
<1>3. ASSUME NEW w \in Writers, Broadcast(w) PROVE RegistryOK'
  BY <1>3 DEF Broadcast, lookupVars
<1>4. CASE UNCHANGED <<key, handlers, closed, notifier>>
  BY <1>4
<1>. QED
  BY <1>1, <1>2, <1>3, <1>4
     DEF vars, Next, LookupStep, FetchStep, WriteStep, Admit, RLock,
         ReadSA, MissSA, Create, Send, ReadCM, ReadWild, Notified,
         Timeout, FetchAnswer, FetchFail, Spawn, SpawnReady, Lock, SetSA, PopSA,
         WriteCM, Deliver, DeliverCM, ClearSA, ClearCM, ApiChange,
         apiVars, lookupVars

\* setSA cannot store an entry while a request that missed it holds the read
\* lock, and broadcasts before it releases mu.
LEMMA MissStep == IInv /\ [Next]_vars => MissOK'
<1>. SUFFICES ASSUME IInv, [Next]_vars PROVE MissOK'
  OBVIOUS
<1>. USE ProcessAssumption, KeyAssumption
    DEF IInv, TypeOK, UpdatesOK, LocksExclude, MissOK, ReadLocked, Owns,
        Populating
<1>1. ASSUME NEW r \in Requests, RLock(r) PROVE MissOK'
  BY <1>1 DEF RLock, lookupVars
<1>2. ASSUME NEW r \in Requests, ReadSA(r) PROVE MissOK'
  BY <1>2 DEF ReadSA
<1>3. ASSUME NEW r \in Requests, MissSA(r) PROVE MissOK'
  BY <1>3 DEF MissSA, lookupVars
<1>4. ASSUME NEW r \in Requests, Create(r) PROVE MissOK'
  BY <1>4 DEF Create, lookupVars
<1>5. ASSUME NEW r \in Requests, JoinHandler(r) PROVE MissOK'
  BY <1>5 DEF JoinHandler
<1>6. ASSUME NEW r \in Requests, NewHandler(r) PROVE MissOK'
  BY <1>6 DEF NewHandler
<1>7. ASSUME NEW r \in Requests, Send(r) PROVE MissOK'
  BY <1>7 DEF Send, lookupVars
<1>8. ASSUME NEW r \in Requests, ReadCM(r) PROVE MissOK'
  BY <1>8 DEF ReadCM
<1>9. ASSUME NEW r \in Requests, ReadWild(r) PROVE MissOK'
  BY <1>9 DEF ReadWild
<1>10. ASSUME NEW r \in Requests, Admit(r) PROVE MissOK'
  BY <1>10 DEF Admit, lookupVars
<1>11. ASSUME NEW r \in Requests, Notified(r) PROVE MissOK'
  BY <1>11 DEF Notified
<1>12. ASSUME NEW r \in Requests, Timeout(r) PROVE MissOK'
  BY <1>12 DEF Timeout, lookupVars
<1>13. ASSUME Spawn PROVE MissOK'
  <2>1. /\ Head(fetchRequests) \in Requests
        /\ wpc[Head(fetchRequests)] = "idle"
    BY <1>13, TailFacts DEF Spawn, SpawnReady, FetchesOK, OneFetchPerHandler
  <2>. QED
    BY <1>13, <2>1 DEF Spawn, SpawnReady, lookupVars
<1>14. ASSUME NEW r \in Requests, FetchAnswer(r) PROVE MissOK'
  BY <1>14 DEF FetchAnswer, lookupVars
<1>15. ASSUME NEW r \in Requests, FetchFail(r) PROVE MissOK'
  BY <1>15 DEF FetchFail, lookupVars
<1>16. ASSUME NEW w \in Writers, Lock(w) PROVE MissOK'
  BY <1>16 DEF Lock, lookupVars
<1>17. ASSUME NEW w \in Writers, SetSA(w) PROVE MissOK'
  BY <1>17 DEF SetSA, lookupVars
<1>18. ASSUME NEW w \in Writers, Broadcast(w) PROVE MissOK'
  BY <1>18 DEF Broadcast, lookupVars
<1>19. ASSUME NEW w \in Writers, PopSA(w) PROVE MissOK'
  BY <1>19 DEF PopSA, lookupVars
<1>20. ASSUME WriteCM PROVE MissOK'
  BY <1>20 DEF WriteCM, lookupVars
<1>21. ASSUME NEW k \in Keys, NEW v \in 0 .. MaxVersion, Deliver(k, v) PROVE MissOK'
  BY <1>21 DEF Deliver, lookupVars
<1>22. ASSUME NEW op \in {"set", "pop"}, NEW k \in CMKeys, DeliverCM(op, k)
      PROVE  MissOK'
  BY <1>22 DEF DeliverCM, lookupVars
<1>23. ASSUME ClearSA PROVE MissOK'
  BY <1>23 DEF ClearSA, lookupVars
<1>24. CASE UNCHANGED <<handlers, saCache, pc, key, wpc, arg>>
  BY <1>24
<1>. QED
  BY <1>1, <1>2, <1>3, <1>4, <1>5, <1>6, <1>7, <1>8, <1>9, <1>10, <1>11,
     <1>12, <1>13, <1>14, <1>15, <1>16, <1>17, <1>18, <1>19, <1>20, <1>21,
     <1>22, <1>23, <1>24
     DEF vars, Next, LookupStep, FetchStep, WriteStep, ClearCM,
         ApiChange, apiVars, lookupVars

\* Every action writes values of the right type; the fetch channel grows only
\* while it has room.
LEMMA TypeStep == IInv /\ [Next]_vars => TypeOK'
<1>. SUFFICES ASSUME IInv, [Next]_vars PROVE TypeOK'
  OBVIOUS
<1>. USE ProcessAssumption, KeyAssumption
    DEF IInv, TypeOK, UpdatesOK, Updates, SAStates, LookupLabels,
        WriterLabels
<1>1. ASSUME NEW r \in Requests, Admit(r) PROVE TypeOK'
  BY <1>1 DEF Admit, apiVars, lookupVars
<1>2. ASSUME NEW r \in Requests, RLock(r) PROVE TypeOK'
  BY <1>2 DEF RLock, apiVars, lookupVars
<1>3. ASSUME NEW r \in Requests, ReadSA(r) PROVE TypeOK'
  BY <1>3 DEF ReadSA, apiVars, lookupVars
<1>4. ASSUME NEW r \in Requests, MissSA(r) PROVE TypeOK'
  BY <1>4 DEF MissSA, apiVars, lookupVars
<1>5. ASSUME NEW r \in Requests, Create(r) PROVE TypeOK'
  BY <1>5 DEF Create, apiVars, lookupVars
<1>6. ASSUME NEW r \in Requests, JoinHandler(r) PROVE TypeOK'
  BY <1>6 DEF JoinHandler, apiVars, lookupVars
<1>7. ASSUME NEW r \in Requests, NewHandler(r) PROVE TypeOK'
  BY <1>7 DEF NewHandler, apiVars, lookupVars
<1>8. ASSUME NEW r \in Requests, Send(r) PROVE TypeOK'
  BY <1>8, AppendFacts, BoundAssumption DEF Send, apiVars, lookupVars
<1>9. ASSUME NEW r \in Requests, ReadCM(r) PROVE TypeOK'
  BY <1>9 DEF ReadCM, apiVars, lookupVars
<1>10. ASSUME NEW r \in Requests, ReadWild(r) PROVE TypeOK'
  BY <1>10 DEF ReadWild, apiVars, lookupVars
<1>11. ASSUME NEW r \in Requests, Notified(r) PROVE TypeOK'
  BY <1>11 DEF Notified, apiVars, lookupVars
<1>12. ASSUME NEW r \in Requests, Timeout(r) PROVE TypeOK'
  BY <1>12 DEF Timeout, apiVars, lookupVars
<1>13. ASSUME NEW r \in Requests, FetchAnswer(r) PROVE TypeOK'
  <2>1. Latest(key[r]) \in Nat /\ key[r] \in CMKeys /\ r \in Writers
    BY DEF Latest
  <2>2. PICK u \in Updates :
            arg' = [arg EXCEPT ![r] = u] /\ wpc' = [wpc EXCEPT ![r] = "lock"]
    BY <1>13, <2>1 DEF FetchAnswer
  <2>3. arg' \in [Writers -> Updates \cup {None}] /\ wpc' \in [Writers -> WriterLabels]
    BY <2>1, <2>2
  <2>. QED
    BY <1>13, <2>3 DEF FetchAnswer, apiVars, lookupVars
<1>14. ASSUME NEW r \in Requests, FetchFail(r) PROVE TypeOK'
  BY <1>14 DEF FetchFail, apiVars, lookupVars
<1>15. ASSUME Spawn PROVE TypeOK'
  <2>1. /\ Head(fetchRequests) \in Requests
        /\ Tail(fetchRequests) \in Seq(Requests)
        /\ Len(Tail(fetchRequests)) <= Capacity
    BY <1>15, TailFacts, BoundAssumption DEF Spawn, SpawnReady
  <2>. QED
    BY <1>15, <2>1 DEF Spawn, SpawnReady, apiVars, lookupVars
<1>16. ASSUME NEW w \in Writers, Lock(w) PROVE TypeOK'
  BY <1>16 DEF Lock, apiVars, lookupVars
<1>17. ASSUME NEW w \in Writers, SetSA(w) PROVE TypeOK'
  BY <1>17 DEF SetSA, apiVars, lookupVars
<1>18. ASSUME NEW w \in Writers, Broadcast(w) PROVE TypeOK'
  BY <1>18 DEF Broadcast, apiVars, lookupVars
<1>19. ASSUME NEW w \in Writers, PopSA(w) PROVE TypeOK'
  BY <1>19 DEF PopSA, apiVars, lookupVars
<1>20. ASSUME WriteCM PROVE TypeOK'
  BY <1>20 DEF WriteCM, apiVars, lookupVars
<1>21. ASSUME NEW k \in Keys, NEW v \in 0 .. MaxVersion, Deliver(k, v) PROVE TypeOK'
  BY <1>21 DEF Deliver, apiVars, lookupVars, Latest, StateAt
<1>22. ASSUME NEW op \in {"set", "pop"}, NEW k \in CMKeys, DeliverCM(op, k)
      PROVE  TypeOK'
  BY <1>22 DEF DeliverCM, apiVars, lookupVars
<1>23. ASSUME ClearSA PROVE TypeOK'
  BY <1>23 DEF ClearSA, apiVars, lookupVars
<1>24. ASSUME ClearCM PROVE TypeOK'
  BY <1>24 DEF ClearCM, apiVars, lookupVars
<1>25. ASSUME NEW k \in Keys, NEW s \in SAStates, ApiChange(k, s) PROVE TypeOK'
  BY <1>25 DEF ApiChange, apiVars, lookupVars, Latest, StateAt
<1>26. CASE UNCHANGED <<hist, seen, saCache, cmCache, writer, readers, nmu,
                        handlers, closed, fetchRequests, pc, key, notify, found,
                        notifier, response, wpc, arg>>
  BY <1>26
<1>. QED
  BY <1>1, <1>2, <1>3, <1>4, <1>5, <1>6, <1>7, <1>8, <1>9, <1>10, <1>11,
     <1>12, <1>13, <1>14, <1>15, <1>16, <1>17, <1>18, <1>19, <1>20, <1>21,
     <1>22, <1>23, <1>24, <1>25, <1>26
     DEF vars, Next, LookupStep, FetchStep, WriteStep, apiVars,
         lookupVars

\* A channel and its fetch are made together, so each request has at most one
\* of either.
LEMMA FetchesStep == IInv /\ [Next]_vars => FetchesOK'
<1>. SUFFICES ASSUME IInv, [Next]_vars PROVE FetchesOK'
  OBVIOUS
<1>. USE ProcessAssumption, KeyAssumption
    DEF IInv, TypeOK, FetchesOK, OneFetchPerHandler
<1>1. ASSUME NEW r \in Requests, Admit(r) PROVE FetchesOK'
  BY <1>1 DEF Admit, lookupVars, NotifiersOK
<1>2. ASSUME NEW r \in Requests, RLock(r) PROVE FetchesOK'
  BY <1>2 DEF RLock, lookupVars, NotifiersOK
<1>3. ASSUME NEW r \in Requests, ReadSA(r) PROVE FetchesOK'
  BY <1>3 DEF ReadSA
<1>4. ASSUME NEW r \in Requests, MissSA(r) PROVE FetchesOK'
  BY <1>4 DEF MissSA, lookupVars, NotifiersOK
<1>5. ASSUME NEW r \in Requests, Create(r) PROVE FetchesOK'
  BY <1>5 DEF Create, lookupVars, NotifiersOK
<1>6. ASSUME NEW r \in Requests, ReadCM(r) PROVE FetchesOK'
  BY <1>6 DEF ReadCM
<1>7. ASSUME NEW r \in Requests, ReadWild(r) PROVE FetchesOK'
  BY <1>7 DEF ReadWild
<1>8. ASSUME NEW r \in Requests, Notified(r) PROVE FetchesOK'
  BY <1>8 DEF Notified
<1>9. ASSUME NEW r \in Requests, Timeout(r) PROVE FetchesOK'
  BY <1>9 DEF Timeout, lookupVars, NotifiersOK
<1>10. ASSUME NEW r \in Requests, JoinHandler(r) PROVE FetchesOK'
  BY <1>10 DEF JoinHandler, NotifiersOK
<1>11. ASSUME NEW r \in Requests, NewHandler(r) PROVE FetchesOK'
  <2>1. notifier[r] = None
    BY <1>11 DEF NewHandler, NotifiersOK
  <2>2. wpc[r] = "idle" /\ r \notin Range(fetchRequests)
    BY <2>1, ProcessAssumption
  <2>. QED
    BY <1>11, <2>2 DEF NewHandler
<1>12. ASSUME NEW r \in Requests, Send(r) PROVE FetchesOK'
  <2>1. r \notin Range(fetchRequests) /\ wpc[r] = "idle"
    BY <1>12 DEF Send
  <2>2. /\ IsInjective(fetchRequests')
        /\ Range(fetchRequests') = Range(fetchRequests) \cup {r}
    BY <1>12, <2>1, AppendFacts DEF Send
  <2>3. /\ pc' = [pc EXCEPT ![r] = "getCM"]
        /\ UNCHANGED <<key, notify, notifier, handlers, closed, wpc>>
        /\ notifier[r] = r
    BY <1>12 DEF Send, lookupVars, NotifiersOK
  <2>. QED
    BY <2>1, <2>2, <2>3
<1>13. ASSUME Spawn PROVE FetchesOK'
  <2>. DEFINE c == Head(fetchRequests)
  <2>1. /\ c \in Requests /\ c \in Range(fetchRequests)
        /\ IsInjective(fetchRequests')
        /\ Range(fetchRequests') = Range(fetchRequests) \ {c}
    BY <1>13, TailFacts DEF Spawn, SpawnReady
  <2>2. /\ wpc' = [wpc EXCEPT ![c] = "fetch"]
        /\ UNCHANGED <<pc, key, notify, notifier, handlers, closed>>
    BY <1>13 DEF Spawn, SpawnReady, lookupVars
  <2>. QED
    BY <2>1, <2>2
<1>14. ASSUME NEW r \in Requests, FetchAnswer(r) PROVE FetchesOK'
  BY <1>14 DEF FetchAnswer, lookupVars
<1>15. ASSUME NEW r \in Requests, FetchFail(r) PROVE FetchesOK'
  BY <1>15 DEF FetchFail, lookupVars
<1>16. ASSUME NEW w \in Writers, Lock(w) PROVE FetchesOK'
  BY <1>16 DEF Lock, lookupVars
<1>17. ASSUME NEW w \in Writers, SetSA(w) PROVE FetchesOK'
  BY <1>17 DEF SetSA, lookupVars
<1>18. ASSUME NEW w \in Writers, Broadcast(w) PROVE FetchesOK'
  <2>. DEFINE k == arg[w].key
  <2>1. /\ closed' = closed \cup ({handlers[k]} \ {None})
        /\ handlers' = [handlers EXCEPT ![k] = None]
        /\ wpc' = [wpc EXCEPT ![w] = IF w = SAInformer THEN "idle" ELSE "done"]
        /\ UNCHANGED <<pc, key, notify, notifier, fetchRequests>>
        /\ wpc[w] = "broadcast" /\ w # CMInformer /\ k \in Keys
    BY <1>18 DEF Broadcast, lookupVars, UpdatesOK
  <2>2. CASE w = SAInformer
    BY <2>1, <2>2
  <2>3. CASE w \in Requests
    <3>1. notifier[w] = w /\ key[w] = k
      BY <2>1, <2>3 DEF UpdatesOK
    <3>2. w \in closed'
      BY <2>1, <2>3, <3>1 DEF RegistryOK
    <3>3. \A j \in Keys : handlers'[j] # None => handlers'[j] # w
      BY <2>1, <2>3, <3>1
    <3>. QED
      BY <2>1, <2>3, <3>1, <3>2, <3>3
  <2>. QED
    BY <2>1, <2>2, <2>3
<1>19. ASSUME NEW w \in Writers, PopSA(w) PROVE FetchesOK'
  BY <1>19 DEF PopSA, lookupVars, UpdatesOK
<1>20. ASSUME WriteCM PROVE FetchesOK'
  BY <1>20 DEF WriteCM, lookupVars
<1>21. ASSUME NEW k \in Keys, NEW v \in 0 .. MaxVersion, Deliver(k, v)
      PROVE  FetchesOK'
  BY <1>21, RangeFacts DEF Deliver, lookupVars
<1>22. ASSUME NEW op \in {"set", "pop"}, NEW k \in CMKeys, DeliverCM(op, k)
      PROVE  FetchesOK'
  BY <1>22, RangeFacts DEF DeliverCM, lookupVars
<1>23. CASE UNCHANGED <<handlers, closed, pc, key, notify, notifier, wpc,
                        fetchRequests>>
  BY <1>23
<1>. QED
  BY <1>1, <1>2, <1>3, <1>4, <1>5, <1>6, <1>7, <1>8, <1>9, <1>10, <1>11,
     <1>12, <1>13, <1>14, <1>15, <1>16, <1>17, <1>18, <1>19, <1>20, <1>21,
     <1>22, <1>23
     DEF vars, Next, LookupStep, FetchStep, WriteStep, ClearSA,
         ClearCM, ApiChange, apiVars, lookupVars

-----------------------------------------------------------------------------
(* The theorems.                                                           *)

\* Every reachable state satisfies the inductive invariant.
THEOREM Inductive == Spec => []IInv
<1>1. IInv /\ [Next]_vars => IInv'
  BY TypeStep, UpdatesStep, LocksStep, NotifiersStep, RegistryStep, MissStep,
     FetchesStep DEF IInv
<1>. QED
  BY InitInv, <1>1, PTL DEF Spec

\* No goroutine stores a value of the wrong type, and the fetch channel never
\* exceeds its buffer.
THEOREM TypeCorrect == Spec => []TypeOK
<1>1. IInv => TypeOK
  BY DEF IInv
<1>. QED
  BY Inductive, <1>1, PTL

\* mu and notifications.mu exclude, and broadcast never waits for the second.
THEOREM LocksAreExclusive == Spec => []LocksExclude
<1>1. IInv => LocksExclude
  BY DEF IInv
<1>. QED
  BY Inductive, <1>1, PTL

\* A request never waits on a channel that no broadcast of its ServiceAccount
\* would close.
THEOREM WaitersAreRegistered == Spec => []NoOrphanWaiter
<1>1. IInv => NoOrphanWaiter
  BY DEF IInv, TypeOK, NotifiersOK, RegistryOK, NoOrphanWaiter, Waiting
<1>. QED
  BY Inductive, <1>1, PTL

\* No wake-up is lost between a miss and the store that ends it.
THEOREM NoLostWakeUp == Spec => []NoWaitWhileCached
<1>1. IInv => NoWaitWhileCached
  BY DEF IInv, TypeOK, RegistryOK, MissOK, NoWaitWhileCached, Waiting
<1>. QED
  BY Inductive, <1>1, PTL

\* Requests for one ServiceAccount share one fetch.
THEOREM FetchesAreShared == Spec => []OneFetchPerHandler
<1>1. IInv => OneFetchPerHandler
  BY DEF IInv, FetchesOK
<1>. QED
  BY Inductive, <1>1, PTL

\* The owner of notifications.mu can move: it is in create, past the lock, and
\* a full fetch channel is one that the consumer can empty.
LEMMA NotificationsOwnerMoves ==
    ASSUME IInv, nmu # None PROVE nmu \in Requests /\ Free(nmu)
<1>1. nmu \in Requests /\ pc[nmu] \in {"register", "send"}
  BY DEF IInv, TypeOK, LocksExclude
<1>2. Len(fetchRequests) < Capacity \/ SpawnReady
  <2>1. fetchRequests = <<>> => Len(fetchRequests) = 0
    OBVIOUS
  <2>2. Len(fetchRequests) \in Nat /\ Len(fetchRequests) <= Capacity
    BY DEF IInv, TypeOK
  <2>. QED
    BY <2>1, <2>2, BoundAssumption DEF SpawnReady
<1>. QED
  BY <1>1, <1>2 DEF Free

\* So can every owner of the read lock of mu, or it waits for that one only.
LEMMA ReadersMove ==
    ASSUME IInv, NEW r \in readers PROVE ReaderMoves(r)
<1>1. r \in Requests /\ pc[r] \in {"readSA", "create", "register", "send",
                                  "readCM", "readWild"}
  BY DEF IInv, LocksExclude, ReadLocked
<1>2. CASE pc[r] = "send"
  BY <1>1, <1>2, NotificationsOwnerMoves, ProcessAssumption
     DEF IInv, LocksExclude, ReaderMoves
<1>3. CASE pc[r] = "create"
  BY <1>3, NotificationsOwnerMoves DEF ReaderMoves, Free
<1>. QED
  BY <1>1, <1>2, <1>3 DEF ReaderMoves, Free

\* A writer that owns mu waits for readers only, never for notifications.mu.
LEMMA OwnerMoves ==
    ASSUME IInv, NEW w \in Writers, wpc[w] \in {"drain", "broadcast"}
    PROVE  WriterMoves(w)
<1>1. CASE wpc[w] = "drain"
  BY <1>1, ReadersMove DEF WriterMoves
<1>2. CASE wpc[w] = "broadcast"
  BY <1>2 DEF IInv, LocksExclude, Owns, WriterMoves, FreeWriter
<1>. QED
  BY <1>1, <1>2

\* No goroutine inside the cache is ever deadlocked: the order mu,
\* notifications.mu, fetch channel has no cycle, the consumer takes no lock.
THEOREM NoDeadlock == Spec => []NobodyIsStuck
<1>1. IInv => NobodyIsStuck
  <2>. SUFFICES ASSUME IInv PROVE NobodyIsStuck
    OBVIOUS
  <2>. DEFINE OwnerCan == writer # None /\ WriterMoves(writer)
  <2>1. writer # None => OwnerCan
    BY OwnerMoves DEF IInv, TypeOK, LocksExclude
  <2>2. ASSUME NEW r \in Requests, pc[r] \notin {"arrive", "done"}
        PROVE  ReaderMoves(r) \/ (pc[r] \in {"getSA", "getCM", "getWild"} /\ OwnerCan)
    <3>1. CASE pc[r] \in {"getSA", "getCM", "getWild"}
      BY <2>1, <3>1 DEF ReaderMoves, Free
    <3>2. CASE pc[r] = "select"
      BY <3>2 DEF ReaderMoves, Free
    <3>3. pc[r] \notin {"getSA", "getCM", "getWild", "select"} => r \in readers
      BY <2>2 DEF IInv, TypeOK, LookupLabels, LocksExclude, ReadLocked
    <3>. QED
      BY <3>1, <3>2, <3>3, ReadersMove
  <2>3. ASSUME NEW w \in Writers, wpc[w] \in {"lock", "drain", "broadcast"}
        PROVE  WriterMoves(w) \/ (wpc[w] = "lock" /\ OwnerCan)
    <3>1. CASE wpc[w] = "lock"
      BY <2>1, <3>1 DEF WriterMoves, FreeWriter
    <3>. QED
      BY <2>3, <3>1, OwnerMoves
  <2>. QED
    BY <2>2, <2>3 DEF NobodyIsStuck
<1>. QED
  BY Inductive, <1>1, PTL

-----------------------------------------------------------------------------
(* A pod that the ConfigMap maps throughout its lookup.                    *)

\* The lookup of r has not passed the place where it looks for its own entry,
\* or it was answered.
OwnEntryAhead(r) ==
    /\ pc[r] \notin {"getWild", "readWild", "select"}
    /\ pc[r] = "done" => response[r] # "none"

\* The same for its wildcard entry.
WildEntryAhead(r) ==
    /\ pc[r] # "select"
    /\ pc[r] = "done" => response[r] # "none"

LEMMA OwnEntryStep ==
    ASSUME NEW r \in Requests, IInv, [Next]_vars, OwnEntryAhead(r),
           pc[r] # "arrive" => key[r] \in cmCache
    PROVE  OwnEntryAhead(r)'
<1>. USE DEF IInv, TypeOK, OwnEntryAhead
<1>1. ASSUME NEW s \in Requests, Admit(s) \/ LookupStep(s) PROVE OwnEntryAhead(r)'
  BY <1>1 DEF Admit, LookupStep, RLock, ReadSA, MissSA, Create, JoinHandler,
     NewHandler, Send, ReadCM, ReadWild, Notified, Timeout, lookupVars
<1>2. UNCHANGED <<pc, response>> => OwnEntryAhead(r)'
  OBVIOUS
<1>. QED
  BY <1>1, <1>2 DEF vars, Next, FetchStep, FetchAnswer, FetchFail, Spawn,
     WriteStep, Lock, SetSA, Broadcast, PopSA, WriteCM, Deliver, DeliverCM,
     ClearSA, ClearCM, ApiChange, lookupVars

LEMMA WildEntryStep ==
    ASSUME NEW r \in Requests, IInv, [Next]_vars, WildEntryAhead(r),
           pc[r] # "arrive" => Wildcard[key[r]] \in cmCache
    PROVE  WildEntryAhead(r)'
<1>. USE DEF IInv, TypeOK, WildEntryAhead
<1>1. ASSUME NEW s \in Requests, Admit(s) \/ LookupStep(s) PROVE WildEntryAhead(r)'
  BY <1>1 DEF Admit, LookupStep, RLock, ReadSA, MissSA, Create, JoinHandler,
     NewHandler, Send, ReadCM, ReadWild, Notified, Timeout, lookupVars
<1>2. UNCHANGED <<pc, response>> => WildEntryAhead(r)'
  OBVIOUS
<1>. QED
  BY <1>1, <1>2 DEF vars, Next, FetchStep, FetchAnswer, FetchFail, Spawn,
     WriteStep, Lock, SetSA, Broadcast, PopSA, WriteCM, Deliver, DeliverCM,
     ClearSA, ClearCM, ApiChange, lookupVars

\* Whatever the informers, the fetches and Clear do, a pod is mutated whose
\* ServiceAccount the ConfigMap maps for as long as its lookup lasts.
THEOREM MappedPodsAreMutated == Spec => MappedIsMutated
<1>. SUFFICES ASSUME NEW r \in Requests
              PROVE  Spec =>
                (( \/ [](pc[r] # "arrive" => key[r] \in cmCache)
                   \/ [](pc[r] # "arrive" => Wildcard[key[r]] \in cmCache) )
                 => [](pc[r] = "done" => response[r] # "none"))
  BY DEF MappedIsMutated
<1>1. Init => OwnEntryAhead(r) /\ WildEntryAhead(r)
  BY DEF Init, OwnEntryAhead, WildEntryAhead
<1>2. IInv /\ OwnEntryAhead(r) /\ [Next]_vars
         /\ (pc[r] # "arrive" => key[r] \in cmCache) => OwnEntryAhead(r)'
  BY OwnEntryStep
<1>3. IInv /\ WildEntryAhead(r) /\ [Next]_vars
         /\ (pc[r] # "arrive" => Wildcard[key[r]] \in cmCache) => WildEntryAhead(r)'
  BY WildEntryStep
<1>4. OwnEntryAhead(r) \/ WildEntryAhead(r) => (pc[r] = "done" => response[r] # "none")
  BY DEF OwnEntryAhead, WildEntryAhead
<1>. QED
  BY Inductive, <1>1, <1>2, <1>3, <1>4, PTL DEF Spec

-----------------------------------------------------------------------------
(* Without the debug handlers nothing but setSA and popSA writes the       *)
(* entries of ServiceAccounts.  Then an entry is there when its waiters    *)
(* are notified, and it agrees with the informer unless a fetch wrote it.  *)

\* What the informer delivered last about k, as a cache entry.
Delivered(k) == IF StateAt(k, seen[k]) = "absent" THEN 0 ELSE seen[k]

\* The informer has not stored its delivery of k yet.
Undelivered(k) == wpc[SAInformer] \in {"lock", "drain"} /\ arg[SAInformer].key = k

FetchWrote(k) ==
    \E r \in Requests : /\ key[r] = k
                        /\ wpc[r] \in {"broadcast", "done"}
                        /\ arg[r].ver = saCache[k]

\* The writer that is about to broadcast has stored its entry.
StoredInv ==
    \A w \in Writers : wpc[w] = "broadcast" => saCache[arg[w].key] = arg[w].ver

\* The informer only delivers versions that exist, and carries its last one.
DeliveryInv ==
    /\ \A k \in Keys : seen[k] <= Latest(k)
    /\ wpc[SAInformer] \in {"lock", "drain"} =>
          LET u == arg[SAInformer]
          IN u.ver = seen[u.key] /\ (u.op = "pop" <=> Delivered(u.key) = 0)

DivergenceInv ==
    \A k \in Keys : saCache[k] # Delivered(k) => Undelivered(k) \/ FetchWrote(k)

FreshInv == StoredInv /\ DeliveryInv /\ DivergenceInv

-----------------------------------------------------------------------------
\* The initial cache is empty and nothing was delivered.
LEMMA InitFresh == Init => FreshInv
<1>. SUFFICES ASSUME Init PROVE FreshInv
  OBVIOUS
<1>1. \A w \in Writers : wpc[w] = "idle"
  BY DEF Init
<1>2. \A k \in Keys : seen[k] = 0 /\ Latest(k) = 0 /\ Delivered(k) = 0 /\ saCache[k] = 0
  BY DEF Init, Latest, Delivered, StateAt
<1>. QED
  BY <1>1, <1>2 DEF FreshInv, StoredInv, DeliveryInv, DivergenceInv

\* The write of setSA precedes the broadcast, and nobody writes in between.
LEMMA StoredStep ==
    ~DebugHandlers /\ IInv /\ StoredInv /\ [Next]_vars => StoredInv'
<1>. SUFFICES ASSUME ~DebugHandlers, IInv, StoredInv, [Next]_vars PROVE StoredInv'
  OBVIOUS
<1>. USE ProcessAssumption, KeyAssumption
     DEF IInv, TypeOK, UpdatesOK, LocksExclude, StoredInv
<1>1. ASSUME Spawn PROVE StoredInv'
  BY <1>1, TailFacts DEF Spawn, SpawnReady
<1>2. ASSUME NEW r \in Requests, FetchStep(r) PROVE StoredInv'
  <2>1. CASE FetchAnswer(r)
    BY <2>1 DEF FetchAnswer
  <2>2. CASE FetchFail(r)
    BY <2>2 DEF FetchFail
  <2>. QED
    BY <1>2, <2>1, <2>2 DEF FetchStep
<1>3. ASSUME NEW w \in Writers, Lock(w) PROVE StoredInv'
  BY <1>3 DEF Lock
<1>4. ASSUME NEW w \in Writers, SetSA(w) PROVE StoredInv'
  BY <1>4 DEF SetSA
<1>5. ASSUME NEW w \in Writers, Broadcast(w) PROVE StoredInv'
  BY <1>5 DEF Broadcast
<1>6. ASSUME NEW w \in Writers, PopSA(w) PROVE StoredInv'
  BY <1>6 DEF PopSA
<1>7. ASSUME WriteCM PROVE StoredInv'
  BY <1>7 DEF WriteCM
<1>8. ASSUME NEW k \in Keys, NEW v \in 0 .. MaxVersion, Deliver(k, v)
      PROVE  StoredInv'
  BY <1>8 DEF Deliver
<1>9. ASSUME NEW op \in {"set", "pop"}, NEW k \in CMKeys, DeliverCM(op, k)
      PROVE  StoredInv'
  BY <1>9 DEF DeliverCM
<1>10. CASE UNCHANGED <<wpc, arg, saCache>>
  BY <1>10
<1>. QED
  BY <1>1, <1>2, <1>3, <1>4, <1>5, <1>6, <1>7, <1>8, <1>9, <1>10
     DEF vars, Next, LookupStep, WriteStep, Admit, RLock, ReadSA, MissSA, Create,
         JoinHandler, NewHandler, Send, ReadCM, ReadWild, Notified, Timeout,
         ClearSA, ClearCM, ApiChange

\* A change of the API server adds a version and keeps the earlier ones.
LEMMA HistoryFacts ==
    ASSUME IInv, DeliveryInv, NEW k \in Keys, NEW s \in SAStates, ApiChange(k, s)
    PROVE  \A j \in Keys : /\ seen[j] <= Latest(j)'
                           /\ Delivered(j)' = Delivered(j)
<1>. USE DEF IInv, TypeOK
<1>1. /\ hist' = [hist EXCEPT ![k] = Append(hist[k], s)]
      /\ UNCHANGED seen
      /\ hist[k] \in Seq(SAStates)
  BY DEF ApiChange
<1>2. /\ Len(Append(hist[k], s)) = Len(hist[k]) + 1 /\ Len(hist[k]) \in Nat
      /\ \A v \in 1 .. Len(hist[k]) : Append(hist[k], s)[v] = hist[k][v]
  BY <1>1
<1>3. ASSUME NEW j \in Keys PROVE seen[j] <= Latest(j)' /\ Delivered(j)' = Delivered(j)
  <2>1. seen[j] \in Nat /\ seen[j] <= Len(hist[j])
    BY DEF DeliveryInv, Latest
  <2>2. CASE j = k
    BY <1>1, <1>2, <2>1, <2>2 DEF Latest, Delivered, StateAt
  <2>3. CASE j # k
    BY <1>1, <2>1, <2>3 DEF Latest, Delivered, StateAt
  <2>. QED
    BY <2>2, <2>3
<1>. QED
  BY <1>3

\* The informer takes each version from the history, in order.
LEMMA DeliveryStep == IInv /\ DeliveryInv /\ [Next]_vars => DeliveryInv'
<1>. SUFFICES ASSUME IInv, DeliveryInv, [Next]_vars PROVE DeliveryInv'
  OBVIOUS
<1>. USE ProcessAssumption, KeyAssumption DEF IInv, TypeOK, UpdatesOK
<1>1. ASSUME Spawn PROVE DeliveryInv'
  <2>1. Head(fetchRequests) \in Requests
    BY <1>1, TailFacts DEF Spawn, SpawnReady
  <2>. QED
    BY <1>1, <2>1 DEF Spawn, SpawnReady, apiVars, DeliveryInv, Latest, Delivered, StateAt
<1>2. ASSUME NEW r \in Requests, FetchStep(r) PROVE DeliveryInv'
  <2>1. /\ UNCHANGED <<hist, seen>>
        /\ wpc'[SAInformer] = wpc[SAInformer] /\ arg'[SAInformer] = arg[SAInformer]
    BY <1>2 DEF FetchStep, FetchAnswer, FetchFail, apiVars
  <2>. QED
    BY <2>1 DEF DeliveryInv, Latest, Delivered, StateAt
<1>3. ASSUME NEW w \in Writers, WriteStep(w) PROVE DeliveryInv'
  <2>1. /\ UNCHANGED <<hist, seen, arg>>
        /\ wpc'[SAInformer] \in {"lock", "drain"} => wpc[SAInformer] \in {"lock", "drain"}
    <3>1. CASE Lock(w) \/ SetSA(w)
      BY <3>1 DEF Lock, SetSA, apiVars
    <3>2. CASE Broadcast(w) \/ PopSA(w)
      BY <3>2 DEF Broadcast, PopSA, apiVars
    <3>3. CASE WriteCM
      BY <3>3 DEF WriteCM, apiVars
    <3>. QED
      BY <1>3, <3>1, <3>2, <3>3 DEF WriteStep
  <2>. QED
    BY <2>1 DEF DeliveryInv, Latest, Delivered, StateAt
<1>4. ASSUME NEW k \in Keys, NEW v \in 0 .. MaxVersion, Deliver(k, v)
      PROVE  DeliveryInv'
  BY <1>4 DEF Deliver, DeliveryInv, Latest, Delivered, StateAt
<1>5. ASSUME NEW op \in {"set", "pop"}, NEW k \in CMKeys, DeliverCM(op, k)
      PROVE  DeliveryInv'
  BY <1>5 DEF DeliverCM, apiVars, DeliveryInv, Latest, Delivered, StateAt
<1>6. ASSUME NEW k \in Keys, NEW s \in SAStates, ApiChange(k, s)
      PROVE  DeliveryInv'
  <2>1. UNCHANGED <<seen, wpc, arg>>
    BY <1>6 DEF ApiChange
  <2>2. arg[SAInformer].key \in Keys \/ wpc[SAInformer] \notin {"lock", "drain"}
    OBVIOUS
  <2>3. \A j \in Keys : seen[j] <= Latest(j)' /\ Delivered(j)' = Delivered(j)
    BY <1>6, HistoryFacts
  <2>. QED
    BY <2>1, <2>2, <2>3 DEF DeliveryInv
<1>7. CASE UNCHANGED <<hist, seen, wpc, arg>>
  BY <1>7 DEF DeliveryInv, Latest, Delivered, StateAt
<1>. QED
  BY <1>1, <1>2, <1>3, <1>4, <1>5, <1>6, <1>7
     DEF vars, Next, LookupStep, Admit, RLock, ReadSA, MissSA, Create,
         JoinHandler, NewHandler, Send, ReadCM, ReadWild, Notified, Timeout,
         ClearSA, ClearCM, apiVars

\* What a fetch wrote stays its own until the entry is written again.
LEMMA FetchWroteStays ==
    ASSUME NEW k \in Keys,
           saCache'[k] = saCache[k], key' = key,
           \A r \in Requests : wpc[r] \in {"broadcast", "done"} =>
               wpc'[r] \in {"broadcast", "done"} /\ arg'[r] = arg[r]
    PROVE  FetchWrote(k) => FetchWrote(k)'
  BY DEF FetchWrote

\* A store makes the entry agree with the informer, or is a fetch's.
LEMMA DivergenceStep ==
    ~DebugHandlers /\ IInv /\ FreshInv /\ [Next]_vars => DivergenceInv'
<1>. SUFFICES ASSUME ~DebugHandlers, IInv, FreshInv, [Next]_vars,
                     NEW k \in Keys, saCache'[k] # Delivered(k)'
              PROVE  Undelivered(k)' \/ FetchWrote(k)'
  BY DEF DivergenceInv
<1>. DEFINE Goal == Undelivered(k)' \/ FetchWrote(k)'
            Kept == /\ saCache'[k] = saCache[k] /\ key' = key
                    /\ Delivered(k)' = Delivered(k)
                    /\ \A r \in Requests : wpc[r] \in {"broadcast", "done"} =>
                         wpc'[r] \in {"broadcast", "done"} /\ arg'[r] = arg[r]
                    /\ Undelivered(k) => Undelivered(k)'
<1>. USE ProcessAssumption, KeyAssumption DEF IInv, TypeOK, UpdatesOK
<1>a. Kept => Goal
  BY FetchWroteStays DEF FreshInv, DivergenceInv
<1>b. UNCHANGED <<hist, seen>> => Delivered(k)' = Delivered(k)
  BY DEF Delivered, StateAt
<1>1. CASE Spawn
  <2>1. Head(fetchRequests) \in Requests /\ wpc[Head(fetchRequests)] = "idle"
    BY <1>1, TailFacts DEF Spawn, SpawnReady, FetchesOK, OneFetchPerHandler
  <2>2. Kept
    BY <1>1, <1>b, <2>1 DEF Spawn, SpawnReady, apiVars, lookupVars, Undelivered
  <2>. QED
    BY <1>a, <2>2
<1>2. ASSUME NEW r \in Requests, FetchAnswer(r) \/ FetchFail(r) PROVE Goal
  <2>1. CASE FetchAnswer(r)
    <3>1. Kept
      BY <1>b, <2>1 DEF FetchAnswer, apiVars, lookupVars, Undelivered
    <3>. QED
      BY <1>a, <3>1
  <2>2. CASE FetchFail(r)
    <3>1. Kept
      BY <1>b, <2>2 DEF FetchFail, apiVars, lookupVars, Undelivered
    <3>. QED
      BY <1>a, <3>1
  <2>. QED
    BY <1>2, <2>1, <2>2
<1>3. ASSUME NEW w \in Writers, Lock(w) PROVE Goal
  <2>1. Kept
    BY <1>3, <1>b DEF Lock, apiVars, lookupVars, Undelivered
  <2>. QED
    BY <1>a, <2>1
<1>4. ASSUME NEW w \in Writers, SetSA(w) PROVE Goal
  <2>1. /\ saCache' = [saCache EXCEPT ![arg[w].key] = arg[w].ver]
        /\ wpc' = [wpc EXCEPT ![w] = "broadcast"]
        /\ UNCHANGED <<hist, seen, arg, key>>
        /\ wpc[w] = "drain" /\ w # CMInformer /\ arg[w].op = "set"
        /\ arg[w].key \in Keys
    BY <1>4 DEF SetSA, apiVars, lookupVars
  <2>2. CASE arg[w].key # k
    <3>1. Kept
      BY <1>b, <2>1, <2>2 DEF Undelivered
    <3>. QED
      BY <1>a, <3>1
  <2>3. CASE arg[w].key = k /\ w = SAInformer
    <3>1. arg[w].ver = Delivered(k)
      BY <2>1, <2>3 DEF FreshInv, DeliveryInv, Delivered
    <3>. QED
      BY <1>b, <2>1, <2>3, <3>1
  <2>4. CASE arg[w].key = k /\ w \in Requests
    BY <2>1, <2>4 DEF FetchWrote
  <2>. QED
    BY <2>1, <2>2, <2>3, <2>4
<1>5. ASSUME NEW w \in Writers, Broadcast(w) PROVE Goal
  <2>1. Kept
    BY <1>5, <1>b DEF Broadcast, apiVars, lookupVars, Undelivered
  <2>. QED
    BY <1>a, <2>1
<1>6. ASSUME NEW w \in Writers, PopSA(w) PROVE Goal
  <2>1. /\ saCache' = [saCache EXCEPT ![arg[w].key] = 0]
        /\ wpc' = [wpc EXCEPT ![w] = "idle"]
        /\ UNCHANGED <<hist, seen, arg, key>>
        /\ w = SAInformer /\ wpc[w] = "drain" /\ arg[w].op = "pop"
        /\ arg[w].key \in Keys
    BY <1>6 DEF PopSA, apiVars, lookupVars
  <2>2. CASE arg[w].key # k
    <3>1. Kept
      BY <1>b, <2>1, <2>2 DEF Undelivered
    <3>. QED
      BY <1>a, <3>1
  <2>3. CASE arg[w].key = k
    BY <1>b, <2>1, <2>3 DEF FreshInv, DeliveryInv
  <2>. QED
    BY <2>2, <2>3
<1>7. CASE WriteCM
  <2>1. Kept
    BY <1>7, <1>b DEF WriteCM, apiVars, lookupVars, Undelivered
  <2>. QED
    BY <1>a, <2>1
<1>8. ASSUME NEW j \in Keys, NEW v \in 0 .. MaxVersion, Deliver(j, v) PROVE Goal
  <2>1. /\ wpc' = [wpc EXCEPT ![SAInformer] = "lock"]
        /\ arg'[SAInformer].key = j
        /\ \A r \in Requests : arg'[r] = arg[r]
        /\ wpc[SAInformer] = "idle"
        /\ seen' = [seen EXCEPT ![j] = v]
        /\ UNCHANGED <<hist, saCache, key>>
    BY <1>8 DEF Deliver, lookupVars
  <2>2. CASE j = k
    BY <2>1, <2>2 DEF Undelivered
  <2>3. CASE j # k
    <3>1. Kept
      BY <2>1, <2>3 DEF Undelivered, Delivered, StateAt
    <3>. QED
      BY <1>a, <3>1
  <2>. QED
    BY <2>2, <2>3
<1>9. ASSUME NEW op \in {"set", "pop"}, NEW j \in CMKeys, DeliverCM(op, j) PROVE Goal
  <2>1. Kept
    BY <1>9, <1>b DEF DeliverCM, apiVars, lookupVars, Undelivered
  <2>. QED
    BY <1>a, <2>1
<1>10. ASSUME NEW j \in Keys, NEW s \in SAStates, ApiChange(j, s) PROVE Goal
  <2>1. Delivered(k)' = Delivered(k)
    BY <1>10, HistoryFacts DEF FreshInv
  <2>2. Kept
    BY <1>10, <2>1 DEF ApiChange, lookupVars, Undelivered
  <2>. QED
    BY <1>a, <2>2
<1>11. CASE UNCHANGED <<hist, seen, saCache, wpc, arg, key>>
  <2>1. Kept
    BY <1>11, <1>b DEF Undelivered
  <2>. QED
    BY <1>a, <2>1
<1>. QED
  BY <1>1, <1>2, <1>3, <1>4, <1>5, <1>6, <1>7, <1>8, <1>9, <1>10, <1>11
     DEF vars, Next, LookupStep, FetchStep, WriteStep, Admit, RLock, ReadSA,
         MissSA, Create, JoinHandler, NewHandler, Send, ReadCM, ReadWild,
         Notified, Timeout, ClearSA, ClearCM, apiVars, lookupVars

\* FreshInv holds throughout when Clear is not served.
LEMMA Fresh == ASSUME ~DebugHandlers PROVE Spec => []FreshInv
<1>1. IInv /\ IInv' /\ FreshInv /\ [Next]_vars => FreshInv'
  BY StoredStep, DeliveryStep, DivergenceStep DEF FreshInv
<1>. QED
  BY InitFresh, Inductive, <1>1, PTL DEF Spec

\* An entry that differs from the informer's last delivery, between callbacks,
\* was written by a fetch: the only source of stale entries.
THEOREM OnlyFetchesDiverge ==
    ASSUME ~DebugHandlers PROVE Spec => []DivergesOnlyByFetch
<1>1. FreshInv => DivergesOnlyByFetch
  BY DEF FreshInv, DivergenceInv, DivergesOnlyByFetch, Delivered, Undelivered, FetchWrote
<1>. QED
  BY Fresh, <1>1, PTL

\* Waiters are notified of a ServiceAccount that is in the cache.
THEOREM NotificationsAreTrue ==
    ASSUME ~DebugHandlers PROVE Spec => NotifiedIsPopulated
<1>. DEFINE Populated == \A c \in closed' \ closed : saCache[key[c]] # 0
<1>1. IInv /\ FreshInv /\ [Next]_vars => [Populated]_vars
  <2>. SUFFICES ASSUME IInv, FreshInv, Next, NEW c \in closed' \ closed
                PROVE  saCache[key[c]] # 0
    OBVIOUS
  <2>1. PICK w \in Writers : Broadcast(w)
    BY DEF Next, LookupStep, FetchStep, WriteStep, Admit, RLock, ReadSA, MissSA,
           Create, JoinHandler, NewHandler, Send, ReadCM, ReadWild, Notified,
           Timeout, FetchAnswer, FetchFail, Spawn, SpawnReady, Lock, SetSA, PopSA, WriteCM,
           Deliver, DeliverCM, ClearSA, ClearCM, ApiChange
  <2>2. /\ wpc[w] = "broadcast" /\ w # CMInformer
        /\ arg[w].key \in Keys /\ c = handlers[arg[w].key] /\ c # None
    BY <2>1, ProcessAssumption DEF Broadcast, IInv, UpdatesOK
  <2>3. key[c] = arg[w].key
    BY <2>2 DEF IInv, RegistryOK
  <2>. QED
    BY <2>2, <2>3 DEF FreshInv, StoredInv, IInv, UpdatesOK
<1>. QED
  BY Inductive, Fresh, <1>1, PTL DEF Spec, NotifiedIsPopulated
=============================================================================
