-------------------------- MODULE CertStoreProofs --------------------------
(***************************************************************************)
(* Proofs that the replicas treat the Secret as a register that nobody     *)
(* overwrites unread, and serve only what it has held.                     *)
(***************************************************************************)
EXTENDS CertStoreProperties, TLAPS

\* Update has a pair to write, and what the Secret holds is remembered.
UpdatesHavePairs ==
    \A r \in Replicas : pc[r] \in {"get", "create", "update"} => pair[r] \in Pairs

IInv == TypeOK /\ UpdatesHavePairs /\ secret \in stored /\ ServedWasStored

\* Initially nobody serves anything.
LEMMA InitInv == Init => IInv
BY PairAssumption DEF Init, IInv, TypeOK, UpdatesHavePairs, ServedWasStored, Contents

\* A step of Current keeps the invariant.
LEMMA CurrentKeepsInv ==
    ASSUME NEW r \in Replicas, IInv, CurrentReads(r) \/ CurrentFindsNone(r)
    PROVE  IInv'
<1> USE PairAssumption DEF IInv, TypeOK, UpdatesHavePairs, ServedWasStored, Contents
<1>1. CASE CurrentReads(r)
  BY <1>1 DEF CurrentReads
<1>2. CASE CurrentFindsNone(r)
  BY <1>2 DEF CurrentFindsNone
<1> QED
  BY <1>1, <1>2

\* A write stores the pair of the replica, and only that is served.
LEMMA StoreKeepsInv ==
    ASSUME NEW r \in Replicas, IInv, Write(r) \/ WriteLosesAnswer(r)
    PROVE  IInv'
<1> USE PairAssumption DEF IInv, TypeOK, UpdatesHavePairs, ServedWasStored, Contents
<1>1. pair[r] \in Pairs /\ secret' \in stored' /\ stored \subseteq stored'
  BY DEF Write, WriteLosesAnswer, Store, Writable
<1>2. served'[r] \in {served[r], pair[r]} /\ served' \in [Replicas -> Loadable \cup {None}]
  BY <1>1 DEF Write, WriteLosesAnswer
<1>3. \A q \in Replicas : q # r => served'[q] = served[q]
  BY DEF Write, WriteLosesAnswer
<1>4. ServedWasStored'
  BY <1>1, <1>2, <1>3 DEF Write, WriteLosesAnswer, Store
<1>5. TypeOK' /\ UpdatesHavePairs'
  BY <1>1, <1>2 DEF Write, WriteLosesAnswer, Store
<1> QED
  BY <1>1, <1>4, <1>5

\* The other steps of Update, and a restart, keep the invariant.
LEMMA UpdateKeepsInv ==
    ASSUME NEW r \in Replicas, IInv,
           \/ \E p \in Pairs : Issue(r, p)
           \/ GetOK(r) \/ GetFails(r) \/ WriteFails(r) \/ Restart(r)
    PROVE  IInv'
<1> USE PairAssumption DEF IInv, TypeOK, UpdatesHavePairs, ServedWasStored, Contents
<1>1. CASE \E p \in Pairs : Issue(r, p)
  BY <1>1 DEF Issue
<1>2. CASE GetOK(r)
  BY <1>2 DEF GetOK
<1>3. CASE GetFails(r)
  BY <1>3 DEF GetFails
<1>4. CASE WriteFails(r)
  BY <1>4 DEF WriteFails
<1>5. CASE Restart(r)
  BY <1>5 DEF Restart
<1> QED
  BY <1>1, <1>2, <1>3, <1>4, <1>5

\* Every step keeps the invariant.
LEMMA StepInv == IInv /\ [Next]_vars => IInv'
<1> SUFFICES ASSUME IInv, [Next]_vars PROVE IInv'
  OBVIOUS
<1>1. CASE UNCHANGED vars
  BY <1>1 DEF IInv, TypeOK, UpdatesHavePairs, ServedWasStored, vars
<1>2. CASE \E r \in Replicas : \/ CurrentReads(r) \/ CurrentFindsNone(r)
                               \/ \E p \in Pairs : Issue(r, p)
                               \/ UpdateStep(r) \/ Restart(r)
  BY <1>2, CurrentKeepsInv, StoreKeepsInv, UpdateKeepsInv DEF UpdateStep
<1>3. CASE \E c \in Contents : Edit(c)
  BY <1>3 DEF Edit, IInv, TypeOK, UpdatesHavePairs, ServedWasStored
<1> QED
  BY <1>1, <1>2, <1>3 DEF Next

\* The invariant holds throughout.
LEMMA Invariant == Spec => []IInv
BY InitInv, StepInv, PTL DEF Spec

\* Every variable of the certificate store keeps its type.
THEOREM TypeCorrect == Spec => []TypeOK
<1>1. IInv => TypeOK
  BY DEF IInv
<1> QED
  BY <1>1, Invariant, PTL

\* Any number of replicas, with any calls lost and any restarts, serve only
\* certificates that the Secret has held.
THEOREM ServedIsStored == Spec => []ServedWasStored
<1>1. IInv => ServedWasStored
  BY DEF IInv
<1> QED
  BY <1>1, Invariant, PTL

\* A replica dies of a stored pair that does not load, and of nothing else.
THEOREM OnlyBadPairsKill == Spec => DiesOnlyOfBadPair
<1> DEFINE A == \A r \in Replicas :
                   pc[r] # "dead" /\ pc'[r] = "dead" => secret \in Pairs \ Loadable
<1>1. IInv /\ [Next]_vars => [A]_vars
  <2> SUFFICES ASSUME IInv, Next, NEW r \in Replicas, pc[r] # "dead", pc'[r] = "dead"
               PROVE  secret \in Pairs \ Loadable
    OBVIOUS
  <2> USE DEF IInv, TypeOK
  <2>1. ASSUME NEW q \in Replicas, CurrentReads(q)
        PROVE  secret \in Pairs \ Loadable
    BY <2>1 DEF CurrentReads
  <2>2. ASSUME NEW q \in Replicas,
               CurrentFindsNone(q) \/ (\E p \in Pairs : Issue(q, p)) \/ Restart(q)
        PROVE  FALSE
    BY <2>2 DEF CurrentFindsNone, Issue, Restart
  <2>3. ASSUME NEW q \in Replicas, UpdateStep(q)
        PROVE  FALSE
    BY <2>3 DEF UpdateStep, GetOK, GetFails, Write, WriteLosesAnswer, WriteFails, Store
  <2>4. ASSUME NEW c \in Contents, Edit(c)
        PROVE  FALSE
    BY <2>4 DEF Edit
  <2> QED
    BY <2>1, <2>2, <2>3, <2>4 DEF Next
<1> QED
  BY <1>1, Invariant, PTL DEF Spec, DiesOnlyOfBadPair

\* Any number of replicas that run Update at once implement the register: a
\* step is a Read, a Put of who has read the present value, a Forget, an Edit
\* of somebody else, or a stutter.
THEOREM Implements == Spec => ImplementsRegister
<1>1. Init => Register!Init
  BY DEF Init, Register!Init
<1>2. IInv /\ [Next]_vars => [Register!Next]_Register!vars
  <2> SUFFICES ASSUME IInv, [Next]_vars
               PROVE  [Register!Next]_Register!vars
    OBVIOUS
  <2> USE DEF Register!Next, Register!vars
  <2>1. CASE UNCHANGED vars
    BY <2>1 DEF vars
  <2>2. ASSUME NEW r \in Replicas,
               CurrentReads(r) \/ CurrentFindsNone(r) \/ GetFails(r)
                 \/ \E p \in Pairs : Issue(r, p)
        PROVE  UNCHANGED Register!vars
    BY <2>2 DEF CurrentReads, CurrentFindsNone, GetFails, Issue
  <2>3. ASSUME NEW r \in Replicas, GetOK(r)
        PROVE  Register!Read(r)
    BY <2>3 DEF GetOK, Register!Read
  <2>4. ASSUME NEW r \in Replicas, Write(r) \/ WriteLosesAnswer(r)
        PROVE  pair[r] \in Contents /\ Register!Put(r, pair[r])
    BY <2>4 DEF Write, WriteLosesAnswer, Store, Writable, Register!Put,
                IInv, UpdatesHavePairs, Contents
  <2>5. ASSUME NEW r \in Replicas, WriteFails(r) \/ Restart(r)
        PROVE  Register!Forget(r)
    BY <2>5 DEF WriteFails, Restart, Register!Forget
  <2>6. ASSUME NEW c \in Contents, Edit(c)
        PROVE  Register!Edit(c)
    BY <2>6 DEF Edit, Register!Edit
  <2> QED
    BY <2>1, <2>2, <2>3, <2>4, <2>5, <2>6 DEF Next, UpdateStep
<1> QED
  BY <1>1, <1>2, Invariant, PTL DEF Spec, ImplementsRegister, Register!Spec
=============================================================================
