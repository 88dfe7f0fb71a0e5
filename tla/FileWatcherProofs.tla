-------------------------- MODULE FileWatcherProofs --------------------------
(***************************************************************************)
(* That a watcher with nothing left to do has loaded the file, for any     *)
(* identities, delays and event queue.                                     *)
(***************************************************************************)
EXTENDS FileWatcherProperties, TLAPS

\* A read of the last version of the file is still to come.
Pending == ReadAhead \/ events > 0

\* What was read last is in the worker's hands or in the cache, or a retry is
\* due; a version of the file whose change was seen will be read, or was.
InHand ==
    /\ \/ dirty \/ wait > 0 \/ worker \in {"stat", "read", "load"}
       \/ content # Malformed /\ cache = IdentitiesIn(content)
    /\ seen => Pending \/ content = file

IInv == TypeOK /\ InHand

LEMMA IInvInit == Init => IInv
<1> SUFFICES ASSUME Init PROVE IInv
  OBVIOUS
<1>1. TypeOK
  <2>1. file \in Contents /\ content \in Contents
    BY DEF Init, Contents
  <2>2. /\ events \in 0..MaxEvents
        /\ wait \in 0..MaxDelay /\ delay \in 1..MaxDelay
    BY FileAssumption DEF Init, BaseDelay
  <2>3. QueueOK
    BY DEF Init, QueueOK, Processed
  <2> QED
    BY <2>1, <2>2, <2>3 DEF Init, TypeOK
<1>2. InHand
  BY DEF Init, InHand, Pending, ReadAhead
<1> QED
  BY <1>1, <1>2 DEF IInv

\* A load either puts an accepted content into the cache or leaves a timer.
LEMMA LoadOutcome ==
    ASSUME IInv, Load
    PROVE  /\ cache' \subseteq Identities
           /\ wait' \in 0..MaxDelay /\ delay' \in 1..MaxDelay
           /\ wait > 0 => wait' > 0
           /\ wait' > 0 \/ (content # Malformed /\ cache' = IdentitiesIn(content))
<1> USE FileAssumption
<1>1. CASE content = Malformed
  BY <1>1 DEF IInv, TypeOK, Load, AddRateLimited
<1>2. CASE content # Malformed
  <2>1. cache' = IdentitiesIn(content) /\ wait' = wait /\ delay' = BaseDelay
    BY <1>2 DEF Load, Forget
  <2>2. IdentitiesIn(content) \subseteq Identities
    BY <1>2 DEF IInv, TypeOK, Contents, IdentitiesIn
  <2> QED
    BY <1>2, <2>1, <2>2 DEF IInv, TypeOK, BaseDelay
<1> QED
  BY <1>1, <1>2

\* The queue holds the key at most once, whoever adds it.
LEMMA QueueNext == TypeOK /\ [Next]_vars => QueueOK'
<1> SUFFICES ASSUME TypeOK, [Next]_vars PROVE QueueOK'
  OBVIOUS
<1> USE DEF TypeOK, QueueOK, Processed
<1>1. ASSUME NEW c \in Contents, WriteFile(c) PROVE QueueOK'
  BY <1>1 DEF WriteFile, queueVars, workerVars
<1>2. CASE Cancel
  BY <1>2 DEF Cancel, queueVars, workerVars
<1>3. CASE AddDir
  BY <1>3 DEF AddDir, queueVars, workerVars
<1>4. CASE ProcessEvent
  BY <1>4 DEF ProcessEvent, Add, workerVars
<1>5. CASE StopLoop
  BY <1>5 DEF StopLoop, queueVars, workerVars
<1>6. CASE TimerFires
  BY <1>6 DEF TimerFires, Add, workerVars
<1>7. CASE StartWorker
  BY <1>7 DEF StartWorker, queueVars
<1>8. CASE GetItem
  BY <1>8 DEF GetItem
<1>9. CASE StatFile
  BY <1>9 DEF StatFile, queueVars, Contents
<1>10. CASE ReadFile
  BY <1>10 DEF ReadFile, AddRateLimited
<1>11. CASE Load
  BY <1>11 DEF Load
<1>12. CASE Done
  BY <1>12 DEF Done
<1>13. CASE UNCHANGED vars
  BY <1>13 DEF vars, queueVars, workerVars
<1> QED
  BY <1>1, <1>2, <1>3, <1>4, <1>5, <1>6, <1>7, <1>8, <1>9, <1>10, <1>11, <1>12, <1>13
     DEF Next, WorkerStep

LEMMA IInvNext == IInv /\ [Next]_vars => IInv'
<1> SUFFICES ASSUME IInv, [Next]_vars PROVE IInv'
  OBVIOUS
<1>0. QueueOK'
  BY QueueNext DEF IInv
<1> USE <1>0, FileAssumption DEF IInv, TypeOK, InHand, Pending, ReadAhead
<1>1. ASSUME NEW c \in Contents, WriteFile(c) PROVE IInv'
  <2>1. TypeOK'
    BY <1>1 DEF WriteFile, queueVars, workerVars
  <2>2. InHand'
    <3>0. PICK raised \in BOOLEAN :
            /\ events' = IF raised /\ events < MaxEvents THEN events + 1 ELSE events
            /\ seen' = (raised \/ events > 0 \/ ReadAhead)
      BY <1>1 DEF WriteFile
    <3>1. (raised \/ events > 0) => events' > 0
      BY <3>0
    <3>2. seen' => (raised \/ events > 0) \/ ReadAhead
      BY <3>0
    <3>3. /\ dirty' = dirty /\ wait' = wait /\ worker' = worker
          /\ content' = content /\ cache' = cache
      BY <1>1 DEF WriteFile, queueVars, workerVars
    <3> QED
      BY <3>1, <3>2, <3>3
  <2> QED
    BY <2>1, <2>2
<1>2. CASE Cancel
  BY <1>2 DEF Cancel, queueVars, workerVars
<1>3. CASE AddDir
  BY <1>3 DEF AddDir, queueVars, workerVars
<1>4. CASE ProcessEvent
  BY <1>4 DEF ProcessEvent, Add, workerVars
<1>5. CASE StopLoop
  <2>1. events' \in 0..MaxEvents
    BY <1>5 DEF StopLoop
  <2>2. TypeOK'
    BY <1>5, <2>1 DEF StopLoop, queueVars, workerVars
  <2>3. /\ dirty' = dirty /\ wait' = wait /\ worker' = worker
        /\ content' = content /\ cache' = cache /\ file' = file
    BY <1>5 DEF StopLoop, queueVars, workerVars
  <2>4. seen' => ReadAhead \/ content = file
    <3>1. seen' => seen /\ (events = 0 \/ ReadAhead)
      BY <1>5 DEF StopLoop
    <3>2. events = 0 => ~(events > 0)
      OBVIOUS
    <3> QED
      BY <3>1, <3>2
  <2> QED
    BY <2>2, <2>3, <2>4
<1>6. CASE TimerFires
  BY <1>6 DEF TimerFires, Add, workerVars
<1>7. CASE StartWorker
  BY <1>7 DEF StartWorker, queueVars
<1>8. CASE GetItem
  BY <1>8 DEF GetItem
<1>9. CASE StatFile
  BY <1>9 DEF StatFile, queueVars, Contents
<1>10. CASE ReadFile
  BY <1>10 DEF ReadFile, AddRateLimited
<1>11. CASE Load
  BY <1>11, LoadOutcome DEF Load
<1>12. CASE Done
  BY <1>12 DEF Done
<1>13. CASE UNCHANGED vars
  BY <1>13 DEF vars, queueVars, workerVars
<1> QED
  BY <1>1, <1>2, <1>3, <1>4, <1>5, <1>6, <1>7, <1>8, <1>9, <1>10, <1>11, <1>12, <1>13
     DEF Next, WorkerStep

LEMMA IInvAlways == Spec => []IInv
BY IInvInit, IInvNext, PTL DEF Spec

\* Every variable of the watcher keeps its type, and the work queue holds the
\* key at most once and never while it is processed.
THEOREM TypeCorrect == Spec => []TypeOK
<1>1. IInv => TypeOK
  BY DEF IInv
<1> QED
  BY <1>1, IInvAlways, PTL

\* A watcher with nothing left to do has loaded the file: loadFile, the work
\* queue and the retry of failed loads lose no change that raised an event.
THEOREM QuietWatcherIsCurrent == Spec => []QuietIsCurrent
<1>1. IInv => QuietIsCurrent
  BY DEF IInv, TypeOK, QueueOK, Processed, QuietIsCurrent, Quiet, InHand, Pending,
         ReadAhead
<1> QED
  BY <1>1, IInvAlways, PTL
=============================================================================
