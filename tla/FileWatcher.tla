----------------------------- MODULE FileWatcher -----------------------------
(***************************************************************************)
(* The watched container credentials config: FileWatcher, which reloads a  *)
(* file through a work queue of one key (pkg/filesystem/file_watcher.go),  *)
(* and FileConfig.Load, the handler that turns its content into the set of *)
(* identities that Get answers from (pkg/containercredentials/config.go).  *)
(*                                                                         *)
(* Four goroutines run: the one that calls Watch, the event loop, the      *)
(* worker, and the queue's timer.  The file, the events of its directory   *)
(* and the rate-limiting work queue are external and are modelled from how *)
(* the code uses them.  Time is in units of workqueueBaseDelay.            *)
(***************************************************************************)
EXTENDS Naturals

CONSTANTS
    Identities, \* a namespace and ServiceAccount
    Absent,     \* there is no file
    Empty,      \* a file of no bytes
    Malformed,  \* text that does not unmarshal, a half-written file say
    MaxDelay,   \* workqueueMaxDelay
    MaxEvents,  \* bound: events in the watcher's queue, further ones coalesce
    EventsGetLost \* a change under an active watch may raise no event of the file

\* Well-formed text is the set of identities that it lists.
Contents == {Absent, Empty, Malformed} \cup SUBSET Identities

ASSUME FileAssumption ==
    /\ \A S \in SUBSET Identities : S \notin {Absent, Empty, Malformed}
    /\ Malformed \notin {Absent, Empty}
    /\ MaxDelay \in Nat \ {0}
    /\ MaxEvents \in Nat \ {0}
    /\ EventsGetLost \in BOOLEAN

BaseDelay == 1

VARIABLES
    file,        \* what is on disk (external)
    watch,       \* the directory watch: "off", "on" or "closed"
    events,      \* events of the file that wait for the event loop
    main,        \* the caller of Watch: "adding", "watching" or "exited"
    cancelled,   \* the context is cancelled
    loop,        \* the event loop runs
    queued,      \* the key is in the queue
    dirty,       \* the key needs processing
    wait,        \* delay of the key that AddRateLimited holds back, or 0
    delay,       \* delay that the next failure will be given
    worker,      \* where the worker is: "new", "idle", "stat", "read", "load",
                 \* "done", or "ended" when it never started
    content,     \* what the worker read
    cache,       \* FileConfig.cache
    seen         \* history: the last change of the file raised an event that
                 \* the loop has not dropped, or a read was still to come then

queueVars == <<queued, dirty, wait, delay>>
workerVars == <<worker, content, cache>>
vars == <<file, watch, events, main, cancelled, loop, queueVars, workerVars, seen>>

Running == main # "exited"

\* A worker that started will read the file without another event.
ReadAhead == dirty \/ wait > 0 \/ worker \in {"stat", "read"}

\* What Load makes of a content that it accepts.
IdentitiesIn(c) == IF c \in {Absent, Empty} THEN {} ELSE c

\* Watch has put the key in the queue and made the watcher; the goroutines of
\* the worker and of the event loop exist, and the directory is yet to be added.
Init ==
    /\ file \in Contents
    /\ watch = "off"
    /\ events = 0
    /\ main \in {"adding", "exited"}
    /\ cancelled = FALSE
    /\ loop = TRUE
    /\ queued = TRUE
    /\ dirty = TRUE
    /\ wait = 0
    /\ delay = BaseDelay
    /\ worker = "new"
    /\ content = Absent
    /\ cache = {}
    /\ seen = TRUE

-----------------------------------------------------------------------------
(* The file and the context (external).                                    *)

\* The file is written, truncated, removed or replaced.  Even a watched
\* directory need not raise an event of its name (EventsGetLost): inotify drops
\* events when its queue overflows, and a mount that swaps a symlink has events
\* of other names.
WriteFile(c) ==
    /\ Running /\ c # file
    /\ file' = c
    /\ \E raised \in BOOLEAN :
          /\ raised => watch = "on"
          /\ watch = "on" /\ ~EventsGetLost => raised
          /\ events' = IF raised /\ events < MaxEvents THEN events + 1 ELSE events
          /\ seen' = (raised \/ events > 0 \/ ReadAhead)
    /\ UNCHANGED <<watch, main, cancelled, loop, queueVars, workerVars>>

Cancel ==
    /\ Running /\ ~cancelled
    /\ cancelled' = TRUE
    /\ UNCHANGED <<file, watch, events, main, loop, queueVars, workerVars, seen>>

-----------------------------------------------------------------------------
(* The work queue (external): a key that is processed is not queued again  *)
(* until Done, which queues it when it became dirty meanwhile.             *)

Processed == worker \in {"stat", "read", "load", "done"}

Add ==
    /\ dirty' = TRUE
    /\ queued' = (queued \/ (~dirty /\ ~Processed))

\* The earlier of two timers for the key stays; every failure doubles the
\* delay of the next, up to workqueueMaxDelay.
AddRateLimited ==
    /\ wait' = IF wait = 0 \/ delay < wait THEN delay ELSE wait
    /\ delay' = IF 2 * delay < MaxDelay THEN 2 * delay ELSE MaxDelay

Forget == delay' = BaseDelay

\* The timer of AddRateLimited fires.
TimerFires ==
    /\ Running /\ wait > 0
    /\ wait' = 0
    /\ Add
    /\ UNCHANGED <<file, watch, events, main, cancelled, loop, delay, workerVars, seen>>

-----------------------------------------------------------------------------
(* Watch and the event loop.                                               *)

\* watcher.Add(dir), which is fatal when the directory cannot be watched or
\* the event loop has already closed the watcher.
AddDir ==
    /\ main = "adding"
    /\ \/ main' = "exited" /\ watch' = watch
       \/ watch = "off" /\ main' = "watching" /\ watch' = "on"
    /\ UNCHANGED <<file, events, cancelled, loop, queueVars, workerVars, seen>>

\* processEvent for an event of the file.
ProcessEvent ==
    /\ Running /\ loop /\ events > 0
    /\ events' = events - 1
    /\ Add
    /\ UNCHANGED <<file, watch, main, cancelled, loop, wait, delay, workerVars, seen>>

\* The event loop sees that the context is done and closes the watcher, with
\* the events that it has not received.
StopLoop ==
    /\ Running /\ loop /\ cancelled
    /\ loop' = FALSE
    /\ watch' = "closed"
    /\ events' = 0
    /\ seen' = (seen /\ (events = 0 \/ ReadAhead))
    /\ UNCHANGED <<file, main, cancelled, queueVars, workerVars>>

-----------------------------------------------------------------------------
(* The worker.  Its goroutine looks at the context once, before its loop    *)
(* begins.  The loop only ends when the queue is shut down, which nothing   *)
(* does, so that a worker that started does not look at the context again. *)

\* wait.UntilWithContext, which returns at once when the context is already
\* cancelled: then nobody makes the load that is queued.
StartWorker ==
    /\ Running /\ worker = "new"
    /\ worker' = IF cancelled THEN "ended" ELSE "idle"
    /\ UNCHANGED <<file, watch, events, main, cancelled, loop, queueVars, content, cache, seen>>

\* queue.Get.
GetItem ==
    /\ Running /\ worker = "idle" /\ queued
    /\ queued' = FALSE
    /\ dirty' = FALSE
    /\ worker' = "stat"
    /\ UNCHANGED <<file, watch, events, main, cancelled, loop, wait, delay, content, cache, seen>>

\* os.Stat: a file that does not exist is loaded as no content.
StatFile ==
    /\ Running /\ worker = "stat"
    /\ IF file = Absent
       THEN worker' = "load" /\ content' = Absent
       ELSE worker' = "read" /\ content' = content
    /\ UNCHANGED <<file, watch, events, main, cancelled, loop, queueVars, cache, seen>>

\* Mutant: an error of os.ReadFile counts as loaded.
ReadFileIgnoresError ==
    /\ Running /\ worker = "read"
    /\ \/ /\ file # Absent
          /\ worker' = "load" /\ content' = file
          /\ UNCHANGED <<wait, delay>>
       \/ /\ worker' = "done" /\ content' = content
          /\ Forget /\ wait' = wait
    /\ UNCHANGED <<file, watch, events, main, cancelled, loop, queued, dirty, cache, seen>>

\* os.ReadFile: a file that was removed since the Stat, or that cannot be
\* read, is an error.
ReadFile ==
    /\ Running /\ worker = "read"
    /\ \/ /\ file # Absent
          /\ worker' = "load" /\ content' = file
          /\ UNCHANGED <<wait, delay>>
       \/ /\ worker' = "done" /\ content' = content
          /\ AddRateLimited
    /\ UNCHANGED <<file, watch, events, main, cancelled, loop, queued, dirty, cache, seen>>

\* Mutant: malformed content clears the cache and counts as loaded.
LoadAcceptsMalformed ==
    /\ Running /\ worker = "load"
    /\ worker' = "done"
    /\ cache' = IF content = Malformed THEN {} ELSE IdentitiesIn(content)
    /\ Forget
    /\ wait' = wait
    /\ UNCHANGED <<file, watch, events, main, cancelled, loop, queued, dirty, content, seen>>

\* FileConfig.Load, under its lock, and then Forget or AddRateLimited.
Load ==
    /\ Running /\ worker = "load"
    /\ worker' = "done"
    /\ IF content = Malformed
       THEN cache' = cache /\ AddRateLimited
       ELSE /\ cache' = IdentitiesIn(content)
            /\ Forget
            /\ wait' = wait
    /\ UNCHANGED <<file, watch, events, main, cancelled, loop, queued, dirty, content, seen>>

\* Mutant: an event that arrived while the key was processed is forgotten.
DoneForgetsDirty ==
    /\ Running /\ worker = "done"
    /\ worker' = "idle"
    /\ queued' = FALSE
    /\ UNCHANGED <<file, watch, events, main, cancelled, loop, dirty, wait, delay, content, cache, seen>>

\* queue.Done.
Done ==
    /\ Running /\ worker = "done"
    /\ worker' = "idle"
    /\ queued' = dirty
    /\ UNCHANGED <<file, watch, events, main, cancelled, loop, dirty, wait, delay, content, cache, seen>>

-----------------------------------------------------------------------------
WorkerStep == StartWorker \/ GetItem \/ StatFile \/ ReadFile \/ Load \/ Done

Next ==
    \/ \E c \in Contents : WriteFile(c)
    \/ Cancel
    \/ AddDir \/ ProcessEvent \/ StopLoop
    \/ TimerFires
    \/ WorkerStep

Spec == Init /\ [][Next]_vars

\* Goroutines and timers run, and reading a file that is there succeeds if
\* it is tried again and again.
FairSpec ==
    /\ Spec
    /\ WF_vars(AddDir) /\ WF_vars(ProcessEvent) /\ WF_vars(StopLoop)
    /\ WF_vars(TimerFires)
    /\ WF_vars(WorkerStep)
    /\ SF_vars(ReadFile /\ worker' = "load")
=============================================================================
