------------------------ MODULE FileWatcherProperties ------------------------
(***************************************************************************)
(* What the watcher promises about the cached identities.                  *)
(***************************************************************************)
EXTENDS FileWatcher

\* The key is in the queue only when it is dirty and nobody processes it.
QueueOK ==
    /\ queued \in BOOLEAN /\ dirty \in BOOLEAN
    /\ queued <=> (dirty /\ ~Processed)

\* Every variable has its type.
TypeOK ==
    /\ file \in Contents /\ content \in Contents
    /\ cache \subseteq Identities
    /\ watch \in {"off", "on", "closed"}
    /\ main \in {"adding", "watching", "exited"}
    /\ worker \in {"new", "idle", "stat", "read", "load", "done", "ended"}
    /\ events \in 0..MaxEvents
    /\ wait \in 0..MaxDelay /\ delay \in 1..MaxDelay
    /\ cancelled \in BOOLEAN /\ loop \in BOOLEAN /\ seen \in BOOLEAN
    /\ QueueOK

\* The worker has nothing left to do: no event, no queued key, no timer.
Quiet == worker = "idle" /\ ~queued /\ wait = 0 /\ events = 0

\* When a worker that started has nothing left to do, what it read last is well
\* formed and the cache is what it says, and it is the file if the last change
\* was seen: no event is lost between the queue's Get and Done, and a content
\* that cannot be loaded leaves a retry behind, before the directory is watched
\* as after the context is cancelled, which does not stop the worker.
QuietIsCurrent ==
    Running /\ Quiet =>
        /\ content # Malformed /\ cache = IdentitiesIn(content)
        /\ seen => content = file

\* A well-formed file that stays as it is ends up in the cache for good, if the
\* worker started before the context was cancelled and the last change was seen:
\* a load that is due is made, and one that fails tried again, even when the
\* context is cancelled meanwhile.  A change between the initial load and the
\* directory watch, or after the event loop ended, is not seen.
FileReachesCache ==
    \A c \in Contents \ {Malformed} :
        <>[](file = c /\ seen /\ Running /\ worker # "ended")
            => <>[](cache = IdentitiesIn(c))

\* config.go:64-66: "The watcher runs continuously until the context is
\* cancelled.  When the file is updated, Load will be invoked, and thus will
\* refresh the cache": a text that stays in the file ends up in the cache, when
\* nobody cancels.
UpdateIsLoaded ==
    \A c \in SUBSET Identities :
        <>[](file = c /\ ~cancelled /\ Running) => <>[](cache = IdentitiesIn(c))
=============================================================================
