# Verification of the pod identity webhook

The repository collects training exercises (shell, Ansible, Terraform, CDK,
Docker, one-page Flask applications) and one real program: the
amazon-eks-pod-identity-webhook, a Go admission webhook, under
`src/Docker + Kubernetes/K8s/Day6/oidc/amazon/` (written `amazon/` below). The
webhook receives every pod that is created in a cluster and patches those whose
ServiceAccount is mapped to an IAM role: a projected token volume, mounts and
environment variables. This project models the webhook. The rest of the
repository has no concurrent or stateful behaviour to verify and is listed as
not modelled, with the reason, in `PROJECT.json`.

## 1. The system

    API server --(SA informer)--> addSA/popSA ---+
    API server --(fetch on a miss)--> addSA -----+--> saCache --+
    API server --(CM informer)--> populateCacheFromCM -> cmCache +--> Get --> buildPodPatchConfig
    config file --(FileWatcher)--> FileConfig.Load -> identities --> Get -+        |
                                                                              getPodSpecPatch
    API server --(admission request)--> Logging, InstrumentRoute, Handle, MutatePod

| component (`amazon/...`) | state | operations |
|---|---|---|
| service account cache (`pkg/cache/cache.go`) | `saCache`, `cmCache` under the RWMutex `mu` | `Get`, `GetCommonConfigurations`, `addSA`/`setSA`, `popSA`, `setCM`, `popCM`, `Clear`, the fetch loop of `New` |
| notification registry (`pkg/cache/notifications.go`) | `handlers` under its own mutex, the fetch channel (1000) | `create`, `broadcast` |
| ConfigMap mapping (`populateCacheFromCM`) | the entries of `cmCache` | the informer's Add and Update callbacks |
| admission lookup and settings (`buildPodPatchConfig`) | flags, caches, grace timer | merge of pod annotation, ServiceAccount, ConfigMap, flags |
| pod mutation (`getPodSpecPatch`, `addEnvToContainer`) | none (pure over the pod) | the patch |
| container credentials (`pkg/containercredentials`) | identities under an RWMutex | `Load`, `Get` |
| file watcher (`pkg/filesystem`) | fsnotify watch, rate limited work queue | `Watch`, event loop, worker |
| certificate store (`pkg/cert`) | a Secret shared by replicas | `Current`, `Update` |
| shutdown (`pkg/handler/shutdown.go`, `main.go`) | two HTTP servers, the signal context | graceful, then forced, close; `main` waits for both |
| middleware (`pkg/handler/middleware.go`) | metrics, log, the recorded status of a response | `Logging`, `InstrumentRoute` |
| debug handlers (`pkg/cache/debug`) | none | dump, `Clear`, deny, 500 |

What is hard, and what makes each part correct:

- **Cache and registry.** A request that misses registers a channel, sends a
  fetch request and waits out a grace period, while two informers and the
  fetches write. `create` runs inside `mu.RLock`, takes a second mutex and may
  block on a full channel with both held; `broadcast` takes the second mutex
  inside `mu.Lock`. Correct: no wake-up is lost, nobody waits on a channel that
  nobody can close, one fetch per channel, the lock order has no cycle, every
  request is answered, stale answers of fetches do not stay.
- **ConfigMap.** The callback writes one entry per lock, can meet text that
  does not unmarshal, and can panic half way; a lookup reads two keys under two
  locks. Correct: the last good text is what is cached, and lookups do not see
  a mapped ServiceAccount vanish during an update.
- **Settings.** Five sources, two caches that fill at different times, and a
  path with a random draw. Correct: the documented precedence and limits.
- **Pod mutation.** Runs on pods that already carry a patch, made by another
  configuration perhaps. Correct: it only adds, adds nothing twice, never
  leaves a token path without its mount or half a method's variables beside the
  author's, leaves excluded containers alone, and is stable.
- **File watcher.** Events, a deduplicating queue with back-off, and a file
  that is read while it is written, whose events can get lost. Correct: at rest
  the identities are those of the file; a good file is loaded in the end.
- **Certificate store.** Replicas read and write one Secret with calls that
  fail, conflict or lose their answer, take any error of `Get` for a missing
  Secret, and parse a pair only after it is written. Correct: nobody overwrites
  what he has not read, nobody serves what was not stored, and every replica
  comes to serve.
- **Shutdown.** A signal can come before, while or after each server starts;
  handlers may outlast the grace; `main` waits for two servers in turn.
  Correct: nothing is cut off silently, nothing is accepted after the stop, the
  process ends.
- **Middleware.** Two writers around one response, reports that are deferred,
  errors that come after the header, panics. Correct: what is counted and
  logged is what the client got.

The full list of hazards, each at its line and with the properties aimed at it,
is in `PROJECT.json`.

## 2. The modules

Each component has a module of its state and actions, one of its properties
(`...Properties`), one that gives its constants values (`MC...`), and, where
theorems are proved, one of proofs (`...Proofs`). A
definition whose comment begins with "Mutant:" is a faulty variant of the
definition that follows; no specification uses it, and put in its place it
makes a property fail.

**SACache** (`cache.go`, `notifications.go`, `handler.go:443-466`). Goroutines
are processes that interleave between lock operations. A request walks
`RLock - ReadSA` or `MissSA - Create - JoinHandler` or `NewHandler - Send -
ReadCM - ReadWild`, then `Notified` or `Timeout`. A fetch is named after the
request that created its channel, and so is the channel. `Lock` and the action
that follows are the two halves of `mu.Lock`: a writer keeps new readers out
first (writer preference) and waits for the old ones to leave. `setSA` is
`SetSA` then `Broadcast`. `Clear` is two unguarded actions because it takes no
lock. The API server is external: a history of versions of each ServiceAccount,
of which a fetch sees the last one and the informer any later than it has seen,
or the same one again on a resync; what the informer delivers after a gap is
collapsed. A ServiceAccount's content matters to a lookup by its role
annotation only.

- `Notification` is the promise of `Get` (its comment at `cache.go:115-118`)
  with no locks, channels or fetches: populating a ServiceAccount wakes, in
  that step, everybody registered for it. `SACacheRefinement` maps SACache onto
  it; a request counts as woken already when the entry is written, because
  nobody can take `mu` to look between the write and the broadcast.
- `SACacheInvariant` is the inductive invariant, `SACacheProofs` and
  `SACacheRefinementProofs` the proofs.

**ConfigMapCache** (`cache.go:361-436`, `138-154`). The callback is a loop of
`SetEntry` steps in any order (Go's map order), then `PopEntry` steps, each
under its own lock; `Panic`, on a key without a slash or a null entry, ends the
process half way; it restarts with an empty cache and lists again. The old
object is the one the informer had before. `DeliverDelete` does nothing, as no
DeleteFunc is registered. `Start`, `ReadExact`, `ReadWild` are a lookup.
`orphans`, `kept` and `mappedAll` are history variables: entries that the
callback cannot know of any more, the keys of a lookup that every configuration
in force had since it began, and lookups that every configuration mapped.

**PatchSettings** (`cache.go:159-166`, `215-259`, `403-419`,
`handler.go:411-497`, `validation.go`). One ServiceAccount and one pod: the
caches fill in any order (`AddSA`, `SetCM`) and the pod arrives at any moment
(`MutateByWebIdentity`, `MutateByCredentials`). The audience goes the way of the
STS setting and is left out.

**PodMutation** (`handler.go:88-106`, `127-285`, `311-409`, `525-563`). A pod of
several containers is mutated any number of times (`MutatePod`); between two
admissions the configuration changes (`Configure`) and the author edits the pod
(`DefineVar`, `DefineVolume`, `MountVolume`). A variable's value is who defined
it. Init containers go through the same code as containers and are among them.

**FileWatcher** (`file_watcher.go`, `config.go:72-98`). The caller of `Watch`,
the event loop, the worker and the queue's timer. The work queue is external,
modelled from its contract: one key that is queued, dirty or processed, added
again by `Done` when dirty, and held back by a delay that doubles to a limit.
The initial load is queued before the directory is watched, and watching may
fail, which ends the process. A change under an active watch raises an event, or
need not where `EventsGetLost` (inotify drops events, a symlink swap has other
names). The worker's goroutine looks at the context once (`StartWorker`,
`wait.UntilWithContext`): cancelled by then, it ends without the initial load.
When the context is cancelled later, the event loop ends (`StopLoop`), with the
events that wait, and the worker goes on: nothing shuts its queue down. `seen`
is history: whether the last change raised an event that was not dropped, or met
a read that was still to come (`ReadAhead`).

**CertStore** (`store.go`). A replica starts (`CurrentReads`,
`CurrentFindsNone`), is issued a pair (`Issue`), and runs `Update`: `GetOK` or
`GetFails`, then `Write`, `WriteLosesAnswer` or `WriteFails`. `Writable` is the
API server's optimistic concurrency: a create needs that there is no Secret, an
update that the fetched version is the present one. Others edit the Secret
(`Edit`), replicas restart (`Restart`).

- `SecretRegister` is the promise without calls that fail: a register that a
  replica overwrites only when it is empty or its present value is known.

**Webhook** (`main.go:223-256`, `309-356`, `shutdown.go`, `middleware.go`,
`handler.go:499-612`, `debug.go`). The two servers (`Listen`, `ListenFails`),
the goroutine of `ShutdownFromContext` of each (`BeginShutdown`, `Drained`,
`ForceClose`), `main` (`MainWaits`), and requests on every route: `Accept`,
`ParseForm`, then the handler (`Refuse`, `Review`, or the draw of the jitter),
`Write` or `WriteFails`, and `Return`, where the deferred reports run. What the
lookup of a pod finds is left open, so that every outcome of the caches is one
of `Review` or `BeginDraw`. `Init` leaves open whether the signal came before
the servers. Draws overlap without a lock on the shared `rand.Rand`; the race
may panic, which net/http recovers.

## 3. The runs

Deadlock is checked in `cert_replicas`, where replicas may always restart.
Elsewhere requests, files, configurations or the process itself may come to an
end, and the program then rests; `EveryRequestAnswered`, `ConfigReachesCache`,
`FileReachesCache` and `SignalEndsProcess` say what must not rest before.

| run | instance | shows |
|---|---|---|
| `cache_safety` | 1 ServiceAccount that appears and is cleared, 2 requests, channel of 1 | `LocksExclude`, `NoOrphanWaiter`, `NoWaitWhileCached`, `OneFetchPerHandler`, that no goroutine waits in a circle (`NobodyIsStuck`), that a request blocked on the full channel with both locks, and all behind it, are answered (`EveryRequestAnswered`), and that SACache implements Notification |
| `cache_truth` | 1 ServiceAccount, 2 changes, 1 request, ConfigMap writer | only fetches leave entries that differ from the informer's (`DivergesOnlyByFetch`), a notified entry is there, with resyncs what exists converges (`ExistingConverges`), and a pod that the ConfigMap maps throughout its lookup, by name or by wildcard, is mutated (`MappedIsMutated`) |
| `cm_applied` | 1 ServiceAccount and its wildcard, 2 roles, 1 lookup, every text | `ConfigIsApplied`, `ConfigReachesCache`, and that a lookup is not disturbed by an update that keeps one of its keys (`StayingIsFound`) |
| `cm_moves` (violated) | 1 role, good texts | `MappedIsFound`: a lookup misses a mapping that moves between key and wildcard |
| `cm_removed` (violated) | 1 role, good and malformed texts | `RemovedIsGone`: an entry stays for good after a malformed text |
| `settings_merge` | every combination of sources | `UnsetIsFlag`, `ShortOnlyFromConfigMap`, `AnnotationsThenFlags`, `CredentialsThenFlags` |
| `settings_configmap` (violated) | the same | `ExpirationIsAccepted`: the ConfigMap's expiration is not raised to the minimum |
| `pod_patch` | 2 containers, 2 variables the author may define | `NothingIsAddedTwice`, `TokenIsMounted`, `PatchIsStable`, `ReportIsTrue`, `AuthorIsKept` |
| `file_quiet` | 2 identities, delays 1, 2, 4, events that get lost | `QuietIsCurrent`, `FileReachesCache` |
| `file_start` (violated) | 1 identity, delays 1, 2, no event of a watched directory lost | `UpdateIsLoaded`: a change after the initial load has read the file and before the directory is watched is never loaded |
| `cert_replicas` | 2 replicas, a pair that loads and one that does not | `ServedWasStored`, `EveryReplicaServes`, and that CertStore implements SecretRegister |
| `webhook_shutdown` | 2 requests on any of the 7 routes, both servers | `GracefulMeansAnswered`, `MainWaitsForBoth`, `StoppedAcceptsNothing`, `ReportsMatchAnswer`, `SignalEndsProcess` |

### Bounds

- `Capacity = 1` stands for 1000: the properties speak of full and not full
  only. In `cache_safety` the two requests fill the channel and block on it
  while a writer waits.
- `MaxVersion = 2` in `cache_truth` is the shortest history with a stale answer
  (a fetch of version 1, then an update or a deletion). One version is enough
  for `cache_safety`, as `Clear` already evicts what was cached, so that a
  second registration follows; the theorems cover any history.
- Two requests are enough for the registry: one creates a channel, the other
  joins it, or blocks. The theorems cover any number.
- Wildcards are shared by the ServiceAccounts of one name. One ServiceAccount
  and its wildcard are all the keys that one lookup reads.
- Expirations are scaled: minimum 2, default range 4..5, values 0, 1, 2, 3, 5,
  6 lie below, at and above every limit, and 0 is what stands for "not set" in
  the ConfigMap.
- `MaxEvents = 2` pending file events: a further one coalesces with those that
  wait, as they all do the same. Delays double from 1 to `MaxDelay`.
- Two replicas make every conflict of two writers; a third would only add
  another loser. `stored` is the set of what was in the Secret, so that no run
  needs a bound on the number of writes.
- Two requests of `webhook_shutdown` are one to be drained and one to be cut,
  or two draws that overlap. Nothing else of one request touches another.
- No run uses symmetry, as most check liveness.

### Fairness

- SACache: strong fairness of a request's steps and a writer's steps, because
  `sync.Mutex` and `sync.RWMutex` serve their waiters in turn (starvation mode,
  and writers against readers), so a goroutine that finds a lock free again and
  again gets it; weak fairness of the consumer loop and of fetches, which end
  with an answer, an error or their timeout. `Timeout` is a step of the request:
  the grace period ends. Requests need not arrive, nor deliveries happen.
  `ExistingConverges` states its own assumption: the informer delivers what it
  has again and again (`resync-period`, 60 s by default).
- ConfigMapCache: weak fairness of the informer's deliveries and of the
  callback's steps.
- FileWatcher: weak fairness of the goroutines and of the queue's timer; strong
  fairness of a successful read: a file that can be read does not fail every
  time for ever. The worker's goroutine starts, which means nothing more than
  its end where the context was cancelled before; `FileReachesCache` promises
  nothing for a worker that never started. A worker that started blocks in
  `queue.Get` and never comes back to look at the context.
- CertStore: calls end (weak fairness of `Current` and of a step of `Update`).
  Strong fairness says that a manager without a certificate asks again until it
  is issued a pair that loads, as client-go does, and that with such a pair the
  API server does not fail the replica's `Get` and its write every time.
  `EveryReplicaServes` assumes in its own statement that others stop editing
  the Secret and that the replica is not restarted for ever.
- Webhook: a shutdown is begun after the signal and ends, drained or by its
  timeout of ten seconds, and `main` goes on when a channel is closed. Handlers
  need not end, nor servers start.

## 4. What is proved

TLAPS checks these for every value of the constants, under the assumptions that
the modules name (`ProcessAssumption`, `BoundAssumption`, `FlagAssumption`, `KeyAssumption`;
`CMKeyAssumption`, `ConfigAssumption`; `FileAssumption`;
`ExpirationAssumption`; `NameAssumption`; `PairAssumption`;
`RouteAssumption`): the special values differ, the bounds are positive, the
limits of expirations are ordered, the wildcard of a key is a key.

- `SACacheProofs`: `TypeCorrect`, `LocksAreExclusive`, `WaitersAreRegistered`,
  `NoLostWakeUp`, `FetchesAreShared`, all from one inductive invariant `IInv`
  (`SACacheInvariant`). None of the properties is inductive by itself:
  `NoWaitWhileCached` needs that a registered key is missing or about to be
  broadcast (`MissOK`), which a step of `create` keeps only because the miss is
  still true under the read lock, which needs `LocksExclude`; `NoOrphanWaiter`
  needs that every open channel is registered under the key of its creator
  (`RegistryOK`) and that a request has a notifier exactly when it has passed
  `create` (`NotifiersOK`); `OneFetchPerHandler` needs that a request which has
  not sent yet has no fetch (`FetchesOK`).
  `NoDeadlock` says that every goroutine inside the cache can take its next
  step, or waits for a lock or a channel slot whose holder can
  (`NobodyIsStuck`): each wait is followed to the one it waits for, which is the
  owner of `notifications.mu` (`NotificationsOwnerMoves`), a reader of `mu`
  (`ReadersMove`) or its writer (`OwnerMoves`), and at the end of the chain is
  the consumer of the fetch channel, which needs no lock. Since the prover
  knows no `ENABLED`, the property writes the guards of the steps out.
  `MappedPodsAreMutated` is a temporal implication: while the hypothesis holds,
  a request that has left the lookup of the entry in question has an answer
  (`OwnEntryStep`, `WildEntryStep`), with or without the debug handlers, whose
  `Clear` the hypothesis forbids only to take that entry.
  Also `OnlyFetchesDiverge` and `NotificationsAreTrue`, with the hypothesis
  `~DebugHandlers`: `Clear` takes no lock and can empty the map between the
  write of `setSA` and its broadcast.
- `SACacheRefinementProofs`: `Implements`, that SACache implements Notification
  with or without the debug handlers: initial states map to initial states,
  each action to `Register`, `Populate`, `Evict` or a stutter. Notification by
  itself lets nobody sleep on what is cached (`PromiseKept`), and the refinement
  carries that over to the cache (`SleepersAreMissing`).
- `ConfigMapCacheProofs`: `TypeCorrect`, `GoodConfigIsApplied`,
  `StayingKeyIsFound`. The invariant adds what the callback has set so far
  (`AppliedInv`), that the previous configuration's entries stay until the new
  ones are set and only entries that are gone are removed (`KeptInv`), that
  every cached key is an orphan or one that the callback knows (`TrackedInv`),
  that a panicking text is never behind a callback that ended (`BrokenInv`), and
  that a lookup one of whose keys stays is before its read of that key or has
  found one (`LookupInv`). `StayingKeyIsFound` then says of `MappedIsFound`,
  which `cm_moves` refutes, how far it holds: only a mapping that moves between
  the two keys during a lookup can be missed.
- `FileWatcherProofs`: `TypeCorrect`, `QuietWatcherIsCurrent`, with or without lost events. The invariant
  (`InHand`) has two halves. What was read last is in the worker's hands, or
  well formed and in the cache, or a dirty key or a timer will have the file
  read again; this holds whether the directory is watched or not, and after the
  context is cancelled. And a change that was seen has a read of the file ahead
  of it, or what was read last is the file. At rest, both leave one case.
- `PatchSettingsProofs`: `TypeCorrect`, `UnsetExpirationIsFlag`,
  `NoShortAnnotation`, `RoleGivesDocumentedSettings`,
  `CredentialsGiveDocumentedSettings`, for any limits and expirations; the last
  one also for a ServiceAccount that is not cached yet, which gets the built-in
  settings whatever the flags say. The invariant says that a filled cache holds
  exactly what its source and the flags make (`CachesOK`), and that the flag is
  not below the limit (`InputsOK`): with both, a step that mutates is a case
  distinction on which source set what.
- `PodMutationProofs`: `TypeCorrect`, `NothingTwice`, `TokensAreMounted`,
  `PatchesAreStable`, `ReportsAreTrue`, `AuthorsAreKept`, for any containers.
  The invariant (`Proper`, `TokenIsMounted`) is that of a pod the API server
  takes; that a method's two variables come together (`WholePair`) is part of
  it, and kept because what a patch adds is whole (`ConcatPairs`,
  `PatchPairs`). The proof follows `AddEnvToContainer`: each of its three parts
  adds variables that the container lacks (`Addition`), so that names stay
  distinct and what was there stays in front (`Grown`); a patched container has
  all the variables that another patch would add, or a foreign half of a pair
  that keeps it away, which gives stability. `AuthorsAreKept` looks at each
  step's effect on one container (`ContainerStays`), the patch's and the
  author's.
- `CertStoreProofs`: `TypeCorrect`, `ServedIsStored`, `OnlyBadPairsKill`,
  `Implements`. The
  invariant adds that a replica in `Update` has a pair and that what the Secret
  holds is in `stored`. A step of Update maps to `Read`, `Put`, `Forget` or a
  stutter of SecretRegister. `OnlyBadPairsKill` proves the safety half of
  `EveryReplicaServes` in a stronger form: the Secret holds the bad pair at the
  moment the replica ends (`DiesOnlyOfBadPair`).
- `WebhookProofs`: `TypeCorrect`, `GracefulShutdown`, `BothServersEnd`,
  `ReportsAreTrue`, `StoppedServersAcceptNothing`, `ShutdownsAdvance`.
  `GracefulMeansAnswered` is not inductive: it needs that a server serves only
  before its shutdown begins and reports only when that is done (`StoppersOK`),
  so that one which was drained stays without requests (`DrainedOK`), and that
  a request which ended was answered or is gone (`RequestsOK`).
  `ReportsMatchAnswer` needs that the recorded status is the one net/http was
  given as long as the connection stands (`RequestsOK` too).
  `ShutdownsAdvance` is the argument behind `SignalEndsProcess` without its
  fairness: the steps of a shutdown that are left are a number of at most six,
  which each of them lowers and no handler, client or server that starts late
  raises; and as long as the process runs after the signal, the guard of one of
  them holds at the server that `main` waits for (`CanAdvance`, which writes the
  guards out).

Every invariant and action property of the passing runs is proved, and so is
`MappedIsMutated`. Only model-checked are the liveness properties under
fairness, which the prover cannot reach: `EveryRequestAnswered`,
`ExistingConverges`, `ConfigReachesCache`, `FileReachesCache`,
`EveryReplicaServes`, `SignalEndsProcess`. Of the first and the last, the part
that is a matter of safety is proved as `NoDeadlock` and `ShutdownsAdvance`. The
statements of section 5 are refuted by TLC, with nothing to prove.

## 5. Where the code and its documentation differ

Four statements of the repository do not hold; a run shows each (`cm_moves`,
`cm_removed`, `settings_configmap`, `file_start`) and `PROJECT.json` quotes the
line. While reading, these were met as well, without
a run of their own:

- `Clear` assigns the maps without `mu`, though `cache.go:79` says the mutex
  guards the cache (the reason for `~DebugHandlers` above).
- The file watcher's worker is not stopped when the context is cancelled,
  though `file_watcher.go:67-68` says so: nothing shuts its queue down. Only a
  worker whose goroutine has not begun by then (`file_watcher.go:79`) ends.
- A change whose event inotify drops, or whose event has another name than the
  file (`file_watcher.go:84`, `108`), is not loaded until another one is seen.
- Its retries are limited to five minutes (`file_watcher.go:34`), not to the ten
  seconds of the comment at `file_watcher.go:48-49`.
- By container credentials, a ServiceAccount that is not cached yet gets the
  built-in settings and not those of the flags (`cache.go:165`), an annotated
  expiration that equals the default is jittered (`handler.go:491`), wildcard
  entries of the ConfigMap are not consulted, and entries by name only while the
  ServiceAccount is not cached, so that the settings depend on which cache
  filled first (`cache.go:160-164`).
- `Get` passes over the annotations of a ServiceAccount without a role when the
  ConfigMap maps it (`cache.go:130`), though `README.md:208` of the webhook says
  that annotations take precedence.
- The counter of missing ServiceAccounts (`middleware.go:62`) is said to count
  those without the right annotations too; one that is cached without a role is
  found, and not counted (`handler.go:447-487`).
- All requests draw their jitter from one `rand.Rand` without a lock
  (`handler.go:493`): a draw can repeat a value or panic, and the request whose
  handler panics gets no answer, is counted and logged as 200.
- A response that cannot be written is recorded as 500, whatever of it the
  client got (`handler.go:609-611`).
- A request with a bad form is answered 400, logged with status 200 and not
  counted (`middleware.go:154-159`).
- `Update` writes a pair before it parses it (`store.go:92-108`). One that does
  not load stays in the Secret, and a replica that restarts ends with
  `klog.Fatalf` until the Secret is replaced (`OnlyBadPairsKill`: of nothing
  else).
- `README.md:213` of the webhook gives `test-*` as a wildcard; the code knows
  `*` for the namespace only.

## 6. Not modelled

- Wording, logging and metrics; values of variables, paths and audiences; JSON;
  the Windows form of a path; role ARNs composed from names.
- Start-up errors of `main.go` other than those of the watcher, the listeners
  and the certificate store: flags that do not parse, clients that cannot be
  built. They end the process before anything runs. The certificate files of
  `certwatcher` (controller-runtime) when the webhook runs outside a cluster.
- The values that racing draws repeat: a drawn value is any value of the range.
- The durations and pod counts among the metrics, and what the cache prints.
- `request.go`, which hands a configuration to client-go's certificate manager;
  the generated mock and the test doubles; the JWKS generators (`oidc/main.go`,
  `hack/self-hosted/main.go`), which read one key and print it, a straight line
  of encoding calls without state; scripts, manifests and the training
  exercises.

## 7. What could follow

The components are modelled. What remains is composition, whose state space is
the product of modules that share little: one admission over SACache,
ConfigMapCache, FileWatcher and PatchSettings at once. The modules meet in
narrow places, and each states what the next one relies on: `MappedIsMutated`
and `StayingIsFound` for the lookup, `QuietIsCurrent` for the identities,
`AnnotationsThenFlags` and `CredentialsThenFlags` for what is made of an
answer, `TokenIsMounted` and `PatchIsStable` for what is made of the settings,
and `ReportsMatchAnswer` for the response. A composed module would be worth its
cost if the lookups came to hold state between the caches.
