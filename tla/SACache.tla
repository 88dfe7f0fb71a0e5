------------------------------ MODULE SACache ------------------------------
(***************************************************************************)
(* The service account cache of the webhook (pkg/cache/cache.go), with the *)
(* notification registry it embeds (pkg/cache/notifications.go) and the    *)
(* lookup that an admission request makes of it                            *)
(* (pkg/handler/handler.go, the web identity half of buildPodPatchConfig). *)
(*                                                                         *)
(* The goroutines of the program are processes that interleave between     *)
(* lock operations:                                                        *)
(*   - one admission handler per request, a reader of mu.  A request that  *)
(*     misses also takes notifications.mu and may block on the fetch       *)
(*     channel with both locks held;                                       *)
(*   - one fetch goroutine per fetch request, spawned by the consumer loop *)
(*     of New.  A request sends at most one fetch request, so the goroutine*)
(*     (and the notifier channel) is named by the request that created it; *)
(*   - the two informer callback goroutines, which write the cache;        *)
(*   - the debug handler, which clears the cache and takes no lock.        *)
(*                                                                         *)
(* The API server is external: hist[k] lists the states that ServiceAccount*)
(* k went through, and a cached entry is the number of the version it was  *)
(* computed from (0: no entry).  Only two contents of a ServiceAccount     *)
(* matter to a lookup, with and without a role ARN annotation.             *)
(***************************************************************************)
EXTENDS Integers, Sequences

CONSTANTS
    Keys,             \* namespace/name of a ServiceAccount (CacheKey)
    CMKeys,           \* keys a ConfigMap may hold: Keys and "*/name"
    Wildcard,         \* [Keys -> CMKeys], the "*/name" of each key
    Requests,         \* admission requests
    Pods,             \* the ServiceAccounts their pods may name
    Capacity,         \* buffer of saFetchRequests (1000 in the code)
    Contents,         \* with or without a role ARN: {"bare", "role"}
    MaxVersion,       \* bound: changes of one ServiceAccount
    GracePeriod,      \* service-account-lookup-grace-period > 0
    WatchConfigMap,   \* flag watch-config-map
    DebugHandlers,    \* flag enable-debugging-handlers
    SAInformer, CMInformer, None

ASSUME ProcessAssumption ==
    /\ SAInformer \notin Requests
    /\ CMInformer \notin Requests \cup {SAInformer}
    /\ None \notin Requests \cup {SAInformer, CMInformer} \cup Keys

ASSUME BoundAssumption ==
    /\ Capacity \in Nat \ {0}
    /\ MaxVersion \in Nat
    /\ Contents \subseteq {"bare", "role"}

ASSUME FlagAssumption ==
    /\ GracePeriod \in BOOLEAN
    /\ WatchConfigMap \in BOOLEAN
    /\ DebugHandlers \in BOOLEAN

ASSUME KeyAssumption ==
    /\ Keys \subseteq CMKeys
    /\ Wildcard \in [Keys -> CMKeys]
    /\ Pods \subseteq [Requests -> Keys]

VARIABLES
    hist,          \* [Keys -> Seq(SAStates)], external: the API server
    seen,          \* version of each ServiceAccount the informer delivered last
    saCache,       \* [Keys -> version], 0 when the key has no entry
    cmCache,       \* keys that have an entry from the ConfigMap
    writer,        \* mu: goroutine inside Lock (waiting for readers or owning)
    readers,       \* mu: requests that own the read lock
    nmu,           \* notifications.mu: the request that owns it
    handlers,      \* [Keys -> open notifier channel, or None]
    closed,        \* notifier channels that were closed
    fetchRequests, \* the buffered channel saFetchRequests
    pc,            \* where each request is in Get / buildPodPatchConfig
    key,           \* ServiceAccount of each request
    notify,        \* RequestNotification of the Get in progress
    found,         \* FoundInCache of the Get in progress
    notifier,      \* Notifier a request got from its first Get
    response,      \* where the role of an answered request came from
    wpc,           \* where each writing goroutine is
    arg            \* what each writing goroutine is to write, at first None

lookupVars == <<key, notify, found, notifier, response>>
apiVars == <<hist, seen>>
vars == <<hist, seen, saCache, cmCache, writer, readers, nmu, handlers, closed,
          fetchRequests, pc, key, notify, found, notifier, response, wpc, arg>>

Writers == Requests \cup {SAInformer, CMInformer}
SAStates == Contents \cup {"absent"}
LookupLabels == {"arrive", "getSA", "readSA", "create", "register", "send",
                 "getCM", "readCM", "getWild", "readWild", "select", "done"}
WriterLabels == {"idle", "fetch", "lock", "drain", "broadcast", "failed", "done"}
Updates == [op : {"set", "pop"}, key : CMKeys, ver : Nat]

Latest(k) == Len(hist[k])
StateAt(k, v) == IF v = 0 THEN "absent" ELSE hist[k][v]

Init ==
    /\ hist = [k \in Keys |-> <<>>]
    /\ seen = [k \in Keys |-> 0]
    /\ saCache = [k \in Keys |-> 0]
    /\ cmCache = {}
    /\ writer = None
    /\ readers = {}
    /\ nmu = None
    /\ handlers = [k \in Keys |-> None]
    /\ closed = {}
    /\ fetchRequests = <<>>
    /\ pc = [r \in Requests |-> "arrive"]
    /\ key \in Pods
    /\ notify = [r \in Requests |-> GracePeriod]
    /\ found = [r \in Requests |-> FALSE]
    /\ notifier = [r \in Requests |-> None]
    /\ response = [r \in Requests |-> "none"]
    /\ wpc = [w \in Writers |-> "idle"]
    /\ arg = [w \in Writers |-> None]

-----------------------------------------------------------------------------
(* The admission request: buildPodPatchConfig and the Get calls it makes.  *)

\* A request reaches the cache; its pod names the ServiceAccount key[r].
Admit(r) ==
    /\ pc[r] = "arrive"
    /\ pc' = [pc EXCEPT ![r] = "getSA"]
    /\ UNCHANGED <<apiVars, saCache, cmCache, writer, readers, nmu, handlers,
                   closed, fetchRequests, lookupVars, wpc, arg>>

\* Mutant: readers ignore writers.
RLockBarges(r) ==
    /\ pc[r] \in {"getSA", "getCM", "getWild"}
    /\ readers' = readers \cup {r}
    /\ pc' = [pc EXCEPT ![r] = CASE @ = "getSA" -> "readSA"
                                 [] @ = "getCM" -> "readCM"
                                 [] @ = "getWild" -> "readWild"]
    /\ UNCHANGED <<apiVars, saCache, cmCache, writer, nmu, handlers, closed,
                   fetchRequests, lookupVars, wpc, arg>>

\* mu.RLock of getSA and getCM: a writer inside Lock keeps new readers out.
RLock(r) ==
    /\ pc[r] \in {"getSA", "getCM", "getWild"}
    /\ writer = None
    /\ readers' = readers \cup {r}
    /\ pc' = [pc EXCEPT ![r] = CASE @ = "getSA" -> "readSA"
                                 [] @ = "getCM" -> "readCM"
                                 [] @ = "getWild" -> "readWild"]
    /\ UNCHANGED <<apiVars, saCache, cmCache, writer, nmu, handlers, closed,
                   fetchRequests, lookupVars, wpc, arg>>

\* Mutant: an entry without a role ends the lookup.
ReadSAFoundEnds(r) ==
    LET ver == saCache[key[r]]
        hit == StateAt(key[r], ver) = "role"
    IN /\ pc[r] = "readSA"
       /\ ver # 0 \/ ~notify[r]
       /\ found' = [found EXCEPT ![r] = ver # 0]
       /\ readers' = readers \ {r}
       /\ pc' = [pc EXCEPT ![r] = IF ver # 0 THEN "done" ELSE "getCM"]
       /\ response' = [response EXCEPT ![r] = IF hit THEN "sa" ELSE @]
       /\ UNCHANGED <<apiVars, saCache, cmCache, writer, nmu, handlers, closed,
                      fetchRequests, key, notify, notifier, wpc, arg>>

\* getSA without registration: an entry with a role answers the request, an
\* entry without one only records FoundInCache.
ReadSA(r) ==
    LET ver == saCache[key[r]]
        hit == StateAt(key[r], ver) = "role"
    IN /\ pc[r] = "readSA"
       /\ ver # 0 \/ ~notify[r]
       /\ found' = [found EXCEPT ![r] = ver # 0]
       /\ readers' = readers \ {r}
       /\ pc' = [pc EXCEPT ![r] = IF hit THEN "done" ELSE "getCM"]
       /\ response' = [response EXCEPT ![r] = IF hit THEN "sa" ELSE @]
       /\ UNCHANGED <<apiVars, saCache, cmCache, writer, nmu, handlers, closed,
                      fetchRequests, key, notify, notifier, wpc, arg>>

\* getSA misses and calls notifications.create with the read lock held.
MissSA(r) ==
    /\ pc[r] = "readSA"
    /\ saCache[key[r]] = 0 /\ notify[r]
    /\ pc' = [pc EXCEPT ![r] = "create"]
    /\ UNCHANGED <<apiVars, saCache, cmCache, writer, readers, nmu, handlers,
                   closed, fetchRequests, lookupVars, wpc, arg>>

\* notifications.create takes notifications.mu.
Create(r) ==
    /\ pc[r] = "create"
    /\ nmu = None
    /\ nmu' = r
    /\ pc' = [pc EXCEPT ![r] = "register"]
    /\ UNCHANGED <<apiVars, saCache, cmCache, writer, readers, handlers, closed,
                   fetchRequests, lookupVars, wpc, arg>>

\* Mutant: create sends a fetch request for every caller.
JoinHandlerRefetches(r) ==
    /\ pc[r] = "register"
    /\ handlers[key[r]] # None
    /\ notifier' = [notifier EXCEPT ![r] = handlers[key[r]]]
    /\ pc' = [pc EXCEPT ![r] = "send"]
    /\ UNCHANGED <<apiVars, saCache, cmCache, writer, readers, nmu, handlers,
                   closed, fetchRequests, key, notify, found, response, wpc, arg>>

\* A handler for the key exists: share its channel.
JoinHandler(r) ==
    /\ pc[r] = "register"
    /\ handlers[key[r]] # None
    /\ notifier' = [notifier EXCEPT ![r] = handlers[key[r]]]
    /\ nmu' = None
    /\ readers' = readers \ {r}
    /\ pc' = [pc EXCEPT ![r] = "getCM"]
    /\ UNCHANGED <<apiVars, saCache, cmCache, writer, handlers, closed,
                   fetchRequests, key, notify, found, response, wpc, arg>>

\* No handler for the key: register a new channel ...
NewHandler(r) ==
    /\ pc[r] = "register"
    /\ handlers[key[r]] = None
    /\ handlers' = [handlers EXCEPT ![key[r]] = r]
    /\ notifier' = [notifier EXCEPT ![r] = r]
    /\ pc' = [pc EXCEPT ![r] = "send"]
    /\ UNCHANGED <<apiVars, saCache, cmCache, writer, readers, nmu, closed,
                   fetchRequests, key, notify, found, response, wpc, arg>>

\* Mutant: the channel takes one request more than its buffer.
SendOverfull(r) ==
    /\ pc[r] = "send"
    /\ Len(fetchRequests) <= Capacity
    /\ fetchRequests' = Append(fetchRequests, r)
    /\ nmu' = None
    /\ readers' = readers \ {r}
    /\ pc' = [pc EXCEPT ![r] = "getCM"]
    /\ UNCHANGED <<apiVars, saCache, cmCache, writer, handlers, closed,
                   lookupVars, wpc, arg>>

\* ... and send the fetch request, blocking while the buffer is full with
\* both locks held.
Send(r) ==
    /\ pc[r] = "send"
    /\ Len(fetchRequests) < Capacity
    /\ fetchRequests' = Append(fetchRequests, r)
    /\ nmu' = None
    /\ readers' = readers \ {r}
    /\ pc' = [pc EXCEPT ![r] = "getCM"]
    /\ UNCHANGED <<apiVars, saCache, cmCache, writer, handlers, closed,
                   lookupVars, wpc, arg>>

\* getCM(name, namespace).
ReadCM(r) ==
    LET hit == key[r] \in cmCache
    IN /\ pc[r] = "readCM"
       /\ readers' = readers \ {r}
       /\ pc' = [pc EXCEPT ![r] = IF hit THEN "done" ELSE "getWild"]
       /\ response' = [response EXCEPT ![r] = IF hit THEN "cm" ELSE @]
       /\ UNCHANGED <<apiVars, saCache, cmCache, writer, nmu, handlers, closed,
                      fetchRequests, key, notify, found, notifier, wpc, arg>>

\* getCM(name, "*"), after which Get returns: without an entry a Get that
\* asked for a notification is followed by the select of buildPodPatchConfig.
ReadWild(r) ==
    LET hit == Wildcard[key[r]] \in cmCache
    IN /\ pc[r] = "readWild"
       /\ readers' = readers \ {r}
       /\ pc' = [pc EXCEPT ![r] = IF hit \/ found[r] \/ ~notify[r]
                                  THEN "done" ELSE "select"]
       /\ response' = [response EXCEPT ![r] = IF hit THEN "cm" ELSE @]
       /\ UNCHANGED <<apiVars, saCache, cmCache, writer, nmu, handlers, closed,
                      fetchRequests, key, notify, found, notifier, wpc, arg>>

\* case <-response.Notifier: Get again, without asking for a notification.
Notified(r) ==
    /\ pc[r] = "select"
    /\ notifier[r] \in closed
    /\ notify' = [notify EXCEPT ![r] = FALSE]
    /\ pc' = [pc EXCEPT ![r] = "getSA"]
    /\ UNCHANGED <<apiVars, saCache, cmCache, writer, readers, nmu, handlers,
                   closed, fetchRequests, key, found, notifier, response, wpc, arg>>

\* case <-time.After(grace): the pod is not mutated, the cache not read again.
Timeout(r) ==
    /\ pc[r] = "select"
    /\ pc' = [pc EXCEPT ![r] = "done"]
    /\ UNCHANGED <<apiVars, saCache, cmCache, writer, readers, nmu, handlers,
                   closed, fetchRequests, lookupVars, wpc, arg>>

-----------------------------------------------------------------------------
(* The fetch goroutines.                                                   *)

\* Mutant: the consumer takes mu to look the ServiceAccount up before it spawns.
SpawnReadyLocked == fetchRequests # <<>> /\ writer = None

\* The consumer loop of New has something to receive; it waits for no lock.
SpawnReady == fetchRequests # <<>>

\* The consumer loop of New receives a request and spawns its goroutine.
Spawn ==
    /\ SpawnReady
    /\ fetchRequests' = Tail(fetchRequests)
    /\ wpc' = [wpc EXCEPT ![Head(fetchRequests)] = "fetch"]
    /\ UNCHANGED <<apiVars, saCache, cmCache, writer, readers, nmu, handlers,
                   closed, pc, lookupVars, arg>>

\* Past the rate limiter, the API server answers with the ServiceAccount.
FetchAnswer(r) ==
    LET k == key[r]
    IN /\ wpc[r] = "fetch"
       /\ StateAt(k, Latest(k)) # "absent"
       /\ arg' = [arg EXCEPT ![r] = [op |-> "set", key |-> k, ver |-> Latest(k)]]
       /\ wpc' = [wpc EXCEPT ![r] = "lock"]
       /\ UNCHANGED <<apiVars, saCache, cmCache, writer, readers, nmu, handlers,
                      closed, fetchRequests, pc, lookupVars>>

\* Not found, an error, or one second passed: the goroutine ends and leaves
\* the handler registered.
FetchFail(r) ==
    /\ wpc[r] = "fetch"
    /\ wpc' = [wpc EXCEPT ![r] = "failed"]
    /\ UNCHANGED <<apiVars, saCache, cmCache, writer, readers, nmu, handlers,
                   closed, fetchRequests, pc, lookupVars, arg>>

-----------------------------------------------------------------------------
(* The informer callbacks.                                                 *)

\* Mutant: an update to the version delivered last is skipped.
DeliverNews(k, v) ==
    /\ wpc[SAInformer] = "idle"
    /\ v \in seen[k] + 1 .. Latest(k)
    /\ StateAt(k, v) = "absent" => StateAt(k, seen[k]) # "absent"
    /\ seen' = [seen EXCEPT ![k] = v]
    /\ arg' = [arg EXCEPT ![SAInformer] =
                 [op |-> IF StateAt(k, v) = "absent" THEN "pop" ELSE "set",
                  key |-> k, ver |-> v]]
    /\ wpc' = [wpc EXCEPT ![SAInformer] = "lock"]
    /\ UNCHANGED <<hist, saCache, cmCache, writer, readers, nmu, handlers,
                   closed, fetchRequests, pc, lookupVars>>

\* The ServiceAccount informer delivers version v of k: the next one it has,
\* a later one (a relist drops the ones between), or, on a resync, the same.
Deliver(k, v) ==
    /\ wpc[SAInformer] = "idle"
    /\ v \in seen[k] .. Latest(k)
    /\ StateAt(k, v) = "absent" => StateAt(k, seen[k]) # "absent"
    /\ seen' = [seen EXCEPT ![k] = v]
    /\ arg' = [arg EXCEPT ![SAInformer] =
                 [op |-> IF StateAt(k, v) = "absent" THEN "pop" ELSE "set",
                  key |-> k, ver |-> v]]
    /\ wpc' = [wpc EXCEPT ![SAInformer] = "lock"]
    /\ UNCHANGED <<hist, saCache, cmCache, writer, readers, nmu, handlers,
                   closed, fetchRequests, pc, lookupVars>>

\* The ConfigMap callback sets or removes one entry.
DeliverCM(op, k) ==
    /\ WatchConfigMap
    /\ wpc[CMInformer] = "idle"
    /\ arg' = [arg EXCEPT ![CMInformer] = [op |-> op, key |-> k, ver |-> 0]]
    /\ wpc' = [wpc EXCEPT ![CMInformer] = "lock"]
    /\ UNCHANGED <<apiVars, saCache, cmCache, writer, readers, nmu, handlers,
                   closed, fetchRequests, pc, lookupVars>>

-----------------------------------------------------------------------------
(* Writing the cache: setSA, popSA, setCM and popCM.                       *)

\* mu.Lock, first half: keep new readers and other writers out.
Lock(w) ==
    /\ wpc[w] = "lock"
    /\ writer = None
    /\ writer' = w
    /\ wpc' = [wpc EXCEPT ![w] = "drain"]
    /\ UNCHANGED <<apiVars, saCache, cmCache, readers, nmu, handlers, closed,
                   fetchRequests, pc, lookupVars, arg>>

\* Mutant: setSA returns without a broadcast.
SetSASilently(w) ==
    /\ wpc[w] = "drain" /\ w # CMInformer
    /\ readers = {}
    /\ arg[w].op = "set"
    /\ saCache' = [saCache EXCEPT ![arg[w].key] = arg[w].ver]
    /\ writer' = None
    /\ wpc' = [wpc EXCEPT ![w] = IF w = SAInformer THEN "idle" ELSE "done"]
    /\ UNCHANGED <<apiVars, cmCache, readers, nmu, handlers, closed,
                   fetchRequests, pc, lookupVars, arg>>

\* Mutant: a ServiceAccount without a role is not cached.
SetSARolesOnly(w) ==
    LET k == arg[w].key
        v == arg[w].ver
    IN /\ wpc[w] = "drain" /\ w # CMInformer
       /\ readers = {}
       /\ arg[w].op = "set"
       /\ saCache' = [saCache EXCEPT ![k] = IF StateAt(k, v) = "role" THEN v ELSE @]
       /\ wpc' = [wpc EXCEPT ![w] = "broadcast"]
       /\ UNCHANGED <<apiVars, cmCache, writer, readers, nmu, handlers, closed,
                      fetchRequests, pc, lookupVars, arg>>

\* mu.Lock, second half, and the write of setSA: the readers have left.
SetSA(w) ==
    /\ wpc[w] = "drain" /\ w # CMInformer
    /\ readers = {}
    /\ arg[w].op = "set"
    /\ saCache' = [saCache EXCEPT ![arg[w].key] = arg[w].ver]
    /\ wpc' = [wpc EXCEPT ![w] = "broadcast"]
    /\ UNCHANGED <<apiVars, cmCache, writer, readers, nmu, handlers, closed,
                   fetchRequests, pc, lookupVars, arg>>

\* Mutant: the handler is removed and its channel stays open.
BroadcastKeepsOpen(w) ==
    /\ wpc[w] = "broadcast"
    /\ nmu = None
    /\ handlers' = [handlers EXCEPT ![arg[w].key] = None]
    /\ writer' = None
    /\ wpc' = [wpc EXCEPT ![w] = IF w = SAInformer THEN "idle" ELSE "done"]
    /\ UNCHANGED <<apiVars, saCache, cmCache, readers, nmu, closed,
                   fetchRequests, pc, lookupVars, arg>>

\* The broadcast that ends setSA, under both locks, and the deferred Unlock.
Broadcast(w) ==
    LET k == arg[w].key
    IN /\ wpc[w] = "broadcast"
       /\ nmu = None
       /\ closed' = closed \cup ({handlers[k]} \ {None})
       /\ handlers' = [handlers EXCEPT ![k] = None]
       /\ writer' = None
       /\ wpc' = [wpc EXCEPT ![w] = IF w = SAInformer THEN "idle" ELSE "done"]
       /\ UNCHANGED <<apiVars, saCache, cmCache, readers, nmu, fetchRequests, pc,
                      lookupVars, arg>>

\* Mutant: a deletion is ignored.
PopSAIgnored(w) ==
    /\ wpc[w] = "drain" /\ w # CMInformer
    /\ readers = {}
    /\ arg[w].op = "pop"
    /\ writer' = None
    /\ wpc' = [wpc EXCEPT ![w] = "idle"]
    /\ UNCHANGED <<apiVars, saCache, cmCache, readers, nmu, handlers, closed,
                   fetchRequests, pc, lookupVars, arg>>

\* popSA notifies nobody.
PopSA(w) ==
    /\ wpc[w] = "drain" /\ w # CMInformer
    /\ readers = {}
    /\ arg[w].op = "pop"
    /\ saCache' = [saCache EXCEPT ![arg[w].key] = 0]
    /\ writer' = None
    /\ wpc' = [wpc EXCEPT ![w] = "idle"]
    /\ UNCHANGED <<apiVars, cmCache, readers, nmu, handlers, closed,
                   fetchRequests, pc, lookupVars, arg>>

\* setCM and popCM notify nobody either.
WriteCM ==
    /\ wpc[CMInformer] = "drain"
    /\ readers = {}
    /\ cmCache' = IF arg[CMInformer].op = "set"
                  THEN cmCache \cup {arg[CMInformer].key}
                  ELSE cmCache \ {arg[CMInformer].key}
    /\ writer' = None
    /\ wpc' = [wpc EXCEPT ![CMInformer] = "idle"]
    /\ UNCHANGED <<apiVars, saCache, readers, nmu, handlers, closed,
                   fetchRequests, pc, lookupVars, arg>>

\* Clear replaces the maps without taking mu, one after the other.
ClearSA ==
    /\ DebugHandlers
    /\ saCache' = [k \in Keys |-> 0]
    /\ UNCHANGED <<apiVars, cmCache, writer, readers, nmu, handlers, closed,
                   fetchRequests, pc, lookupVars, wpc, arg>>

ClearCM ==
    /\ DebugHandlers
    /\ cmCache' = {}
    /\ UNCHANGED <<apiVars, saCache, writer, readers, nmu, handlers, closed,
                   fetchRequests, pc, lookupVars, wpc, arg>>

-----------------------------------------------------------------------------
(* The API server (external).                                              *)

\* A ServiceAccount is created, updated or deleted.
ApiChange(k, s) ==
    /\ Latest(k) < MaxVersion
    /\ s = "absent" => StateAt(k, Latest(k)) # "absent"
    /\ hist' = [hist EXCEPT ![k] = Append(@, s)]
    /\ UNCHANGED <<seen, saCache, cmCache, writer, readers, nmu, handlers,
                   closed, fetchRequests, pc, lookupVars, wpc, arg>>

-----------------------------------------------------------------------------
LookupStep(r) ==
    \/ RLock(r) \/ ReadSA(r) \/ MissSA(r)
    \/ Create(r) \/ JoinHandler(r) \/ NewHandler(r) \/ Send(r)
    \/ ReadCM(r) \/ ReadWild(r)
    \/ Notified(r) \/ Timeout(r)

WriteStep(w) ==
    Lock(w) \/ SetSA(w) \/ Broadcast(w) \/ PopSA(w) \/ (w = CMInformer /\ WriteCM)

FetchStep(r) == FetchAnswer(r) \/ FetchFail(r)

Next ==
    \/ \E r \in Requests : Admit(r) \/ LookupStep(r) \/ FetchStep(r)
    \/ Spawn
    \/ \E w \in Writers : WriteStep(w)
    \/ \E k \in Keys : \E v \in 0 .. MaxVersion : Deliver(k, v)
    \/ \E op \in {"set", "pop"} : \E k \in CMKeys : DeliverCM(op, k)
    \/ ClearSA \/ ClearCM
    \/ \E k \in Keys : \E s \in SAStates : ApiChange(k, s)

Spec == Init /\ [][Next]_vars

\* Go's scheduler runs every goroutine that can run; Mutex and RWMutex serve
\* their waiters in turn, so a goroutine that keeps finding a lock free at
\* times gets it (strong fairness).  A grace period ends, the limiter grants,
\* the API client gives up after a second.  Requests need not arrive, nor
\* ServiceAccounts change, nor the informer deliver anything.
Fairness ==
    /\ \A r \in Requests : SF_vars(LookupStep(r)) /\ WF_vars(FetchStep(r))
    /\ WF_vars(Spawn)
    /\ \A w \in Writers : SF_vars(WriteStep(w))

FairSpec == Spec /\ Fairness
=============================================================================
