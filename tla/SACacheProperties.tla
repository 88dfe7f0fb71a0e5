------------------------- MODULE SACacheProperties -------------------------
(***************************************************************************)
(* What the service account cache must guarantee to the admission requests *)
(* that wait on it.                                                        *)
(***************************************************************************)
EXTENDS SACache, Functions

\* Every variable has its type, and the fetch channel never holds more than
\* its buffer.
TypeOK ==
    /\ hist \in [Keys -> Seq(SAStates)]
    /\ seen \in [Keys -> Nat]
    /\ saCache \in [Keys -> Nat]
    /\ cmCache \subseteq CMKeys
    /\ writer \in Writers \cup {None}
    /\ readers \subseteq Requests
    /\ nmu \in Requests \cup {None}
    /\ handlers \in [Keys -> Requests \cup {None}]
    /\ closed \subseteq Requests
    /\ fetchRequests \in Seq(Requests) /\ Len(fetchRequests) <= Capacity
    /\ pc \in [Requests -> LookupLabels]
    /\ key \in [Requests -> Keys]
    /\ notify \in [Requests -> BOOLEAN]
    /\ found \in [Requests -> BOOLEAN]
    /\ notifier \in [Requests -> Requests \cup {None}]
    /\ response \in [Requests -> {"none", "sa", "cm"}]
    /\ wpc \in [Writers -> WriterLabels]
    /\ arg \in [Writers -> Updates \cup {None}]

ReadLocked == {r \in Requests : pc[r] \in {"readSA", "create", "register", "send",
                                           "readCM", "readWild"}}
Owns(w) == wpc[w] = "broadcast"
Populating(k) == \E w \in Writers : Owns(w) /\ arg[w].key = k

\* The locks exclude: who is inside a read section is a reader of mu, a
\* writer has mu to itself once it writes, one request is in create, and
\* broadcast, which takes notifications.mu second, never finds it taken (so
\* the order mu, notifications.mu cannot close a cycle).
LocksExclude ==
    /\ readers = ReadLocked
    /\ \A w \in Writers : wpc[w] \in {"drain", "broadcast"} <=> writer = w
    /\ \A w \in Writers : Owns(w) => readers = {} /\ nmu = None
    /\ \A r \in Requests : pc[r] \in {"register", "send"} <=> nmu = r

\* A request that holds a notifier and still looks at it: from notifications.create
\* to the end of the select in buildPodPatchConfig.
Waiting(r) ==
    notifier[r] # None /\ notify[r] /\ pc[r] \notin {"arrive", "done"}

\* Nobody waits on a channel that no broadcast can close: an open notifier of
\* a waiting request is the one registered for the request's key, and the
\* select never waits on the nil channel of a Get that found nothing.
NoOrphanWaiter ==
    /\ \A r \in Requests :
          Waiting(r) /\ notifier[r] \notin closed => handlers[key[r]] = notifier[r]
    /\ \A r \in Requests : pc[r] = "select" => notifier[r] # None

\* No wake-up is lost: while a ServiceAccount is in the cache nobody waits for
\* it on an open channel, except in the instant between the write of setSA
\* and its broadcast.  This is what holding mu across the miss and the
\* registration is for.
NoWaitWhileCached ==
    \A r \in Requests :
        Waiting(r) /\ notifier[r] \notin closed /\ saCache[key[r]] # 0
            => Populating(key[r])

\* Requests for one ServiceAccount share one fetch: every registered channel
\* has its fetch request on the way, running or failed, never twice; and a
\* fetch that succeeded has closed the channel it was made for.
OneFetchPerHandler ==
    /\ IsInjective(fetchRequests)
    /\ \A c \in Range(fetchRequests) : wpc[c] = "idle"
    /\ \A k \in Keys : handlers[k] # None =>
          LET c == handlers[k]
          IN /\ key[c] = k
             /\ \/ pc[c] = "send"
                \/ c \in Range(fetchRequests)
                \/ wpc[c] \in {"fetch", "lock", "drain", "broadcast", "failed"}
    /\ \A c \in Requests : wpc[c] = "done" => c \in closed

\* A goroutine that can take its next step itself, or whose next step waits only
\* for the consumer of the fetch channel, which can take its own.
Free(r) ==
    \/ pc[r] \in {"readSA", "register", "readCM", "readWild", "select"}
    \/ pc[r] \in {"getSA", "getCM", "getWild"} /\ writer = None
    \/ pc[r] = "create" /\ nmu = None
    \/ pc[r] = "send" /\ (Len(fetchRequests) < Capacity \/ SpawnReady)
FreeWriter(w) ==
    \/ wpc[w] = "lock" /\ writer = None
    \/ wpc[w] = "drain" /\ readers = {}
    \/ wpc[w] = "broadcast" /\ nmu = None

\* ... or who waits for a lock whose owners can: notifications.mu for a
\* request in create, the read lock of mu for a writer.
ReaderMoves(r) == Free(r) \/ (pc[r] = "create" /\ nmu # None /\ Free(nmu))
WriterMoves(w) ==
    FreeWriter(w) \/ (wpc[w] = "drain" /\ \A r \in readers : ReaderMoves(r))

\* No deadlock, not even of some of the goroutines: with the read lock held
\* across create, create blocking on the fetch channel, and the fetches it
\* feeds needing mu, every goroutine that is inside the cache can move or is at
\* the end of a chain of waits that starts at one that can.
NobodyIsStuck ==
    LET OwnerMoves == writer # None /\ WriterMoves(writer)
    IN /\ \A r \in Requests :
             pc[r] \notin {"arrive", "done"} =>
                ReaderMoves(r)
                \/ (pc[r] \in {"getSA", "getCM", "getWild"} /\ OwnerMoves)
       /\ \A w \in Writers :
             wpc[w] \in {"lock", "drain", "broadcast"} =>
                WriterMoves(w) \/ (wpc[w] = "lock" /\ OwnerMoves)

\* Between callbacks, an entry that differs from what the informer delivered
\* last is one a fetch wrote: an answer of the API server from before an
\* update or a deletion, stored after it.  Nothing else diverges.
DivergesOnlyByFetch ==
    wpc[SAInformer] = "idle" =>
        \A k \in Keys :
            LET v == IF StateAt(k, seen[k]) = "absent" THEN 0 ELSE seen[k]
            IN saCache[k] # v =>
                 \E r \in Requests : /\ key[r] = k
                                     /\ wpc[r] \in {"broadcast", "done"}
                                     /\ arg[r].ver = saCache[k]

\* Get (cache.go:116-118): a handler is notified "as soon as a ServiceAccount
\* with given key is populated to the cache": the entry is there when the
\* channel closes.
NotifiedIsPopulated ==
    [][\A c \in closed' \ closed : saCache[key[c]] # 0]_vars

\* Every admitted request is answered: not even the one that blocks on a full
\* fetch channel with both locks held, while a fetch wants mu for its answer.
EveryRequestAnswered ==
    \A r \in Requests : pc[r] = "getSA" ~> pc[r] = "done"

\* The resync heals: if the informer keeps delivering what it has, as it does
\* every resync-period, a ServiceAccount that exists is in the end cached in
\* its last version for good, whatever stale answers fetches have written.
ExistingConverges ==
    \A k \in Keys :
        SF_vars(Deliver(k, Latest(k))) =>
            <>[](StateAt(k, Latest(k)) # "absent" => saCache[k] = Latest(k))

\* The webhook's README.md:204-206: a pod whose ServiceAccount the ConfigMap
\* maps throughout its lookup, by its name or by "*/name", is mutated, whatever
\* happens to the ServiceAccount meanwhile.  Only a mapping that is set during
\* the lookup can be missed: it wakes nobody, and the timeout does not look
\* for it.
MappedIsMutated ==
    \A r \in Requests :
        \/ [](pc[r] # "arrive" => key[r] \in cmCache)
        \/ [](pc[r] # "arrive" => Wildcard[key[r]] \in cmCache)
        => [](pc[r] = "done" => response[r] # "none")
=============================================================================
