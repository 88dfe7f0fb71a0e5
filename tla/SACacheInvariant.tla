-------------------------- MODULE SACacheInvariant --------------------------
(***************************************************************************)
(* The inductive invariant behind the safety properties of SACache: the    *)
(* type invariant, the lock discipline, and for each of the shared         *)
(* structures what ties it to the place every goroutine has reached.       *)
(***************************************************************************)
EXTENDS SACacheProperties

\* A writing goroutine carries a well-formed update from the moment it asks
\* for mu; only setSA reaches the broadcast; a fetch sets its own key.
UpdatesOK ==
    /\ wpc[CMInformer] \in {"idle", "lock", "drain"}
    /\ wpc[SAInformer] \in {"idle", "lock", "drain", "broadcast"}
    /\ \A w \in Writers : wpc[w] \in {"lock", "drain", "broadcast"} => arg[w] \in Updates
    /\ \A w \in Writers \ {CMInformer} :
          wpc[w] \in {"lock", "drain", "broadcast"} => arg[w].key \in Keys
    /\ \A r \in Requests : wpc[r] \in {"lock", "drain", "broadcast"} =>
          arg[r].op = "set" /\ arg[r].key = key[r]
    /\ \A w \in Writers : wpc[w] = "broadcast" => arg[w].op = "set" /\ arg[w].ver # 0
    /\ \A w \in Writers \ {CMInformer} :
          wpc[w] \in {"lock", "drain"} /\ arg[w].op = "set" => arg[w].ver # 0

\* A request has a notifier exactly when its first Get has passed create, and
\* one that must look at a notifier has one.
NotifiersOK ==
    \A r \in Requests :
        /\ pc[r] \in {"create", "register", "send", "select"} => notify[r]
        /\ notify[r] /\ pc[r] \in {"arrive", "getSA", "readSA", "create", "register"}
              => notifier[r] = None /\ ~found[r]
        /\ notify[r] /\ ~found[r]
           /\ pc[r] \in {"send", "getCM", "readCM", "getWild", "readWild", "select"}
              => notifier[r] # None
        /\ pc[r] = "select" => ~found[r]
        /\ pc[r] = "send" => notifier[r] = r

\* The registry holds open channels, each under the key of its creator; every
\* channel that is still open is registered under the key of who waits on it.
RegistryOK ==
    /\ \A k \in Keys : handlers[k] # None =>
          /\ key[handlers[k]] = k
          /\ handlers[k] \notin closed
          /\ notifier[handlers[k]] = handlers[k]
    /\ \A c \in closed : notifier[c] = c
    /\ \A r \in Requests : notifier[r] # None /\ notifier[r] \notin closed =>
          handlers[key[r]] = notifier[r]

\* A key with a registered handler is missing, or about to be broadcast; and a
\* request inside create still sees the miss that brought it there.
MissOK ==
    /\ \A k \in Keys : handlers[k] # None /\ saCache[k] # 0 => Populating(k)
    /\ \A r \in Requests : pc[r] \in {"create", "register"} => saCache[key[r]] = 0

\* A queued fetch has not started; a request that has not sent one yet has no
\* fetch; and every fetch is for a channel that its request created.
FetchesOK ==
    /\ OneFetchPerHandler
    /\ \A c \in Range(fetchRequests) : notifier[c] = c
    /\ \A r \in Requests :
          /\ wpc[r] # "idle" => notifier[r] = r
          /\ pc[r] = "send" => wpc[r] = "idle" /\ r \notin Range(fetchRequests)

IInv ==
    /\ TypeOK
    /\ UpdatesOK
    /\ LocksExclude
    /\ NotifiersOK
    /\ RegistryOK
    /\ MissOK
    /\ FetchesOK
=============================================================================
