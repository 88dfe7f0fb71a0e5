---------------------- MODULE ConfigMapCacheProperties ----------------------
(***************************************************************************)
(* What the webhook promises about the pod-identity-webhook ConfigMap.     *)
(***************************************************************************)
EXTENDS ConfigMapCache

\* The callback only has keys in hand of the configuration that it is setting,
\* or of the one that it is popping.
CallbackOK ==
    /\ step = "idle" => todo = {}
    /\ step = "set" => store # None /\ store.kind # "malformed" /\ todo \subseteq DOMAIN store.map
    /\ step = "pop" => IsGood(store) /\ todo \subseteq KeysOf(old)

\* Every variable has its type.
TypeOK ==
    /\ cm \in Configs \cup {None}
    /\ store \in Configs \cup {None}
    /\ cmCache \in [CMKeys -> Roles \cup {None}]
    /\ step \in {"idle", "set", "pop"}
    /\ old \in Configs \cup {None}
    /\ todo \subseteq CMKeys
    /\ pc \in [Requests -> {"start", "exact", "wild", "done"}]
    /\ key \in [Requests -> Keys]
    /\ answer \in [Requests -> Roles \cup {None}]
    /\ orphans \subseteq CMKeys
    /\ kept \in [Requests -> SUBSET CMKeys]
    /\ mappedAll \subseteq Requests
    /\ CallbackOK

\* When the callback for a good configuration is over, each of its entries is
\* cached as it says, and an entry that it does not have comes from a
\* configuration the callback lost sight of: one that was followed by text
\* that did not unmarshal, or that was deleted with the ConfigMap.
ConfigIsApplied ==
    step = "idle" /\ IsGood(store) =>
        /\ \A k \in DOMAIN store.map : cmCache[k] = store.map[k]
        /\ Cached \ DOMAIN store.map \subseteq orphans

\* Half way through an update, a key of both configurations has an entry of one
\* of them: entries are overwritten in place and removed last.  So a lookup finds
\* an entry if one key that it reads, be it the wildcard, is in every
\* configuration from its start to its end; only a mapping that moves from one
\* key to the other can be missed.
StayingIsFound ==
    /\ \A k \in CMKeys : (\A c \in InForce : k \in KeysOf(c)) =>
          cmCache[k] \in {c.map[k] : c \in InForce}
    /\ \A r \in Requests : kept[r] # {} /\ pc[r] = "done" => answer[r] # None

\* README.md:204-206: "The webhook will mutate Pods configured to use these
\* ServiceAccounts even if they have no annotations": a lookup of a
\* ServiceAccount that every configuration maps finds an entry.
MappedIsFound ==
    \A r \in mappedAll : pc[r] = "done" => answer[r] # None

\* cache_test.go:395-402 (TestPopulateCacheFromCM): an entry that the new
\* configuration does not have must not be found any more.
RemovedIsGone ==
    step = "idle" /\ IsGood(store) => Cached \subseteq DOMAIN store.map

\* A good configuration that stays ends up in the cache for good.
ConfigReachesCache ==
    \A c \in Configs :
        <>[](cm = c) /\ IsGood(c) =>
            <>[](\A k \in DOMAIN c.map : cmCache[k] = c.map[k])
=============================================================================
