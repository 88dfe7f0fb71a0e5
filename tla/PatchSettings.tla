--------------------------- MODULE PatchSettings ---------------------------
(***************************************************************************)
(* How the settings of one pod's patch come together from the flags, the   *)
(* annotations of its ServiceAccount, the ConfigMap, the container         *)
(* credentials config and the pod's own annotation: addSA and the setCM    *)
(* half of populateCacheFromCM fill the caches (pkg/cache/cache.go), and   *)
(* buildPodPatchConfig merges what Get or GetCommonConfigurations finds    *)
(* there when the pod arrives (pkg/handler/handler.go).                    *)
(*                                                                         *)
(* The audience goes the way of the regional STS setting and is left out.  *)
(* An annotation that does not parse counts as one that is not there.      *)
(***************************************************************************)
EXTENDS Integers

CONSTANTS
    MinTokenExpiration,         \* see pkg/constants.go
    DefaultMinTokenExpiration,
    DefaultTokenExpiration,
    Expirations,                \* values that annotations and flags may hold
    None                        \* not there

ASSUME ExpirationAssumption ==
    /\ MinTokenExpiration \in Nat /\ DefaultTokenExpiration \in Nat
    /\ DefaultMinTokenExpiration \in Nat
    /\ MinTokenExpiration <= DefaultMinTokenExpiration
    /\ DefaultMinTokenExpiration <= DefaultTokenExpiration
    /\ Expirations \subseteq Int
    /\ None \notin Expirations /\ None \notin BOOLEAN

Annotations == [role : BOOLEAN, sts : BOOLEAN \cup {None}, exp : Expirations \cup {None}]
Mapped == [key : {"exact", "wildcard"}, sts : BOOLEAN, exp : Expirations]

VARIABLES
    flags,    \* [sts, exp]: --sts-regional-endpoint and --token-expiration
    sa,       \* annotations of the ServiceAccount
    cm,       \* the entry of the ConfigMap for it, or None
    listed,   \* the container credentials config lists it
    podExp,   \* the pod's token-expiration annotation, or None
    saCache,  \* entry of the ServiceAccount in the cache, or None
    cmCache,  \* entry of the ConfigMap in the cache, or None
    patch     \* settings of the pod's patch, or None

inputVars == <<flags, sa, cm, listed, podExp>>
vars == <<inputVars, saCache, cmCache, patch>>

ValidateMinTokenExpiration(e) ==
    IF e < MinTokenExpiration THEN MinTokenExpiration ELSE e

Init ==
    /\ flags \in [sts : BOOLEAN, exp : {ValidateMinTokenExpiration(e) : e \in Expirations}]
    /\ sa \in Annotations
    /\ cm \in Mapped \cup {None}
    /\ listed \in BOOLEAN
    /\ podExp \in Expirations \cup {None}
    /\ saCache = None
    /\ cmCache = None
    /\ patch = None

\* An annotation or, when it is not there, the fallback.
Override(annotation, fallback) == IF annotation = None THEN fallback ELSE annotation

\* Mutant: the annotation is taken as it is.
OverrideExpUnchecked(annotation, fallback) == Override(annotation, fallback)

\* A token-expiration annotation or, when it is not there, the fallback.
OverrideExp(annotation, fallback) ==
    IF annotation = None THEN fallback ELSE ValidateMinTokenExpiration(annotation)

\* Mutant: a setting that is not annotated is not there.
AddSANoDefault ==
    /\ saCache = None
    /\ saCache' = [role |-> sa.role,
                   sts  |-> sa.sts,
                   exp  |-> OverrideExp(sa.exp, flags.exp)]
    /\ UNCHANGED <<inputVars, cmCache, patch>>

\* addSA: an entry of the cache has every setting, annotated or not.
AddSA ==
    /\ saCache = None
    /\ saCache' = [role |-> sa.role,
                   sts  |-> Override(sa.sts, flags.sts),
                   exp  |-> OverrideExp(sa.exp, flags.exp)]
    /\ UNCHANGED <<inputVars, cmCache, patch>>

\* Mutant: an expiration of zero stands for the built-in default.
SetCMDefault ==
    /\ cmCache = None /\ cm # None
    /\ cmCache' = [key |-> cm.key, role |-> TRUE, sts |-> cm.sts,
                   exp |-> IF cm.exp = 0 THEN DefaultTokenExpiration ELSE cm.exp]
    /\ UNCHANGED <<inputVars, saCache, patch>>

\* setCM: an expiration of zero stands for the flag.
SetCM ==
    /\ cmCache = None /\ cm # None
    /\ cmCache' = [key |-> cm.key, role |-> TRUE, sts |-> cm.sts,
                   exp |-> IF cm.exp = 0 THEN flags.exp ELSE cm.exp]
    /\ UNCHANGED <<inputVars, saCache, patch>>

\* Mutant: the ConfigMap is asked first.
GetMappedFirst ==
    IF cmCache # None THEN cmCache ELSE saCache

\* Get, for the entry that it answers with.
Get ==
    IF saCache # None /\ saCache.role THEN saCache
    ELSE IF cmCache # None THEN cmCache
    ELSE saCache

\* Mutant: the ConfigMap is asked first.
GetCommonMappedFirst ==
    IF cmCache # None /\ cmCache.key = "exact"
    THEN [sts |-> cmCache.sts, exp |-> cmCache.exp]
    ELSE IF saCache # None THEN [sts |-> saCache.sts, exp |-> saCache.exp]
         ELSE [sts |-> FALSE, exp |-> DefaultTokenExpiration]

\* The settings of a pod that is mutated by container credentials.
GetCommonConfigurations ==
    IF saCache # None THEN [sts |-> saCache.sts, exp |-> saCache.exp]
    ELSE IF cmCache # None /\ cmCache.key = "exact"
         THEN [sts |-> cmCache.sts, exp |-> cmCache.exp]
         ELSE [sts |-> FALSE, exp |-> DefaultTokenExpiration]

\* What Int63n of math/rand may return.
Int63n(n) == 0..(n - 1)

\* Mutant: what is drawn is added to the wrong one of the two defaults.
JitteredFromDefault(e) ==
    IF e = DefaultTokenExpiration
    THEN {n + DefaultTokenExpiration :
              n \in Int63n(DefaultTokenExpiration - DefaultMinTokenExpiration + 1)}
    ELSE {e}

\* The outcomes of addJitterToDefaultToken.
Jittered(e) ==
    IF e = DefaultTokenExpiration
    THEN {n + DefaultMinTokenExpiration :
              n \in Int63n(DefaultTokenExpiration - DefaultMinTokenExpiration + 1)}
    ELSE {e}

\* The pod arrives and the container credentials config lists its
\* ServiceAccount, which takes precedence.
MutateByCredentials ==
    /\ patch = None /\ listed
    /\ \E e \in Jittered(OverrideExp(podExp, GetCommonConfigurations.exp)) :
          patch' = [method |-> "container_credentials",
                    sts |-> GetCommonConfigurations.sts, exp |-> e]
    /\ UNCHANGED <<inputVars, saCache, cmCache>>

\* The pod arrives, and its ServiceAccount is configured with a role.
\* Without one the pod is not mutated.
MutateByWebIdentity ==
    /\ patch = None /\ ~listed
    /\ Get # None /\ Get.role
    /\ patch' = [method |-> "sts_web_identity",
                 sts |-> Get.sts, exp |-> OverrideExp(podExp, Get.exp)]
    /\ UNCHANGED <<inputVars, saCache, cmCache>>

Next == AddSA \/ SetCM \/ MutateByCredentials \/ MutateByWebIdentity

Spec == Init /\ [][Next]_vars
=============================================================================
