---------------------- MODULE PatchSettingsProperties ----------------------
(***************************************************************************)
(* What the webhook promises about the settings of a patch.                *)
(***************************************************************************)
EXTENDS PatchSettings

Settings == [sts : BOOLEAN, exp : Int]

\* Every variable has its type.
TypeOK ==
    /\ flags \in Settings
    /\ sa \in Annotations
    /\ cm \in Mapped \cup {None}
    /\ listed \in BOOLEAN
    /\ podExp \in Expirations \cup {None}
    /\ saCache # None => saCache.sts \in BOOLEAN /\ saCache.exp \in Int
    /\ cmCache # None => cmCache.sts \in BOOLEAN /\ cmCache.exp \in Int
    /\ patch # None => patch.sts \in BOOLEAN /\ patch.exp \in Int

\* By web identity an expiration that neither the ServiceAccount nor the pod
\* nor the ConfigMap sets is that of the flag, whichever of the caches the
\* answer came from and whichever of them was filled when the pod arrived.
UnsetIsFlag ==
    patch # None /\ patch.method = "sts_web_identity" =>
        (podExp = None /\ sa.exp = None /\ (cm # None => cm.exp = 0)
            => patch.exp = flags.exp)

\* pkg/constants.go:24-25 ("10mins is min for kube-apiserver"): the token
\* that a patch asks for is one that the API server accepts.
ExpirationIsAccepted == patch # None => patch.exp >= MinTokenExpiration

\* Only the ConfigMap gets a token past that limit: every annotation and the
\* flag is raised to it, on whichever way it reaches the patch.
ShortOnlyFromConfigMap ==
    ExpirationIsAccepted \/ (cm # None /\ patch.exp = cm.exp)

\* handler.go:414-419: "tokenExpiration: pod annotation > serviceaccount
\* annotation > flag", "regionalSTS: serviceaccount annotation > flag".
DocumentedExp == OverrideExp(podExp, OverrideExp(sa.exp, flags.exp))
DocumentedSTS == Override(sa.sts, flags.sts)

MutatesBy(method) == patch' # None /\ patch'.method = method

\* By web identity, a ServiceAccount that is cached with a role annotation
\* gives the patch the settings of the documented order, whatever the
\* ConfigMap says of it.
AnnotationsThenFlags ==
    [][MutatesBy("sts_web_identity") /\ saCache # None /\ saCache.role =>
          patch'.exp = DocumentedExp /\ patch'.sts = DocumentedSTS]_patch

\* By container credentials a cached ServiceAccount does the same, with or
\* without a role.  One that is not cached gets what the ConfigMap says of it by
\* name, and a pod that arrives before either is cached what is built in:
\* neither flag reaches it (cache.go:159-166).  A default expiration, wherever
\* it comes from, is drawn from a range that ends with it (handler.go:490-497).
CredentialSettings ==
    IF saCache # None
    THEN [sts |-> DocumentedSTS, exp |-> DocumentedExp]
    ELSE IF cmCache # None /\ cm.key = "exact"
         THEN [sts |-> cm.sts,
               exp |-> OverrideExp(podExp, IF cm.exp = 0 THEN flags.exp ELSE cm.exp)]
         ELSE [sts |-> FALSE, exp |-> OverrideExp(podExp, DefaultTokenExpiration)]

CredentialsThenFlags ==
    [][MutatesBy("container_credentials") =>
          /\ patch'.sts = CredentialSettings.sts
          /\ IF CredentialSettings.exp = DefaultTokenExpiration
             THEN patch'.exp \in DefaultMinTokenExpiration..DefaultTokenExpiration
             ELSE patch'.exp = CredentialSettings.exp]_patch
=============================================================================
