------------------------ MODULE PatchSettingsProofs ------------------------
(***************************************************************************)
(* Proofs of what the settings of a patch come from, for all expirations,  *)
(* flags and annotations.                                                  *)
(***************************************************************************)
EXTENDS PatchSettingsProperties, TLAPS

\* What the caches hold, once they hold it, for these inputs.
SAEntry == [role |-> sa.role,
            sts  |-> Override(sa.sts, flags.sts),
            exp  |-> OverrideExp(sa.exp, flags.exp)]
CMEntry == [key |-> cm.key, role |-> TRUE, sts |-> cm.sts,
            exp |-> IF cm.exp = 0 THEN flags.exp ELSE cm.exp]

\* The flag was raised to the limit when the process started.
InputsOK ==
    /\ flags \in Settings /\ flags.exp >= MinTokenExpiration
    /\ sa \in Annotations /\ cm \in Mapped \cup {None}
    /\ listed \in BOOLEAN /\ podExp \in Expirations \cup {None}

CachesOK ==
    /\ saCache \in {None, SAEntry}
    /\ cmCache \in {None, CMEntry}
    /\ cmCache # None => cm # None

PatchOK == patch # None => patch.sts \in BOOLEAN /\ patch.exp \in Int

IInv == InputsOK /\ CachesOK /\ PatchOK /\ UnsetIsFlag /\ ShortOnlyFromConfigMap

-----------------------------------------------------------------------------
\* Raising to the limit yields an expiration at or above it.
LEMMA ValidateBounds ==
    ASSUME NEW e \in Expirations
    PROVE  /\ ValidateMinTokenExpiration(e) \in Int
           /\ ValidateMinTokenExpiration(e) >= MinTokenExpiration
BY ExpirationAssumption DEF ValidateMinTokenExpiration

\* An annotated expiration is at or above the limit, and the fallback is
\* taken only where there is no annotation.
LEMMA OverrideExpBounds ==
    ASSUME NEW a \in Expirations \cup {None}, NEW e \in Int
    PROVE  /\ OverrideExp(a, e) \in Int
           /\ OverrideExp(a, e) >= MinTokenExpiration \/ (a = None /\ OverrideExp(a, e) = e)
           /\ a = None => OverrideExp(a, e) = e
BY ValidateBounds, ExpirationAssumption DEF OverrideExp

\* The entry of a ServiceAccount has every setting, and no short expiration.
LEMMA SAEntryOK ==
    ASSUME InputsOK
    PROVE  /\ SAEntry.sts \in BOOLEAN /\ SAEntry.exp \in Int
           /\ SAEntry.exp >= MinTokenExpiration
           /\ sa.exp = None => SAEntry.exp = flags.exp
<1>1. flags.exp \in Int /\ flags.sts \in BOOLEAN /\ sa.exp \in Expirations \cup {None}
      /\ sa.sts \in BOOLEAN \cup {None}
  BY DEF InputsOK, Settings, Annotations
<1>2. OverrideExp(sa.exp, flags.exp) \in Int
      /\ OverrideExp(sa.exp, flags.exp) >= MinTokenExpiration
      /\ (sa.exp = None => OverrideExp(sa.exp, flags.exp) = flags.exp)
  BY <1>1, OverrideExpBounds DEF InputsOK
<1>3. Override(sa.sts, flags.sts) \in BOOLEAN
  BY <1>1 DEF Override
<1> QED
  BY <1>2, <1>3 DEF SAEntry

\* That of the ConfigMap has the flag's expiration or its own.
LEMMA CMEntryOK ==
    ASSUME InputsOK, cm # None
    PROVE  /\ CMEntry.sts \in BOOLEAN /\ CMEntry.exp \in Int /\ CMEntry.role = TRUE
           /\ CMEntry.exp >= MinTokenExpiration \/ CMEntry.exp = cm.exp
           /\ cm.exp = 0 => CMEntry.exp = flags.exp
<1>1. cm.sts \in BOOLEAN /\ cm.exp \in Int
  BY ExpirationAssumption DEF InputsOK, Mapped
<1>2. flags.exp \in Int /\ flags.exp >= MinTokenExpiration
  BY DEF InputsOK, Settings
<1> QED
  BY <1>1, <1>2, ExpirationAssumption DEF CMEntry

\* What Get answers with a role is one of the two entries.
LEMMA GetOK ==
    ASSUME CachesOK, InputsOK, Get # None, Get.role
    PROVE  \/ Get = SAEntry
           \/ Get = CMEntry /\ cm # None /\ ~(saCache # None /\ saCache.role)
BY DEF CachesOK, Get

\* Jitter draws down to the shorter of the two defaults, which is not short.
LEMMA JitterBounds ==
    ASSUME NEW e \in Int, NEW j \in Jittered(e)
    PROVE  /\ j \in Int /\ (j = e \/ j >= MinTokenExpiration)
           /\ IF e = DefaultTokenExpiration
              THEN j \in DefaultMinTokenExpiration..DefaultTokenExpiration
              ELSE j = e
<1>1. CASE e = DefaultTokenExpiration
  <2>1. PICK n \in Int63n(DefaultTokenExpiration - DefaultMinTokenExpiration + 1) :
            j = n + DefaultMinTokenExpiration
    BY <1>1 DEF Jittered
  <2>2. n \in Nat /\ n <= DefaultTokenExpiration - DefaultMinTokenExpiration
    BY <2>1, ExpirationAssumption DEF Int63n
  <2> QED
    BY <1>1, <2>1, <2>2, ExpirationAssumption
<1>2. CASE e # DefaultTokenExpiration
  BY <1>2 DEF Jittered
<1> QED
  BY <1>1, <1>2

-----------------------------------------------------------------------------
\* The process starts with empty caches.
LEMMA InitInv == Init => IInv
<1> SUFFICES ASSUME Init PROVE IInv
  OBVIOUS
<1>1. flags \in Settings /\ flags.exp >= MinTokenExpiration
  <2>1. PICK s \in BOOLEAN, e \in Expirations :
            flags = [sts |-> s, exp |-> ValidateMinTokenExpiration(e)]
    BY DEF Init
  <2> QED
    BY <2>1, ValidateBounds DEF Settings
<1>2. InputsOK
  BY <1>1 DEF Init, InputsOK
<1>3. CachesOK
  BY DEF Init, CachesOK
<1>4. patch = None
  BY DEF Init
<1> QED
  BY <1>2, <1>3, <1>4
     DEF IInv, PatchOK, UnsetIsFlag, ShortOnlyFromConfigMap, ExpirationIsAccepted

\* A patch by web identity.
LEMMA WebIdentityInv ==
    ASSUME IInv, MutateByWebIdentity
    PROVE  IInv'
<1>1. UNCHANGED <<flags, sa, cm, listed, podExp, saCache, cmCache>>
  BY DEF MutateByWebIdentity, inputVars
<1>2. patch' = [method |-> "sts_web_identity", sts |-> Get.sts,
                exp |-> OverrideExp(podExp, Get.exp)]
  BY DEF MutateByWebIdentity
<1>3. \/ Get = SAEntry
      \/ Get = CMEntry /\ cm # None
  BY GetOK DEF MutateByWebIdentity, IInv
<1>4. podExp \in Expirations \cup {None}
  BY DEF IInv, InputsOK
<1>5. /\ Get.sts \in BOOLEAN /\ Get.exp \in Int
      /\ Get.exp >= MinTokenExpiration \/ (cm # None /\ Get.exp = cm.exp)
      /\ sa.exp = None /\ (cm # None => cm.exp = 0) => Get.exp = flags.exp
  BY <1>3, SAEntryOK, CMEntryOK DEF IInv
<1>6. /\ patch'.sts \in BOOLEAN /\ patch'.exp \in Int
      /\ patch'.exp >= MinTokenExpiration \/ patch'.exp = Get.exp
      /\ podExp = None => patch'.exp = Get.exp
  BY <1>2, <1>4, <1>5, OverrideExpBounds
<1>7. InputsOK' /\ CachesOK'
  BY <1>1 DEF IInv, InputsOK, CachesOK, SAEntry, CMEntry
<1>8. PatchOK' /\ UnsetIsFlag' /\ ShortOnlyFromConfigMap'
  BY <1>1, <1>5, <1>6
     DEF PatchOK, UnsetIsFlag, ShortOnlyFromConfigMap, ExpirationIsAccepted
<1> QED
  BY <1>7, <1>8 DEF IInv

\* The settings of container credentials are those of an entry or built in:
\* before the pod's own annotation, what CredentialSettings makes of them.
LEMMA CommonOK ==
    ASSUME InputsOK, CachesOK
    PROVE  LET c == GetCommonConfigurations IN
           /\ c.sts \in BOOLEAN /\ c.exp \in Int
           /\ c.exp >= MinTokenExpiration \/ (cm # None /\ c.exp = cm.exp)
           /\ CredentialSettings = [sts |-> c.sts, exp |-> OverrideExp(podExp, c.exp)]
<1> DEFINE c == GetCommonConfigurations
<1>1. CASE saCache # None
  <2>1. c = [sts |-> SAEntry.sts, exp |-> SAEntry.exp]
    BY <1>1 DEF CachesOK, GetCommonConfigurations
  <2>2. CredentialSettings = [sts |-> c.sts, exp |-> OverrideExp(podExp, c.exp)]
    BY <1>1, <2>1 DEF CredentialSettings, SAEntry, DocumentedExp, DocumentedSTS
  <2> QED
    BY <2>1, <2>2, SAEntryOK, ExpirationAssumption
<1>2. CASE saCache = None /\ cmCache # None /\ cmCache.key = "exact"
  <2>1. c = [sts |-> CMEntry.sts, exp |-> CMEntry.exp] /\ cm # None /\ cm.key = "exact"
    BY <1>2 DEF CachesOK, GetCommonConfigurations, CMEntry
  <2>2. CredentialSettings = [sts |-> c.sts, exp |-> OverrideExp(podExp, c.exp)]
    BY <1>2, <2>1 DEF CredentialSettings, CMEntry
  <2> QED
    BY <1>2, <2>1, <2>2, CMEntryOK, ExpirationAssumption
<1>3. CASE saCache = None /\ ~(cmCache # None /\ cmCache.key = "exact")
  <2>1. c = [sts |-> FALSE, exp |-> DefaultTokenExpiration]
    BY <1>3 DEF GetCommonConfigurations
  <2>2. ~(cmCache # None /\ cm.key = "exact")
    BY <1>3 DEF CachesOK, CMEntry
  <2>3. CredentialSettings = [sts |-> c.sts, exp |-> OverrideExp(podExp, c.exp)]
    BY <1>3, <2>1, <2>2 DEF CredentialSettings
  <2>4. DefaultTokenExpiration \in Int /\ DefaultTokenExpiration >= MinTokenExpiration
    BY ExpirationAssumption
  <2> QED
    BY <1>3, <2>1, <2>3, <2>4
<1> QED
  BY <1>1, <1>2, <1>3

\* A patch by container credentials.
LEMMA CredentialsInv ==
    ASSUME IInv, MutateByCredentials
    PROVE  IInv'
<1> DEFINE c == GetCommonConfigurations
<1>1. UNCHANGED <<flags, sa, cm, listed, podExp, saCache, cmCache>>
  BY DEF MutateByCredentials, inputVars
<1>2. PICK e \in Jittered(OverrideExp(podExp, c.exp)) :
          patch' = [method |-> "container_credentials", sts |-> c.sts, exp |-> e]
  BY DEF MutateByCredentials
<1>3. /\ c.sts \in BOOLEAN /\ c.exp \in Int
      /\ c.exp >= MinTokenExpiration \/ (cm # None /\ c.exp = cm.exp)
  BY CommonOK DEF IInv
<1>4. /\ OverrideExp(podExp, c.exp) \in Int
      /\ OverrideExp(podExp, c.exp) >= MinTokenExpiration \/ OverrideExp(podExp, c.exp) = c.exp
  <2> HIDE DEF c
  <2> QED
    BY <1>3, OverrideExpBounds DEF IInv, InputsOK
<1>5. e \in Int /\ (e >= MinTokenExpiration \/ e = OverrideExp(podExp, c.exp))
  BY <1>2, <1>4, JitterBounds
<1>6. InputsOK' /\ CachesOK'
  BY <1>1 DEF IInv, InputsOK, CachesOK, SAEntry, CMEntry
<1>7. PatchOK' /\ UnsetIsFlag' /\ ShortOnlyFromConfigMap'
  BY <1>1, <1>2, <1>3, <1>4, <1>5
     DEF PatchOK, UnsetIsFlag, ShortOnlyFromConfigMap, ExpirationIsAccepted
<1> QED
  BY <1>6, <1>7 DEF IInv

\* Every step keeps the invariant.
LEMMA StepInv == IInv /\ [Next]_vars => IInv'
<1> SUFFICES ASSUME IInv, [Next]_vars PROVE IInv'
  OBVIOUS
<1>1. CASE AddSA
  BY <1>1 DEF AddSA, inputVars, IInv, InputsOK, CachesOK, PatchOK, UnsetIsFlag,
              ShortOnlyFromConfigMap, ExpirationIsAccepted, SAEntry, CMEntry
<1>2. CASE SetCM
  BY <1>2 DEF SetCM, inputVars, IInv, InputsOK, CachesOK, PatchOK, UnsetIsFlag,
              ShortOnlyFromConfigMap, ExpirationIsAccepted, SAEntry, CMEntry
<1>3. CASE UNCHANGED vars
  BY <1>3 DEF vars, inputVars, IInv, InputsOK, CachesOK, PatchOK, UnsetIsFlag,
              ShortOnlyFromConfigMap, ExpirationIsAccepted, SAEntry, CMEntry
<1> QED
  BY <1>1, <1>2, <1>3, WebIdentityInv, CredentialsInv DEF Next

\* The invariant holds throughout.
LEMMA Invariant == Spec => []IInv
BY InitInv, StepInv, PTL DEF Spec

-----------------------------------------------------------------------------
\* Inputs, caches and patch keep their types.
THEOREM TypeCorrect == Spec => []TypeOK
<1>1. IInv => TypeOK
  BY SAEntryOK, CMEntryOK DEF IInv, InputsOK, CachesOK, PatchOK, TypeOK
<1> QED
  BY <1>1, Invariant, PTL

\* An expiration that nobody sets is that of the flag.
THEOREM UnsetExpirationIsFlag == Spec => []UnsetIsFlag
<1>1. IInv => UnsetIsFlag
  BY DEF IInv
<1> QED
  BY <1>1, Invariant, PTL

\* Only the ConfigMap gets an expiration past the limit.
THEOREM NoShortAnnotation == Spec => []ShortOnlyFromConfigMap
<1>1. IInv => ShortOnlyFromConfigMap
  BY DEF IInv
<1> QED
  BY <1>1, Invariant, PTL

\* By web identity a cached role gives the patch the documented settings.
THEOREM RoleGivesDocumentedSettings == Spec => AnnotationsThenFlags
<1> DEFINE A == MutatesBy("sts_web_identity") /\ saCache # None /\ saCache.role =>
                    patch'.exp = DocumentedExp /\ patch'.sts = DocumentedSTS
<1>1. IInv /\ [Next]_vars => [A]_patch
  <2> SUFFICES ASSUME IInv, Next, patch' # patch, MutatesBy("sts_web_identity"),
                      saCache # None, saCache.role
               PROVE  patch'.exp = DocumentedExp /\ patch'.sts = DocumentedSTS
    BY DEF vars
  <2>1. MutateByWebIdentity
    BY DEF Next, AddSA, SetCM, MutateByCredentials, MutatesBy
  <2>2. Get = SAEntry
    BY DEF Get, IInv, CachesOK
  <2> QED
    BY <2>1, <2>2 DEF MutateByWebIdentity, SAEntry, DocumentedExp, DocumentedSTS
<1> QED
  BY <1>1, Invariant, PTL DEF Spec, AnnotationsThenFlags

\* By container credentials a cached ServiceAccount does, role or not, and one
\* that is not cached gets the ConfigMap's settings or the built-in ones.
THEOREM CredentialsGiveDocumentedSettings == Spec => CredentialsThenFlags
<1> DEFINE s == CredentialSettings
           A == MutatesBy("container_credentials") =>
                  /\ patch'.sts = s.sts
                  /\ IF s.exp = DefaultTokenExpiration
                     THEN patch'.exp \in DefaultMinTokenExpiration..DefaultTokenExpiration
                     ELSE patch'.exp = s.exp
<1>1. IInv /\ [Next]_vars => [A]_patch
  <2> SUFFICES ASSUME IInv, Next, patch' # patch, MutatesBy("container_credentials")
               PROVE  A
    BY DEF vars
  <2>1. MutateByCredentials
    BY DEF Next, AddSA, SetCM, MutateByWebIdentity, MutatesBy
  <2>2. s.sts = GetCommonConfigurations.sts
        /\ s.exp = OverrideExp(podExp, GetCommonConfigurations.exp)
    BY CommonOK DEF IInv
  <2>3. PICK e \in Jittered(s.exp) :
            patch' = [method |-> "container_credentials", sts |-> s.sts, exp |-> e]
    BY <2>1, <2>2 DEF MutateByCredentials
  <2> QED
    <3>1. s.exp \in Int
      <4>1. GetCommonConfigurations.exp \in Int
        BY CommonOK DEF IInv
      <4>2. podExp \in Expirations \cup {None}
        BY DEF IInv, InputsOK
      <4> QED
        BY <2>2, <4>1, <4>2, OverrideExpBounds
    <3> QED
      BY <2>3, <3>1, JitterBounds
<1> QED
  BY <1>1, Invariant, PTL DEF Spec, CredentialsThenFlags
=============================================================================
