---------------------------- MODULE PodMutation ----------------------------
(***************************************************************************)
(* The patch of a pod: getPodSpecPatch and addEnvToContainer               *)
(* (pkg/handler/handler.go), over pods that were mutated before.           *)
(*                                                                         *)
(* A pod comes by more than once when its specification is read back,      *)
(* edited and created anew, and the ServiceAccount may be configured       *)
(* otherwise by then.  The patch is applied as it is made.  The values of  *)
(* variables, paths and tokens are left out: of a variable the model       *)
(* keeps who defined it.  Init containers are patched as containers are.   *)
(***************************************************************************)
EXTENDS Naturals, Sequences, SequencesExt

CONSTANTS
    Containers,  \* names of the containers and init containers
    UserNames,   \* variables that the pod's author defines
    None         \* no configuration: the pod is not mutated

WebIdentityNames == {"AWS_ROLE_ARN", "AWS_WEB_IDENTITY_TOKEN_FILE"}
CredentialsNames == {"AWS_CONTAINER_CREDENTIALS_FULL_URI", "AWS_CONTAINER_AUTHORIZATION_TOKEN_FILE"}
RegionNames == {"AWS_REGION", "AWS_DEFAULT_REGION"}
STSName == "AWS_STS_REGIONAL_ENDPOINTS"

Names == WebIdentityNames \cup CredentialsNames \cup RegionNames \cup {STSName}

Methods == {"sts_web_identity", "container_credentials"}
Configs == [method : Methods, regionalSTS : BOOLEAN]

ASSUME NameAssumption == UserNames \subseteq Names /\ None \notin Configs

\* Each method projects its token into a volume of its own; that of container
\* credentials is named by a flag (main.go:84), here as it is by default.
VolumeName(method) ==
    IF method = "sts_web_identity" THEN "aws-iam-token" ELSE "eks-pod-identity-token"
Volumes == {VolumeName(m) : m \in Methods}

\* What the skip-containers annotation may name; text that does not parse
\* names none.
ContainersToSkip == SUBSET Containers

VARIABLES
    pod,      \* [volumes, containers], each container [env, mounts]
    skip,     \* containers named by the skip-containers annotation
    region,   \* --aws-default-region is set
    config,   \* what buildPodPatchConfig makes for the pod, or None
    changed   \* what getPodSpecPatch said of its last patch

vars == <<pod, skip, region, config, changed>>

Init ==
    /\ pod \in [volumes : {<<>>},
                containers : [Containers -> [env : {<<>>}, mounts : {<<>>}]]]
    /\ skip \in ContainersToSkip
    /\ region \in BOOLEAN
    /\ config \in Configs \cup {None}
    /\ changed = FALSE

-----------------------------------------------------------------------------
(* The patch of one container.                                             *)

Var(name, by) == [name |-> name, by |-> by]

\* One of the names is defined.
Defines(container, names) == \E i \in DOMAIN container.env : container.env[i].name \in names

CredentialNames(method) ==
    IF method = "sts_web_identity" THEN WebIdentityNames ELSE CredentialsNames

RegionalSTSEnv(container) ==
    IF config.regionalSTS /\ ~Defines(container, {STSName})
    THEN <<Var(STSName, "webhook")>> ELSE <<>>

\* Mutant: only one of the two region variables is looked for.
RegionEnvUnchecked(container) ==
    IF region /\ ~Defines(container, {"AWS_DEFAULT_REGION"})
    THEN <<Var("AWS_DEFAULT_REGION", "webhook"), Var("AWS_REGION", "webhook")>> ELSE <<>>

RegionEnv(container) ==
    IF region /\ ~Defines(container, RegionNames)
    THEN <<Var("AWS_DEFAULT_REGION", "webhook"), Var("AWS_REGION", "webhook")>> ELSE <<>>

\* Mutant: the two methods' variables are swapped.
MethodEnvSwapped(container) ==
    IF Defines(container, CredentialNames(config.method)) THEN <<>>
    ELSE IF config.method = "container_credentials"
    THEN <<Var("AWS_ROLE_ARN", config.method), Var("AWS_WEB_IDENTITY_TOKEN_FILE", config.method)>>
    ELSE <<Var("AWS_CONTAINER_CREDENTIALS_FULL_URI", config.method),
           Var("AWS_CONTAINER_AUTHORIZATION_TOKEN_FILE", config.method)>>

\* Mutant: each of the two variables is looked for on its own.
MethodEnvEach(container) ==
    LET One(name) == IF Defines(container, {name}) THEN <<>> ELSE <<Var(name, config.method)>>
    IN IF config.method = "sts_web_identity"
       THEN One("AWS_ROLE_ARN") \o One("AWS_WEB_IDENTITY_TOKEN_FILE")
       ELSE One("AWS_CONTAINER_CREDENTIALS_FULL_URI")
            \o One("AWS_CONTAINER_AUTHORIZATION_TOKEN_FILE")

MethodEnv(container) ==
    IF Defines(container, CredentialNames(config.method)) THEN <<>>
    ELSE IF config.method = "sts_web_identity"
    THEN <<Var("AWS_ROLE_ARN", config.method), Var("AWS_WEB_IDENTITY_TOKEN_FILE", config.method)>>
    ELSE <<Var("AWS_CONTAINER_CREDENTIALS_FULL_URI", config.method),
           Var("AWS_CONTAINER_AUTHORIZATION_TOKEN_FILE", config.method)>>

\* A container with a variable of every kind is left alone, its mounts too.
HasNecessaryEnv(container) ==
    /\ Defines(container, CredentialNames(config.method))
    /\ Defines(container, RegionNames)
    /\ Defines(container, {STSName})

\* Mutant: a volume that the pod has is taken for one the container mounts.
MountsOfUnmounted(container) ==
    IF VolumeName(config.method) \in ToSet(container.mounts) \cup ToSet(pod.volumes)
    THEN container.mounts
    ELSE Append(container.mounts, VolumeName(config.method))

MountsOf(container) ==
    IF VolumeName(config.method) \in ToSet(container.mounts)
    THEN container.mounts
    ELSE Append(container.mounts, VolumeName(config.method))

\* Mutant: the variables replace those that the container has.
AddEnvToContainerAfresh(container) ==
    IF HasNecessaryEnv(container) THEN container
    ELSE [env |-> RegionalSTSEnv(container) \o RegionEnv(container) \o MethodEnv(container),
          mounts |-> MountsOf(container)]

AddEnvToContainer(container) ==
    IF HasNecessaryEnv(container) THEN container
    ELSE [env |-> container.env \o RegionalSTSEnv(container) \o RegionEnv(container)
                                \o MethodEnv(container),
          mounts |-> MountsOf(container)]

-----------------------------------------------------------------------------
(* The patch of a pod.                                                     *)

\* Mutant: the volume is added to a pod that has it.
VolumesOfAlways(p) == <<VolumeName(config.method)>> \o p.volumes

\* The projected volume goes first, unless the pod has one of its name.
VolumesOf(p) ==
    IF VolumeName(config.method) \in ToSet(p.volumes) THEN p.volumes
    ELSE <<VolumeName(config.method)>> \o p.volumes

\* Mutant: the containers to skip are not looked up.
PatchedUnskipped(p) ==
    [volumes |-> VolumesOf(p),
     containers |-> [k \in Containers |-> AddEnvToContainer(p.containers[k])]]

Patched(p) ==
    [volumes |-> VolumesOf(p),
     containers |-> [k \in Containers |->
         IF k \in skip THEN p.containers[k] ELSE AddEnvToContainer(p.containers[k])]]

\* Mutant: only the containers count.
ReportsChangeOfContainers(p) ==
    \E k \in Containers \ skip : AddEnvToContainer(p.containers[k]) # p.containers[k]

\* The second result of getPodSpecPatch: addEnvToContainer added something
\* to a container, or the volume was added.
ReportsChange(p) ==
    \/ \E k \in Containers \ skip :
          LET c == p.containers[k]
          IN /\ ~HasNecessaryEnv(c)
             /\ \/ RegionalSTSEnv(c) \o RegionEnv(c) \o MethodEnv(c) # <<>>
                \/ VolumeName(config.method) \notin ToSet(c.mounts)
    \/ VolumeName(config.method) \notin ToSet(p.volumes)

MutatePod ==
    /\ config # None
    /\ pod' = Patched(pod)
    /\ changed' = ReportsChange(pod)
    /\ UNCHANGED <<skip, region, config>>

-----------------------------------------------------------------------------
(* Between two admissions (external).                                      *)

\* The ServiceAccount is configured anew.
Configure(c) ==
    /\ config' = c
    /\ UNCHANGED <<pod, skip, region, changed>>

\* The pod's author defines a variable or a volume, or mounts a volume.
DefineVar(k, name) ==
    /\ ~Defines(pod.containers[k], {name})
    /\ pod' = [pod EXCEPT !.containers[k].env = Append(@, Var(name, "user"))]
    /\ UNCHANGED <<skip, region, config, changed>>

DefineVolume(v) ==
    /\ v \notin ToSet(pod.volumes)
    /\ pod' = [pod EXCEPT !.volumes = Append(@, v)]
    /\ UNCHANGED <<skip, region, config, changed>>

MountVolume(k, v) ==
    /\ v \in ToSet(pod.volumes) \ ToSet(pod.containers[k].mounts)
    /\ pod' = [pod EXCEPT !.containers[k].mounts = Append(@, v)]
    /\ UNCHANGED <<skip, region, config, changed>>

-----------------------------------------------------------------------------
Next ==
    \/ MutatePod
    \/ \E c \in Configs \cup {None} : Configure(c)
    \/ \E k \in Containers, name \in UserNames : DefineVar(k, name)
    \/ \E v \in Volumes : DefineVolume(v)
    \/ \E k \in Containers, v \in Volumes : MountVolume(k, v)

Spec == Init /\ [][Next]_vars
=============================================================================
