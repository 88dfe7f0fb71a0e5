------------------------ MODULE PodMutationProperties ------------------------
(***************************************************************************)
(* What a patch does to a pod, whatever the pod went through before.       *)
(***************************************************************************)
EXTENDS PodMutation

\* Who may define a variable: the method that it belongs to, or the user.
Definers(name) ==
    IF name \in WebIdentityNames THEN {"user", "sts_web_identity"}
    ELSE IF name \in CredentialsNames THEN {"user", "container_credentials"}
    ELSE {"user", "webhook"}

\* Every variable has its type.
TypeOK ==
    /\ \A k \in Containers : LET c == pod.containers[k] IN
          /\ \A i \in DOMAIN c.env : /\ c.env[i].name \in Names
                                     /\ c.env[i].by \in Definers(c.env[i].name)
          /\ ToSet(c.mounts) \subseteq Volumes
    /\ ToSet(pod.volumes) \subseteq Volumes
    /\ skip \subseteq Containers /\ region \in BOOLEAN /\ changed \in BOOLEAN
    /\ config \in Configs \cup {None}

\* No container mounts a volume twice and no pod gets a volume twice, which the
\* API server would refuse; and no container gets a variable twice, where the
\* webhook's would hide the one that its author defined.
NothingIsAddedTwice ==
    /\ IsInjective(pod.volumes)
    /\ \A k \in Containers : LET c == pod.containers[k] IN
          /\ IsInjective(c.mounts)
          /\ IsInjective([i \in DOMAIN c.env |-> c.env[i].name])

\* A method defines its two variables together or none of them.
WholePair(env, m) ==
    (\E i \in DOMAIN env : env[i].by = m) =>
        \A name \in CredentialNames(m) : Var(name, m) \in ToSet(env)

\* A container with a variable of a method's making has the other one of the
\* pair from the same hand, never half of it beside the author's; it mounts the
\* volume of that token, and the pod has the volume, also when the
\* configuration changed between two admissions.
TokenIsMounted ==
    \A k \in Containers, m \in Methods : LET c == pod.containers[k] IN
        /\ WholePair(c.env, m)
        /\ (\E i \in DOMAIN c.env : c.env[i].by = m) =>
              VolumeName(m) \in ToSet(c.mounts) \cap ToSet(pod.volumes)

\* A pod that was mutated is left as it is by the same configuration, and the
\* log does not call it mutated.
PatchIsStable ==
    config # None =>
        /\ Patched(Patched(pod)) = Patched(pod)
        /\ ~ReportsChange(Patched(pod))

\* The log says that a pod was mutated exactly when the patch changes it.
ReportIsTrue ==
    config # None => (ReportsChange(pod) <=> Patched(pod) # pod)

\* A patch only adds: what the author of the pod defined stays, variables and
\* mounts in their place (a variable may refer only to those before it), and a
\* container that the author excluded gets neither variables nor mounts from it.
AuthorIsKept ==
    [][/\ \A k \in Containers : LET c == pod.containers[k]
                                    n == pod'.containers[k] IN
             /\ IsPrefix(c.env, n.env) /\ IsPrefix(c.mounts, n.mounts)
             /\ MutatePod /\ k \in skip => n = c
       /\ ToSet(pod.volumes) \subseteq ToSet(pod'.volumes)]_pod
=============================================================================
