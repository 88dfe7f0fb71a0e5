------------------------- MODULE CertStoreProperties -------------------------
(***************************************************************************)
(* What the store keeps of the certificates that the replicas serve.       *)
(***************************************************************************)
EXTENDS CertStore

\* Every variable has its type.
TypeOK ==
    /\ secret \in Contents /\ author \in Replicas \cup {None}
    /\ fresh \subseteq Replicas
    /\ pc \in [Replicas -> {"start", "idle", "get", "create", "update", "dead"}]
    /\ pair \in [Replicas -> Pairs \cup {None}]
    /\ served \in [Replicas -> Loadable \cup {None}]
    /\ stored \subseteq Contents

\* A replica serves no certificate that the Secret has not held, so that a
\* restart does not lose the only copy: a write that fails changes nothing.
ServedWasStored == \A r \in Replicas : served[r] # None => served[r] \in stored

\* Two replicas that store their pairs at once, with calls that fail or whose
\* answers are lost, never overwrite what they have not read, not even where
\* an error of Get makes Update create the Secret (store.go:83-99).
Register == INSTANCE SecretRegister WITH value <- secret, known <- fresh
ImplementsRegister == Register!Spec

\* A replica ends at its start only when the Secret holds a pair that does
\* not load, which Update may have written; an API server that does not
\* answer does not end it.
DiesOnlyOfBadPair ==
    [][\A r \in Replicas :
          pc[r] # "dead" /\ pc'[r] = "dead" => secret \in Pairs \ Loadable]_vars

\* Once nobody else writes the Secret, a replica that keeps running comes to
\* serve a certificate, be the Secret there or not, complete or not, and
\* whatever calls were lost, unless it died; and it dies only where the Secret
\* has held a pair that does not load.
EveryReplicaServes ==
    \A r \in Replicas :
        <>[][/\ author' = None => secret' = secret
             /\ pc'[r] = "start" => pc[r] = "start"]_vars
            => <>[]( \/ served[r] # None
                     \/ pc[r] = "dead" /\ stored \cap (Pairs \ Loadable) # {})
=============================================================================
