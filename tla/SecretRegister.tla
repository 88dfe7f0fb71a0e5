--------------------------- MODULE SecretRegister ---------------------------
(***************************************************************************)
(* What the Secret is to the replicas, whatever becomes of their calls: a  *)
(* register that a replica overwrites only when it has read what is there. *)
(***************************************************************************)
CONSTANTS Replicas, Contents, None

VARIABLES
    value,   \* what the register holds, None for nothing
    author,  \* the replica that wrote it, None for anybody else
    known    \* replicas that have read the present value

vars == <<value, author, known>>

Init == value \in Contents /\ author = None /\ known = {}

Read(r) ==
    /\ value # None
    /\ known' = known \cup {r}
    /\ UNCHANGED <<value, author>>

Forget(r) == known' = known \ {r} /\ UNCHANGED <<value, author>>

Put(r, v) ==
    /\ value = None \/ r \in known
    /\ value' = v /\ author' = r
    /\ known' = {}

\* Somebody who is not bound by this.
Edit(v) == value' = v /\ author' = None /\ known' = {}

Next ==
    \/ \E r \in Replicas : Read(r) \/ Forget(r) \/ \E v \in Contents : Put(r, v)
    \/ \E v \in Contents : Edit(v)

Spec == Init /\ [][Next]_vars
=============================================================================
