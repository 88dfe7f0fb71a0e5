------------------------- MODULE SACacheRefinement -------------------------
(***************************************************************************)
(* SACache implements Notification.  A request is registered once create   *)
(* gave it a channel; it is woken once that channel is closed or is about  *)
(* to be by the writer that has just stored the entry: the write of setSA  *)
(* and its broadcast are one step to everybody who must take mu to look.   *)
(***************************************************************************)
EXTENDS SACacheInvariant

waitsForBar == [r \in Requests |-> IF notifier[r] = None THEN None ELSE key[r]]
wokenBar == {r \in Requests :
                /\ notifier[r] # None
                /\ notifier[r] \in closed \/ Populating(key[r])}

Abstract == INSTANCE Notification WITH
                cached <- {k \in Keys : saCache[k] # 0},
                waitsFor <- waitsForBar,
                woken <- wokenBar

\* The cache never wakes a request whose ServiceAccount was not stored, never
\* registers one whose ServiceAccount is there, and never leaves one asleep
\* through a store: every step of setSA, popSA, Clear, create and broadcast is
\* a step of Notification.
ImplementsNotification == Abstract!Spec
=============================================================================
