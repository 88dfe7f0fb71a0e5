-------------------------- MODULE WebhookProperties --------------------------
(***************************************************************************)
(* What a shutdown may cost, and what the reports say of the requests.     *)
(***************************************************************************)
EXTENDS Webhook

\* Every variable has its type.
TypeOK ==
    /\ cancelled \in BOOLEAN
    /\ listener \in [Servers -> {"new", "open", "serving", "closed"}]
    /\ stopper \in [Servers -> {"waiting", "draining", "done"}]
    /\ errCh \in [Servers -> {"nil", "forced", None}]
    /\ main \in Servers \cup {"ended", "fatal"}
    /\ pc \in [Requests -> Labels]
    /\ route \in [Requests -> Routes]
    /\ gone \subseteq Requests /\ raced \subseteq Requests
    /\ recorded \in [Requests -> Statuses]
    /\ header \in [Requests -> Statuses \cup {0}]
    /\ answer \in [Requests -> Statuses \cup {0}]
    /\ counted \in [Requests -> Statuses \cup {None}]
    /\ logged \in [Requests -> Statuses \cup {None}]

\* shutdown.go:38 ("nil on success"): when a server reports a graceful
\* shutdown, each request it accepted was handled to its end, and answered
\* unless its client had left or its handler panicked: nothing was cut off.
GracefulMeansAnswered ==
    \A s \in Servers : errCh[s] = "nil" =>
        \A r \in Requests : Server(r) = s /\ pc[r] # "new" =>
            pc[r] = "done" /\ (answer[r] # 0 \/ r \in gone)

\* main returns only when both servers are down: a request that is still
\* handled then is one of a server that was closed by force.
MainWaitsForBoth ==
    main = "ended" =>
        /\ \A s \in Servers : errCh[s] # None
        /\ \A r \in Requests : InFlight(r) => errCh[Server(r)] = "forced"

\* A server that was told to stop, be it before it started, accepts nothing.
StoppedAcceptsNothing ==
    [][\A r \in Requests :
          pc[r] = "new" /\ pc'[r] # "new" => stopper[Server(r)] = "waiting"]_vars

\* An answer of the instrumented routes is counted once it is given, under
\* the status that the client got, and logged with that status, except for a
\* bad form: that is not counted and logged as 200.
ReportsMatchAnswer ==
    \A r \in Requests : route[r] \in Instrumented /\ pc[r] = "done" /\ answer[r] # 0 =>
        IF answer[r] = 400 THEN counted[r] = None /\ logged[r] = 200
        ELSE counted[r] = answer[r] /\ logged[r] = answer[r]

\* After a signal the process ends, however long its handlers take.
SignalEndsProcess == cancelled ~> ~Running

\* Steps of a shutdown that are left until main returns.
Left(s) == IF stopper[s] = "waiting" THEN 2 ELSE IF stopper[s] = "draining" THEN 1 ELSE 0
Distance ==
    IF ~Running THEN 0
    ELSE IF main = "webhook" THEN 2 + Left("webhook") + Left("metrics")
    ELSE 1 + Left("metrics")

\* The guards of those steps at the server that main waits for.
CanAdvance ==
    \/ stopper[main] = "waiting" /\ cancelled  \* BeginShutdown
    \/ stopper[main] = "draining"               \* ForceClose
    \/ stopper[main] = "done"                   \* MainWaits

\* The steps that the timeouts of the shutdowns ensure.
ShutdownStep == MainWaits \/ \E s \in Servers : BeginShutdown(s) \/ Drained(s) \/ ForceClose(s)

\* Each brings the end nearer, and no other step, of a client, of a handler or
\* of a server that starts late, takes it away or takes the signal back; with
\* the signal given, the guard of one of them holds at the server that main
\* waits for, after every step that does not end the process.
ShutdownAdvances ==
    [][/\ Distance' <= Distance
       /\ ShutdownStep => Distance' < Distance
       /\ cancelled => cancelled' /\ (Running' => CanAdvance')]_vars
=============================================================================
