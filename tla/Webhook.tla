------------------------------ MODULE Webhook ------------------------------
(***************************************************************************)
(* The process around the caches: the two HTTP servers that main starts    *)
(* and waits for (main.go), ShutdownFromContext (pkg/handler/shutdown.go), *)
(* and the way of a request through the middleware                         *)
(* (pkg/handler/middleware.go), Handle and MutatePod                       *)
(* (pkg/handler/handler.go) or a debug handler (pkg/cache/debug).          *)
(*                                                                         *)
(* net/http is external: it accepts while it serves, runs one goroutine    *)
(* per request and recovers its panics; Shutdown stops accepting and waits *)
(* for the handlers, Close cuts their connections; ListenAndServe looks    *)
(* for a Shutdown before it listens and again before it serves.  What the  *)
(* lookup of a pod finds is left open here (see SACache).                  *)
(***************************************************************************)
EXTENDS Naturals

CONSTANTS
    Requests,   \* requests that come, each on a connection of its own
    Routes,     \* the paths they name, at most AllRoutes
    None        \* nothing counted, logged or reported

Instrumented == {"/mutate", "/debug/alpha/deny", "/debug/alpha/500"}
OfMetricsServer == {"/metrics", "/debug/alpha/cache", "/debug/alpha/cache/clear"}
AllRoutes == Instrumented \cup OfMetricsServer \cup {"/healthz"}
Statuses == {200, 400, 415, 500}

ASSUME RouteAssumption ==
    Routes \subseteq AllRoutes /\ None \notin Statuses /\ None \notin {"nil", "forced"}

Servers == {"webhook", "metrics"}
Labels == {"new", "form", "handle", "draw", "write", "return", "done"}

VARIABLES
    cancelled,  \* the signal context is done
    listener,   \* ListenAndServe of each server
    stopper,    \* the goroutine of ShutdownFromContext of each server
    errCh,      \* what it sent: "nil", "forced", or at first None
    main,       \* the server that main waits for, "ended", or "fatal"
    pc, route,  \* of each request
    gone,       \* connections that were cut or that the client has left
    raced,      \* requests whose draw overlapped with another (history)
    recorded,   \* status in the two statusLoggingResponseWriters
    header,     \* status that net/http was given, 0 before
    answer,     \* status that the client got, 0 for none
    counted,    \* status under which InstrumentRoute counted the request
    logged      \* status that Logging logged

serverVars == <<cancelled, listener, stopper, errCh, main>>
reportVars == <<answer, counted, logged>>
vars == <<serverVars, pc, route, gone, raced, recorded, header, reportVars>>

Server(r) == IF route[r] \in OfMetricsServer THEN "metrics" ELSE "webhook"
InFlight(r) == pc[r] \notin {"new", "done"}
Busy(s) == \E r \in Requests : Server(r) = s /\ InFlight(r)

Init ==
    /\ cancelled \in BOOLEAN
    /\ listener = [s \in Servers |-> "new"]
    /\ stopper = [s \in Servers |-> "waiting"]
    /\ errCh = [s \in Servers |-> None]
    /\ main = "webhook"
    /\ pc = [r \in Requests |-> "new"]
    /\ route \in [Requests -> Routes]
    /\ gone = {} /\ raced = {}
    /\ recorded = [r \in Requests |-> 200]
    /\ header = [r \in Requests |-> 0]
    /\ answer = [r \in Requests |-> 0]
    /\ counted = [r \in Requests |-> None]
    /\ logged = [r \in Requests |-> None]

-----------------------------------------------------------------------------
(* The servers.                                                            *)

requestVars == <<pc, route, gone, raced, recorded, header, reportVars>>

Cancel ==
    /\ ~cancelled /\ cancelled' = TRUE
    /\ UNCHANGED <<listener, stopper, errCh, main, requestVars>>

\* Mutant: serving does not look for a Shutdown.
ListenOnce(s) ==
    /\ listener[s] \in {"new", "open"}
    /\ listener' = [listener EXCEPT ![s] = IF @ = "open" THEN "serving"
                                           ELSE IF stopper[s] # "waiting" THEN "closed" ELSE "open"]
    /\ UNCHANGED <<cancelled, stopper, errCh, main, requestVars>>

\* ListenAndServe goes from "new" over "open", when the port is bound, to
\* "serving", or returns ErrServerClosed, at which the goroutine ends.
Listen(s) ==
    /\ listener[s] \in {"new", "open"}
    /\ listener' = [listener EXCEPT ![s] = IF stopper[s] # "waiting" THEN "closed"
                                           ELSE IF @ = "new" THEN "open" ELSE "serving"]
    /\ UNCHANGED <<cancelled, stopper, errCh, main, requestVars>>

\* The port is taken or accepting breaks: any other error is fatal.
ListenFails(s) ==
    /\ \/ listener[s] \in {"new", "open"}
       \/ listener[s] = "serving" /\ stopper[s] = "waiting"
    /\ main' = "fatal"
    /\ UNCHANGED <<cancelled, listener, stopper, errCh, requestVars>>

\* Shutdown closes the listener and begins to wait.
BeginShutdown(s) ==
    /\ stopper[s] = "waiting" /\ cancelled
    /\ stopper' = [stopper EXCEPT ![s] = "draining"]
    /\ listener' = [listener EXCEPT ![s] = IF @ = "serving" THEN "closed" ELSE @]
    /\ UNCHANGED <<cancelled, errCh, main, requestVars>>

\* Shutdown returns nil once no handler runs.
Drained(s) ==
    /\ stopper[s] = "draining" /\ ~Busy(s)
    /\ stopper' = [stopper EXCEPT ![s] = "done"]
    /\ errCh' = [errCh EXCEPT ![s] = "nil"]
    /\ UNCHANGED <<cancelled, listener, main, requestVars>>

\* Mutant: a forced close that succeeds is reported as a success.
ForceCloseSilently(s) ==
    /\ stopper[s] = "draining"
    /\ gone' = gone \cup {r \in Requests : Server(r) = s /\ InFlight(r)}
    /\ stopper' = [stopper EXCEPT ![s] = "done"]
    /\ errCh' = [errCh EXCEPT ![s] = "nil"]
    /\ UNCHANGED <<cancelled, listener, main, pc, route, raced, recorded,
                   header, reportVars>>

\* Mutant: after a forced close doneCh stays open.
ForceCloseStuck(s) ==
    /\ stopper[s] = "draining"
    /\ gone' = gone \cup {r \in Requests : Server(r) = s /\ InFlight(r)}
    /\ stopper' = [stopper EXCEPT ![s] = "stuck"]
    /\ errCh' = [errCh EXCEPT ![s] = "forced"]
    /\ UNCHANGED <<cancelled, listener, main, pc, route, raced, recorded,
                   header, reportVars>>

\* Shutdown times out, or closing the listener fails: Close cuts what is
\* left, and errCh gets an error whether or not Close fails.
ForceClose(s) ==
    /\ stopper[s] = "draining"
    /\ gone' = gone \cup {r \in Requests : Server(r) = s /\ InFlight(r)}
    /\ stopper' = [stopper EXCEPT ![s] = "done"]
    /\ errCh' = [errCh EXCEPT ![s] = "forced"]
    /\ UNCHANGED <<cancelled, listener, main, pc, route, raced, recorded,
                   header, reportVars>>

\* Mutant: main returns when the webhook server is done.
MainWaitsForWebhook ==
    /\ stopper[main] = "done"
    /\ main' = "ended"
    /\ UNCHANGED <<cancelled, listener, stopper, errCh, requestVars>>

\* main receives from doneCh, closed last, and errCh, buffered: first those
\* of the webhook server, then those of the metrics server.
MainWaits ==
    /\ stopper[main] = "done"
    /\ main' = IF main = "webhook" THEN "metrics" ELSE "ended"
    /\ UNCHANGED <<cancelled, listener, stopper, errCh, requestVars>>

-----------------------------------------------------------------------------
(* A request.                                                              *)

\* The routes of the metrics server and /healthz have no middleware.
Accept(r) ==
    /\ pc[r] = "new" /\ listener[Server(r)] = "serving"
    /\ pc' = [pc EXCEPT ![r] = IF route[r] \in Instrumented THEN "form" ELSE "write"]
    /\ UNCHANGED <<serverVars, route, gone, raced, recorded, header, reportVars>>

\* Logging parses the form.  A bad one it answers itself, past both writers,
\* and InstrumentRoute, further in, is not called.
ParseForm(r) ==
    /\ pc[r] = "form"
    /\ \/ pc' = [pc EXCEPT ![r] = "handle"] /\ UNCHANGED <<header, answer, logged>>
       \/ /\ pc' = [pc EXCEPT ![r] = "done"]
          /\ header' = [header EXCEPT ![r] = 400]
          /\ answer' = [answer EXCEPT ![r] = IF r \in gone THEN 0 ELSE 400]
          /\ logged' = [logged EXCEPT ![r] = recorded[r]]
    /\ UNCHANGED <<serverVars, route, gone, raced, recorded, counted>>

\* http.Error on the wrapped writer, before anything is written.
Error(r, status) ==
    /\ recorded' = [recorded EXCEPT ![r] = status]
    /\ header' = [header EXCEPT ![r] = status]
    /\ pc' = [pc EXCEPT ![r] = "return"]
    /\ UNCHANGED <<serverVars, route, gone, raced, reportVars>>

\* Handle refuses another content type; InternalServerError always answers so.
Refuse(r) ==
    /\ pc[r] = "handle"
    /\ \/ route[r] = "/mutate" /\ Error(r, 415)
       \/ route[r] = "/debug/alpha/500" /\ Error(r, 500)

\* Deny, or Handle with an answer that needs no draw: a body that does not
\* decode, a malformed pod, a pod that is not mutated or by web identity.
Review(r) ==
    /\ pc[r] = "handle" /\ route[r] \in {"/mutate", "/debug/alpha/deny"}
    /\ pc' = [pc EXCEPT ![r] = "write"]
    /\ UNCHANGED <<serverVars, route, gone, raced, recorded, header, reportVars>>

Drawing == {r \in Requests : pc[r] = "draw"}

\* Container credentials with the default expiration: all requests draw from
\* one rand.Rand, without a lock.
BeginDraw(r) ==
    /\ pc[r] = "handle" /\ route[r] = "/mutate"
    /\ pc' = [pc EXCEPT ![r] = "draw"]
    /\ raced' = IF Drawing = {} THEN raced ELSE raced \cup Drawing \cup {r}
    /\ UNCHANGED <<serverVars, route, gone, recorded, header, reportVars>>

EndDraw(r) ==
    /\ pc[r] = "draw"
    /\ pc' = [pc EXCEPT ![r] = "write"]
    /\ UNCHANGED <<serverVars, route, gone, raced, recorded, header, reportVars>>

\* Two draws at once can take an index of the generator below zero: the
\* handler panics, the deferred reports run, net/http cuts the connection.
DrawPanics(r) ==
    /\ pc[r] = "draw" /\ r \in raced
    /\ gone' = gone \cup {r}
    /\ pc' = [pc EXCEPT ![r] = "return"]
    /\ UNCHANGED <<serverVars, route, raced, recorded, header, reportVars>>

\* The response is written, with status 200, into net/http's buffer ...
Write(r) ==
    /\ pc[r] = "write"
    /\ header' = [header EXCEPT ![r] = 200]
    /\ pc' = [pc EXCEPT ![r] = "return"]
    /\ UNCHANGED <<serverVars, route, gone, raced, recorded, reportVars>>

\* ... or past it onto a connection that is gone: the http.Error that follows
\* comes too late for the client and is recorded.
WriteFails(r) ==
    /\ pc[r] = "write" /\ r \in gone
    /\ header' = [header EXCEPT ![r] = 200]
    /\ recorded' = [recorded EXCEPT ![r] = 500]
    /\ pc' = [pc EXCEPT ![r] = "return"]
    /\ UNCHANGED <<serverVars, route, gone, raced, reportVars>>

\* Mutant: InstrumentRoute wraps no writer.
ReturnUnwrapped(r) ==
    /\ pc[r] = "return"
    /\ pc' = [pc EXCEPT ![r] = "done"]
    /\ answer' = [answer EXCEPT ![r] = IF r \in gone THEN 0 ELSE header[r]]
    /\ counted' = [counted EXCEPT ![r] = IF route[r] \in Instrumented THEN 200 ELSE None]
    /\ logged' = [logged EXCEPT ![r] = IF route[r] \in Instrumented THEN recorded[r] ELSE None]
    /\ UNCHANGED <<serverVars, route, gone, raced, recorded, header>>

\* The deferred monitor of InstrumentRoute, that of Logging, and the end of
\* the response.
Return(r) ==
    /\ pc[r] = "return"
    /\ pc' = [pc EXCEPT ![r] = "done"]
    /\ answer' = [answer EXCEPT ![r] = IF r \in gone THEN 0 ELSE header[r]]
    /\ IF route[r] \in Instrumented
       THEN /\ counted' = [counted EXCEPT ![r] = recorded[r]]
            /\ logged' = [logged EXCEPT ![r] = recorded[r]]
       ELSE UNCHANGED <<counted, logged>>
    /\ UNCHANGED <<serverVars, route, gone, raced, recorded, header>>

\* The client gives up (external): the API server has a timeout of its own.
Leave(r) ==
    /\ InFlight(r)
    /\ gone' = gone \cup {r}
    /\ UNCHANGED <<serverVars, pc, route, raced, recorded, header, reportVars>>

-----------------------------------------------------------------------------
ServerStep(s) == Listen(s) \/ ListenFails(s) \/ BeginShutdown(s) \/ Drained(s) \/ ForceClose(s)

RequestStep(r) ==
    \/ Accept(r) \/ ParseForm(r) \/ Refuse(r) \/ Review(r)
    \/ BeginDraw(r) \/ EndDraw(r) \/ DrawPanics(r)
    \/ Write(r) \/ WriteFails(r) \/ Return(r) \/ Leave(r)

\* Nothing runs once main has returned or a goroutine has exited the process.
Running == main \in Servers

Next ==
    /\ Running
    /\ \/ Cancel \/ MainWaits
       \/ \E s \in Servers : ServerStep(s)
       \/ \E r \in Requests : RequestStep(r)

Spec == Init /\ [][Next]_vars

\* Shutdown ends because its context has a timeout.  Handlers need not end.
Fairness ==
    /\ WF_vars(Running /\ MainWaits)
    /\ \A s \in Servers : /\ WF_vars(Running /\ BeginShutdown(s))
                          /\ WF_vars(Running /\ (Drained(s) \/ ForceClose(s)))

FairSpec == Spec /\ Fairness
=============================================================================
