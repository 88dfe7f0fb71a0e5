--------------------------- MODULE WebhookProofs ---------------------------
(***************************************************************************)
(* Proofs of what a shutdown costs and of what is reported, for any number *)
(* of requests on any routes.                                              *)
(***************************************************************************)
EXTENDS WebhookProperties, TLAPS

\* A server reports once its goroutine is done, and serves only before.
StoppersOK ==
    \A s \in Servers : /\ errCh[s] # None <=> stopper[s] = "done"
                       /\ listener[s] = "serving" => stopper[s] = "waiting"

\* main has received what it went on from.
MainOK ==
    /\ main = "metrics" => errCh["webhook"] # None
    /\ main = "ended" => \A s \in Servers : errCh[s] # None

\* A server that was drained has no request left.
DrainedOK == \A s \in Servers : errCh[s] = "nil" => ~Busy(s)

\* The recorded status is what net/http was given, on a connection that is
\* not gone, and only Logging answers 400.
RequestsOK ==
    \A r \in Requests :
        /\ pc[r] \in {"new", "form", "handle", "draw", "write"} =>
              header[r] = 0 /\ recorded[r] = 200
        /\ pc[r] = "return" =>
              header[r] # 400 /\ (r \in gone \/ (header[r] # 0 /\ recorded[r] = header[r]))
        /\ pc[r] = "done" => answer[r] # 0 \/ r \in gone
        /\ pc[r] # "done" => counted[r] = None

IInv ==
    /\ TypeOK /\ StoppersOK /\ MainOK /\ DrainedOK /\ RequestsOK
    /\ ReportsMatchAnswer

\* The servers stand, and nobody has asked anything.
LEMMA InitInv == Init => IInv
<1> SUFFICES ASSUME Init PROVE IInv
  OBVIOUS
<1> USE RouteAssumption DEF Init
<1>1. TypeOK
  BY DEF TypeOK, Servers, Labels, Statuses
<1>2. StoppersOK /\ MainOK /\ DrainedOK
  BY DEF StoppersOK, MainOK, DrainedOK, Servers
<1>3. RequestsOK
  BY DEF RequestsOK
<1>4. ReportsMatchAnswer
  BY DEF ReportsMatchAnswer
<1> QED
  BY <1>1, <1>2, <1>3, <1>4 DEF IInv

-----------------------------------------------------------------------------
(* The steps of the servers.                                               *)

\* A server's steps leave the requests' own state alone.
LEMMA ServerFrame ==
    ASSUME NEW s \in Servers, IInv, Running,
           ServerStep(s) \/ MainWaits \/ Cancel
    PROVE  /\ UNCHANGED <<pc, route, recorded, header, reportVars>>
           /\ gone \subseteq gone' /\ gone' \subseteq Requests /\ raced' = raced
<1> USE DEF requestVars, reportVars
<1>1. CASE ForceClose(s)
  BY <1>1 DEF ForceClose, IInv, TypeOK
<1>2. CASE Listen(s) \/ ListenFails(s) \/ BeginShutdown(s) \/ Drained(s) \/ MainWaits \/ Cancel
  BY <1>2 DEF Listen, ListenFails, BeginShutdown, Drained, MainWaits, Cancel, IInv, TypeOK
<1> QED
  BY <1>1, <1>2 DEF ServerStep

\* So what is true of the requests stays true.
LEMMA ServerKeepsRequests ==
    ASSUME NEW s \in Servers, IInv, Running,
           ServerStep(s) \/ MainWaits \/ Cancel
    PROVE  RequestsOK' /\ ReportsMatchAnswer'
BY ServerFrame DEF IInv, RequestsOK, ReportsMatchAnswer, reportVars

\* A server's steps keep the types and what the servers know of each other.
LEMMA ServerKeepsInv ==
    ASSUME NEW s \in Servers, IInv, Running,
           ServerStep(s) \/ MainWaits \/ Cancel
    PROVE  IInv'
<1> DEFINE SInv == TypeOK /\ StoppersOK /\ MainOK /\ DrainedOK
<1> SUFFICES SInv'
  BY ServerKeepsRequests DEF IInv
<1>1. \A t \in Servers : Busy(t)' <=> Busy(t)
  BY ServerFrame DEF Busy, InFlight, Server
<1>2. /\ pc' \in [Requests -> Labels] /\ route' \in [Requests -> Routes]
      /\ gone' \subseteq Requests /\ raced' \subseteq Requests
      /\ recorded' \in [Requests -> Statuses]
      /\ header' \in [Requests -> Statuses \cup {0}]
      /\ answer' \in [Requests -> Statuses \cup {0}]
      /\ counted' \in [Requests -> Statuses \cup {None}]
      /\ logged' \in [Requests -> Statuses \cup {None}]
  BY ServerFrame DEF IInv, TypeOK, reportVars
<1> USE RouteAssumption, <1>1, <1>2
    DEF IInv, TypeOK, StoppersOK, MainOK, DrainedOK, Running, Servers
<1>3. CASE Listen(s)
  BY <1>3 DEF Listen
<1>4. CASE ListenFails(s)
  BY <1>4 DEF ListenFails
<1>5. CASE BeginShutdown(s)
  BY <1>5 DEF BeginShutdown
<1>6. CASE Drained(s)
  BY <1>6 DEF Drained
<1>7. CASE ForceClose(s)
  BY <1>7 DEF ForceClose
<1>8. CASE MainWaits
  BY <1>8 DEF MainWaits
<1>9. CASE Cancel
  BY <1>9 DEF Cancel
<1> QED
  BY <1>3, <1>4, <1>5, <1>6, <1>7, <1>8, <1>9 DEF ServerStep

-----------------------------------------------------------------------------
(* The steps of a request.                                                 *)

\* A request steps on a server that is still up for it: it was in flight, or
\* the server serves.
LEMMA RequestFrame ==
    ASSUME NEW r \in Requests, IInv, RequestStep(r)
    PROVE  /\ UNCHANGED <<serverVars, route>>
           /\ InFlight(r) \/ listener[Server(r)] = "serving"
           /\ \A q \in Requests : q # r => pc'[q] = pc[q]
<1> USE DEF IInv, TypeOK, InFlight
<1>1. CASE Accept(r)
  BY <1>1 DEF Accept
<1>2. CASE ParseForm(r)
  BY <1>2 DEF ParseForm
<1>3. CASE Refuse(r)
  BY <1>3 DEF Refuse, Error
<1>4. CASE Review(r) \/ BeginDraw(r) \/ EndDraw(r) \/ DrawPanics(r)
  BY <1>4 DEF Review, BeginDraw, EndDraw, DrawPanics
<1>5. CASE Write(r) \/ WriteFails(r) \/ Return(r) \/ Leave(r)
  BY <1>5 DEF Write, WriteFails, Return, Leave
<1> QED
  BY <1>1, <1>2, <1>3, <1>4, <1>5 DEF RequestStep

\* So the servers' part of the invariant holds on.
LEMMA RequestKeepsServers ==
    ASSUME NEW r \in Requests, IInv, RequestStep(r)
    PROVE  StoppersOK' /\ MainOK' /\ DrainedOK'
<1>1. UNCHANGED <<cancelled, listener, stopper, errCh, main, route>>
  BY RequestFrame DEF serverVars
<1>2. Server(r) \in Servers
  BY DEF Server, Servers
<1>3. errCh[Server(r)] # "nil"
  BY <1>2, RequestFrame, RouteAssumption DEF IInv, DrainedOK, StoppersOK, TypeOK, Busy
<1>4. DrainedOK'
  BY <1>1, <1>3, RequestFrame DEF IInv, DrainedOK, Busy, InFlight, Server
<1> QED
  BY <1>1, <1>4 DEF IInv, StoppersOK, MainOK

\* A request's steps keep the types.
LEMMA RequestKeepsTypes ==
    ASSUME NEW r \in Requests, IInv, RequestStep(r)
    PROVE  TypeOK'
<1> USE DEF IInv, TypeOK, Statuses, Labels, serverVars, reportVars
<1>1. CASE Accept(r)
  BY <1>1 DEF Accept
<1>2. CASE ParseForm(r)
  BY <1>2 DEF ParseForm
<1>3. CASE Refuse(r)
  BY <1>3 DEF Refuse, Error
<1>4. CASE Review(r) \/ BeginDraw(r) \/ EndDraw(r) \/ DrawPanics(r)
  BY <1>4 DEF Review, BeginDraw, EndDraw, DrawPanics, Drawing
<1>5. CASE Write(r) \/ WriteFails(r)
  BY <1>5 DEF Write, WriteFails
<1>6. CASE Return(r)
  BY <1>6 DEF Return
<1>7. CASE Leave(r)
  BY <1>7 DEF Leave
<1> QED
  BY <1>1, <1>2, <1>3, <1>4, <1>5, <1>6, <1>7 DEF RequestStep

\* What is recorded, counted and logged follows the request, step by step.
LEMMA RequestKeepsReports ==
    ASSUME NEW r \in Requests, IInv, RequestStep(r)
    PROVE  RequestsOK' /\ ReportsMatchAnswer'
<1> DEFINE OK(q) ==
      /\ pc[q] \in {"new", "form", "handle", "draw", "write"} =>
            header[q] = 0 /\ recorded[q] = 200
      /\ pc[q] = "return" =>
            header[q] # 400 /\ (q \in gone \/ (header[q] # 0 /\ recorded[q] = header[q]))
      /\ pc[q] = "done" => answer[q] # 0 \/ q \in gone
      /\ pc[q] # "done" => counted[q] = None
      /\ route[q] \in Instrumented /\ pc[q] = "done" /\ answer[q] # 0 =>
            IF answer[q] = 400 THEN counted[q] = None /\ logged[q] = 200
            ELSE counted[q] = answer[q] /\ logged[q] = answer[q]
<1> SUFFICES ASSUME NEW q \in Requests PROVE OK(q)'
  BY DEF RequestsOK, ReportsMatchAnswer
<1>0. OK(q)
  BY DEF IInv, RequestsOK, ReportsMatchAnswer
<1>T. TypeOK
  BY DEF IInv
<1> HIDE DEF OK
<1> USE <1>0, <1>T DEF TypeOK, Statuses, Labels, serverVars, reportVars, OK
<1>1. CASE Accept(r)
  BY <1>1 DEF Accept
<1>2. CASE ParseForm(r)
  BY <1>2 DEF ParseForm
<1>3. CASE Refuse(r)
  BY <1>3 DEF Refuse, Error
<1>4. CASE Review(r)
  BY <1>4 DEF Review
<1>5. CASE BeginDraw(r)
  BY <1>5 DEF BeginDraw
<1>6. CASE EndDraw(r)
  BY <1>6 DEF EndDraw
<1>7. CASE DrawPanics(r)
  BY <1>7 DEF DrawPanics
<1>8. CASE Write(r)
  BY <1>8 DEF Write
<1>9. CASE WriteFails(r)
  BY <1>9 DEF WriteFails
<1>10. CASE Return(r)
  BY <1>10 DEF Return
<1>11. CASE Leave(r)
  BY <1>11 DEF Leave, InFlight
<1> QED
  BY <1>1, <1>2, <1>3, <1>4, <1>5, <1>6, <1>7, <1>8, <1>9, <1>10, <1>11 DEF RequestStep

\* Together: a request's steps keep the invariant.
LEMMA RequestKeepsInv ==
    ASSUME NEW r \in Requests, IInv, RequestStep(r)
    PROVE  IInv'
BY RequestKeepsServers, RequestKeepsTypes, RequestKeepsReports DEF IInv

-----------------------------------------------------------------------------
\* Every step keeps the invariant.
LEMMA StepInv == IInv /\ [Next]_vars => IInv'
<1> SUFFICES ASSUME IInv, [Next]_vars PROVE IInv'
  OBVIOUS
<1>1. CASE UNCHANGED vars
  BY <1>1 DEF IInv, TypeOK, StoppersOK, MainOK, DrainedOK, RequestsOK,
              ReportsMatchAnswer, Busy, InFlight, Server, vars, serverVars, reportVars
<1>2. CASE Next
  <2>1. "webhook" \in Servers
    BY DEF Servers
  <2> QED
    BY <1>2, <2>1, ServerKeepsInv, RequestKeepsInv DEF Next
<1> QED
  BY <1>1, <1>2

\* The invariant holds throughout.
LEMMA Invariant == Spec => []IInv
BY InitInv, StepInv, PTL DEF Spec

\* Every variable of the webhook process keeps its type.
THEOREM TypeCorrect == Spec => []TypeOK
<1>1. IInv => TypeOK
  BY DEF IInv
<1> QED
  BY <1>1, Invariant, PTL

\* A server that reports a graceful shutdown has cut off no request.
THEOREM GracefulShutdown == Spec => []GracefulMeansAnswered
<1>1. IInv => GracefulMeansAnswered
  BY DEF IInv, TypeOK, DrainedOK, RequestsOK, GracefulMeansAnswered, Busy, InFlight
<1> QED
  BY <1>1, Invariant, PTL

\* main returns only when both servers are down.
THEOREM BothServersEnd == Spec => []MainWaitsForBoth
<1>1. IInv => MainWaitsForBoth
  <2> SUFFICES ASSUME IInv, main = "ended" PROVE MainWaitsForBoth
    BY DEF MainWaitsForBoth
  <2>1. \A s \in Servers : errCh[s] \in {"nil", "forced"}
    BY DEF IInv, TypeOK, MainOK
  <2>2. \A r \in Requests : Server(r) \in Servers
    BY DEF Server, Servers
  <2> QED
    BY <2>1, <2>2, RouteAssumption DEF IInv, DrainedOK, MainWaitsForBoth, Busy
<1> QED
  BY <1>1, Invariant, PTL

\* Metrics and log agree with what the client got.
THEOREM ReportsAreTrue == Spec => []ReportsMatchAnswer
<1>1. IInv => ReportsMatchAnswer
  BY DEF IInv
<1> QED
  BY <1>1, Invariant, PTL

\* A server that was told to stop accepts nothing.
THEOREM StoppedServersAcceptNothing == Spec => StoppedAcceptsNothing
<1> DEFINE A == \A r \in Requests :
                   pc[r] = "new" /\ pc'[r] # "new" => stopper[Server(r)] = "waiting"
<1>1. IInv /\ [Next]_vars => [A]_vars
  <2> SUFFICES ASSUME IInv, Next, NEW r \in Requests, pc[r] = "new", pc'[r] # "new"
               PROVE  stopper[Server(r)] = "waiting"
    OBVIOUS
  <2>1. Server(r) \in Servers
    BY DEF Server, Servers
  <2>2. PICK q \in Requests : RequestStep(q)
    BY ServerFrame DEF Next, Servers
  <2>3. q = r
    BY <2>2, RequestFrame
  <2> QED
    BY <2>1, <2>2, <2>3, RequestFrame DEF IInv, StoppersOK, InFlight
<1> QED
  BY <1>1, Invariant, PTL DEF Spec, StoppedAcceptsNothing

-----------------------------------------------------------------------------
(* What the end of the process needs besides fairness.                     *)

\* A distance is a number, and 0 only at the end.
LEMMA DistanceFacts ==
    /\ Distance \in Nat /\ (Running => Distance > 0)
    /\ \A s \in Servers : Left(s) \in 0..2
BY DEF Distance, Left

\* A shutdown that is not over can be continued, and each of its steps is one
\* less to come.
LEMMA ShutdownStepAdvances ==
    ASSUME IInv, Running, ShutdownStep
    PROVE  Distance' < Distance /\ cancelled' = cancelled
<1> USE DEF IInv, TypeOK, Servers
<1>1. CASE MainWaits
  <2>1. CASE main = "webhook"
    <3>1. main' = "metrics" /\ UNCHANGED <<stopper, cancelled>>
      BY <1>1, <2>1 DEF MainWaits
    <3> QED
      BY <2>1, <3>1 DEF Distance, Left, Running
  <2>2. CASE main = "metrics"
    <3>1. main' = "ended" /\ UNCHANGED <<stopper, cancelled>>
      BY <1>1, <2>2 DEF MainWaits
    <3> QED
      BY <2>2, <3>1 DEF Distance, Left, Running
  <2> QED
    BY <2>1, <2>2 DEF Running
<1>2. ASSUME NEW s \in Servers, BeginShutdown(s) \/ Drained(s) \/ ForceClose(s)
      PROVE  Distance' < Distance /\ cancelled' = cancelled
  <2>1. /\ \/ stopper[s] = "waiting" /\ stopper' = [stopper EXCEPT ![s] = "draining"]
           \/ stopper[s] = "draining" /\ stopper' = [stopper EXCEPT ![s] = "done"]
        /\ UNCHANGED <<main, cancelled>>
    BY <1>2 DEF BeginShutdown, Drained, ForceClose
  <2>2. Left(s)' = Left(s) - 1 /\ \A t \in Servers \ {s} : Left(t)' = Left(t)
    BY <2>1 DEF Left
  <2>3. s = "webhook" => main = "webhook"
    BY <2>1 DEF MainOK, StoppersOK, Running
  <2>4. CASE main = "webhook"
    BY <2>1, <2>2, <2>4, DistanceFacts DEF Distance, Running
  <2>5. CASE main = "metrics"
    BY <2>1, <2>2, <2>3, <2>5, DistanceFacts DEF Distance, Running
  <2> QED
    BY <2>4, <2>5 DEF Running
<1> QED
  BY <1>1, <1>2 DEF ShutdownStep

\* No other step of a server or a request takes it further away.
LEMMA OthersDoNotDelay ==
    ASSUME IInv, Next, ~ShutdownStep
    PROVE  Distance' <= Distance /\ (cancelled => cancelled')
<1>1. CASE main' = "fatal" /\ cancelled' = cancelled
  <2>1. Distance' = 0
    BY <1>1 DEF Distance, Running, Servers
  <2> QED
    BY <1>1, <2>1, DistanceFacts
<1>2. CASE UNCHANGED <<main, stopper>> /\ (cancelled => cancelled')
  <2>1. Distance' = Distance
    BY <1>2 DEF Distance, Left, Running
  <2> QED
    BY <1>2, <2>1, DistanceFacts
<1>3. ASSUME NEW s \in Servers, Listen(s) \/ ListenFails(s)
      PROVE  \/ main' = "fatal" /\ cancelled' = cancelled
             \/ UNCHANGED <<main, stopper>> /\ (cancelled => cancelled')
  BY <1>3 DEF Listen, ListenFails
<1>4. ASSUME NEW r \in Requests, RequestStep(r)
      PROVE  UNCHANGED <<main, stopper>> /\ (cancelled => cancelled')
  BY <1>4, RequestFrame DEF serverVars
<1>5. Cancel => UNCHANGED <<main, stopper>> /\ (cancelled => cancelled')
  BY DEF Cancel
<1> QED
  BY <1>1, <1>2, <1>3, <1>4, <1>5 DEF Next, ServerStep, ShutdownStep

\* After a signal the process is at most six steps of shutdown from its end,
\* and nothing that handlers, clients or late servers do makes them more.
THEOREM ShutdownsAdvance == Spec => ShutdownAdvances
<1> DEFINE A == /\ Distance' <= Distance
                /\ ShutdownStep => Distance' < Distance
                /\ cancelled => cancelled' /\ (Running' => CanAdvance')
<1>1. IInv /\ [Next]_vars => [A]_vars
  <2> SUFFICES ASSUME IInv, Next PROVE A
    OBVIOUS
  <2>0. ASSUME Running', cancelled' PROVE CanAdvance'
    <3>1. TypeOK'
      BY StepInv DEF IInv
    <3> QED
      BY <2>0, <3>1 DEF TypeOK, Running, CanAdvance
  <2>1. CASE ShutdownStep
    <3>1. Running
      BY DEF Next
    <3>2. Distance' < Distance /\ cancelled' = cancelled
      BY <2>1, <3>1, ShutdownStepAdvances
    <3>3. Distance \in Nat /\ Distance' \in Nat
      BY DistanceFacts DEF Distance, Left
    <3> QED
      BY <2>0, <3>2, <3>3
  <2>2. CASE ~ShutdownStep
    BY <2>0, <2>2, OthersDoNotDelay
  <2> QED
    BY <2>1, <2>2
<1> QED
  BY <1>1, Invariant, PTL DEF Spec, ShutdownAdvances
=============================================================================
