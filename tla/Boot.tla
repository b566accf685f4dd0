-------------------------------- MODULE Boot --------------------------------
(***************************************************************************)
(* One replica from its start to its end: main, which logs in to Telegram  *)
(* and then assembles the service, the API server that answers calls all   *)
(* the while, TDLib's authorizer, and Kubernetes, which starts the process *)
(* again.  Every request of main may fail, and every failure is a panic.   *)
(***************************************************************************)
EXTENDS Naturals

CONSTANTS
  Operators,  \* gRPC clients who type the login code
  Clients,    \* gRPC clients that ask for anything else
  Consuming,  \* whether this replica consumes the queues
  MaxFaults   \* bound: wrong codes, failed requests, ends of the process

ASSUME FaultsAreCounted == MaxFaults \in Nat /\ Consuming \in BOOLEAN

VARIABLES
  main,      \* where main is
  svc,       \* the controller's service: an interface value of two words
  stor,      \* whether the storage is open
  auth,      \* TDLib's authorizer
  session,   \* whether TDLib has a session from before
  call,      \* each client's call
  asked,     \* history: codes the authorizer asked for in this process
  accepted,  \* history: logins answered with success in this process
  faults

telegram == <<auth, session, asked>>
api == <<call, accepted>>
vars == <<main, svc, stor, telegram, api, faults>>

Callers == Operators \union Clients

NoCall == [at |-> "idle", right |-> FALSE]

TypeOK ==
  /\ main \in {"authorize", "greet", "storage", "service", "created", "updated",
               "listener", "listening", "down"}
  /\ svc \in {"nil", "half", "set"}
  /\ stor \in BOOLEAN
  /\ auth \in {"phone", "code", "again", "ready", "failed"}
  /\ session \in BOOLEAN
  /\ call \in [Callers -> [at: {"idle", "login", "accepted", "refused",
                                "test", "use", "served", "unavailable"},
                           right: BOOLEAN]]
  /\ asked \in 0 .. MaxFaults + 1 /\ accepted \in 0 .. MaxFaults + 1
  /\ faults \in 0 .. MaxFaults

Init ==
  /\ main = "authorize" /\ svc = "nil" /\ stor = FALSE
  /\ auth = "phone" /\ session \in BOOLEAN /\ asked = 0
  /\ call = [p \in Callers |-> NoCall] /\ accepted = 0
  /\ faults = 0

Fault == faults < MaxFaults /\ faults' = faults + 1

-----------------------------------------------------------------------------
(* main *)

\* A panic, a signal, or the end of main: nothing of the process stays, and
\* the signal handler, installed after Listen, has no part in it.
Die ==
  /\ main' = "down" /\ svc' = "nil" /\ stor' = FALSE
  /\ call' = [p \in Callers |-> NoCall] /\ accepted' = 0
  /\ auth' = "phone" /\ asked' = 0

\* A step of main that leaves the rest alone.
Step(from, to) == main = from /\ main' = to

\* Seeded fault: main goes on waiting when the login has failed.
NewClientStays ==
  /\ auth = "ready" /\ Step("authorize", "greet")
  /\ UNCHANGED <<svc, stor, telegram, api>>

\* NewClient returns what the authorizer came to.
NewClient ==
  \/ /\ auth = "ready" /\ Step("authorize", "greet")
     /\ UNCHANGED <<svc, stor, telegram, api>>
  \/ auth = "failed" /\ main = "authorize" /\ Die /\ UNCHANGED session

GetMe == Step("greet", "storage") /\ UNCHANGED <<svc, stor, telegram, api>>

NewStorage ==
  /\ Step("storage", "service") /\ stor' = TRUE
  /\ UNCHANGED <<svc, telegram, api>>

\* Seeded fault: the service is set before the storage is open.
SetServiceEarly ==
  /\ main = "storage" /\ svc = "nil" /\ svc' = "half"
  /\ UNCHANGED <<main, stor, telegram, api>>

\* c.SetService: no lock, so the two words of the interface value are written
\* one after the other.  The refresh loop starts next.
SetService ==
  /\ main = "service" /\ svc = "nil" /\ svc' = "half"
  /\ UNCHANGED <<main, stor, telegram, api>>

SetServiceData ==
  /\ svc = "half" /\ svc' = "set"
  /\ main' = IF Consuming THEN "created" ELSE "listener"
  /\ UNCHANGED <<stor, telegram, api>>

\* SetConsumer for each queue, and the goroutine that consumes it.
SetConsumer ==
  /\ Step("created", "updated") \/ Step("updated", "listener")
  /\ UNCHANGED <<svc, stor, telegram, api>>

GetListener == Step("listener", "listening") /\ UNCHANGED <<svc, stor, telegram, api>>

\* A request that main waits for fails.
RequestFails ==
  /\ main \in {"greet", "storage", "created", "updated"}
  /\ Fault /\ Die /\ UNCHANGED session

\* A signal, a consumer that panics, or a listener that is closed.
End ==
  /\ main # "down"
  /\ Fault /\ Die /\ UNCHANGED session

\* Kubernetes starts the container again; TDLib's files are there or not.
Restart ==
  /\ main = "down" /\ main' = "authorize"
  /\ session' \in {session, FALSE}
  /\ UNCHANGED <<svc, stor, auth, asked, api>>

-----------------------------------------------------------------------------
(* TDLib's authorizer, external *)

\* With a session there is nothing to ask; otherwise Telegram sends a code and
\* the credentials provider receives from chCode.
Authorize ==
  /\ main = "authorize" /\ auth \in {"phone", "again"}
  /\ \/ session /\ auth' = "ready" /\ UNCHANGED asked
     \/ ~session /\ auth' = "code" /\ asked' = asked + 1
  /\ UNCHANGED <<main, svc, stor, session, api>>

-----------------------------------------------------------------------------
(* Calls *)

Answer(p, place) == call' = [call EXCEPT ![p].at = place]

\* Login with the code that Telegram has sent last.
EnterCode(p) ==
  /\ call[p].at = "idle" /\ auth = "code"
  /\ call' = [call EXCEPT ![p] = [at |-> "login", right |-> TRUE]]
  /\ UNCHANGED <<main, svc, stor, telegram, accepted>>

\* Login with another one: mistyped, of an earlier request, or before any.
EnterWrongCode(p) ==
  /\ main # "down" /\ call[p].at = "idle" /\ Fault
  /\ call' = [call EXCEPT ![p] = [at |-> "login", right |-> FALSE]]
  /\ UNCHANGED <<main, svc, stor, telegram, accepted>>

\* The code is received and checked by Telegram; a wrong one ends it or not.
Hand(p) ==
  /\ call[p].at = "login" /\ auth = "code"
  /\ IF call[p].right THEN auth' = "ready" /\ session' = TRUE
     ELSE auth' \in {"failed", "again"} /\ UNCHANGED session
  /\ Answer(p, "accepted") /\ accepted' = accepted + 1
  /\ UNCHANGED <<main, svc, stor, asked>>

\* Seeded fault: chCode has a buffer, so a code nobody receives is accepted.
RefuseBuffered(p) ==
  /\ call[p].at = "login" /\ auth # "code"
  /\ Answer(p, "accepted") /\ accepted' = accepted + 1
  /\ UNCHANGED <<main, svc, stor, telegram>>

\* Seeded fault: Login waits until its code is received.
RefuseNever(p) == call[p].at = "login" /\ auth = "code" /\ Hand(p)

\* select takes the default when nobody receives.
Refuse(p) ==
  /\ call[p].at = "login" /\ auth # "code"
  /\ Answer(p, "refused")
  /\ UNCHANGED <<main, svc, stor, telegram, accepted>>

\* Any other call.
Request(p) ==
  /\ main # "down" /\ call[p].at = "idle" /\ Answer(p, "test")
  /\ UNCHANGED <<main, svc, stor, telegram, accepted>>

\* c.svc == nil; half written, it may look like either.
Test(p) ==
  /\ call[p].at = "test"
  /\ \/ svc # "set" /\ Answer(p, "unavailable")
     \/ svc # "nil" /\ Answer(p, "use")
  /\ UNCHANGED <<main, svc, stor, telegram, accepted>>

\* The method is called on what is read then.
Use(p) ==
  /\ call[p].at = "use" /\ svc = "set" /\ Answer(p, "served")
  /\ UNCHANGED <<main, svc, stor, telegram, accepted>>

\* Half written, the receiver is nil, and nothing recovers the panic.
UseHalf(p) ==
  /\ call[p].at = "use" /\ svc = "half"
  /\ Fault /\ Die /\ UNCHANGED session

Return(p) ==
  /\ call[p].at \in {"accepted", "refused", "served", "unavailable"}
  /\ call' = [call EXCEPT ![p] = NoCall]
  /\ UNCHANGED <<main, svc, stor, telegram, accepted>>

-----------------------------------------------------------------------------

Assemble ==
  NewClient \/ GetMe \/ NewStorage \/ SetService \/ SetServiceData
    \/ SetConsumer \/ GetListener

Login(p) == Hand(p) \/ Refuse(p)
Serve(p) == Login(p) \/ Test(p) \/ Use(p) \/ Return(p)

Next ==
  \/ (Assemble \/ Restart \/ Authorize) /\ UNCHANGED faults
  \/ RequestFails \/ End
  \/ \E p \in Operators :
       \/ (EnterCode(p) \/ Login(p)) /\ UNCHANGED faults
       \/ EnterWrongCode(p)
  \/ \E p \in Clients :
       \/ (Request(p) \/ Test(p) \/ Use(p)) /\ UNCHANGED faults
       \/ UseHalf(p)
  \/ \E p \in Callers : Return(p) /\ UNCHANGED faults

\* Goroutines run, Kubernetes restarts, Telegram sends codes; an operator
\* enters the code that was sent if it is asked for again and again.
Fairness ==
  /\ WF_vars(Assemble /\ UNCHANGED faults)
  /\ WF_vars((Restart \/ Authorize) /\ UNCHANGED faults)
  /\ \A p \in Callers : WF_vars(Serve(p) /\ UNCHANGED faults)
  /\ \A p \in Operators : SF_vars(EnterCode(p) /\ UNCHANGED faults)

Spec == Init /\ [][Next]_vars /\ Fairness

-----------------------------------------------------------------------------
(* Properties *)

\* A login is answered with success once at most for each code that TDLib
\* asked for, though operators race and type before they are asked: the code
\* that was accepted is the one that is checked.
AcceptedWasAsked == accepted <= asked

\* A call is served by a service whose client is logged in and whose storage
\* is open, although calls are accepted from the start of the process and the
\* service is set without a lock.
ServedWhenReady ==
  \A p \in Callers : call[p].at = "served" => auth = "ready" /\ stor

\* No call waits for ever: a Login that nobody receives is refused.
CallsEnd == \A p \in Callers : call[p].at # "idle" ~> call[p].at = "idle"

\* Whatever failed before, with wrong codes, lost sessions, and crashes at any
\* step, the replica comes to follow its updates.
ComesUp == <>[](main = "listening")
=============================================================================
