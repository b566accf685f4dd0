----------------------------- MODULE BootProofs -----------------------------
(***************************************************************************)
(* What a caller may rely on from the start of the process, for any number *)
(* of operators, clients and faults.                                       *)
(***************************************************************************)
EXTENDS Boot, FiniteSetTheorems, TLAPS

-----------------------------------------------------------------------------
(* The inductive invariant *)

Places == {"idle", "login", "accepted", "refused", "test", "use", "served",
           "unavailable"}

CallsTyped == call \in [Callers -> [at: Places, right: BOOLEAN]]

\* While a code is asked for, one login may still be accepted.
OneOpen ==
  /\ asked \in Nat /\ accepted \in Nat
  /\ auth = "code" => accepted < asked

\* How far main is tells what is ready.
Order ==
  /\ main \notin {"authorize", "down"} => auth = "ready"
  /\ main \notin {"authorize", "greet", "storage", "down"} => stor = TRUE

\* The service is there only behind both of them, and calls are served only
\* behind the service.
Behind ==
  /\ svc # "nil" => main \notin {"authorize", "greet", "storage", "down"}
  /\ \A p \in Callers : call[p].at \in {"use", "served"} => svc # "nil"

IInv == CallsTyped /\ OneOpen /\ AcceptedWasAsked /\ Order /\ Behind

\* No calls at all.
LEMMA Quiet ==
  ASSUME NEW f, f = [p \in Callers |-> NoCall]
  PROVE  /\ f \in [Callers -> [at: Places, right: BOOLEAN]]
         /\ \A p \in Callers : f[p].at = "idle"
<1>1. NoCall \in [at: Places, right: BOOLEAN] /\ NoCall.at = "idle"
  BY DEF NoCall, Places
<1> QED BY <1>1

LEMMA InitInv == Init => IInv
<1> SUFFICES ASSUME Init PROVE IInv
  OBVIOUS
<1>1. CallsTyped /\ \A p \in Callers : call[p].at = "idle"
  BY Quiet DEF Init, CallsTyped
<1> QED BY <1>1 DEF Init, IInv, OneOpen, AcceptedWasAsked, Order, Behind

-----------------------------------------------------------------------------
(* Steps *)

\* The end of the process restores the initial state of it.
LEMMA DieStep ==
  ASSUME Die
  PROVE  IInv'
<1>1. CallsTyped' /\ \A p \in Callers : call'[p].at = "idle"
  <2>1. call' = [p \in Callers |-> NoCall]
    BY DEF Die
  <2> QED BY <2>1, Quiet DEF CallsTyped
<1> QED BY <1>1 DEF Die, IInv, OneOpen, AcceptedWasAsked, Order, Behind

\* A step of main that leaves the callers and TDLib alone.
LEMMA MainStep ==
  ASSUME IInv, UNCHANGED <<auth, asked, call, accepted>>, Order',
         svc' # "nil" => main' \notin {"authorize", "greet", "storage", "down"},
         svc # "nil" => svc' # "nil"
  PROVE  IInv'
BY DEF IInv, CallsTyped, OneOpen, AcceptedWasAsked, Order, Behind

LEMMA AssembleStep ==
  ASSUME IInv, Assemble \/ Restart
  PROVE  IInv'
<1>1. CASE NewClient
  BY <1>1, DieStep, MainStep DEF NewClient, Step, telegram, api, IInv, Order, Behind
<1>2. CASE GetMe \/ NewStorage \/ SetConsumer \/ GetListener
  BY <1>2, MainStep
     DEF GetMe, NewStorage, SetConsumer, GetListener, Step, telegram, api,
         IInv, Order, Behind
<1>3. CASE SetService \/ SetServiceData
  BY <1>3, MainStep
     DEF SetService, SetServiceData, telegram, api, IInv, Order, Behind
<1>4. CASE Restart
  BY <1>4, MainStep DEF Restart, api, IInv, Order, Behind
<1> QED BY <1>1, <1>2, <1>3, <1>4 DEF Assemble

\* A step of one call that leaves main and TDLib alone.
LEMMA CallStep ==
  ASSUME IInv, NEW p \in Callers, UNCHANGED <<main, svc, stor, auth, asked, accepted>>,
         NEW c \in [at: Places, right: BOOLEAN],
         call' = [call EXCEPT ![p] = c],
         c.at \in {"use", "served"} => svc # "nil"
  PROVE  IInv'
<1>1. CallsTyped'
  BY DEF IInv, CallsTyped
<1>2. \A q \in Callers : call'[q] = IF q = p THEN c ELSE call[q]
  BY DEF IInv, CallsTyped
<1>3. Behind'
  BY <1>2 DEF IInv, Behind
<1> QED BY <1>1, <1>3 DEF IInv, OneOpen, AcceptedWasAsked, Order

\* An answer changes where the call is and nothing else of it.
LEMMA AnswerIs ==
  ASSUME IInv, NEW p \in Callers, NEW place \in Places, Answer(p, place)
  PROVE  \E c \in [at: Places, right: BOOLEAN] :
           c.at = place /\ call' = [call EXCEPT ![p] = c]
<1>1. call[p] \in [at: Places, right: BOOLEAN]
  BY DEF IInv, CallsTyped
<1>2. [call[p] EXCEPT !.at = place] \in [at: Places, right: BOOLEAN]
  BY <1>1
<1>3. call' = [call EXCEPT ![p] = [call[p] EXCEPT !.at = place]]
  BY DEF Answer
<1> QED BY <1>1, <1>2, <1>3

LEMMA AuthorizeStep ==
  ASSUME IInv, Authorize
  PROVE  IInv'
BY DEF Authorize, api, IInv, CallsTyped, OneOpen, AcceptedWasAsked, Order, Behind

LEMMA LoginStep ==
  ASSUME IInv, NEW p \in Callers,
         EnterCode(p) \/ EnterWrongCode(p) \/ Login(p)
  PROVE  IInv'
<1>1. CASE EnterCode(p) \/ EnterWrongCode(p)
  <2>1. PICK b \in BOOLEAN : call' = [call EXCEPT ![p] = [at |-> "login", right |-> b]]
    BY <1>1 DEF EnterCode, EnterWrongCode
  <2>2. UNCHANGED <<main, svc, stor, auth, asked, accepted>>
    BY <1>1 DEF EnterCode, EnterWrongCode, telegram
  <2>3. [at |-> "login", right |-> b] \in [at: Places, right: BOOLEAN]
    BY DEF Places
  <2> QED BY <2>1, <2>2, <2>3, CallStep
<1>2. CASE Refuse(p)
  <2>1. UNCHANGED <<main, svc, stor, auth, asked, accepted>> /\ Answer(p, "refused")
    BY <1>2 DEF Refuse, telegram
  <2> QED BY <2>1, AnswerIs, CallStep DEF Places
<1>3. CASE Hand(p)
  <2>1. PICK c \in [at: Places, right: BOOLEAN] :
          c.at = "accepted" /\ call' = [call EXCEPT ![p] = c]
    BY <1>3, AnswerIs DEF Hand, Places
  <2>2. CallsTyped'
    BY <2>1 DEF IInv, CallsTyped
  <2>3. \A q \in Callers : call'[q] = IF q = p THEN c ELSE call[q]
    BY <2>1 DEF IInv, CallsTyped
  <2>4. Behind'
    BY <1>3, <2>1, <2>3 DEF IInv, Behind, Hand
  <2>5. OneOpen' /\ AcceptedWasAsked'
    BY <1>3 DEF IInv, OneOpen, AcceptedWasAsked, Hand
  <2>6. Order'
    BY <1>3 DEF IInv, Order, Hand
  <2> QED BY <2>2, <2>4, <2>5, <2>6 DEF IInv
<1> QED BY <1>1, <1>2, <1>3 DEF Login

LEMMA RequestStep ==
  ASSUME IInv, NEW p \in Callers,
         Request(p) \/ Test(p) \/ Use(p) \/ Return(p)
  PROVE  IInv'
<1>1. UNCHANGED <<main, svc, stor, auth, asked, accepted>>
  BY DEF Request, Test, Use, Return, telegram
<1>2. CASE Return(p)
  BY <1>1, <1>2, CallStep DEF Return, NoCall, Places
<1>3. CASE Request(p) \/ Test(p) \/ Use(p)
  <2>1. PICK place \in {"test", "unavailable", "use", "served"} :
          Answer(p, place) /\ (place \in {"use", "served"} => svc # "nil")
    BY <1>3 DEF Request, Test, Use
  <2> QED BY <1>1, <2>1, AnswerIs, CallStep DEF Places
<1> QED BY <1>2, <1>3

LEMMA InvStep == IInv /\ [Next]_vars => IInv'
<1> SUFFICES ASSUME IInv, [Next]_vars PROVE IInv'
  OBVIOUS
<1>1. CASE Assemble \/ Restart
  BY <1>1, AssembleStep
<1>2. CASE Authorize
  BY <1>2, AuthorizeStep
<1>3. CASE RequestFails \/ End \/ \E p \in Clients : UseHalf(p)
  BY <1>3, DieStep DEF RequestFails, End, UseHalf
<1>4. CASE \E p \in Operators : EnterCode(p) \/ EnterWrongCode(p) \/ Login(p)
  BY <1>4, LoginStep DEF Callers
<1>5. CASE \E p \in Clients : Request(p) \/ Test(p) \/ Use(p)
  BY <1>5, RequestStep DEF Callers
<1>6. CASE \E p \in Callers : Return(p)
  BY <1>6, RequestStep
<1>7. CASE UNCHANGED vars
  BY <1>7 DEF vars, telegram, api, IInv, CallsTyped, OneOpen, AcceptedWasAsked,
              Order, Behind
<1> QED BY <1>1, <1>2, <1>3, <1>4, <1>5, <1>6, <1>7 DEF Next

\* The invariant holds throughout.
LEMMA Invariant == Spec => []IInv
BY InitInv, InvStep, PTL DEF Spec

-----------------------------------------------------------------------------
(* How often a code is asked for *)

\* The logins with a wrong code that are under way: each was a fault, and each
\* may make TDLib ask once more.
Wrong == {p \in Callers : call[p].at = "login" /\ ~call[p].right}

ToAsk == IF auth \in {"phone", "again"} THEN 1 ELSE 0

AsksCounted ==
  /\ faults \in 0 .. MaxFaults
  /\ IsFiniteSet(Wrong)
  /\ asked + ToAsk + Cardinality(Wrong) <= faults + 1

\* The variables that AsksCounted leaves alone have their types.
OtherTypes ==
  /\ main \in {"authorize", "greet", "storage", "service", "created", "updated",
               "listener", "listening", "down"}
  /\ svc \in {"nil", "half", "set"} /\ stor \in BOOLEAN
  /\ auth \in {"phone", "code", "again", "ready", "failed"} /\ session \in BOOLEAN

\* How the call of one client changes the wrong logins.
LEMMA WrongChange ==
  ASSUME IInv, NEW p \in Callers, NEW c, call' = [call EXCEPT ![p] = c]
  PROVE  /\ c.at = "login" /\ ~c.right => Wrong' = Wrong \union {p}
         /\ ~(c.at = "login" /\ ~c.right) => Wrong' = Wrong \ {p}
<1>1. \A q \in Callers : call'[q] = IF q = p THEN c ELSE call[q]
  BY DEF IInv, CallsTyped
<1> QED BY <1>1 DEF Wrong

\* A call that is not a wrong login before or after leaves them as they are.
LEMMA NotWrong ==
  ASSUME IInv, NEW p \in Callers, NEW place \in Places \ {"login"}, Answer(p, place)
  PROVE  Wrong' = Wrong \ {p}
<1>1. PICK c \in [at: Places, right: BOOLEAN] :
        c.at = place /\ call' = [call EXCEPT ![p] = c]
  BY AnswerIs
<1> QED BY <1>1, WrongChange

\* Fewer wrong logins under way.
LEMMA FewerWrong ==
  ASSUME AsksCounted, NEW p
  PROVE  /\ IsFiniteSet(Wrong \ {p}) /\ Cardinality(Wrong \ {p}) \in Nat
         /\ Cardinality(Wrong) \in Nat
         /\ Cardinality(Wrong \ {p}) <= Cardinality(Wrong)
         /\ p \in Wrong => Cardinality(Wrong \ {p}) = Cardinality(Wrong) - 1
<1>1. IsFiniteSet(Wrong \ {p}) /\ Cardinality(Wrong \ {p}) <= Cardinality(Wrong)
  BY FS_Subset DEF AsksCounted
<1>2. p \in Wrong => Cardinality(Wrong \ {p}) = Cardinality(Wrong) - 1
  BY FS_RemoveElement DEF AsksCounted
<1> QED BY <1>1, <1>2, FS_CardinalityType DEF AsksCounted

\* The end of the process forgets the logins and what was asked.
LEMMA DieCounted ==
  ASSUME IInv, AsksCounted, Die, Fault \/ UNCHANGED faults
  PROVE  AsksCounted'
<1>1. call' = [q \in Callers |-> NoCall] /\ asked' = 0 /\ auth' = "phone"
  BY DEF Die
<1>2. Wrong' = {}
  BY <1>1 DEF Wrong, NoCall
<1>3. IsFiniteSet(Wrong') /\ Cardinality(Wrong') = 0
  BY <1>2, FS_EmptySet
<1> QED BY <1>1, <1>3, FaultsAreCounted DEF AsksCounted, ToAsk, Fault

\* Nothing is asked and no login comes or goes.
LEMMA SameCounted ==
  ASSUME IInv, AsksCounted, UNCHANGED <<auth, asked, call>>, Fault \/ UNCHANGED faults
  PROVE  AsksCounted'
<1>1. Wrong' = Wrong /\ ToAsk' = ToAsk /\ ToAsk \in {0, 1} /\ asked \in Nat
  BY DEF Wrong, ToAsk, IInv, OneOpen
<1>2. faults' \in 0 .. MaxFaults /\ faults <= faults'
  BY FaultsAreCounted DEF AsksCounted, Fault
<1>3. PICK w \in Int : w = Cardinality(Wrong)
  BY FS_CardinalityType DEF AsksCounted
<1>4. asked' + ToAsk' + w <= faults + 1
  BY <1>1, <1>3 DEF AsksCounted
<1> QED BY <1>1, <1>2, <1>3, <1>4 DEF AsksCounted

\* A login begins or is answered.
LEMMA LoginCounted ==
  ASSUME IInv, AsksCounted, NEW p \in Callers,
         \/ (EnterCode(p) \/ Login(p)) /\ UNCHANGED faults
         \/ EnterWrongCode(p)
  PROVE  AsksCounted'
<1>1. /\ asked \in Nat /\ faults \in Nat /\ Cardinality(Wrong) \in Nat
      /\ ToAsk \in {0, 1} /\ MaxFaults \in Nat
      /\ asked + ToAsk + Cardinality(Wrong) <= faults + 1
  <2>1. Cardinality(Wrong) \in Nat
    BY FewerWrong
  <2> QED BY <2>1, FaultsAreCounted DEF IInv, OneOpen, AsksCounted, ToAsk
<1>2. CASE EnterCode(p) /\ UNCHANGED faults
  <2>1. /\ UNCHANGED <<auth, asked, faults>>
        /\ call' = [call EXCEPT ![p] = [at |-> "login", right |-> TRUE]]
    BY <1>2 DEF EnterCode, telegram
  <2>2. PICK c : c = [at |-> "login", right |-> TRUE]
    OBVIOUS
  <2>3. call' = [call EXCEPT ![p] = c] /\ c.right
    BY <2>1, <2>2
  <2>4. Wrong' = Wrong \ {p} /\ ToAsk' = ToAsk
    BY <2>1, <2>3, WrongChange DEF ToAsk
  <2> QED BY <1>1, <2>1, <2>4, FewerWrong DEF AsksCounted
<1>3. CASE EnterWrongCode(p)
  <2>1. /\ UNCHANGED <<auth, asked>> /\ faults' = faults + 1 /\ faults < MaxFaults
        /\ call[p].at = "idle"
        /\ call' = [call EXCEPT ![p] = [at |-> "login", right |-> FALSE]]
    BY <1>3 DEF EnterWrongCode, telegram, Fault
  <2>2. Wrong' = Wrong \union {p} /\ p \notin Wrong /\ ToAsk' = ToAsk
    BY <2>1, WrongChange DEF Wrong, ToAsk
  <2>3. IsFiniteSet(Wrong') /\ Cardinality(Wrong') = Cardinality(Wrong) + 1
    BY <2>2, FS_AddElement DEF AsksCounted
  <2> QED BY <1>1, <2>1, <2>2, <2>3 DEF AsksCounted
<1>4. CASE Refuse(p) /\ UNCHANGED faults
  <2>1. UNCHANGED <<auth, asked, faults>> /\ Answer(p, "refused")
    BY <1>4 DEF Refuse, telegram
  <2>2. Wrong' = Wrong \ {p} /\ ToAsk' = ToAsk
    BY <2>1, NotWrong DEF ToAsk, Places
  <2> QED BY <1>1, <2>1, <2>2, FewerWrong DEF AsksCounted
<1>5. CASE Hand(p) /\ UNCHANGED faults
  <2>1. /\ UNCHANGED <<asked, faults>> /\ Answer(p, "accepted") /\ auth = "code"
        /\ call[p].at = "login"
        /\ auth' \in {"ready", "failed", "again"} /\ (call[p].right => auth' = "ready")
    BY <1>5 DEF Hand
  <2>2. Wrong' = Wrong \ {p} /\ ToAsk = 0
    BY <2>1, NotWrong DEF ToAsk, Places
  <2>3. CASE call[p].right
    <3>1. ToAsk' = 0
      BY <2>1, <2>3 DEF ToAsk
    <3>2. /\ IsFiniteSet(Wrong \ {p}) /\ Cardinality(Wrong \ {p}) \in Nat
          /\ Cardinality(Wrong \ {p}) <= Cardinality(Wrong)
      BY <3>1, FewerWrong
    <3> QED BY <1>1, <2>1, <2>2, <3>1, <3>2 DEF AsksCounted
  <2>4. CASE ~call[p].right
    <3>1. p \in Wrong /\ ToAsk' \in {0, 1}
      BY <2>1, <2>4 DEF Wrong, ToAsk
    <3>2. /\ IsFiniteSet(Wrong \ {p}) /\ Cardinality(Wrong \ {p}) \in Nat
          /\ Cardinality(Wrong \ {p}) = Cardinality(Wrong) - 1
      BY <3>1, FewerWrong
    <3> QED BY <1>1, <2>1, <2>2, <3>1, <3>2 DEF AsksCounted
  <2> QED BY <2>3, <2>4
<1> QED BY <1>2, <1>3, <1>4, <1>5 DEF Login

\* Any other call.
LEMMA RequestCounted ==
  ASSUME IInv, AsksCounted, NEW p \in Callers, UNCHANGED faults,
         Request(p) \/ Test(p) \/ Use(p) \/ Return(p)
  PROVE  AsksCounted'
<1>1. UNCHANGED <<auth, asked>>
  BY DEF Request, Test, Use, Return, telegram
<1>2. Wrong' = Wrong \ {p}
  <2>1. CASE Return(p)
    <3>1. call' = [call EXCEPT ![p] = NoCall] /\ NoCall.at = "idle"
      BY <2>1 DEF Return, NoCall
    <3> QED BY <3>1, WrongChange
  <2>2. CASE Request(p) \/ Test(p) \/ Use(p)
    BY <2>2, NotWrong DEF Request, Test, Use, Places
  <2> QED BY <2>1, <2>2
<1>3. /\ asked \in Nat /\ faults \in Nat /\ ToAsk \in {0, 1} /\ ToAsk' = ToAsk
  BY <1>1, FaultsAreCounted DEF IInv, OneOpen, AsksCounted, ToAsk
<1> QED BY <1>1, <1>2, <1>3, FewerWrong DEF AsksCounted

LEMMA CountedStep ==
  ASSUME IInv, AsksCounted, [Next]_vars
  PROVE  AsksCounted'
<1>1. CASE NewClient /\ auth = "failed" /\ UNCHANGED faults
  <2>1. Die
    BY <1>1 DEF NewClient
  <2> QED BY <1>1, <2>1, DieCounted
<1>2. CASE \/ Assemble /\ ~(NewClient /\ auth = "failed") /\ UNCHANGED faults
           \/ Restart /\ UNCHANGED faults
           \/ UNCHANGED vars
  <2>1. UNCHANGED <<auth, asked, call, faults>>
    BY <1>2 DEF Assemble, NewClient, GetMe, NewStorage, SetService, SetServiceData,
                SetConsumer, GetListener, Restart, vars, telegram, api
  <2> QED BY <2>1, SameCounted
<1>3. CASE Authorize /\ UNCHANGED faults
  <2>1. /\ auth \in {"phone", "again"} /\ UNCHANGED <<call, faults>>
        /\ \/ auth' = "ready" /\ asked' = asked
           \/ auth' = "code" /\ asked' = asked + 1
    BY <1>3 DEF Authorize, api
  <2>2. ToAsk = 1 /\ ToAsk' = 0 /\ Wrong' = Wrong
    BY <2>1 DEF ToAsk, Wrong
  <2>3. PICK w \in Nat : w = Cardinality(Wrong)
    BY FewerWrong
  <2>4. asked \in Nat /\ faults \in Nat
    BY FaultsAreCounted DEF IInv, OneOpen, AsksCounted
  <2>5. asked + 1 + w <= faults + 1
    BY <2>2, <2>3 DEF AsksCounted
  <2>6. asked' + 0 + w <= faults + 1
    BY <2>1, <2>3, <2>4, <2>5
  <2> QED BY <2>1, <2>2, <2>3, <2>6 DEF AsksCounted
<1>4. CASE RequestFails \/ End \/ \E p \in Clients : UseHalf(p)
  BY <1>4, DieCounted DEF RequestFails, End, UseHalf
<1>5. CASE \E p \in Operators :
             \/ (EnterCode(p) \/ Login(p)) /\ UNCHANGED faults
             \/ EnterWrongCode(p)
  BY <1>5, LoginCounted DEF Callers
<1>6. CASE \/ \E p \in Clients : (Request(p) \/ Test(p) \/ Use(p)) /\ UNCHANGED faults
           \/ \E p \in Callers : Return(p) /\ UNCHANGED faults
  BY <1>6, RequestCounted DEF Callers
<1> QED BY <1>1, <1>2, <1>3, <1>4, <1>5, <1>6 DEF Next

\* The other variables keep their types.
LEMMA OtherTypesStep ==
  ASSUME OtherTypes, [Next]_vars
  PROVE  OtherTypes'
<1>1. CASE Die /\ UNCHANGED session
  BY <1>1 DEF Die, OtherTypes
<1>2. CASE NewClient \/ GetMe \/ NewStorage \/ SetService \/ SetServiceData
  BY <1>1, <1>2 DEF NewClient, GetMe, NewStorage, SetService, SetServiceData, Step,
                    telegram, OtherTypes
<1>3. CASE SetConsumer \/ GetListener \/ Restart \/ Authorize \/ UNCHANGED vars
  BY <1>3 DEF SetConsumer, GetListener, Restart, Authorize, Step, telegram, vars, OtherTypes
<1>4. ASSUME NEW p \in Callers,
             \/ EnterCode(p) \/ EnterWrongCode(p) \/ Login(p)
             \/ Request(p) \/ Test(p) \/ Use(p) \/ Return(p)
      PROVE  OtherTypes'
  BY <1>4 DEF EnterCode, EnterWrongCode, Login, Hand, Refuse, Request, Test, Use, Return,
              telegram, OtherTypes
<1>5. CASE RequestFails \/ End \/ \E p \in Clients : UseHalf(p)
  BY <1>1, <1>5 DEF RequestFails, End, UseHalf
<1> QED BY <1>2, <1>3, <1>4, <1>5 DEF Next, Assemble, Callers

-----------------------------------------------------------------------------
(* The results *)

\* Type correctness: no more codes are asked for in a life of the process, and
\* no more logins accepted, than wrong codes were entered, and one.
THEOREM TypeCorrect == Spec => []TypeOK
<1>1. Init => OtherTypes /\ AsksCounted
  <2> SUFFICES ASSUME Init PROVE OtherTypes /\ AsksCounted
    OBVIOUS
  <2>1. Wrong = {}
    BY DEF Init, Wrong, NoCall
  <2>2. IsFiniteSet(Wrong) /\ Cardinality(Wrong) = 0
    BY <2>1, FS_EmptySet
  <2>3. ToAsk = 1 /\ asked = 0 /\ faults = 0
    BY DEF Init, ToAsk
  <2>4. AsksCounted
    BY <2>2, <2>3, FaultsAreCounted DEF AsksCounted
  <2> QED BY <2>4 DEF Init, OtherTypes
<1>2. IInv /\ OtherTypes /\ AsksCounted /\ [Next]_vars => (OtherTypes /\ AsksCounted)'
  BY CountedStep, OtherTypesStep
<1>3. IInv /\ OtherTypes /\ AsksCounted => TypeOK
  <2> SUFFICES ASSUME IInv, OtherTypes, AsksCounted PROVE TypeOK
    OBVIOUS
  <2>1. /\ asked \in Nat /\ accepted \in Nat /\ accepted <= asked
        /\ Cardinality(Wrong) \in Nat /\ ToAsk \in {0, 1}
    BY FewerWrong DEF IInv, OneOpen, AcceptedWasAsked, ToAsk
  <2>2. asked \in 0 .. MaxFaults + 1 /\ accepted \in 0 .. MaxFaults + 1
    BY <2>1, FaultsAreCounted DEF AsksCounted
  <2> QED BY <2>2 DEF IInv, CallsTyped, Places, OtherTypes, AsksCounted, TypeOK
<1>4. Spec => Init /\ [][Next]_vars
  BY DEF Spec
<1> QED BY <1>1, <1>2, <1>3, <1>4, Invariant, PTL

\* Login answers success at most once for each code that was asked for.
THEOREM AcceptedOncePerAsk == Spec => []AcceptedWasAsked
<1>1. IInv => AcceptedWasAsked
  BY DEF IInv
<1> QED BY <1>1, Invariant, PTL

\* No call reaches a service that is not ready, lock or not.
THEOREM ServedByReady == Spec => []ServedWhenReady
<1>1. IInv => ServedWhenReady
  BY DEF IInv, Order, Behind, ServedWhenReady
<1> QED BY <1>1, Invariant, PTL
=============================================================================
