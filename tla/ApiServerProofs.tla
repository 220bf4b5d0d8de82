---------------------------- MODULE ApiServerProofs ----------------------------
(***************************************************************************)
(* Theorems about ApiServer, for any set of requests that overlap.         *)
(***************************************************************************)
EXTENDS ApiServer, Integers, TLAPS

(***************************************************************************)
(* The inductive invariant.                                                *)
(***************************************************************************)

Instances == Requests \cup {Startup, None}

ProcessTyped ==
  /\ phase \in {"down", "starting", "serving"}
  /\ environment \in Environments
  /\ token \in Tokens
  /\ cache \in [Services -> Instances]
  /\ probe_of \in [Requests -> Requests \cup {None}]
  /\ last_state \in [Requests -> ProbeStates]
  /\ table \in BOOLEAN
  /\ submitted \in BOOLEAN

RequestsTyped ==
  /\ at \in [Requests -> {"idle", "dependencies", "leaving"}]
  /\ route \in [Requests -> Routes]
  /\ header \in [Requests -> Headers]
  /\ todo \in [Requests -> Seq(Tasks)]
  /\ use \in [Requests -> [Services -> Instances]]
  /\ outcome \in [Requests -> Exceptions \cup Responses \cup {"none"}]
  /\ inside \in [Requests -> 0..Depth]
  /\ log \in [Requests -> Seq(Exceptions \cup Responses)]

Typed == ProcessTyped /\ RequestsTyped

\* What holds of the process and of the services it shares.
Process ==
  /\ phase # "serving" => cache = Fresh /\ \A q \in Requests : at[q] = "idle"
  /\ phase # "down" => ~(environment = "production" /\ token = "")
  /\ cache["stt"] \in {None, Startup}
  /\ phase = "serving" => cache["stt"] = Startup
  /\ cache["probe"] # Startup
  /\ cache["worker"] # None => cache["worker"] \in Requests /\ probe_of[cache["worker"]] # None
  /\ cache["storage"] # None => table
  /\ submitted => table

\* What request q still depends on: its token comes before everything else, a job is not
\* submitted without the storage service, nor a worker made without a probe.
Pending(q) ==
  /\ \A i \in 1..Len(todo[q]) : todo[q][i] # <<"make", "stt">>
  /\ \A i \in 1..Len(todo[q]) : todo[q][i] = <<"make", "worker">> =>
       \/ use[q]["probe"] # None
       \/ \E k \in 1..(i - 1) : todo[q][k] \in {<<"get", "probe">>, <<"make", "probe">>}
  /\ route[q] = "submit" =>
       \/ table
       \/ \E i \in 1..Len(todo[q]) : todo[q][i] \in {<<"get", "storage">>, <<"make", "storage">>}
  /\ route[q] \in Protected /\ ~Authorized(q) =>
       use[q] = Fresh /\ todo[q] # <<>> /\ todo[q][1] = <<"check", "token">>

Refusals == {"none", "401", "429", "AuthenticationError", "HTTPException"}

\* Where request q is in the stack, and in the audit log: outside the audit middleware,
\* the second layer, it has its line, which an answer to an exception may differ from;
\* outside the exception handlers no refusal is an exception any more.
OnItsWay(q) ==
  /\ at[q] = "idle" => inside[q] = 0 /\ log[q] = <<>>
  /\ at[q] = "dependencies" => inside[q] = Depth /\ log[q] = <<>>
  /\ at[q] = "leaving" =>
       /\ outcome[q] # "none"
       /\ inside[q] >= 2 => log[q] = <<>>
       /\ inside[q] < 2 =>
            /\ Len(log[q]) = 1
            /\ log[q][1] = outcome[q] \/ (log[q][1] \in Exceptions /\ outcome[q] = "500")
       /\ inside[q] < Depth /\ route[q] \in Protected /\ ~Authorized(q) =>
            outcome[q] \in {"401", "429"}

\* What holds of request q.
Request(q) ==
  /\ at[q] # "leaving" => outcome[q] = "none"
  /\ at[q] # "dependencies" => use[q] = Fresh
  /\ outcome[q] = "AuthenticationError" => environment = "staging"
  /\ route[q] \in Protected /\ ~Authorized(q) => outcome[q] \in Refusals
  /\ use[q]["stt"] \in {None, Startup}
  /\ use[q]["probe"] # Startup
  /\ at[q] = "dependencies" => Pending(q)
  /\ OnItsWay(q)

IInv == Typed /\ Process /\ \A q \in Requests : Request(q)

------------------------------------------------------------------------------
(* Lemmas about sequences of tasks.                                         *)

LEMMA TailFacts ==
  ASSUME NEW s \in Seq(Tasks), s # <<>>
  PROVE  /\ Len(s) \in Nat /\ Len(s) >= 1 /\ Head(s) = s[1]
         /\ Tail(s) \in Seq(Tasks)
         /\ Len(Tail(s)) = Len(s) - 1
         /\ \A i \in 1..Len(s) - 1 : Tail(s)[i] = s[i + 1]
  OBVIOUS

\* Nothing left to do, nothing logged, and no instance at hand.
LEMMA EmptyFacts ==
  /\ <<>> \in Seq(Tasks)
  /\ <<>> \in Seq(Exceptions \cup Responses)
  /\ Fresh \in [Services -> Instances]
  /\ \A s \in Services : Fresh[s] = None
<1>1. <<>> \in Seq(Tasks) /\ <<>> \in Seq(Exceptions \cup Responses)
  OBVIOUS
<1>2. Fresh \in [Services -> Instances] /\ \A s \in Services : Fresh[s] = None
  BY DEF Fresh, Instances
<1> QED
  BY <1>1, <1>2

\* The head of a list of tasks, replaced by another task.
LEMMA ReplaceFacts ==
  ASSUME NEW s \in Seq(Tasks), s # <<>>, NEW t \in Tasks
  PROVE  /\ <<t>> \o Tail(s) \in Seq(Tasks)
         /\ Len(<<t>> \o Tail(s)) = Len(s)
         /\ (<<t>> \o Tail(s))[1] = t
         /\ \A i \in 2..Len(s) : (<<t>> \o Tail(s))[i] = s[i]
  OBVIOUS

\* The head of a list of tasks, replaced by two.
LEMMA ReplaceTwiceFacts ==
  ASSUME NEW s \in Seq(Tasks), s # <<>>, NEW t \in Tasks, NEW u \in Tasks
  PROVE  /\ <<t, u>> \o Tail(s) \in Seq(Tasks)
         /\ Len(<<t, u>> \o Tail(s)) = Len(s) + 1
         /\ (<<t, u>> \o Tail(s))[1] = t
         /\ (<<t, u>> \o Tail(s))[2] = u
         /\ \A i \in 3..Len(s) + 1 : (<<t, u>> \o Tail(s))[i] = s[i - 1]
  OBVIOUS

\* The dependencies of the routes: only the token first, and nothing made unasked.
LEMMA NeedsFacts ==
  ASSUME NEW r \in Routes
  PROVE  /\ Needs(r) \in Seq(Tasks)
         /\ \A i \in 1..Len(Needs(r)) : Needs(r)[i] \in {<<"check", "token">>} \cup ({"get"} \X Services)
         /\ r \in Protected => Needs(r) # <<>> /\ Needs(r)[1] = <<"check", "token">>
         /\ r = "submit" => Len(Needs(r)) = 4 /\ Needs(r)[3] = <<"get", "storage">>
<1> DEFINE T == {<<"check", "token">>} \cup ({"get"} \X Services)
           check == <<"check", "token">>
           get(s) == <<"get", s>>
<1>1. check \in T /\ (\A s \in Services : get(s) \in T) /\ T \subseteq Tasks
  BY DEF Tasks
<1>2. {"stt", "storage", "probe", "worker"} = Services
  BY DEF Services
<1>3. \A s \in Seq(T) : s \in Seq(Tasks) /\ \A i \in 1..Len(s) : s[i] \in T
  BY <1>1
<1> HIDE DEF T, check, get
<1>4. Needs(r) \in Seq(T)
  BY <1>1, <1>2 DEF Needs, Routes, check, get
<1> QED
  BY <1>1, <1>3, <1>4 DEF T, Needs, Routes, Protected

\* The layers, from the outside: the audit middleware is the second, so that the rate
\* limiter and the exception handlers are inside it.
LEMMA StackFacts ==
  /\ Depth = 5 /\ 0..Depth = 0..5
  /\ Stack[1] = "server_errors" /\ Stack[2] = "audit" /\ Stack[3] = "rate_limit"
  /\ Stack[4] = "cors" /\ Stack[5] = "exceptions"
<1>1. Len(Added) = 3 /\ Added[1] = "cors" /\ Added[2] = "rate_limit" /\ Added[3] = "audit"
  BY DEF Added
<1>2. Depth = 5
  BY <1>1 DEF Depth
<1> QED
  BY <1>1, <1>2 DEF Stack

------------------------------------------------------------------------------
(* What most steps have in common.                                          *)

\* Request d is not touched.
Same(d) ==
  /\ at'[d] = at[d] /\ route'[d] = route[d] /\ header'[d] = header[d]
  /\ todo'[d] = todo[d] /\ use'[d] = use[d] /\ outcome'[d] = outcome[d]
  /\ inside'[d] = inside[d] /\ log'[d] = log[d]

\* A step of another request leaves a request as it is.
LEMMA Untouched ==
  ASSUME IInv, NEW d \in Requests, Same(d), UNCHANGED settings, table => table'
  PROVE  Request(d)'
<1>1. Authorized(d)' <=> Authorized(d)
  BY DEF Same, Authorized, settings
<1>2. Request(d)
  BY DEF IInv
<1>3. at[d] = "dependencies" => Pending(d)'
  BY <1>1, <1>2 DEF Request, Pending, Same
<1>4. OnItsWay(d)'
  BY <1>1, <1>2 DEF Request, OnItsWay, Same
<1> QED
  BY <1>1, <1>2, <1>3, <1>4 DEF Request, Same, settings

\* The state of a request that has a service of its own, or none: what only the serving
\* process has.
LEMMA Serving ==
  ASSUME IInv, NEW q \in Requests, at[q] # "idle"
  PROVE  phase = "serving"
  BY DEF IInv, Process

\* A request that gets to its route is authorized.
LEMMA ReadyAuthorized ==
  ASSUME IInv, NEW q \in Requests, at[q] = "dependencies", todo[q] = <<>>, route[q] \in Protected
  PROVE  Authorized(q)
  BY DEF IInv, Request, Pending

\* So is one that is past the token.
LEMMA PastToken ==
  ASSUME IInv, NEW q \in Requests, NEW t, NextTask(q, t), t # <<"check", "token">>,
         route[q] \in Protected
  PROVE  Authorized(q)
<1>1. todo[q] \in Seq(Tasks) /\ todo[q] # <<>> /\ Head(todo[q]) = t /\ at[q] = "dependencies"
  BY DEF NextTask, IInv, Typed, ProcessTyped, RequestsTyped
<1>2. todo[q][1] = t
  BY <1>1, TailFacts
<1> QED
  BY <1>1, <1>2 DEF IInv, Request, Pending

\* A request ends inside of all the layers, with nothing logged yet.
LEMMA EndsInside ==
  ASSUME IInv, NEW q \in Requests, NEW o \in Exceptions \cup {"ok"}, End(q, o),
         at[q] = "dependencies"
  PROVE  OnItsWay(q)'
<1>1. inside'[q] = 5 /\ Depth = 5 /\ log'[q] = <<>>
  BY StackFacts DEF End, IInv, Request, OnItsWay
<1>2. at'[q] = "leaving" /\ outcome'[q] # "none"
  BY DEF End, IInv, Typed, RequestsTyped, Exceptions
<1> QED
  BY <1>1, <1>2 DEF OnItsWay

\* A request is ended with a result that is right for it.
LEMMA EndInv ==
  ASSUME IInv, NEW q \in Requests, NEW o \in Exceptions \cup {"ok"}, End(q, o),
         at[q] = "dependencies", phase = "serving", UNCHANGED <<phase, settings>>, table => table', table' \in BOOLEAN,
         NEW h \in Headers, header' = [header EXCEPT ![q] = h],
         o = "AuthenticationError" => environment = "staging",
         route[q] \in Protected /\ ~ (environment = "development" \/ (h = token /\ token # ""))
           => o \in Refusals
  PROVE  RequestsTyped' /\ \A d \in Requests : Request(d)'
<1>1. Typed
  BY DEF IInv
<1>2. Fresh \in [Services -> Instances] /\ <<>> \in Seq(Tasks)
  BY EmptyFacts
<1>3. /\ at'[q] = "leaving" /\ outcome'[q] = o /\ use'[q] = Fresh /\ header'[q] = h
      /\ route' = route
      /\ \A d \in Requests : d # q => Same(d)
  BY <1>1 DEF Typed, ProcessTyped, RequestsTyped, End, Same
<1>4. Fresh["stt"] = None /\ Fresh["probe"] = None
  BY DEF Fresh, Services
<1>5. Request(q)'
  <2>1. OnItsWay(q)'
    BY EndsInside
  <2>2. Authorized(q)' <=> environment = "development" \/ (h = token /\ token # "")
    BY <1>3 DEF Authorized, settings
  <2> QED
    BY <1>3, <1>4, <2>1, <2>2, ApiAssumption DEF Request, settings
<1>6. ASSUME NEW d \in Requests PROVE Request(d)'
  BY <1>3, <1>5, <1>6, Untouched
<1>7. at' \in [Requests -> {"idle", "dependencies", "leaving"}] /\ route' \in [Requests -> Routes]
  BY <1>1 DEF Typed, ProcessTyped, RequestsTyped, End
<1>8. header' \in [Requests -> Headers] /\ todo' \in [Requests -> Seq(Tasks)]
  BY <1>1, <1>2 DEF Typed, ProcessTyped, RequestsTyped, End
<1>9. /\ use' \in [Requests -> [Services -> Instances]]
      /\ outcome' \in [Requests -> Exceptions \cup Responses \cup {"none"}]
      /\ inside' \in [Requests -> 0..Depth] /\ log' \in [Requests -> Seq(Exceptions \cup Responses)]
  BY <1>1, <1>2 DEF Typed, ProcessTyped, RequestsTyped, End, Responses
<1> QED
  BY <1>6, <1>7, <1>8, <1>9 DEF RequestsTyped

------------------------------------------------------------------------------
(* The process: nobody is served while its settings change.                 *)

\* The state of a process that serves nobody.
LEMMA NobodyServed ==
  ASSUME IInv, phase # "serving", NEW d \in Requests
  PROVE  /\ at[d] = "idle" /\ outcome[d] = "none" /\ use[d] = Fresh
         /\ inside[d] = 0 /\ log[d] = <<>>
  BY DEF IInv, Process, Request, OnItsWay

LEMMA InitInv == Init => IInv
<1> SUFFICES ASSUME Init PROVE IInv
  OBVIOUS
<1>1. Typed
  <2>1. ProcessTyped
    <3>1. environment \in Environments /\ token \in Tokens
      BY DEF Init, Environments, Tokens
    <3> QED
      BY <3>1, EmptyFacts, ProbeAssumption DEF Init, ProcessTyped, Instances
  <2>2. inside \in [Requests -> 0..Depth] /\ log \in [Requests -> Seq(Exceptions \cup Responses)]
    <3>1. inside = [q \in Requests |-> 0] /\ log = [q \in Requests |-> <<>>]
      BY DEF Init
    <3>2. 0 \in 0..Depth
      BY StackFacts
    <3> QED
      BY <3>1, <3>2, EmptyFacts
  <2>3. RequestsTyped
    BY EmptyFacts, <2>2 DEF Init, RequestsTyped, Routes, Headers
  <2> QED
    BY <2>1, <2>3 DEF Typed
<1>2. Process
  BY EmptyFacts, ApiAssumption DEF Init, Process, Services
<1>3. ASSUME NEW q \in Requests PROVE Request(q)
  BY EmptyFacts, ApiAssumption DEF Init, Request, OnItsWay, Protected, Services
<1> QED
  BY <1>1, <1>2, <1>3 DEF IInv

LEMMA StartInv == IInv /\ Start => IInv'
<1> SUFFICES ASSUME IInv, Start PROVE IInv'
  OBVIOUS
<1>1. PICK env \in Environments, tok \in Tokens, key \in {"", "key"}, sync_enabled \in BOOLEAN :
        /\ ~MissingSecrets(env, tok, key, sync_enabled)
        /\ environment' = env
        /\ token' = tok
  BY DEF Start
<1>2. ~(environment' = "production" /\ token' = "")
  BY <1>1 DEF MissingSecrets
<1>3. Typed'
  BY <1>1 DEF IInv, Typed, ProcessTyped, RequestsTyped, Start, services, database, request
<1>4. Process'
  BY <1>2 DEF IInv, Process, Start, services, database, request
<1>5. ASSUME NEW q \in Requests PROVE Request(q)'
  <2>1. /\ at'[q] = "idle" /\ outcome'[q] = "none" /\ use'[q] = Fresh
        /\ inside'[q] = 0 /\ log'[q] = <<>>
    BY NobodyServed DEF Start, request
  <2> QED
    BY <2>1, EmptyFacts, ApiAssumption DEF Request, OnItsWay, Refusals, Services
<1> QED
  BY <1>3, <1>4, <1>5 DEF IInv

LEMMA LoadModelInv == IInv /\ (LoadModel \/ LoadModelFails) => IInv'
<1> SUFFICES ASSUME IInv, LoadModel \/ LoadModelFails PROVE IInv'
  OBVIOUS
<1>1. ASSUME NEW q \in Requests PROVE Request(q)'
  <2>1. Same(q) /\ UNCHANGED settings /\ (table => table')
    BY DEF LoadModel, LoadModelFails, Same, request, database
  <2> QED
    BY <2>1, Untouched
<1>2. CASE LoadModel
  <2>1. Typed'
    BY <1>2 DEF IInv, Typed, ProcessTyped, RequestsTyped, LoadModel, settings, database, request, Services, Instances
  <2>2. cache = Fresh /\ cache' = [Fresh EXCEPT !["stt"] = Startup]
    BY <1>2 DEF IInv, Process, LoadModel
  <2>3. /\ cache'["stt"] = Startup
        /\ cache'["probe"] = None /\ cache'["worker"] = None /\ cache'["storage"] = None
    BY <2>2 DEF Fresh, Services
  <2>4. Process'
    BY <1>2, <2>3, ApiAssumption DEF IInv, Process, LoadModel, settings, database, request
  <2> QED
    BY <1>1, <2>1, <2>4 DEF IInv
<1>3. CASE LoadModelFails
  <2>1. Typed' /\ Process'
    BY <1>3 DEF IInv, Typed, ProcessTyped, RequestsTyped, Process, LoadModelFails, settings, services, database, request
  <2> QED
    BY <1>1, <2>1 DEF IInv
<1> QED
  BY <1>2, <1>3

LEMMA CrashInv == IInv /\ Crash => IInv'
<1> SUFFICES ASSUME IInv, Crash PROVE IInv'
  OBVIOUS
<1>1. Typed'
  <2>1. ProcessTyped'
    BY EmptyFacts, ProbeAssumption
       DEF IInv, Typed, ProcessTyped, Crash, settings, database, Instances
  <2>2. inside' \in [Requests -> 0..Depth] /\ log' \in [Requests -> Seq(Exceptions \cup Responses)]
    BY EmptyFacts, StackFacts DEF Crash
  <2>3. RequestsTyped'
    BY EmptyFacts, <2>2 DEF Crash, RequestsTyped, Routes, Headers
  <2> QED
    BY <2>1, <2>3 DEF Typed
<1>2. Process'
  BY EmptyFacts, ApiAssumption DEF IInv, Process, Crash, settings, database, Services
<1>3. ASSUME NEW q \in Requests PROVE Request(q)'
  BY EmptyFacts, ApiAssumption DEF Crash, Request, OnItsWay, Protected, Services
<1> QED
  BY <1>1, <1>2, <1>3 DEF IInv

------------------------------------------------------------------------------
(* The requests: first the steps that end one.                              *)

\* A step of a request leaves the caches alone.
LEMMA ProcessKept ==
  ASSUME IInv, phase = "serving", UNCHANGED <<phase, settings, cache, probe_of>>,
         table => table', submitted' => table'
  PROVE  Process'
  BY DEF IInv, Process, settings

\* The header of a request, written over itself.
LEMMA HeaderKept ==
  ASSUME IInv, NEW q \in Requests, header' = header
  PROVE  header[q] \in Headers /\ header' = [header EXCEPT ![q] = header[q]]
  BY DEF IInv, Typed, ProcessTyped, RequestsTyped

\* A request is ended without a change of the services, with a result that is right.
LEMMA EndOnly ==
  ASSUME IInv, NEW q \in Requests, NEW o \in Exceptions \cup {"ok"}, End(q, o),
         at[q] = "dependencies", phase = "serving",
         UNCHANGED <<phase, settings, services, table, header>>,
         submitted' \in BOOLEAN, submitted' => table,
         o # "AuthenticationError",
         route[q] \in Protected /\ ~Authorized(q) => o \in Refusals
  PROVE  IInv'
<1>1. Typed
  BY DEF IInv
<1>2. header[q] \in Headers /\ header' = [header EXCEPT ![q] = header[q]]
  BY HeaderKept
<1>3. table' = table /\ table' \in BOOLEAN
  BY <1>1 DEF Typed, ProcessTyped, RequestsTyped
<1>4. RequestsTyped' /\ \A d \in Requests : Request(d)'
  <2> DEFINE h == header[q]
  <2>1. route[q] \in Protected /\ ~ (environment = "development" \/ (h = token /\ token # ""))
          => o \in Refusals
    BY DEF Authorized
  <2>2. h \in Headers /\ header' = [header EXCEPT ![q] = h]
    BY <1>2
  <2>3. UNCHANGED <<phase, settings>> /\ (table => table')
    BY <1>3
  <2>4. o = "AuthenticationError" => environment = "staging"
    OBVIOUS
  <2> HIDE DEF h
  <2> QED
    BY <1>3, <2>1, <2>2, <2>3, <2>4, EndInv
<1>5. Typed'
  BY <1>1, <1>4 DEF Typed, ProcessTyped, services, settings
<1>6. Process'
  BY <1>3, ProcessKept DEF services
<1> QED
  BY <1>4, <1>5, <1>6 DEF IInv

LEMMA MakeFailsInv ==
  ASSUME IInv, NEW q \in Requests, MakeFails(q)
  PROVE  IInv'
<1>1. phase = "serving"
  BY Serving DEF MakeFails, NextTask
<1>2. route[q] \in Protected => Authorized(q)
  BY PastToken DEF MakeFails
<1>3. submitted' \in BOOLEAN /\ (submitted' => table)
  BY DEF MakeFails, database, IInv, Typed, ProcessTyped, RequestsTyped, Process
<1>4. "OperationalError" \in Exceptions /\ at[q] = "dependencies"
  BY DEF Exceptions, MakeFails, NextTask
<1> QED
  BY <1>1, <1>2, <1>3, <1>4, EndOnly DEF MakeFails, database

\* A route has been reached and answers.
LEMMA RouteInv ==
  ASSUME IInv, NEW q \in Requests, NEW r, Ready(q, r), NEW o \in {"ok", "OperationalError", "StorageError"},
         End(q, o), UNCHANGED <<phase, settings, services, table, header>>,
         submitted' \in BOOLEAN, submitted' => table
  PROVE  IInv'
<1>1. phase = "serving"
  BY Serving DEF Ready
<1>2. route[q] \in Protected => Authorized(q)
  BY ReadyAuthorized DEF Ready
<1>3. o \in Exceptions \cup {"ok"} /\ o # "AuthenticationError" /\ at[q] = "dependencies"
  BY DEF Exceptions, Ready
<1> QED
  BY <1>1, <1>2, <1>3, EndOnly

LEMMA AnswerHealthInv ==
  ASSUME IInv, NEW q \in Requests, AnswerHealth(q) \/ ReadTable(q)
  PROVE  IInv'
<1>1. submitted' \in BOOLEAN /\ (submitted' => table) /\ table' = table
  <2>1. submitted' = submitted /\ table' = table
    BY DEF AnswerHealth, ReadTable, database
  <2> QED
    BY <2>1 DEF IInv, Typed, ProcessTyped, Process
<1>2. PICK r : Ready(q, r)
  BY DEF AnswerHealth, ReadTable
<1>3. CASE AnswerHealth(q)
  BY <1>1, <1>2, <1>3, RouteInv DEF AnswerHealth
<1>4. CASE ReadTable(q)
  BY <1>1, <1>2, <1>4, RouteInv DEF ReadTable, UseTable
<1> QED
  BY <1>3, <1>4

LEMMA SubmitInv ==
  ASSUME IInv, NEW q \in Requests, Submit(q)
  PROVE  IInv'
<1>1. submitted \in BOOLEAN /\ table \in BOOLEAN /\ (submitted => table)
  BY DEF IInv, Typed, ProcessTyped, RequestsTyped, Process
<1>2. PICK o \in {"ok", "OperationalError", "StorageError"} :
        End(q, o) /\ (submitted' = (submitted \/ table) \/ submitted' = submitted)
  BY DEF Submit, UseTable
<1>3. submitted' \in BOOLEAN /\ (submitted' => table)
  BY <1>1, <1>2
<1> QED
  BY <1>2, <1>3, RouteInv DEF Submit

\* A check of the server changes what a probe remembers, and nothing else.
LEMMA CheckedInv ==
  ASSUME IInv, NEW q \in Requests, NEW r, Ready(q, r), NEW o \in {"ok", "OperationalError"},
         End(q, o), NEW p, NEW s \in ProbeStates, Check(p, s),
         UNCHANGED <<phase, settings, database, header>>
  PROVE  IInv'
<1>1. Typed /\ Process
  BY DEF IInv
<1>2. phase = "serving" /\ (route[q] \in Protected => Authorized(q))
  BY Serving, ReadyAuthorized DEF Ready
<1>3. header[q] \in Headers /\ header' = [header EXCEPT ![q] = header[q]]
  BY HeaderKept
<1>4. table' = table /\ table' \in BOOLEAN /\ submitted' \in BOOLEAN /\ (submitted' => table')
  BY <1>1 DEF Typed, ProcessTyped, RequestsTyped, Process, database
<1>5. o \in Exceptions \cup {"ok"} /\ o # "AuthenticationError" /\ at[q] = "dependencies"
  BY DEF Exceptions, Ready
<1>6. RequestsTyped' /\ \A d \in Requests : Request(d)'
  <2> DEFINE h == header[q]
  <2>1. route[q] \in Protected => environment = "development" \/ (h = token /\ token # "")
    BY <1>2 DEF Authorized
  <2>2. h \in Headers /\ header' = [header EXCEPT ![q] = h]
    BY <1>3
  <2> HIDE DEF h
  <2> QED
    BY <1>2, <1>4, <1>5, <2>1, <2>2, EndInv
<1>7. Typed'
  <2>1. ProcessTyped'
    BY <1>1, <1>4 DEF Typed, ProcessTyped, Check, settings
  <2> QED
    BY <1>6, <2>1 DEF Typed
<1>8. Process'
  BY <1>2, <1>4, ProcessKept DEF Check
<1> QED
  BY <1>6, <1>7, <1>8 DEF IInv

LEMMA CheckConnectivityInv ==
  ASSUME IInv, NEW q \in Requests, CheckConnectivity(q) \/ Drain(q)
  PROVE  IInv'
<1>1. CASE CheckConnectivity(q)
  BY <1>1, CheckedInv DEF CheckConnectivity
<1>2. CASE Drain(q)
  <2>1. PICK s \in ProbeStates :
          /\ Check(probe_of[use[q]["worker"]], s)
          /\ End(q, IF s = "OFFLINE" THEN "ok" ELSE UseTable)
    BY <1>2 DEF Drain
  <2>2. (IF s = "OFFLINE" THEN "ok" ELSE UseTable) \in {"ok", "OperationalError"}
    BY DEF UseTable
  <2> QED
    BY <1>2, <2>1, <2>2, CheckedInv DEF Drain
<1> QED
  BY <1>1, <1>2

------------------------------------------------------------------------------
(* The steps before the route.                                              *)

LEMMA ArriveInv ==
  ASSUME IInv, NEW q \in Requests, Arrive(q)
  PROVE  IInv'
<1>1. Typed /\ Process /\ Request(q)
  BY DEF IInv
<1>2. phase = "serving" /\ at[q] = "idle" /\ use[q] = Fresh /\ outcome[q] = "none"
  BY <1>1 DEF Arrive, Arriving, Request
<1>3. PICK r \in Routes :
        /\ route' = [route EXCEPT ![q] = r]
        /\ todo' = [todo EXCEPT ![q] = Needs(r)]
  BY DEF Arrive
<1>4. /\ at'[q] = "dependencies" /\ route'[q] = r /\ todo'[q] = Needs(r)
      /\ use'[q] = Fresh /\ outcome'[q] = "none" /\ inside'[q] = Depth /\ log'[q] = <<>>
      /\ \A d \in Requests : d # q => Same(d)
  BY <1>1, <1>2, <1>3 DEF Typed, RequestsTyped, Arrive, Same, Request, OnItsWay
<1>5. Pending(q)'
  <2>1. \A i \in 1..Len(Needs(r)) :
          Needs(r)[i] # <<"make", "stt">> /\ Needs(r)[i] # <<"make", "worker">>
    BY NeedsFacts
  <2>2. r = "submit" => 3 \in 1..Len(Needs(r)) /\ Needs(r)[3] = <<"get", "storage">>
    BY NeedsFacts
  <2>3. r \in Protected => Needs(r) # <<>> /\ Needs(r)[1] = <<"check", "token">>
    BY NeedsFacts
  <2> QED
    BY <1>4, <2>1, <2>2, <2>3 DEF Pending
<1>6. Request(q)'
  BY <1>4, <1>5, EmptyFacts, ApiAssumption DEF Request, OnItsWay, Refusals, Services
<1>7. ASSUME NEW d \in Requests PROVE Request(d)'
  BY <1>4, <1>6, Untouched DEF Arrive, database
<1>8. Typed'
  <2>1. Needs(r) \in Seq(Tasks)
    BY NeedsFacts
  <2> QED
    BY <1>1, <1>3, <2>1, StackFacts
       DEF Typed, ProcessTyped, RequestsTyped, Arrive, settings, services, database
<1>9. Process'
  BY <1>1, <1>2, ProcessKept DEF Arrive, services, database, Process
<1> QED
  BY <1>7, <1>8, <1>9 DEF IInv

\* A task that is done, the first of its request, leaves the rest pending.
LEMMA TaskDone ==
  ASSUME IInv, NEW q \in Requests, NEW t, NextTask(q, t),
         todo'[q] = Tail(todo[q]), route'[q] = route[q], table => table',
         use[q]["probe"] # None => use'[q]["probe"] # None,
         t \in {<<"get", "probe">>, <<"make", "probe">>} => use'[q]["probe"] # None,
         t \in {<<"get", "storage">>, <<"make", "storage">>} => table',
         route[q] \in Protected => Authorized(q)'
  PROVE  Pending(q)'
<1> DEFINE s == todo[q]
<1>1. s \in Seq(Tasks) /\ s # <<>> /\ Head(s) = t /\ Pending(q)
  BY DEF NextTask, IInv, Typed, RequestsTyped, Request
<1>2. /\ Len(s) \in Nat /\ Len(s) >= 1 /\ s[1] = t
      /\ Len(todo'[q]) = Len(s) - 1
      /\ \A i \in 1..Len(s) - 1 : todo'[q][i] = s[i + 1]
  BY <1>1, TailFacts
<1>3. \A i \in 1..Len(todo'[q]) : todo'[q][i] # <<"make", "stt">>
  BY <1>1, <1>2 DEF Pending
<1>4. ASSUME NEW i \in 1..Len(todo'[q]), todo'[q][i] = <<"make", "worker">>
      PROVE  \/ use'[q]["probe"] # None
             \/ \E k \in 1..(i - 1) : todo'[q][k] \in {<<"get", "probe">>, <<"make", "probe">>}
  <2>1. i + 1 \in 1..Len(s) /\ s[i + 1] = <<"make", "worker">>
    BY <1>2, <1>4
  <2>2. CASE use[q]["probe"] # None
    BY <2>2
  <2>3. CASE use[q]["probe"] = None
    <3>1. PICK k \in 1..i : s[k] \in {<<"get", "probe">>, <<"make", "probe">>}
      BY <1>1, <2>1, <2>3 DEF Pending
    <3>2. CASE k = 1
      BY <1>2, <3>1, <3>2
    <3>3. CASE k # 1
      <4>1. k - 1 \in 1..(i - 1) /\ k - 1 \in 1..Len(s) - 1 /\ (k - 1) + 1 = k
        BY <1>2, <3>3
      <4> QED
        BY <1>2, <3>1, <4>1
    <3> QED
      BY <3>2, <3>3
  <2> QED
    BY <2>2, <2>3
<1>5. ASSUME route'[q] = "submit", ~table'
      PROVE  \E i \in 1..Len(todo'[q]) : todo'[q][i] \in {<<"get", "storage">>, <<"make", "storage">>}
  <2>1. PICK i \in 1..Len(s) : s[i] \in {<<"get", "storage">>, <<"make", "storage">>}
    BY <1>1, <1>5 DEF Pending
  <2>2. i # 1
    BY <1>2, <1>5, <2>1
  <2>3. i - 1 \in 1..Len(s) - 1 /\ (i - 1) + 1 = i
    BY <1>2, <2>2
  <2> QED
    BY <1>2, <2>1, <2>3
<1> QED
  BY <1>3, <1>4, <1>5 DEF Pending

LEMMA CheckTokenInv ==
  ASSUME IInv, NEW q \in Requests, CheckToken(q)
  PROVE  IInv'
<1>1. Typed /\ Process /\ Request(q)
  BY DEF IInv
<1>2. PICK h \in Headers :
        /\ header' = [header EXCEPT ![q] = h]
        /\ IF TokenResult(h) = "ok"
           THEN todo' = [todo EXCEPT ![q] = Tail(@)] /\ UNCHANGED <<at, route, use, outcome, inside, log>>
           ELSE End(q, TokenResult(h))
  BY DEF CheckToken
<1>3. NextTask(q, <<"check", "token">>) /\ UNCHANGED <<phase, settings, services, database>>
  BY DEF CheckToken
<1>4. /\ at[q] = "dependencies" /\ outcome[q] = "none" /\ phase = "serving"
      /\ todo[q] \in Seq(Tasks) /\ todo[q] # <<>>
  BY <1>1, <1>3, Serving DEF NextTask, Request, Typed, RequestsTyped
<1>5. /\ TokenResult(h) \in {"ok", "AuthenticationError", "HTTPException"}
      /\ TokenResult(h) = "AuthenticationError" => environment = "staging"
      /\ TokenResult(h) = "ok" => environment = "development" \/ (h = token /\ token # "")
  BY <1>1, <1>4 DEF TokenResult, Process, Typed, ProcessTyped, Environments
<1>6. table' = table /\ submitted' = submitted /\ cache' = cache /\ probe_of' = probe_of
      /\ ProcessTyped'
  BY <1>1, <1>3 DEF services, settings, database, Typed, ProcessTyped
<1>7. Process'
  BY <1>1, <1>3, <1>4, <1>6, ProcessKept DEF Process
<1>8. CASE TokenResult(h) = "ok"
  <2>1. /\ at' = at /\ route' = route /\ use' = use /\ outcome' = outcome
        /\ inside' = inside /\ log' = log
        /\ todo'[q] = Tail(todo[q]) /\ header'[q] = h
        /\ \A d \in Requests : d # q => Same(d)
    BY <1>1, <1>2, <1>8 DEF Typed, RequestsTyped, Same
  <2>2. Authorized(q)'
    BY <1>3, <1>5, <1>8, <2>1 DEF Authorized, settings
  <2>3. Pending(q)'
    BY <1>3, <1>6, <2>1, <2>2, TaskDone
  <2>4. Request(q)'
    BY <1>1, <1>4, <2>1, <2>2, <2>3 DEF Request, OnItsWay
  <2>5. ASSUME NEW d \in Requests PROVE Request(d)'
    BY <1>3, <1>6, <2>1, <2>4, Untouched
  <2>6. RequestsTyped'
    <3>1. Tail(todo[q]) \in Seq(Tasks)
      BY <1>4, TailFacts
    <3> QED
      BY <1>1, <1>2, <1>8, <3>1 DEF Typed, RequestsTyped
  <2> QED
    BY <1>6, <1>7, <2>5, <2>6 DEF IInv, Typed
<1>9. CASE TokenResult(h) # "ok"
  <2> DEFINE o == TokenResult(h)
  <2>1. /\ o \in Exceptions \cup {"ok"} /\ o \in Refusals
        /\ o = "AuthenticationError" => environment = "staging"
        /\ End(q, o)
    BY <1>2, <1>5, <1>9 DEF Exceptions, Refusals
  <2>2. UNCHANGED <<phase, settings>> /\ (table => table') /\ table' \in BOOLEAN
    BY <1>3, <1>6 DEF ProcessTyped
  <2> HIDE DEF o
  <2>3. RequestsTyped' /\ \A d \in Requests : Request(d)'
    BY <1>2, <1>4, <2>1, <2>2, EndInv
  <2> QED
    BY <1>6, <1>7, <2>3 DEF IInv, Typed
<1> QED
  BY <1>8, <1>9

LEMMA LookupInv ==
  ASSUME IInv, NEW q \in Requests, NEW s \in Services, Lookup(q, s)
  PROVE  IInv'
<1> DEFINE l == todo[q]
<1>1. Typed /\ Process /\ Request(q)
  BY DEF IInv
<1>2. /\ NextTask(q, <<"get", s>>)
      /\ UNCHANGED <<phase, settings, services, database, at, route, header, outcome, inside, log>>
  BY DEF Lookup
<1>3. /\ at[q] = "dependencies" /\ phase = "serving" /\ Pending(q) /\ l \in Seq(Tasks) /\ l # <<>>
      /\ Len(l) \in Nat /\ Len(l) >= 1 /\ l[1] = <<"get", s>>
  BY <1>1, <1>2, Serving, TailFacts DEF NextTask, Request, Typed, RequestsTyped
<1>4. ProcessTyped' /\ table' = table
  BY <1>1, <1>2 DEF services, settings, database, Typed, ProcessTyped
<1>5. Process'
  BY <1>1, <1>2, <1>3, ProcessKept DEF Process, services, database
<1>6. route[q] \in Protected => Authorized(q)'
  <2>1. route[q] \in Protected => Authorized(q)
    BY <1>2, PastToken
  <2> QED
    BY <1>2, <2>1 DEF Authorized, settings
<1>7. /\ \A d \in Requests : d # q => Same(d)
      /\ Pending(q)' /\ RequestsTyped'
      /\ use'[q]["stt"] \in {None, Startup} /\ use'[q]["probe"] # Startup
  <2>1. CASE cache[s] # None
    <3>1. /\ use' = [use EXCEPT ![q][s] = cache[s]]
          /\ todo' = [todo EXCEPT ![q] = Tail(@)]
      BY <2>1 DEF Lookup
    <3>2. \A d \in Requests : d # q => Same(d)
      BY <1>1, <1>2, <3>1 DEF Same, Typed, RequestsTyped
    <3>3. use'[q][s] = cache[s] /\ \A r \in Services : r # s => use'[q][r] = use[q][r]
      BY <1>1, <3>1 DEF Typed, RequestsTyped
    <3>4. todo'[q] = Tail(l) /\ route'[q] = route[q]
      BY <1>1, <1>2, <3>1 DEF Typed, RequestsTyped
    <3>5. Pending(q)'
      <4>1. use[q]["probe"] # None => use'[q]["probe"] # None
        BY <2>1, <3>3 DEF Services
      <4>2. s = "probe" => use'[q]["probe"] # None
        BY <2>1, <3>3
      <4>3. s = "storage" => table'
        BY <1>1, <1>4, <2>1 DEF Process
      <4> QED
        BY <1>2, <1>4, <1>6, <3>4, <4>1, <4>2, <4>3, TaskDone
    <3>6. RequestsTyped'
      <4>1. Tail(l) \in Seq(Tasks) /\ cache[s] \in Instances
        BY <1>1, <1>3, TailFacts DEF Typed, ProcessTyped
      <4> QED
        BY <1>1, <1>2, <3>1, <4>1 DEF Typed, RequestsTyped
    <3>7. use'[q]["stt"] \in {None, Startup} /\ use'[q]["probe"] # Startup
      BY <1>1, <3>3 DEF Process, Request, Services
    <3> QED
      BY <3>2, <3>5, <3>6, <3>7
  <2>2. CASE cache[s] = None
    <3>1. todo' = [todo EXCEPT ![q] = Making(s) \o Tail(@)] /\ use' = use
      BY <2>2 DEF Lookup
    <3>2. \A d \in Requests : d # q => Same(d)
      BY <1>1, <1>2, <3>1 DEF Same, Typed, RequestsTyped
    <3>3. todo'[q] = Making(s) \o Tail(l) /\ route'[q] = route[q]
      BY <1>1, <1>2, <3>1 DEF Typed, RequestsTyped
    <3>4. s # "stt"
      BY <1>1, <1>3, <2>2, ApiAssumption DEF Process
    <3>5. \A r \in Services : <<"get", r>> \in Tasks /\ <<"make", r>> \in Tasks
      BY DEF Tasks
    <3>6. Making(s) \o Tail(l) \in Seq(Tasks) /\ Pending(q)'
      <4>1. CASE s = "worker"
        <5> DEFINE m == <<<<"get", "probe">>, <<"make", "worker">>>> \o Tail(l)
        <5>1. /\ m \in Seq(Tasks) /\ Len(m) = Len(l) + 1
              /\ m[1] = <<"get", "probe">> /\ m[2] = <<"make", "worker">>
              /\ \A i \in 3..Len(l) + 1 : m[i] = l[i - 1]
          BY <1>3, <3>5, ReplaceTwiceFacts DEF Services
        <5>2. todo'[q] = m /\ Making(s) \o Tail(l) = m
          BY <3>3, <4>1 DEF Making
        <5> HIDE DEF m
        <5>3. ASSUME NEW i \in 1..Len(m) PROVE m[i] # <<"make", "stt">>
          <6>1. CASE i \in {1, 2}
            BY <5>1, <6>1
          <6>2. CASE i \notin {1, 2}
            <7>1. i \in 3..Len(l) + 1 /\ i - 1 \in 1..Len(l)
              BY <1>3, <5>1, <6>2
            <7> QED
              BY <1>3, <5>1, <7>1 DEF Pending
          <6> QED
            BY <6>1, <6>2
        <5>4. ASSUME NEW i \in 1..Len(m), m[i] = <<"make", "worker">>
              PROVE  \E k \in 1..(i - 1) : m[k] \in {<<"get", "probe">>, <<"make", "probe">>}
          <6>1. i # 1
            BY <5>1, <5>4
          <6>2. 1 \in 1..(i - 1)
            BY <1>3, <5>1, <6>1
          <6> QED
            BY <5>1, <6>2
        <5>5. ASSUME route[q] = "submit", ~table
              PROVE  \E i \in 1..Len(m) : m[i] \in {<<"get", "storage">>, <<"make", "storage">>}
          <6>1. PICK i \in 1..Len(l) : l[i] \in {<<"get", "storage">>, <<"make", "storage">>}
            BY <1>3, <5>5 DEF Pending
          <6>2. i # 1
            BY <1>3, <4>1, <6>1
          <6>3. i + 1 \in 3..Len(l) + 1 /\ (i + 1) - 1 = i /\ i + 1 \in 1..Len(m)
            BY <1>3, <5>1, <6>2
          <6>4. m[i + 1] = l[i]
            BY <5>1, <6>3
          <6> QED
            BY <6>1, <6>3, <6>4
        <5> QED
          BY <1>4, <1>6, <3>1, <3>3, <5>1, <5>2, <5>3, <5>4, <5>5 DEF Pending
      <4>2. CASE s # "worker"
        <5> DEFINE m == <<<<"make", s>>>> \o Tail(l)
        <5>1. /\ m \in Seq(Tasks) /\ Len(m) = Len(l) /\ m[1] = <<"make", s>>
              /\ \A i \in 2..Len(l) : m[i] = l[i]
          BY <1>3, <3>5, ReplaceFacts
        <5>2. todo'[q] = m /\ Making(s) \o Tail(l) = m
          BY <3>3, <4>2 DEF Making
        <5> HIDE DEF m
        <5>3. \A i \in 1..Len(m) : m[i] # <<"make", "stt">>
          BY <1>3, <3>4, <5>1 DEF Pending
        <5>4. ASSUME NEW i \in 1..Len(m), m[i] = <<"make", "worker">>
              PROVE  \/ use[q]["probe"] # None
                     \/ \E k \in 1..(i - 1) : m[k] \in {<<"get", "probe">>, <<"make", "probe">>}
          <6>1. i \in 2..Len(l) /\ i \in 1..Len(l) /\ l[i] = <<"make", "worker">>
            BY <1>3, <4>2, <5>1, <5>4
          <6>2. CASE use[q]["probe"] = None
            <7>1. PICK k \in 1..(i - 1) : l[k] \in {<<"get", "probe">>, <<"make", "probe">>}
              BY <1>3, <6>1, <6>2 DEF Pending
            <7>2. m[k] \in {<<"get", "probe">>, <<"make", "probe">>}
              BY <1>3, <5>1, <6>1, <7>1
            <7> QED
              BY <7>2
          <6> QED
            BY <6>2
        <5>5. ASSUME route[q] = "submit", ~table
              PROVE  \E i \in 1..Len(m) : m[i] \in {<<"get", "storage">>, <<"make", "storage">>}
          <6>1. PICK i \in 1..Len(l) : l[i] \in {<<"get", "storage">>, <<"make", "storage">>}
            BY <1>3, <5>5 DEF Pending
          <6>2. m[i] \in {<<"get", "storage">>, <<"make", "storage">>} /\ i \in 1..Len(m)
            BY <1>3, <5>1, <6>1
          <6> QED
            BY <6>2
        <5>6. todo'[q] # <<>>
          BY <1>3, <5>1, <5>2
        <5> QED
          BY <1>4, <1>6, <3>1, <3>3, <5>1, <5>2, <5>3, <5>4, <5>5 DEF Pending
      <4> QED
        BY <4>1, <4>2
    <3>7. RequestsTyped'
      BY <1>1, <1>2, <3>1, <3>6 DEF Typed, RequestsTyped
    <3> QED
      BY <1>1, <3>1, <3>2, <3>6, <3>7 DEF Request
  <2> QED
    BY <2>1, <2>2
<1>8. Request(q)'
  BY <1>1, <1>2, <1>3, <1>6, <1>7 DEF Request, OnItsWay, settings
<1>9. ASSUME NEW d \in Requests PROVE Request(d)'
  BY <1>2, <1>4, <1>7, <1>8, Untouched
<1> QED
  BY <1>4, <1>5, <1>7, <1>9 DEF IInv, Typed

LEMMA MakeInv ==
  ASSUME IInv, NEW q \in Requests, NEW s \in Services, Make(q, s)
  PROVE  IInv'
<1> DEFINE l == todo[q]
<1>1. Typed /\ Process /\ Request(q)
  BY DEF IInv
<1>2. /\ NextTask(q, <<"make", s>>)
      /\ cache' = Cached(s, q)
      /\ probe_of' = IF s = "worker" THEN [probe_of EXCEPT ![q] = use[q]["probe"]] ELSE probe_of
      /\ table' = SchemaExists(s)
      /\ use' = [use EXCEPT ![q][s] = q]
      /\ todo' = [todo EXCEPT ![q] = Tail(@)]
      /\ UNCHANGED <<phase, settings, last_state, submitted, at, route, header, outcome,
                     inside, log>>
  BY DEF Make
<1>3. /\ at[q] = "dependencies" /\ phase = "serving" /\ Pending(q) /\ l \in Seq(Tasks) /\ l # <<>>
      /\ Len(l) \in Nat /\ Len(l) >= 1 /\ l[1] = <<"make", s>>
  BY <1>1, <1>2, Serving, TailFacts DEF NextTask, Request, Typed, RequestsTyped
<1>4. /\ q # None /\ q # Startup
      /\ \A d \in Requests : d # q => Same(d)
      /\ use'[q][s] = q /\ \A r \in Services : r # s => use'[q][r] = use[q][r]
      /\ todo'[q] = Tail(l) /\ route'[q] = route[q]
  BY <1>1, <1>2, ApiAssumption DEF Same, Typed, RequestsTyped
<1>5. s # "stt"
  BY <1>3 DEF Pending
<1>6. s = "worker" => use[q]["probe"] \in Requests
  <2>1. s = "worker" => use[q]["probe"] # None
    BY <1>3 DEF Pending
  <2> QED
    BY <1>1, <2>1 DEF Typed, RequestsTyped, Request, Instances, Services
<1>7. /\ cache' = [cache EXCEPT ![s] = IF @ = None THEN q ELSE @]
      /\ table' \in BOOLEAN /\ (table => table') /\ (s = "storage" => table')
  BY <1>1, <1>2 DEF Cached, SchemaExists, Typed, ProcessTyped
<1>8. /\ cache'[s] = (IF cache[s] = None THEN q ELSE cache[s])
      /\ \A r \in Services : r # s => cache'[r] = cache[r]
  BY <1>1, <1>7 DEF Typed, ProcessTyped
<1>9. ProcessTyped'
  <2>1. cache' \in [Services -> Instances]
    BY <1>1, <1>7 DEF Typed, ProcessTyped, Instances
  <2>2. probe_of' \in [Requests -> Requests \cup {None}]
    BY <1>1, <1>2, <1>6 DEF Typed, ProcessTyped
  <2> QED
    BY <1>1, <1>2, <1>7, <2>1, <2>2 DEF Typed, ProcessTyped, settings
<1>10. RequestsTyped'
  <2>1. Tail(l) \in Seq(Tasks)
    BY <1>3, TailFacts
  <2>2. todo' \in [Requests -> Seq(Tasks)] /\ use' \in [Requests -> [Services -> Instances]]
    BY <1>1, <1>2, <2>1 DEF Typed, RequestsTyped, Instances
  <2> QED
    BY <1>1, <1>2, <2>2 DEF Typed, RequestsTyped
<1>11. Process'
  <2>1. cache'["stt"] = cache["stt"] /\ cache'["probe"] # Startup
    BY <1>1, <1>4, <1>5, <1>8 DEF Process, Services
  <2>2. cache'["worker"] # None =>
          cache'["worker"] \in Requests /\ probe_of'[cache'["worker"]] # None
    <3>1. CASE s = "worker"
      <4>1. cache'["worker"] \in Requests
        BY <1>1, <1>8, <3>1 DEF Process
      <4>2. probe_of'[q] # None /\ \A d \in Requests : d # q => probe_of'[d] = probe_of[d]
        BY <1>1, <1>2, <1>6, <3>1, ApiAssumption DEF Typed, ProcessTyped
      <4>3. cache'["worker"] # q => cache'["worker"] = cache["worker"] /\ cache["worker"] # None
        BY <1>8, <3>1
      <4> QED
        BY <1>1, <4>1, <4>2, <4>3 DEF Process
    <3>2. CASE s # "worker"
      BY <1>1, <1>2, <1>8, <3>2 DEF Process, Services
    <3> QED
      BY <3>1, <3>2
  <2>3. cache'["storage"] # None => table'
    BY <1>1, <1>7, <1>8 DEF Process, Services
  <2> QED
    BY <1>1, <1>2, <1>3, <1>7, <2>1, <2>2, <2>3 DEF Process, settings
<1>12. Pending(q)'
  <2>1. use[q]["probe"] # None => use'[q]["probe"] # None
    BY <1>4 DEF Services
  <2>2. route[q] \in Protected => Authorized(q)'
    <3>1. route[q] \in Protected => Authorized(q)
      BY <1>2, PastToken
    <3> QED
      BY <1>2, <3>1 DEF Authorized, settings
  <2> QED
    BY <1>2, <1>4, <1>7, <2>1, <2>2, TaskDone
<1>13. Request(q)'
  <2>1. use'[q]["stt"] \in {None, Startup} /\ use'[q]["probe"] # Startup
    BY <1>1, <1>4, <1>5 DEF Request, Services
  <2>2. outcome'[q] = outcome[q] /\ at'[q] = at[q] /\ environment' = environment
        /\ outcome[q] = "none"
    BY <1>1, <1>2, <1>3 DEF Request, settings
  <2>3. OnItsWay(q)'
    BY <1>1, <1>2, <1>3 DEF Request, OnItsWay
  <2> QED
    BY <1>1, <1>3, <1>12, <2>1, <2>2, <2>3 DEF Request, Refusals
<1>14. ASSUME NEW d \in Requests PROVE Request(d)'
  BY <1>2, <1>4, <1>7, <1>13, Untouched
<1> QED
  BY <1>9, <1>10, <1>11, <1>14 DEF IInv, Typed

------------------------------------------------------------------------------
(* The way out.                                                             *)

\* A step through the stack changes nothing but the one request: right if what it has
\* made of it is.
LEMMA StackInv ==
  ASSUME IInv, NEW q \in Requests, at'[q] # "dependencies", use'[q] = Fresh,
         phase = "serving", UNCHANGED <<phase, settings, services, database, use>>,
         RequestsTyped', \A d \in Requests : d # q => Same(d),
         at'[q] # "leaving" => outcome'[q] = "none",
         outcome'[q] = "AuthenticationError" => environment = "staging",
         (route[q] \in Protected /\ ~Authorized(q))' => outcome'[q] \in Refusals,
         OnItsWay(q)'
  PROVE  IInv'
<1>1. Typed /\ Process
  BY DEF IInv
<1>2. table' = table /\ submitted' = submitted /\ environment' = environment
  BY DEF database, settings
<1>3. Request(q)'
  BY <1>2, EmptyFacts, ApiAssumption DEF Request, Services
<1>4. ASSUME NEW d \in Requests PROVE Request(d)'
  BY <1>2, <1>3, <1>4, Untouched
<1>5. ProcessTyped'
  BY <1>1 DEF Typed, ProcessTyped, settings, services, database
<1>6. Process'
  BY <1>1, <1>2, ProcessKept DEF services, Process
<1> QED
  BY <1>4, <1>5, <1>6 DEF IInv, Typed

LEMMA ThrottleInv ==
  ASSUME IInv, NEW q \in Requests, Throttle(q)
  PROVE  IInv'
<1>1. Typed /\ Process /\ Request(q)
  BY DEF IInv
<1>2. PICK i \in 1..Depth :
        Stack[i] = "rate_limit" /\ inside' = [inside EXCEPT ![q] = i - 1]
  BY DEF Throttle
<1>3. i = 3
  BY <1>2, StackFacts
<1>4. /\ phase = "serving" /\ at[q] = "idle" /\ use[q] = Fresh /\ log[q] = <<>>
      /\ UNCHANGED <<phase, settings, services, database, route, header, todo, use, log>>
  BY <1>1 DEF Throttle, Arriving, Request, OnItsWay
<1>5. /\ at'[q] = "leaving" /\ outcome'[q] = "429" /\ inside'[q] = 2 /\ log'[q] = <<>>
      /\ \A d \in Requests : d # q => Same(d)
  BY <1>1, <1>2, <1>3, <1>4 DEF Typed, RequestsTyped, Throttle, Same
<1>6. RequestsTyped'
  <2>1. i - 1 \in 0..Depth /\ inside' \in [Requests -> 0..Depth]
    BY <1>1, <1>2, <1>3, StackFacts DEF Typed, RequestsTyped
  <2> QED
    BY <1>1, <1>4, <2>1 DEF Typed, RequestsTyped, Throttle, Responses
<1>7. OnItsWay(q)'
  BY <1>5 DEF OnItsWay
<1> QED
  BY <1>4, <1>5, <1>6, <1>7, StackInv DEF Refusals

\* What the layers have in common.
LEMMA LeavingFacts ==
  ASSUME IInv, NEW q \in Requests, NEW layer, Leaving(q, layer)
  PROVE  /\ phase = "serving" /\ at[q] = "leaving" /\ use[q] = Fresh
         /\ inside[q] \in 1..Depth /\ Stack[inside[q]] = layer
         /\ inside' \in [Requests -> 0..Depth] /\ inside'[q] = inside[q] - 1
         /\ \A d \in Requests : d # q => inside'[d] = inside[d]
         /\ UNCHANGED <<phase, settings, services, database, at, route, header, todo, use>>
         /\ Authorized(q)' <=> Authorized(q)
<1>1. Typed /\ Request(q) /\ at[q] = "leaving"
  BY DEF IInv, Leaving
<1>2. phase = "serving" /\ use[q] = Fresh
  BY <1>1, Serving DEF Request
<1>3. inside[q] \in 1..Depth
  BY <1>1, StackFacts DEF Leaving, Typed, RequestsTyped
<1>4. inside' \in [Requests -> 0..Depth] /\ inside'[q] = inside[q] - 1
      /\ \A d \in Requests : d # q => inside'[d] = inside[d]
  <2>1. inside[q] - 1 \in 0..Depth /\ inside' = [inside EXCEPT ![q] = inside[q] - 1]
    BY <1>3, StackFacts DEF Leaving
  <2> QED
    BY <1>1, <2>1 DEF Typed, RequestsTyped
<1>5. Authorized(q)' <=> Authorized(q)
  BY DEF Leaving, Authorized, settings
<1> QED
  BY <1>1, <1>2, <1>3, <1>4, <1>5 DEF Leaving

\* What is raised is handled or goes on, and what a token is refused with is handled.
LEMMA HandleFacts ==
  /\ \A o \in Exceptions \cup Responses : Handle(o) \in Exceptions \cup Responses
  /\ \A o \in Exceptions \cup Responses : Handle(o) # "AuthenticationError"
  /\ \A o \in Refusals \ {"none"} : Handle(o) \in {"401", "429"}
  BY DEF Handle, HandlerOf, Handled, Base, Exceptions, Responses, Refusals

LEMMA HandleExceptionInv ==
  ASSUME IInv, NEW q \in Requests, HandleException(q)
  PROVE  IInv'
<1>1. Typed /\ Request(q)
  BY DEF IInv
<1>2. /\ Leaving(q, "exceptions") /\ log' = log
      /\ outcome' = [outcome EXCEPT ![q] = Handle(outcome[q])]
  BY DEF HandleException
<1>3. inside[q] = 5 /\ inside'[q] = 4 /\ log[q] = <<>> /\ outcome[q] \in Exceptions \cup Responses
  <2>1. inside[q] = 5
    BY <1>2, LeavingFacts, StackFacts
  <2> QED
    BY <1>1, <1>2, <2>1, LeavingFacts DEF Request, OnItsWay, Typed, RequestsTyped
<1>4. outcome'[q] = Handle(outcome[q]) /\ Handle(outcome[q]) \in Exceptions \cup Responses
      /\ outcome'[q] # "AuthenticationError"
  BY <1>1, <1>2, <1>3, HandleFacts DEF Typed, RequestsTyped
<1>5. (route[q] \in Protected /\ ~Authorized(q))' => outcome'[q] \in {"401", "429"}
  BY <1>1, <1>2, <1>3, <1>4, HandleFacts, LeavingFacts DEF Request, Exceptions, Responses
<1>6. \A d \in Requests : d # q => Same(d)
  BY <1>1, <1>2, LeavingFacts DEF Same, Typed, RequestsTyped
<1>7. RequestsTyped'
  BY <1>1, <1>2, <1>3, <1>4, LeavingFacts, StackFacts DEF Typed, RequestsTyped
<1>8. OnItsWay(q)'
  <2>1. outcome'[q] # "none"
    BY <1>4 DEF Exceptions, Responses
  <2> QED
    BY <1>2, <1>3, <1>5, <2>1, LeavingFacts DEF OnItsWay
<1> QED
  BY <1>2, <1>4, <1>5, <1>6, <1>7, <1>8, LeavingFacts, StackInv DEF Refusals

LEMMA PassOnInv ==
  ASSUME IInv, NEW q \in Requests, PassOn(q)
  PROVE  IInv'
<1>1. Typed /\ Request(q)
  BY DEF IInv
<1>2. PICK layer \in {"rate_limit", "cors"} : Leaving(q, layer)
  BY DEF PassOn
<1>3. inside[q] \in {3, 4} /\ inside'[q] = inside[q] - 1 /\ UNCHANGED <<outcome, log>>
  BY <1>2, LeavingFacts, StackFacts DEF PassOn
<1>4. \A d \in Requests : d # q => Same(d)
  BY <1>1, <1>2, <1>3, LeavingFacts DEF Same, Typed, RequestsTyped
<1>5. RequestsTyped'
  BY <1>1, <1>2, <1>3, LeavingFacts, StackFacts DEF Typed, RequestsTyped
<1>6. OnItsWay(q)'
  BY <1>1, <1>2, <1>3, LeavingFacts, StackFacts DEF Request, OnItsWay
<1> QED
  BY <1>1, <1>2, <1>3, <1>4, <1>5, <1>6, LeavingFacts, StackInv DEF Request

LEMMA AuditInv ==
  ASSUME IInv, NEW q \in Requests, Audit(q)
  PROVE  IInv'
<1>1. Typed /\ Request(q)
  BY DEF IInv
<1>2. /\ Leaving(q, "audit") /\ outcome' = outcome
      /\ log' = [log EXCEPT ![q] = Append(log[q], outcome[q])]
  BY DEF Audit
<1>3. /\ inside[q] = 2 /\ inside'[q] = 1 /\ log[q] = <<>>
      /\ outcome[q] \in Exceptions \cup Responses
  <2>1. inside[q] = 2
    BY <1>2, LeavingFacts, StackFacts
  <2> QED
    BY <1>1, <1>2, <2>1, LeavingFacts DEF Request, OnItsWay, Typed, RequestsTyped
<1>4. /\ log'[q] = Append(<<>>, outcome[q]) /\ log'[q] \in Seq(Exceptions \cup Responses)
      /\ Len(log'[q]) = 1 /\ log'[q][1] = outcome[q]
  BY <1>1, <1>2, <1>3 DEF Typed, RequestsTyped
<1>5. \A d \in Requests : d # q => Same(d)
  BY <1>1, <1>2, LeavingFacts DEF Same, Typed, RequestsTyped
<1>6. RequestsTyped'
  BY <1>1, <1>2, <1>3, <1>4, LeavingFacts, StackFacts DEF Typed, RequestsTyped
<1>7. OnItsWay(q)'
  BY <1>1, <1>2, <1>3, <1>4, LeavingFacts, StackFacts DEF Request, OnItsWay
<1> QED
  BY <1>1, <1>2, <1>5, <1>6, <1>7, LeavingFacts, StackInv DEF Request

LEMMA AnswerErrorInv ==
  ASSUME IInv, NEW q \in Requests, AnswerError(q)
  PROVE  IInv'
<1>1. Typed /\ Request(q)
  BY DEF IInv
<1>2. /\ Leaving(q, "server_errors") /\ log' = log
      /\ outcome' = [outcome EXCEPT ![q] = IF outcome[q] \in Exceptions THEN "500" ELSE outcome[q]]
  BY DEF AnswerError
<1>3. inside[q] = 1 /\ inside'[q] = 0 /\ outcome[q] \in Exceptions \cup Responses
  <2>1. inside[q] = 1
    BY <1>2, LeavingFacts, StackFacts
  <2> QED
    BY <1>1, <1>2, <2>1, LeavingFacts DEF Request, OnItsWay, Typed, RequestsTyped
<1>4. outcome'[q] = IF outcome[q] \in Exceptions THEN "500" ELSE outcome[q]
  BY <1>1, <1>2 DEF Typed, RequestsTyped
<1>5. outcome'[q] \in Responses
  BY <1>3, <1>4 DEF Responses
<1>6. (route[q] \in Protected /\ ~Authorized(q))' => outcome'[q] \in {"401", "429"}
  BY <1>1, <1>2, <1>3, <1>4, LeavingFacts, StackFacts DEF Request, OnItsWay, Exceptions
<1>7. \A d \in Requests : d # q => Same(d)
  BY <1>1, <1>2, LeavingFacts DEF Same, Typed, RequestsTyped
<1>8. RequestsTyped'
  BY <1>1, <1>2, <1>3, <1>4, <1>5, LeavingFacts, StackFacts DEF Typed, RequestsTyped
<1>9. OnItsWay(q)'
  <2>1. Len(log[q]) = 1 /\ (log[q][1] = outcome[q] \/ (log[q][1] \in Exceptions /\ outcome[q] = "500"))
    BY <1>1, <1>2, <1>3, LeavingFacts DEF Request, OnItsWay
  <2>2. log'[q] = log[q] /\ (log[q][1] = outcome'[q] \/ (log[q][1] \in Exceptions /\ outcome'[q] = "500"))
    BY <1>2, <1>4, <2>1
  <2>3. outcome'[q] # "none"
    BY <1>5 DEF Responses
  <2> QED
    BY <1>2, <1>3, <1>6, <2>1, <2>2, <2>3, LeavingFacts DEF OnItsWay
<1>10. outcome'[q] # "AuthenticationError"
  BY <1>5 DEF Responses
<1> QED
  BY <1>2, <1>6, <1>7, <1>8, <1>9, <1>10, LeavingFacts, StackInv DEF Refusals

LEMMA DepartInv ==
  ASSUME IInv, NEW q \in Requests, Depart(q)
  PROVE  IInv'
<1>1. Typed /\ Process /\ Request(q) /\ at[q] = "leaving" /\ inside[q] = 0
  BY DEF IInv, Depart, Answered
<1>2. phase = "serving" /\ use[q] = Fresh
  BY <1>1, Serving DEF Request
<1>3. /\ at'[q] = "idle" /\ route'[q] = "health" /\ outcome'[q] = "none"
      /\ inside'[q] = 0 /\ log'[q] = <<>>
      /\ \A d \in Requests : d # q => Same(d)
  BY <1>1 DEF Typed, RequestsTyped, Depart, Same
<1>4. RequestsTyped'
  <2>1. None \in Headers /\ "health" \in Routes
    BY DEF Headers, Routes
  <2> QED
    BY <1>1, <2>1, EmptyFacts DEF Typed, RequestsTyped, Depart
<1>5. OnItsWay(q)' /\ route'[q] \notin Protected
  BY <1>3 DEF OnItsWay, Protected
<1> QED
  BY <1>2, <1>3, <1>4, <1>5, StackInv DEF Depart

------------------------------------------------------------------------------
(* The theorems                                                             *)

LEMMA StutterInv == IInv /\ UNCHANGED vars => IInv'
<1> SUFFICES ASSUME IInv, UNCHANGED vars PROVE IInv'
  OBVIOUS
<1>1. Typed' /\ Process'
  BY DEF IInv, Typed, ProcessTyped, RequestsTyped, Process, vars, settings, services, database, request
<1>2. ASSUME NEW d \in Requests PROVE Request(d)'
  <2>1. Same(d) /\ UNCHANGED settings /\ (table => table')
    BY DEF Same, vars, settings, database, request
  <2> QED
    BY <2>1, Untouched
<1> QED
  BY <1>1, <1>2 DEF IInv

LEMMA NextInv == IInv /\ [Next]_vars => IInv'
<1> SUFFICES ASSUME IInv, Next PROVE IInv'
  BY StutterInv
<1>1. CASE Start \/ LoadModel \/ LoadModelFails \/ Crash
  BY <1>1, StartInv, LoadModelInv, CrashInv
<1>2. ASSUME NEW q \in Requests, Throttle(q) \/ Arrive(q) \/ CheckToken(q) \/ MakeFails(q)
      PROVE  IInv'
  BY <1>2, ThrottleInv, ArriveInv, CheckTokenInv, MakeFailsInv
<1>3. ASSUME NEW q \in Requests, NEW s \in Services, Lookup(q, s) \/ Make(q, s)
      PROVE  IInv'
  BY <1>3, LookupInv, MakeInv
<1>4. ASSUME NEW q \in Requests,
             \/ AnswerHealth(q) \/ ReadTable(q) \/ Submit(q)
             \/ CheckConnectivity(q) \/ Drain(q)
      PROVE  IInv'
  BY <1>4, AnswerHealthInv, SubmitInv, CheckConnectivityInv
<1>5. ASSUME NEW q \in Requests,
             HandleException(q) \/ PassOn(q) \/ Audit(q) \/ AnswerError(q) \/ Depart(q)
      PROVE  IInv'
  BY <1>5, HandleExceptionInv, PassOnInv, AuditInv, AnswerErrorInv, DepartInv
<1> QED
  BY <1>1, <1>2, <1>3, <1>4, <1>5 DEF Next

\* The invariant holds throughout.
THEOREM Invariance == Spec => []IInv
  BY InitInv, NextInv, PTL DEF Spec

\* Type correctness, with a probe for the worker that all requests share.
THEOREM TypeCorrect == Spec => []TypeOK
<1>1. IInv => TypeOK
  <2> SUFFICES ASSUME IInv PROVE TypeOK
    OBVIOUS
  <2>1. ASSUME NEW q \in Requests, NEW i \in DOMAIN todo[q] PROVE todo[q][i] \in Tasks
    BY DEF IInv, Typed, RequestsTyped
  <2>2. ASSUME NEW q \in Requests, NEW i \in DOMAIN log[q]
        PROVE  log[q][i] \in Exceptions \cup Responses
    BY DEF IInv, Typed, RequestsTyped
  <2> QED
    BY <2>1, <2>2 DEF IInv, Typed, ProcessTyped, RequestsTyped, Process, TypeOK, Instances
<1> QED
  BY Invariance, <1>1, PTL

\* Outside development nothing but the token opens the protected routes
\* (require_api_token, handle_auth_error).
THEOREM TokenRequired == Spec => []OnlyTokenOpens
<1>1. ASSUME IInv, NEW q \in Requests, route[q] \in Protected, ~Authorized(q)
      PROVE  use[q] = Fresh /\ (Answered(q) => outcome[q] \in {"401", "429"})
  <2>1. Request(q) /\ at[q] \in {"idle", "dependencies", "leaving"}
    BY <1>1 DEF IInv, Typed, RequestsTyped
  <2>2. use[q] = Fresh
    BY <1>1, <2>1 DEF Request, Pending
  <2>3. Answered(q) => outcome[q] \in {"401", "429"}
    BY <1>1, <2>1, StackFacts DEF Request, OnItsWay, Answered
  <2> QED
    BY <2>2, <2>3
<1>2. IInv => OnlyTokenOpens
  BY <1>1 DEF OnlyTokenOpens
<1> QED
  BY Invariance, <1>2, PTL

\* In production no request finds the token missing (validate_production_secrets).
THEOREM TokenConfigured == Spec => []ProductionConfigured
<1>1. IInv => ProductionConfigured
  BY DEF IInv, Request, ProductionConfigured
<1> QED
  BY Invariance, <1>1, PTL

\* The model is loaded before the first request (lifespan, get_stt_service).
THEOREM LoadedBefore == Spec => []ModelLoadedBefore
<1>1. IInv => ModelLoadedBefore
  BY DEF IInv, Request, ModelLoadedBefore
<1> QED
  BY Invariance, <1>1, PTL

\* A job finds its tables, and after the first one so does everybody
\* (SQLiteStorageService.__init__, get_pipeline).
THEOREM TableExists == Spec => []TableWhenNeeded
<1>1. ASSUME IInv, NEW q \in Requests, Ready(q, "submit") PROVE table
  BY <1>1 DEF IInv, Request, Pending, Ready
<1>2. IInv => TableWhenNeeded
  BY <1>1 DEF IInv, Process, TableWhenNeeded, UseTable
<1> QED
  BY Invariance, <1>2, PTL

\* Whoever is answered has its line in the audit log, and the line tells the answer, or
\* the exception behind it (AuditLoggingMiddleware.dispatch, and its place in main.py).
THEOREM Audited == Spec => []AnswersAudited
<1>1. IInv => AnswersAudited
  BY DEF IInv, Request, OnItsWay, Answered, AnswersAudited
<1> QED
  BY Invariance, <1>1, PTL
=============================================================================
