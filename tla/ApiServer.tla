------------------------------- MODULE ApiServer -------------------------------
(***************************************************************************)
(* The API process around the pipeline and the queue: its startup, the     *)
(* middleware, the bearer token, and the services that its routes share    *)
(* (src/src/api, src/src/config/settings.py).                              *)
(*                                                                         *)
(* The services are made by functions under @lru_cache, in the pool        *)
(* threads that resolve a request's dependencies.  lru_cache holds no lock *)
(* while the function runs: requests that miss at the same time construct  *)
(* a service each; the first to be done is cached, and the others keep     *)
(* theirs for the one request.  An instance is named after the request     *)
(* that constructed it, which is unique within the life of a process.      *)
(***************************************************************************)
EXTENDS Naturals, Sequences

CONSTANTS Requests,     \* requests that may be under way at the same time
          ProbeStates,  \* what a connectivity check may find
          Startup,      \* stands for the startup, where it constructs a service
          None          \* no instance, or no header

ASSUME ApiAssumption == None \notin Requests \cup {Startup} /\ Startup \notin Requests
ASSUME ProbeAssumption == "OFFLINE" \in ProbeStates /\ ProbeStates \subseteq {"ONLINE", "DEGRADED", "OFFLINE"}

Environments == {"development", "staging", "production"}

\* "" is a setting left at its default.
Tokens == {"", "secret"}

\* The Authorization headers a client may send: none, or "Bearer " and one of these.
Headers == {None, "", "secret", "guess"}

Services == {"stt", "storage", "probe", "worker"}

Routes == {"health", "ready", "submit", "job", "drain", "status", "connectivity"}

VARIABLES
  phase,          \* of the process: "down", "starting" or "serving"
  environment,    \* settings.environment
  token,          \* settings.api_auth_token
  cache,          \* what the lru_cache of each service holds
  probe_of,       \* the ConnectivityProbe each SyncQueueWorker was given
  last_state,     \* _last_state of each probe
  table,          \* the database has its schema
  submitted,      \* a job has been accepted, in this process or an earlier one
  at,             \* where each request is
  route, header,  \* what it asks for
  todo,           \* what is left of its dependencies
  use,            \* the instances it has been given
  outcome,        \* what was returned, or raised, and is on its way out
  inside,         \* how many layers of the stack it is inside of
  log             \* its lines in the audit log

settings == <<environment, token>>
services == <<cache, probe_of, last_state>>
request  == <<at, route, header, todo, use, outcome, inside, log>>
database == <<table, submitted>>
vars     == <<phase, settings, services, database, request>>

------------------------------------------------------------------------------
(* Exceptions, and the status each becomes.                                 *)

Exceptions == {"Exception", "HTTPException", "OperationalError", "FieldOpsIQError",
               "AuthenticationError", "StorageError"}

Base(e) ==
  IF e \in {"AuthenticationError", "StorageError"} THEN "FieldOpsIQError" ELSE "Exception"

\* The classes with a handler: the framework's own, and those of main.py.
Handled == {"HTTPException", "AuthenticationError", "FieldOpsIQError"}

\* The handler of the nearest class is taken, in whatever order they were added.
HandlerOf(e) == IF e \in Handled THEN e ELSE IF Base(e) \in Handled THEN Base(e) ELSE "Exception"

\* What a client may be answered: the result of the route, or one of these.
Responses == {"ok", "401", "429", "500"}

\* The handler's answer to what was raised; what has no handler goes on as it is.
Handle(o) ==
  CASE o \in Responses -> o
    [] o \in Exceptions /\ HandlerOf(o) = "Exception" -> o
    [] o \in Exceptions /\ HandlerOf(o) \in {"HTTPException", "AuthenticationError"} -> "401"
    [] o \in Exceptions /\ HandlerOf(o) = "FieldOpsIQError" -> "500"

------------------------------------------------------------------------------
(* The stack of middleware.                                                 *)

\* Mutant of Added: the rate limiter is added after the audit log.
AddedAuditFirst == <<"cors", "audit", "rate_limit">>

\* The calls of add_middleware in main.py, in their order.
Added == <<"cors", "rate_limit", "audit">>

Depth == Len(Added) + 2

\* From the outside: a layer that answers 500 to whatever has been raised, the middleware,
\* the last added first, and the exception handlers around the routes.
Stack ==
  [i \in 1..Depth |->
     CASE i = 1 -> "server_errors"
       [] i \in 2..(Depth - 1) -> Added[Depth - i]
       [] i = Depth -> "exceptions"]

------------------------------------------------------------------------------
(* Startup: lifespan()                                                      *)

\* Mutant of MissingSecrets: production needs the secrets of the sync only.
MissingSyncSecrets(env, tok, key, sync_enabled) ==
  env = "production" /\ sync_enabled /\ key = ""

\* validate_production_secrets
MissingSecrets(env, tok, key, sync_enabled) ==
  /\ env = "production"
  /\ tok = "" \/ (sync_enabled /\ key = "")

Fresh == [s \in Services |-> None]

Init ==
  /\ phase = "down"
  /\ environment = "development"
  /\ token = ""
  /\ cache = Fresh
  /\ probe_of = [q \in Requests |-> None]
  /\ last_state = [q \in Requests |-> "OFFLINE"]
  /\ table = FALSE
  /\ submitted = FALSE
  /\ at = [q \in Requests |-> "idle"]
  /\ route = [q \in Requests |-> "health"]
  /\ header = [q \in Requests |-> None]
  /\ todo = [q \in Requests |-> <<>>]
  /\ use = [q \in Requests |-> Fresh]
  /\ outcome = [q \in Requests |-> "none"]
  /\ inside = [q \in Requests |-> 0]
  /\ log = [q \in Requests |-> <<>>]

\* The process reads its settings.  With a secret missing it ends at once: for the
\* state kept here, as if it had not been started.
Start ==
  /\ phase = "down"
  /\ \E env \in Environments, tok \in Tokens, key \in {"", "key"}, sync_enabled \in BOOLEAN :
       /\ ~MissingSecrets(env, tok, key, sync_enabled)
       /\ environment' = env
       /\ token' = tok
  /\ phase' = "starting"
  /\ UNCHANGED <<services, database, request>>

\* Mutant of LoadModel: the model is left to the first request.
LoadModelLater ==
  /\ phase = "starting"
  /\ phase' = "serving"
  /\ UNCHANGED <<settings, services, database, request>>

\* get_stt_service() loads the model before the first request is accepted ...
LoadModel ==
  /\ phase = "starting"
  /\ phase' = "serving"
  /\ cache' = [cache EXCEPT !["stt"] = Startup]
  /\ UNCHANGED <<settings, probe_of, last_state, database, request>>

\* ... or raises a TranscriptionError, and the process ends.
LoadModelFails ==
  /\ phase = "starting"
  /\ phase' = "down"
  /\ UNCHANGED <<settings, services, database, request>>

\* The process is killed: the database stays, and nobody is answered.
Crash ==
  /\ phase = "serving"
  /\ phase' = "down"
  /\ cache' = Fresh
  /\ probe_of' = [q \in Requests |-> None]
  /\ last_state' = [q \in Requests |-> "OFFLINE"]
  /\ at' = [q \in Requests |-> "idle"]
  /\ todo' = [q \in Requests |-> <<>>]
  /\ use' = [q \in Requests |-> Fresh]
  /\ route' = [q \in Requests |-> "health"]
  /\ header' = [q \in Requests |-> None]
  /\ outcome' = [q \in Requests |-> "none"]
  /\ inside' = [q \in Requests |-> 0]
  /\ log' = [q \in Requests |-> <<>>]
  /\ UNCHANGED <<settings, database>>

------------------------------------------------------------------------------
(* A request, on its way in.                                                *)

\* What a route depends on.  The token comes first, by its router's dependencies.
Needs(r) ==
  CASE r = "health"       -> <<>>
    [] r = "ready"        -> <<<<"get", "probe">>>>
    [] r = "submit"       -> <<<<"check", "token">>, <<"get", "stt">>, <<"get", "storage">>,
                               <<"get", "worker">>>>
    [] r = "job"          -> <<<<"check", "token">>, <<"get", "storage">>>>
    [] r = "drain"        -> <<<<"check", "token">>, <<"get", "worker">>>>
    [] r = "status"       -> <<<<"check", "token">>, <<"get", "worker">>, <<"get", "probe">>>>
    [] r = "connectivity" -> <<<<"check", "token">>, <<"get", "probe">>>>

NextTask(q, task) == at[q] = "dependencies" /\ todo[q] # <<>> /\ Head(todo[q]) = task

\* The route or a dependency has ended the request with o.
End(q, o) ==
  /\ at' = [at EXCEPT ![q] = "leaving"]
  /\ outcome' = [outcome EXCEPT ![q] = o]
  /\ todo' = [todo EXCEPT ![q] = <<>>]
  /\ use' = [use EXCEPT ![q] = Fresh]
  /\ UNCHANGED <<route, inside, log>>

Arriving(q) == phase = "serving" /\ at[q] = "idle"

\* The rate limiter answers by itself (see RateLimit), from its place in the stack ...
Throttle(q) ==
  /\ Arriving(q)
  /\ \E i \in 1..Depth :
       /\ Stack[i] = "rate_limit"
       /\ inside' = [inside EXCEPT ![q] = i - 1]
  /\ at' = [at EXCEPT ![q] = "leaving"]
  /\ outcome' = [outcome EXCEPT ![q] = "429"]
  /\ UNCHANGED <<phase, settings, services, database, route, header, todo, use, log>>

\* ... or, like the rest of the stack, lets the request through to its route.
Arrive(q) ==
  /\ Arriving(q)
  /\ at' = [at EXCEPT ![q] = "dependencies"]
  /\ inside' = [inside EXCEPT ![q] = Depth]
  /\ \E r \in Routes :
       /\ route' = [route EXCEPT ![q] = r]
       /\ todo' = [todo EXCEPT ![q] = Needs(r)]
  /\ UNCHANGED <<phase, settings, services, database, header, use, outcome, log>>

\* Mutant of TokenResult: no special case for a token that is not set.
TokenResultUnguarded(h) ==
  IF environment = "development" \/ h = token THEN "ok" ELSE "HTTPException"

\* What require_api_token() makes of the header h.
TokenResult(h) ==
  CASE environment = "development" -> "ok"
    [] environment # "development" /\ token = "" -> "AuthenticationError"
    [] environment # "development" /\ token # "" ->
         IF h = token THEN "ok" ELSE "HTTPException"

CheckToken(q) ==
  /\ NextTask(q, <<"check", "token">>)
  /\ \E h \in Headers :
       /\ environment = "development" => h = None      \* where it is not looked at
       /\ header' = [header EXCEPT ![q] = h]
       /\ IF TokenResult(h) = "ok"
          THEN todo' = [todo EXCEPT ![q] = Tail(@)] /\ UNCHANGED <<at, route, use, outcome, inside, log>>
          ELSE End(q, TokenResult(h))
  /\ UNCHANGED <<phase, settings, services, database>>

------------------------------------------------------------------------------
(* The services                                                             *)

\* Mutant of Making: the worker is constructed without asking for the probe.
MakingWorkerAlone(s) == <<<<"make", s>>>>

\* get_sync_worker() asks for the probe before it constructs the worker.
Making(s) ==
  IF s = "worker" THEN <<<<"get", "probe">>, <<"make", "worker">>>> ELSE <<<<"make", s>>>>

Lookup(q, s) ==
  /\ NextTask(q, <<"get", s>>)
  /\ IF cache[s] # None
     THEN /\ use' = [use EXCEPT ![q][s] = cache[s]]
          /\ todo' = [todo EXCEPT ![q] = Tail(@)]
     ELSE /\ todo' = [todo EXCEPT ![q] = Making(s) \o Tail(@)]
          /\ UNCHANGED use
  /\ UNCHANGED <<phase, settings, services, database, at, route, header, outcome, inside, log>>

\* A function under lru_cache returns i: kept unless another call has been faster.
Cached(s, i) == [cache EXCEPT ![s] = IF @ = None THEN i ELSE @]

\* Mutant of SchemaExists: the constructor leaves the schema to the first write.
SchemaLater(s) == table

\* The constructor of SQLiteStorageService creates the tables that are missing.
SchemaExists(s) == table \/ s = "storage"

Make(q, s) ==
  /\ NextTask(q, <<"make", s>>)
  /\ cache' = Cached(s, q)
  /\ probe_of' = IF s = "worker" THEN [probe_of EXCEPT ![q] = use[q]["probe"]] ELSE probe_of
  /\ table' = SchemaExists(s)
  /\ use' = [use EXCEPT ![q][s] = q]
  /\ todo' = [todo EXCEPT ![q] = Tail(@)]
  /\ UNCHANGED <<phase, settings, last_state, submitted, at, route, header, outcome,
                 inside, log>>

\* The schema cannot be created: nothing is cached, and the next request tries again.
MakeFails(q) ==
  /\ NextTask(q, <<"make", "storage">>)
  /\ End(q, "OperationalError")
  /\ UNCHANGED <<phase, settings, services, database, header>>

------------------------------------------------------------------------------
(* The routes                                                               *)

Ready(q, r) == at[q] = "dependencies" /\ todo[q] = <<>> /\ route[q] = r

\* A route that reads or writes the tables.
UseTable == IF table THEN "ok" ELSE "OperationalError"

\* ConnectivityProbe.check()
Check(p, s) ==
  /\ last_state' = [last_state EXCEPT ![p] = s]
  /\ UNCHANGED <<cache, probe_of>>

\* Liveness and readiness, whatever Ollama and the probe's last state are.
AnswerHealth(q) ==
  /\ \E r \in {"health", "ready"} : Ready(q, r)
  /\ End(q, "ok")
  /\ UNCHANGED <<phase, settings, services, database, header>>

\* The routes that read a job, its transcript or its report, the queue's depth or its
\* dead letters.
ReadTable(q) ==
  /\ \E r \in {"job", "status"} : Ready(q, r)
  /\ End(q, UseTable)
  /\ UNCHANGED <<phase, settings, services, database, header>>

\* POST /jobs, for which see Pipeline: answered with 201 or 422, or ended by a write that
\* fails.
Submit(q) ==
  /\ Ready(q, "submit")
  /\ \/ End(q, UseTable) /\ submitted' = (submitted \/ table)
     \/ End(q, "StorageError") /\ UNCHANGED submitted
  /\ UNCHANGED <<phase, settings, services, table, header>>

CheckConnectivity(q) ==
  /\ Ready(q, "connectivity")
  /\ \E s \in ProbeStates : Check(use[q]["probe"], s)
  /\ End(q, "ok")
  /\ UNCHANGED <<phase, settings, database, header>>

\* The worker asks the probe it was constructed with; offline it returns at once.
Drain(q) ==
  /\ Ready(q, "drain")
  /\ \E s \in ProbeStates :
       /\ Check(probe_of[use[q]["worker"]], s)
       /\ End(q, IF s = "OFFLINE" THEN "ok" ELSE UseTable)
  /\ UNCHANGED <<phase, settings, database, header>>

------------------------------------------------------------------------------
(* The way out, through the layers the request is inside of.                *)

Leaving(q, layer) ==
  /\ at[q] = "leaving"
  /\ inside[q] > 0
  /\ Stack[inside[q]] = layer
  /\ inside' = [inside EXCEPT ![q] = @ - 1]
  /\ UNCHANGED <<phase, settings, services, database, at, route, header, todo, use>>

\* The exception handlers.
HandleException(q) ==
  /\ Leaving(q, "exceptions")
  /\ outcome' = [outcome EXCEPT ![q] = Handle(@)]
  /\ UNCHANGED log

\* RateLimitMiddleware and CORS return what the inner layers have returned.
PassOn(q) ==
  /\ Leaving(q, "rate_limit") \/ Leaving(q, "cors")
  /\ UNCHANGED <<outcome, log>>

\* AuditLoggingMiddleware logs the status of what was returned, or what was raised.
Audit(q) ==
  /\ Leaving(q, "audit")
  /\ log' = [log EXCEPT ![q] = Append(@, outcome[q])]
  /\ UNCHANGED outcome

\* What has been raised through all the middleware is answered with a 500.
AnswerError(q) ==
  /\ Leaving(q, "server_errors")
  /\ outcome' = [outcome EXCEPT ![q] = IF @ \in Exceptions THEN "500" ELSE @]
  /\ UNCHANGED log

\* The client has its answer.
Answered(q) == at[q] = "leaving" /\ inside[q] = 0

\* Another request may take the place.
Depart(q) ==
  /\ Answered(q)
  /\ at' = [at EXCEPT ![q] = "idle"]
  /\ route' = [route EXCEPT ![q] = "health"]
  /\ header' = [header EXCEPT ![q] = None]
  /\ outcome' = [outcome EXCEPT ![q] = "none"]
  /\ log' = [log EXCEPT ![q] = <<>>]
  /\ UNCHANGED <<phase, settings, services, database, todo, use, inside>>

------------------------------------------------------------------------------

Next ==
  \/ Start \/ LoadModel \/ LoadModelFails \/ Crash
  \/ \E q \in Requests :
       \/ Throttle(q) \/ Arrive(q) \/ CheckToken(q)
       \/ \E s \in Services : Lookup(q, s) \/ Make(q, s)
       \/ MakeFails(q)
       \/ AnswerHealth(q) \/ ReadTable(q) \/ Submit(q) \/ CheckConnectivity(q) \/ Drain(q)
       \/ HandleException(q) \/ PassOn(q) \/ Audit(q) \/ AnswerError(q) \/ Depart(q)

Spec == Init /\ [][Next]_vars
------------------------------------------------------------------------------
(* Properties                                                               *)

Tasks == ({"get", "make"} \X Services) \cup {<<"check", "token">>}

\* Every variable has its type; in particular the worker that all requests share has been
\* given a probe, though not always the one they share.
TypeOK ==
  /\ phase \in {"down", "starting", "serving"}
  /\ environment \in Environments
  /\ token \in Tokens
  /\ cache \in [Services -> Requests \cup {Startup, None}]
  /\ probe_of \in [Requests -> Requests \cup {None}]
  /\ cache["worker"] # None => probe_of[cache["worker"]] # None
  /\ last_state \in [Requests -> ProbeStates]
  /\ table \in BOOLEAN
  /\ submitted \in BOOLEAN
  /\ at \in [Requests -> {"idle", "dependencies", "leaving"}]
  /\ route \in [Requests -> Routes]
  /\ header \in [Requests -> Headers]
  /\ \A q \in Requests : \A i \in DOMAIN todo[q] : todo[q][i] \in Tasks
  /\ use \in [Requests -> [Services -> Requests \cup {Startup, None}]]
  /\ outcome \in [Requests -> Exceptions \cup Responses \cup {"none"}]
  /\ inside \in [Requests -> 0..Depth]
  /\ \A q \in Requests : \A i \in DOMAIN log[q] : log[q][i] \in Exceptions \cup Responses

Protected == Routes \ {"health", "ready"}

\* The request carries the token the server has been given, which is not the empty one.
Authorized(q) ==
  environment = "development" \/ (header[q] = token /\ token # "")

\* Outside development only the token opens /jobs and /sync, in whatever way it or the
\* header is missing: without it a request is given no service, makes none, and is
\* answered with a 401 (or a 429) - never with a 500, nor with a result.
OnlyTokenOpens ==
  \A q \in Requests : route[q] \in Protected /\ ~Authorized(q) =>
    /\ use[q] = Fresh
    /\ Answered(q) => outcome[q] \in {"401", "429"}

\* A server in production has its token: what it refuses, it refuses for the header, and
\* no request learns that nothing is configured (validate_production_secrets: "fails fast
\* rather than silently running with an empty auth token").
ProductionConfigured ==
  \A q \in Requests : outcome[q] = "AuthenticationError" => environment = "staging"

\* The model is loaded once, before the process serves: no request ever waits for it,
\* nor finds out that it cannot be loaded.
ModelLoadedBefore == \A q \in Requests : use[q]["stt"] \in {None, Startup}

\* The worker does not create its table, the storage service does: every job accepted
\* finds it, and once there has been one no request fails for want of it, be it to a
\* worker made before the storage service, or in a process started later.
TableWhenNeeded ==
  /\ submitted => UseTable = "ok"
  /\ \A q \in Requests : Ready(q, "submit") => UseTable = "ok"

\* Whoever is answered has one line in the audit log, whether the rate limiter has refused
\* the request, a handler has turned an exception into a status, or nobody has handled it;
\* and the line tells the status of the answer, or the exception behind a 500.
AnswersAudited ==
  \A q \in Requests : Answered(q) =>
    /\ Len(log[q]) = 1
    /\ log[q][1] = outcome[q] \/ (log[q][1] \in Exceptions /\ outcome[q] = "500")
=============================================================================
