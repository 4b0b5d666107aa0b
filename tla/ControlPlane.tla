---------------------------- MODULE ControlPlane ----------------------------
(***************************************************************************)
(* The control plane: the REST routes under API-key auth, the management   *)
(* routes under Cognito auth (packages/api), the repositories they share   *)
(* (packages/db), and the SDK's app that registers its agents through them *)
(* (packages/sdk app.ts, client.ts).                                       *)
(*                                                                         *)
(* A request is a record that moves through its handler one await at a     *)
(* time.  Rows of agents, sessions, runs, traces and members are never     *)
(* deleted or moved to another owner, so a walk from a row to its          *)
(* workspace is one step.                                                  *)
(***************************************************************************)
EXTENDS Integers, Sequences, FiniteSets

CONSTANTS World,        \* the rows to start from
          Subs,         \* Cognito principals
          Names,        \* agent names
          Apps,         \* processes that run an SDK app, each with its own runner URL
          AppKey,       \* the API key they were given
          Budgets       \* the instances looked at: how many requests and database
                        \* failures, and which apps

None == 0
Keyless == -1

ASSUME WorldAssumption ==
    /\ DOMAIN World = {"users", "workspaces", "members", "keys", "agents", "sessions", "runs", "traces"}
    /\ World.members \subseteq (DOMAIN World.users) \X World.workspaces
    /\ \A u, v \in DOMAIN World.users : World.users[u] = World.users[v] => u = v
    /\ \A k \in DOMAIN World.keys :
          /\ DOMAIN World.keys[k] = {"ws", "by", "revokedBy"}
          /\ <<World.keys[k].by, World.keys[k].ws>> \in World.members
          /\ World.keys[k].revokedBy # None =>
                <<World.keys[k].revokedBy, World.keys[k].ws>> \in World.members
    /\ \A a \in DOMAIN World.agents :
          DOMAIN World.agents[a] = {"ws", "name", "url"} /\ World.agents[a].url \notin Apps
    /\ \A s \in DOMAIN World.sessions :
          /\ DOMAIN World.sessions[s] = {"agent", "status"}
          /\ World.sessions[s].agent \in DOMAIN World.agents
    /\ \A n \in DOMAIN World.runs : World.runs[n] \in DOMAIN World.sessions
    /\ \A t \in DOMAIN World.traces : World.traces[t] \in DOMAIN World.runs
(* A new row has the number of the request that inserts it for its id. *)
ASSUME FreshIds ==
    /\ \A table \in {"users", "keys", "agents", "sessions", "runs"} :
          \A id \in DOMAIN World[table] : id \notin Nat
    /\ None \notin Apps
ASSUME BudgetAssumption ==
    \A b \in Budgets : b.requests \in Nat /\ b.failures \in Nat /\ b.apps \subseteq Apps

VARIABLES budget,
          db,           \* the tables
          reqs,         \* the requests, by the order of their arrival
          failures,     \* how many database calls have failed
          app           \* the SDK apps

vars == <<budget, db, reqs, failures, app>>

(* CODE_TO_STATUS *)
StatusOf(code) ==
    CASE code = "VALIDATION" -> 400        [] code = "UNAUTHORIZED" -> 401
      [] code = "FORBIDDEN" -> 403         [] code = "NOT_FOUND" -> 404
      [] code \in {"CONFLICT", "INCOMPATIBLE_VERSION"} -> 409
      [] code = "RATE_LIMIT" -> 429        [] code = "INTERNAL" -> 500
      [] code = "PROVIDER_ERROR" -> 502    [] code = "CONNECTION_ERROR" -> 503
      [] code = "TIMEOUT" -> 504

Init ==
    /\ budget \in Budgets
    /\ db = World
    /\ reqs = <<>> /\ failures = 0
    /\ app = [p \in Apps |-> [pc |-> "idle", runner |-> FALSE, closed |-> FALSE, todo |-> Names,
                              req |-> None, error |-> "OK", status |-> 200]]

-----------------------------------------------------------------------------
(* The repositories: what a call reads, and the tables after a write *)

(* INSERT: an id that is taken keeps its row. *)
Inserted(table, id, row) ==
    [x \in (DOMAIN table) \cup {id} |-> IF x \in DOMAIN table THEN table[x] ELSE row]

(* userRepo *)
UsersOf(sub) == {u \in DOMAIN db.users : db.users[u] = sub}
WithUser(u, sub) == [db EXCEPT !.users = Inserted(@, u, sub)]

(* workspaceRepo, userWorkspaceRepo *)
WithWorkspace(w) == [db EXCEPT !.workspaces = @ \cup {w}]
WithMember(u, w) == [db EXCEPT !.members = @ \cup {<<u, w>>}]
WorkspacesOf(u) == {m[2] : m \in {n \in db.members : n[1] = u}}
IsMember(req) == <<req.user, req.target>> \in db.members

(* apiKeyRepo; who made and who revoked a key is history, not a column. *)
KeysOf(ws) == {k \in DOMAIN db.keys : db.keys[k].ws = ws}
WithKey(k, ws, user) == [db EXCEPT !.keys = Inserted(@, k, [ws |-> ws, by |-> user, revokedBy |-> None])]
WithRevoked(k, user) == [db EXCEPT !.keys[k].revokedBy = user]

(* agentRepo *)
Named(ws, name) == {a \in DOMAIN db.agents : db.agents[a].ws = ws /\ db.agents[a].name = name}
AgentsIn(ws) == {a \in DOMAIN db.agents : db.agents[a].ws = ws}
WithAgent(a, ws, name, url) ==
    [db EXCEPT !.agents = Inserted(@, a, [ws |-> ws, name |-> name, url |-> url])]
WithUrl(a, url) == [db EXCEPT !.agents[a].url = url]

(* sessionRepo, runRepo, traceRepo *)
WithSession(s, a) == [db EXCEPT !.sessions = Inserted(@, s, [agent |-> a, status |-> "active"])]
WithStatus(s, status) == [db EXCEPT !.sessions[s].status = status]
WithRun(n, s) == [db EXCEPT !.runs = Inserted(@, n, s)]
TracesOf(run) == {t \in DOMAIN db.traces : db.traces[t] = run}

-----------------------------------------------------------------------------
(* Requests *)

DataOps == {"register", "getAgent", "listAgents", "agentByName", "createSession", "getSession",
            "patchSession", "messages", "createRun", "getRun", "toolCalls", "cancel", "trace",
            "metrics", "spans"}
OwnedOps == {"getSession", "patchSession", "messages", "createRun", "getRun", "toolCalls",
             "cancel", "trace", "metrics", "spans"}
UserOps == {"me", "createWorkspace", "listWorkspaces", "getWorkspace", "createKey", "listKeys",
            "revokeKey"}

(* What an id in the path may be; ids of another table are never found. *)
Targets(op) ==
    CASE op \in {"register", "agentByName", "createSession"} -> Names
      [] op = "getAgent" -> DOMAIN db.agents
      [] op \in {"getSession", "patchSession", "messages", "createRun"} -> DOMAIN db.sessions
      [] op \in {"getRun", "toolCalls", "cancel", "trace", "metrics"} -> DOMAIN db.runs
      [] op = "spans" -> DOMAIN db.traces
      [] op \in {"getWorkspace", "createKey", "listKeys", "revokeKey"} -> db.workspaces
      [] OTHER -> {None}

Request(op, cred, target, arg) ==
    [op |-> op, cred |-> cred, target |-> target, arg |-> arg, ws |-> None, user |-> None,
     read |-> None, touched |-> {}, code |-> "OK", hit |-> FALSE, cause |-> "none",
     pc |-> IF op \in DataOps THEN "key" ELSE "token"]

(* Somebody sends a request; arg is the key to revoke, or the app whose    *)
(* runner URL is registered.                                               *)
Arrive(op, cred, target, arg) ==
    /\ Cardinality({r \in DOMAIN reqs : reqs[r].arg \notin Apps}) < budget.requests
    /\ op \in DataOps => cred \in (DOMAIN db.keys) \cup {Keyless}
    /\ op \in UserOps => cred \in Subs
    /\ target \in Targets(op)
    /\ arg \in (IF op = "revokeKey" THEN DOMAIN db.keys ELSE {None})
    /\ reqs' = Append(reqs, Request(op, cred, target, arg))
    /\ UNCHANGED <<budget, db, failures, app>>

(* The error handler turns what is thrown into the reply: SwiftAgentErrors *)
(* by their code, Zod's as VALIDATION, the rest as INTERNAL.               *)
Answer(r, req, code) == reqs' = [reqs EXCEPT ![r] = [req EXCEPT !.pc = "done", !.code = code]]
Continue(r, req, pc) == reqs' = [reqs EXCEPT ![r] = [req EXCEPT !.pc = pc]]
Read(req, rows) == [req EXCEPT !.touched = @ \cup rows]
Unchanged == UNCHANGED <<budget, db, failures, app>>

(* A query rejects.  resolveOrCreateUser takes a failed insert for a lost  *)
(* race and reads again; the walk from a session or a run to its agent     *)
(* takes a failed read for a foreign row; else the reply is a 500.         *)
DbFails(r) ==
    LET req == [reqs[r] EXCEPT !.hit = TRUE] IN
    /\ req.pc \notin {"token", "done"} /\ failures < budget.failures
    /\ failures' = failures + 1
    /\ \/ req.pc = "insert" /\ Continue(r, req, "reread")
       \/ req.pc # "insert" /\ Answer(r, req, "INTERNAL")
       \/ req.pc = "handle" /\ req.op \in OwnedOps /\ Answer(r, req, "NOT_FOUND")
    /\ UNCHANGED <<budget, db, app>>

(* Fastify parses a body after authentication and before the handler: one  *)
(* that is no JSON, empty, too large or of an unsupported media type is an *)
(* error without .validation, and the reply to it a 500.                   *)
Unreadable(r) ==
    /\ \/ /\ reqs[r].pc = "handle"
          /\ reqs[r].op \in {"register", "createSession", "patchSession", "createRun", "cancel"}
       \/ reqs[r].pc = "user" /\ reqs[r].op \in {"createWorkspace", "createKey", "revokeKey"}
    /\ Answer(r, [reqs[r] EXCEPT !.cause = "body"], "INTERNAL")
    /\ Unchanged

(* A body or query string that its schema rejects *)
Invalid(r) ==
    /\ \/ /\ reqs[r].pc = "handle"
          /\ reqs[r].op \in {"register", "createSession", "patchSession", "createRun"}
       \/ reqs[r].pc = "user" /\ reqs[r].op \in {"createWorkspace", "createKey"}
    /\ Answer(r, reqs[r], "VALIDATION")
    /\ Unchanged

-----------------------------------------------------------------------------
(* Authentication *)

(* registerAuth: the key must exist and not be revoked. *)
LookUpKey(r) ==
    LET req == reqs[r] IN
    /\ req.pc = "key"
    /\ IF req.cred \in DOMAIN db.keys /\ db.keys[req.cred].revokedBy = None
       THEN Continue(r, [req EXCEPT !.ws = db.keys[req.cred].ws], "handle")
       ELSE Answer(r, req, "UNAUTHORIZED")
    /\ Unchanged

(* registerCognitoAuth: signature, issuer and lifetime, then the kind of   *)
(* token, its audience, sub and email *)
VerifyToken(r, verified, use, audience, claims) ==
    /\ reqs[r].pc = "token"
    /\ IF verified /\ use = "id" /\ audience /\ claims
       THEN Continue(r, reqs[r], "user") ELSE Answer(r, reqs[r], "UNAUTHORIZED")
    /\ Unchanged

LookUpUser(r) ==
    LET req == reqs[r] IN
    /\ req.pc = "user"
    /\ \/ \E u \in UsersOf(req.cred) : Continue(r, [req EXCEPT !.user = u], "handle")
       \/ UsersOf(req.cred) = {} /\ Continue(r, req, "insert")
    /\ Unchanged

(* Mutant: the loser of the race gets the unique violation. *)
InsertUserOnce(r) ==
    LET req == reqs[r] IN
    /\ req.pc = "insert"
    /\ IF UsersOf(req.cred) = {}
       THEN /\ db' = WithUser(r, req.cred)
            /\ Continue(r, [req EXCEPT !.user = r], "handle")
       ELSE Answer(r, req, "INTERNAL") /\ UNCHANGED db
    /\ UNCHANGED <<budget, failures, app>>

(* cognito_sub is unique: the insert fails if another request came first.  *)
InsertUser(r) ==
    LET req == reqs[r] IN
    /\ req.pc = "insert"
    /\ IF UsersOf(req.cred) = {}
       THEN /\ db' = WithUser(r, req.cred)
            /\ Continue(r, [req EXCEPT !.user = r], "handle")
       ELSE Continue(r, req, "reread") /\ UNCHANGED db
    /\ UNCHANGED <<budget, failures, app>>

RereadUser(r) ==
    LET req == reqs[r] IN
    /\ req.pc = "reread"
    /\ \/ \E u \in UsersOf(req.cred) : Continue(r, [req EXCEPT !.user = u], "handle")
       \/ UsersOf(req.cred) = {} /\ Answer(r, req, "INTERNAL")
    /\ Unchanged

-----------------------------------------------------------------------------
(* The management routes *)

Handling(r, op) == reqs[r].pc = "handle" /\ reqs[r].op = op

Me(r) == Handling(r, "me") /\ Answer(r, reqs[r], "OK") /\ Unchanged

(* The workspace first, the owner's membership next: no transaction *)
CreateWorkspace(r) ==
    /\ Handling(r, "createWorkspace")
    /\ db' = WithWorkspace(r)
    /\ Continue(r, reqs[r], "owner")
    /\ UNCHANGED <<budget, failures, app>>

CreateOwner(r) ==
    /\ reqs[r].pc = "owner"
    /\ db' = WithMember(reqs[r].user, r)
    /\ Answer(r, reqs[r], "OK")
    /\ UNCHANGED <<budget, failures, app>>

ListWorkspaces(r) ==
    /\ Handling(r, "listWorkspaces")
    /\ Answer(r, Read(reqs[r], {<<"workspace", w>> : w \in WorkspacesOf(reqs[r].user)}), "OK")
    /\ Unchanged

GetWorkspace(r) ==
    /\ Handling(r, "getWorkspace")
    /\ IF IsMember(reqs[r]) THEN Answer(r, Read(reqs[r], {<<"workspace", reqs[r].target>>}), "OK")
                            ELSE Answer(r, reqs[r], "FORBIDDEN")
    /\ Unchanged

(* ensureMember, and then the route's own work *)
EnsureMember(r) ==
    /\ reqs[r].pc = "handle" /\ reqs[r].op \in {"createKey", "listKeys", "revokeKey"}
    /\ IF IsMember(reqs[r]) THEN Continue(r, reqs[r], "keys") ELSE Answer(r, reqs[r], "FORBIDDEN")
    /\ Unchanged

CreateKey(r) ==
    /\ reqs[r].pc = "keys" /\ reqs[r].op = "createKey"
    /\ db' = WithKey(r, reqs[r].target, reqs[r].user)
    /\ Answer(r, reqs[r], "OK")
    /\ UNCHANGED <<budget, failures, app>>

ListKeys(r) ==
    /\ reqs[r].pc = "keys" /\ reqs[r].op = "listKeys"
    /\ Answer(r, Read(reqs[r], {<<"key", k>> : k \in KeysOf(reqs[r].target)}), "OK")
    /\ Unchanged

(* Mutant: revoke takes the key's word for its workspace. *)
FindKeyAnywhere(r) ==
    /\ reqs[r].pc = "keys" /\ reqs[r].op = "revokeKey"
    /\ Continue(r, reqs[r], "revoke")
    /\ Unchanged

(* revokeKey: the key must be among those of the workspace, *)
FindKey(r) ==
    /\ reqs[r].pc = "keys" /\ reqs[r].op = "revokeKey"
    /\ IF reqs[r].arg \in KeysOf(reqs[r].target)
       THEN Continue(r, reqs[r], "revoke") ELSE Answer(r, reqs[r], "NOT_FOUND")
    /\ Unchanged

(* and is then revoked by its id alone. *)
RevokeKey(r) ==
    /\ reqs[r].pc = "revoke"
    /\ db' = WithRevoked(reqs[r].arg, reqs[r].user)
    /\ Answer(r, reqs[r], "OK")
    /\ UNCHANGED <<budget, failures, app>>

-----------------------------------------------------------------------------
(* The data routes *)

(* agentService.getById, sessionService.getSession and assertRunOwnership: *)
(* a row of another workspace is not found.                                *)
OwnsAgent(ws, a) == a \in AgentsIn(ws)
OwnsSession(ws, s) == OwnsAgent(ws, db.sessions[s].agent)

(* Mutant: an existing run is good enough. *)
RunExists(ws, n) == n \in DOMAIN db.runs

OwnsRun(ws, n) == OwnsSession(ws, db.runs[n])

AnswerIf(r, owned, rows) ==
    IF owned THEN Answer(r, Read(reqs[r], rows), "OK") ELSE Answer(r, reqs[r], "NOT_FOUND")

GetAgent(r) ==
    LET req == reqs[r] IN
    /\ Handling(r, "getAgent")
    /\ AnswerIf(r, OwnsAgent(req.ws, req.target), {<<"agent", req.target>>})
    /\ Unchanged

ListAgents(r) ==
    /\ Handling(r, "listAgents")
    /\ Answer(r, Read(reqs[r], {<<"agent", a>> : a \in AgentsIn(reqs[r].ws)}), "OK")
    /\ Unchanged

AgentByName(r) ==
    LET found == Named(reqs[r].ws, reqs[r].target) IN
    /\ Handling(r, "agentByName")
    /\ AnswerIf(r, found # {}, {<<"agent", a>> : a \in found})
    /\ Unchanged

(* registerOrUpdateAgent: it reads the agent of that name, *)
FindAgent(r) ==
    LET req == reqs[r]
        found == Named(req.ws, req.target) IN
    /\ Handling(r, "register")
    /\ \/ \E a \in found : Continue(r, [req EXCEPT !.read = [id |-> a, url |-> db.agents[a].url]], "update")
       \/ found = {} /\ Continue(r, req, "create")
    /\ Unchanged

(* then writes it with what the body left out taken from what was read, *)
UpdateAgent(r) ==
    LET req == reqs[r] IN
    /\ req.pc = "update"
    /\ db' = WithUrl(req.read.id, IF req.arg = None THEN req.read.url ELSE req.arg)
    /\ Answer(r, Read(req, {<<"agent", req.read.id>>}), "OK")
    /\ UNCHANGED <<budget, failures, app>>

(* or creates it; (workspace, name) is unique, and nobody catches that.    *)
CreateAgent(r) ==
    LET req == reqs[r] IN
    /\ req.pc = "create"
    /\ IF Named(req.ws, req.target) = {}
       THEN /\ db' = WithAgent(r, req.ws, req.target, req.arg)
            /\ Answer(r, Read(req, {<<"agent", r>>}), "OK")
       ELSE Answer(r, [req EXCEPT !.cause = "race"], "INTERNAL") /\ UNCHANGED db
    /\ UNCHANGED <<budget, failures, app>>

(* createSession resolves the name, inserts, and signs the client's token. *)
ResolveAgent(r) ==
    LET req == reqs[r]
        found == Named(req.ws, req.target) IN
    /\ Handling(r, "createSession")
    /\ \/ \E a \in found : Continue(r, [req EXCEPT !.read = a], "insertSession")
       \/ found = {} /\ Answer(r, req, "NOT_FOUND")
    /\ Unchanged

InsertSession(r) ==
    LET req == reqs[r] IN
    /\ req.pc = "insertSession"
    /\ db' = WithSession(r, req.read)
    /\ Answer(r, Read(req, {<<"session", r>>}), "OK")
    /\ UNCHANGED <<budget, failures, app>>

ReadSession(r) ==
    LET req == reqs[r] IN
    /\ Handling(r, "getSession")
    /\ AnswerIf(r, OwnsSession(req.ws, req.target), {<<"session", req.target>>})
    /\ Unchanged

(* The other routes of a session call getSession first. *)
CheckSession(r) ==
    LET req == reqs[r] IN
    /\ req.pc = "handle" /\ req.op \in {"patchSession", "messages", "createRun"}
    /\ IF OwnsSession(req.ws, req.target)
       THEN Continue(r, Read(req, {<<"session", req.target>>}), "write")
       ELSE Answer(r, req, "NOT_FOUND")
    /\ Unchanged

UpdateSession(r, status) ==
    LET req == reqs[r] IN
    /\ req.pc = "write" /\ req.op = "patchSession"
    /\ db' = IF status = "unset" THEN db ELSE WithStatus(req.target, status)
    /\ Answer(r, req, "OK")
    /\ UNCHANGED <<budget, failures, app>>

(* The query is parsed only now; a cursor must be a message of the session. *)
ListMessages(r, valid, cursor) ==
    /\ reqs[r].pc = "write" /\ reqs[r].op = "messages"
    /\ Answer(r, reqs[r], IF valid /\ cursor THEN "OK" ELSE "VALIDATION")
    /\ Unchanged

(* start: CONFLICT if a run holds the session's lock, which RunExecution   *)
(* models; VALIDATION if the session is not active or nothing can execute  *)
(* the agent's tools.  The rows it looks for are never gone.               *)
StartRun(r) ==
    LET req == reqs[r] IN
    /\ req.pc = "write" /\ req.op = "createRun"
    /\ \/ Answer(r, req, "CONFLICT")
       \/ Answer(r, req, "VALIDATION")
       \/ db.sessions[req.target].status = "active" /\ Continue(r, req, "insertRun")
    /\ Unchanged

(* The run's row first, the user's message next: no transaction *)
InsertRun(r) ==
    LET req == reqs[r] IN
    /\ req.pc = "insertRun"
    /\ db' = WithRun(r, req.target)
    /\ Continue(r, Read(req, {<<"run", r>>}), "userMessage")
    /\ UNCHANGED <<budget, failures, app>>

InsertUserMessage(r) ==
    /\ reqs[r].pc = "userMessage"
    /\ Answer(r, reqs[r], "OK")
    /\ Unchanged

(* getRun, getRunToolCalls, requestCancel *)
ReadRun(r) ==
    LET req == reqs[r] IN
    /\ req.pc = "handle" /\ req.op \in {"getRun", "toolCalls", "cancel"}
    /\ AnswerIf(r, OwnsRun(req.ws, req.target), {<<"run", req.target>>})
    /\ Unchanged

(* The trace of a run, and the metrics derived from it *)
AnswerTrace(r) ==
    LET req == reqs[r] IN
    AnswerIf(r, OwnsRun(req.ws, req.target) /\ TracesOf(req.target) # {}, {<<"run", req.target>>})

ReadTrace(r) == Handling(r, "trace") /\ AnswerTrace(r) /\ Unchanged
ReadMetrics(r) == Handling(r, "metrics") /\ AnswerTrace(r) /\ Unchanged

(* The spans of a trace, whose run must be owned *)
ReadSpans(r) ==
    LET run == db.traces[reqs[r].target] IN
    /\ Handling(r, "spans")
    /\ AnswerIf(r, OwnsRun(reqs[r].ws, run), {<<"run", run>>})
    /\ Unchanged

-----------------------------------------------------------------------------
(* The SDK app *)

(* Mutant: the agents are registered while the runner is still starting. *)
ListenAndRegister(p, configured) ==
    /\ p \in budget.apps /\ app[p].pc = "idle"
    /\ app' = [app EXCEPT ![p].pc = IF configured THEN "register" ELSE "failed",
                          ![p].error = IF configured THEN "OK" ELSE "VALIDATION"]
    /\ UNCHANGED <<budget, db, reqs, failures>>

(* listen: the port, and the key and workspace of the runner's tokens *)
Listen(p, configured) ==
    /\ p \in budget.apps /\ app[p].pc = "idle"
    /\ app' = [app EXCEPT ![p].pc = IF configured THEN "bind" ELSE "failed",
                          ![p].error = IF configured THEN "OK" ELSE "VALIDATION"]
    /\ UNCHANGED <<budget, db, reqs, failures>>

(* startToolRunner; the port may have been taken since it was probed. *)
StartRunner(p) ==
    /\ app[p].pc = "bind"
    /\ \/ app' = [app EXCEPT ![p].pc = "register", ![p].runner = TRUE]
       \/ app' = [app EXCEPT ![p].pc = "failed"]
    /\ UNCHANGED <<budget, db, reqs, failures>>

(* One agent after the other *)
RegisterAgent(p, name) ==
    /\ app[p].pc = "register" /\ app[p].req = None /\ name \in app[p].todo
    /\ reqs' = Append(reqs, Request("register", AppKey, name, p))
    /\ app' = [app EXCEPT ![p].req = Len(reqs) + 1]
    /\ UNCHANGED <<budget, db, failures>>

(* statusToCode, for an answer that names no code *)
StatusToCode(status) ==
    CASE status = 400 -> "VALIDATION" [] status = 401 -> "UNAUTHORIZED" [] status = 403 -> "FORBIDDEN"
      [] status = 404 -> "NOT_FOUND" [] status = 409 -> "CONFLICT" [] status = 429 -> "RATE_LIMIT"
      [] status = 502 -> "PROVIDER_ERROR" [] status = 503 -> "CONNECTION_ERROR"
      [] status = 504 -> "TIMEOUT"
      [] OTHER -> IF status >= 500 THEN "INTERNAL" ELSE "VALIDATION"

(* httpErrorToSwiftAgentError: a known code of the server's wins. *)
SdkError(code, status) == IF code = "" THEN StatusToCode(status) ELSE code

Rejected(p, error, status) ==
    app' = [app EXCEPT ![p].pc = "failed", ![p].error = error, ![p].status = status]

(* assertProtocolCompatible: no version is taken for an old server's. *)
Incompatible(version) == version # None /\ version # 1

(* The reply.  A rejected listen leaves the runner up and what is          *)
(* registered registered.                                                  *)
RegisterReply(p, version) ==
    LET reply == reqs[app[p].req] IN
    /\ app[p].pc = "register" /\ app[p].req # None /\ reply.pc = "done"
    /\ IF reply.code # "OK"
       THEN Rejected(p, SdkError(reply.code, StatusOf(reply.code)), StatusOf(reply.code))
       ELSE IF Incompatible(version) THEN Rejected(p, "INCOMPATIBLE_VERSION", StatusOf("INCOMPATIBLE_VERSION"))
       ELSE app' = [app EXCEPT ![p].req = None, ![p].todo = @ \ {reply.target},
                               ![p].pc = IF app[p].todo = {reply.target} THEN "up" ELSE @]
    /\ UNCHANGED <<budget, db, reqs, failures>>

(* fetch rejects, something in front of the server answers for it, or the  *)
(* body of its reply is cut off and no agent can be parsed from it; at any *)
(* moment of the server's handling.                                        *)
LoseReply(p) ==
    /\ app[p].pc = "register" /\ app[p].req # None
    /\ \/ \E error \in {"TIMEOUT", "CONNECTION_ERROR"} : Rejected(p, error, StatusOf(error))
       \/ \E status \in {403, 413, 429, 500, 502, 503, 504} :
             Rejected(p, SdkError("", status), status)
       \/ Rejected(p, "ZodError", 200)
    /\ UNCHANGED <<budget, db, reqs, failures>>

(* close, also while listen still registers *)
Close(p) ==
    /\ app[p].runner
    /\ app' = [app EXCEPT ![p].runner = FALSE, ![p].closed = TRUE]
    /\ UNCHANGED <<budget, db, reqs, failures>>

-----------------------------------------------------------------------------
Authenticate(r) ==
    \/ LookUpKey(r)
    \/ \E verified, audience, claims \in BOOLEAN, use \in {"id", "access"} :
          VerifyToken(r, verified, use, audience, claims)

ResolveOrCreateUser(r) == LookUpUser(r) \/ InsertUser(r) \/ RereadUser(r)

PostWorkspaces(r) == CreateWorkspace(r) \/ CreateOwner(r)
DeleteKey(r) == FindKey(r) \/ RevokeKey(r)
ManagementRoutes(r) ==
    \/ Me(r) \/ PostWorkspaces(r) \/ ListWorkspaces(r) \/ GetWorkspace(r)
    \/ EnsureMember(r) \/ CreateKey(r) \/ ListKeys(r) \/ DeleteKey(r)

PostAgents(r) == FindAgent(r) \/ UpdateAgent(r) \/ CreateAgent(r)
GetAgents(r) == ListAgents(r) \/ AgentByName(r)
PostSessions(r) == ResolveAgent(r) \/ InsertSession(r)
PatchSession(r) == \E status \in {"unset", "active", "closed"} : UpdateSession(r, status)
GetMessages(r) == \E valid, cursor \in BOOLEAN : ListMessages(r, valid, cursor)
PostRuns(r) == StartRun(r) \/ InsertRun(r) \/ InsertUserMessage(r)
DataRoutes(r) ==
    \/ PostAgents(r) \/ GetAgent(r) \/ GetAgents(r)
    \/ PostSessions(r) \/ ReadSession(r) \/ CheckSession(r) \/ PatchSession(r) \/ GetMessages(r)
    \/ PostRuns(r) \/ ReadRun(r) \/ ReadTrace(r) \/ ReadMetrics(r) \/ ReadSpans(r)

Step(r) ==
    DbFails(r) \/ Unreadable(r) \/ Invalid(r) \/ Authenticate(r) \/ ResolveOrCreateUser(r)
    \/ ManagementRoutes(r) \/ DataRoutes(r)

Next ==
    \/ \E op \in DataOps, cred \in (DOMAIN db.keys) \cup {Keyless} : \E target \in Targets(op) :
          Arrive(op, cred, target, None)
    \/ \E op \in UserOps, cred \in Subs, arg \in (DOMAIN db.keys) \cup {None} :
          \E target \in Targets(op) : Arrive(op, cred, target, arg)
    \/ \E r \in DOMAIN reqs : Step(r)
    \/ \E p \in Apps :
          \/ \E configured \in BOOLEAN : Listen(p, configured)
          \/ StartRunner(p)
          \/ \E name \in Names : RegisterAgent(p, name)
          \/ \E version \in {None, 1, 2} : RegisterReply(p, version)
          \/ LoseReply(p) \/ Close(p)

Spec == Init /\ [][Next]_vars

-----------------------------------------------------------------------------
(* Properties *)

(* The workspace a row belongs to, by the tables *)
Owner(row) ==
    LET agentOf(kind, id) == CASE kind = "agent" -> id
                               [] kind = "session" -> db.sessions[id].agent
                               [] kind = "run" -> db.sessions[db.runs[id]].agent IN
    CASE row[1] = "workspace" -> row[2]
      [] row[1] = "key" -> db.keys[row[2]].ws
      [] OTHER -> db.agents[agentOf(row[1], row[2])].ws

(* No request gets to see or to change a row of a workspace that neither   *)
(* its key belongs to nor its user is a member of, however its checks and  *)
(* reads interleave with other requests and failures.                      *)
TenantIsolation ==
    \A r \in DOMAIN reqs : \A row \in reqs[r].touched :
        IF reqs[r].op \in DataOps THEN db.keys[reqs[r].cred].ws = Owner(row)
                                  ELSE <<reqs[r].user, Owner(row)>> \in db.members

(* provision-user.ts: concurrent first requests of one principal all act   *)
(* as the one user that is created, none of them sees the unique violation *)
(* of that race; a 500 is for a failed query of the request's own, the     *)
(* lost race for an agent's name, or a body that could not be read.        *)
UsersConverge ==
    /\ \A r, s \in DOMAIN reqs :
          reqs[r].op \in UserOps /\ reqs[s].op \in UserOps /\ reqs[r].cred = reqs[s].cred
          /\ reqs[r].user # None /\ reqs[s].user # None => reqs[r].user = reqs[s].user
    /\ \A r \in DOMAIN reqs : reqs[r].code = "INTERNAL" => reqs[r].hit \/ reqs[r].cause \in {"race", "body"}

(* A key is made and revoked by members of its workspace only, although    *)
(* the checks and the update by id are separate calls; so a workspace left *)
(* without an owner by a failed second insert has no keys.                 *)
OnlyMembersManageKeys ==
    \A k \in DOMAIN db.keys :
        /\ <<db.keys[k].by, db.keys[k].ws>> \in db.members
        /\ db.keys[k].revokedBy # None => <<db.keys[k].revokedBy, db.keys[k].ws>> \in db.members

(* Whatever becomes of listen and its replies, and whichever requests read *)
(* and write back an agent meanwhile: one whose tools are said to run in   *)
(* an app is one whose runner answers, until that app is closed.           *)
RegisteredRunnerAnswers ==
    \A a \in DOMAIN db.agents : db.agents[a].url \in Apps =>
        app[db.agents[a].url].runner \/ app[db.agents[a].url].closed
=============================================================================
