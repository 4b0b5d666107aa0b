----------------------------- MODULE Deployment -----------------------------
(***************************************************************************)
(* What happens to a deployment around the requests it serves: the migrate *)
(* job with its drift preflight (packages/db migrate.ts), the server's     *)
(* boot and shutdown (apps/server main.ts, config.ts, container.ts,        *)
(* health.ts), the one-shot provisioning of a local or cloud stack         *)
(* (provision-local.ts, provision-smoke.ts), and somebody who changes the  *)
(* schema by hand.  Every await is a point where the others may act.       *)
(***************************************************************************)
EXTENDS DriftCheck

CONSTANTS Edits,         \* changes that may be made by hand
          Edited(_, _),  \* the catalog such a change leaves
          Unseen,        \* the ones the comparison leaves out
          Noted,         \* those of them that change a default
          Stacks         \* the deployments looked at, each with its kind and bounds

(* What loadServerConfig and the container look at *)
Environments ==
    [deployEnv : {"none", "prod"}, secrets : BOOLEAN, modelKey : BOOLEAN, fixture : BOOLEAN,
     url : {"missing", "wss", "ws", "localhost", "wss ipv6 loopback"}, insecure : BOOLEAN, redis : BOOLEAN,
     auto : BOOLEAN]

ASSUME DeploymentAssumption ==
    /\ Noted \subseteq Unseen /\ Unseen \subseteq Edits
    /\ Stacks \subseteq [kind : {"local", "cloud"}, maxEdits : Nat, maxJobs : Nat, maxBoots : Nat,
                         maxRequests : Nat, maxAttempts : Nat, environments : SUBSET Environments]

VARIABLES
    stack,     \* the compose stack ("local") or one in the cloud
    catalog,   \* the live schema
    rows,      \* how many rows drizzle.__drizzle_migrations has
    edits,     \* history: the hand-made changes
    job, jobs,       \* the migrate job, and how many have run
    server, boots,   \* the server process, and how many have booted
    inflight,  \* requests the server has accepted and not answered
    health,    \* the last answer of GET /health
    prov,      \* the provisioning task
    attempts,  \* how many provisioning tasks have run
    tables,    \* the rows it writes: workspaces, keys with their workspace, agents
    keyFile, runnerEnv   \* the files it hands over

schemaVars == <<stack, catalog, rows, edits>>
jobVars    == <<job, jobs>>
serverVars == <<server, boots, inflight, health>>
provVars   == <<prov, attempts, tables, keyFile, runnerEnv>>
vars == <<schemaVars, jobVars, serverVars, provVars>>

None == 0
Stale == -1
NoConfig == [auto |-> FALSE, redis |-> FALSE, fixture |-> FALSE, modelKey |-> FALSE,
             url |-> "missing"]
NoJob == [pc |-> "idle", journal |-> 0, skip |-> FALSE, rows |-> 0, raw |-> <<>>, last |-> 0,
          before |-> {}]
NoServer == [pc |-> "off", journal |-> 0, last |-> 0, pool |-> FALSE, config |-> NoConfig,
             providers |-> {}]
NoTask == [pc |-> "idle", key |-> None, ws |-> None]

(* What a handed-over file holds at first: the mount of the local stack    *)
(* keeps what was written for a database that is gone.                     *)
LeftBehind == IF stack.kind = "local" THEN {None, Stale} ELSE {None}

Init ==
    /\ stack \in Stacks
    /\ rows \in 0 .. Len(Snapshots)
    /\ catalog = CatalogAfter(rows)
    /\ edits = {}
    /\ job = NoJob /\ jobs = 0
    /\ server = NoServer /\ boots = 0 /\ inflight = 0 /\ health = "unknown"
    /\ prov = NoTask /\ attempts = 0
    /\ tables = [workspaces |-> {}, keys |-> Empty, agents |-> {}]
    /\ keyFile \in LeftBehind /\ runnerEnv \in LeftBehind

EditByHand(e) ==
    /\ stack.kind = "cloud" /\ Cardinality(edits) < stack.maxEdits /\ e \notin edits
    /\ rows > 0
    /\ catalog' = Edited(catalog, e)
    /\ edits' = edits \cup {e}
    /\ UNCHANGED <<stack, rows, jobVars, serverVars, provVars>>

-----------------------------------------------------------------------------
(* drizzle's migrate: it reads the last row, then applies what comes after *)
(* it in one transaction, which any failing statement rolls back.          *)

ApplyNext(done, n) ==
    IF done.ok /\ CanApply(done.db, n) THEN [ok |-> TRUE, db |-> Apply(done.db, n)]
    ELSE [ok |-> FALSE, db |-> done.db]

(* The migrations after the last one, up to the end of the journal *)
Pending(last, journal) == IF journal > last THEN journal - last ELSE 0

Applied(last, journal) ==
    LET done[k \in 0 .. Pending(last, journal)] ==
            IF k = 0 THEN [ok |-> TRUE, db |-> catalog] ELSE ApplyNext(done[k - 1], last + k)
    IN done[Pending(last, journal)]

Commit(last, journal) ==
    /\ Applied(last, journal).ok
    /\ catalog' = Applied(last, journal).db
    /\ rows' = rows + Pending(last, journal)

-----------------------------------------------------------------------------
(* The migrate job *)

(* The job of some checkout starts. *)
StartJob(journal, skip) ==
    /\ stack.kind = "cloud" /\ jobs < stack.maxJobs /\ job.pc \in {"idle", "done", "failed", "aborted"}
    /\ jobs' = jobs + 1
    /\ job' = [NoJob EXCEPT !.pc = IF skip THEN "read" ELSE "rows", !.journal = journal,
                            !.skip = skip, !.before = edits]
    /\ UNCHANGED <<schemaVars, serverVars, provVars>>

(* queryAppliedMigrations, and the plan.  A snapshot the checkout does not *)
(* have cannot be loaded.                                                  *)
JobQueriesRows ==
    LET plan == PlanPreflight(job.skip, rows) IN
    /\ job.pc = "rows"
    /\ job' = [job EXCEPT !.rows = rows,
                          !.pc = IF plan.action # "check" THEN "read"
                                 ELSE IF ~CanLoad(job.journal, plan.expected) THEN "failed"
                                 ELSE "introspect"]
    /\ UNCHANGED <<schemaVars, jobs, serverVars, provVars>>

(* One query of introspectLiveSchema; after the last one, the verdict *)
JobIntrospects ==
    LET raw == Append(job.raw, Query(Queries[Len(job.raw) + 1], catalog,
                                     DOMAIN Snapshots[job.rows].tables)) IN
    /\ job.pc = "introspect"
    /\ job' = IF Len(raw) < Len(Queries) THEN [job EXCEPT !.raw = raw]
              ELSE [job EXCEPT !.raw = <<>>,
                               !.pc = IF CheckDrift(raw, job.rows).differences = {} THEN "read" ELSE "aborted"]
    /\ UNCHANGED <<schemaVars, jobs, serverVars, provVars>>

JobReadsLast ==
    /\ job.pc = "read"
    /\ job' = [job EXCEPT !.pc = "apply", !.last = rows]
    /\ UNCHANGED <<schemaVars, jobs, serverVars, provVars>>

JobApplies ==
    /\ job.pc = "apply"
    /\ \/ /\ Commit(job.last, job.journal)
          /\ job' = [job EXCEPT !.pc = "done"]
       \/ /\ ~Applied(job.last, job.journal).ok
          /\ job' = [job EXCEPT !.pc = "failed"]
          /\ UNCHANGED <<catalog, rows>>
    /\ UNCHANGED <<stack, edits, jobs, serverVars, provVars>>

(* A query fails or the task is stopped. *)
JobFails ==
    /\ job.pc \in {"rows", "introspect", "read", "apply"}
    /\ job' = [job EXCEPT !.pc = "failed"]
    /\ UNCHANGED <<schemaVars, jobs, serverVars, provVars>>

-----------------------------------------------------------------------------
(* The server *)

(* validatePublicWebsocketUrl.  The host of wss://[::1] is "[::1]", which  *)
(* is not one of LOCAL_HOSTS.                                              *)
UrlRefused(env) ==
    /\ env.deployEnv # "none"
    /\ ~(env.url \in {"wss", "wss ipv6 loopback"} \/ (env.insecure /\ env.url = "ws"))

(* loadServerConfig: the reasons not to boot *)
ConfigErrors(env) ==
    (IF env.secrets THEN {} ELSE {"secrets"})
    \cup (IF env.fixture /\ env.deployEnv # "none" THEN {"fixture"} ELSE {})
    \cup (IF env.modelKey \/ env.fixture THEN {} ELSE {"model"})
    \cup (IF UrlRefused(env) THEN {"url"} ELSE {})

LoadServerConfig(env) ==
    [auto |-> env.auto, redis |-> env.redis, fixture |-> env.fixture, modelKey |-> env.modelKey,
     url |-> env.url]

(* buildContainer: the providers it registers *)
Providers(config) ==
    {"echo"} \cup (IF config.modelKey THEN {"keyed"} ELSE {})
             \cup (IF config.fixture THEN {"fixture"} ELSE {})

(* loadServerConfig and buildContainer, up to the first await; the pool is *)
(* created here.                                                           *)
Boot(env, journal) ==
    /\ server.pc \in {"off", "failed", "exited"} /\ boots < stack.maxBoots
    /\ env \in stack.environments
    /\ (env.deployEnv = "prod") = (stack.kind = "cloud")
    /\ boots' = boots + 1
    /\ server' = IF ConfigErrors(env) # {} THEN [NoServer EXCEPT !.pc = "failed"]
                 ELSE [NoServer EXCEPT !.pc = IF env.auto THEN "read" ELSE "build",
                         !.journal = journal, !.pool = TRUE,
                         !.config = LoadServerConfig(env),
                         !.providers = Providers(LoadServerConfig(env))]
    /\ health' = "unknown"
    /\ UNCHANGED <<schemaVars, jobVars, inflight, provVars>>

(* AUTO_MIGRATE calls migrate with no preflight. *)
BootReadsLast ==
    /\ server.pc = "read"
    /\ server' = [server EXCEPT !.pc = "migrate", !.last = rows]
    /\ UNCHANGED <<schemaVars, jobVars, boots, inflight, health, provVars>>

BootMigrates ==
    /\ server.pc = "migrate"
    /\ \/ /\ Commit(server.last, server.journal)
          /\ server' = [server EXCEPT !.pc = "build"]
       \/ /\ ~Applied(server.last, server.journal).ok
          /\ server' = [NoServer EXCEPT !.pc = "failed"]
          /\ UNCHANGED <<catalog, rows>>
    /\ UNCHANGED <<stack, edits, jobVars, boots, inflight, health, provVars>>

(* buildApp; registerGatewayPlugin with its Redis connections, and the     *)
(* health route; listen                                                    *)
BootContinues ==
    /\ server.pc \in {"build", "gateway", "listen"}
    /\ server' = [server EXCEPT !.pc = CASE @ = "build" -> "gateway"
                                         [] @ = "gateway" -> "listen"
                                         [] @ = "listen" -> "up"]
    /\ UNCHANGED <<schemaVars, jobVars, boots, inflight, health, provVars>>

(* Any await of the boot may reject: the process exits. *)
BootFails ==
    /\ server.pc \in {"read", "migrate", "build", "gateway", "listen"}
    /\ server' = [NoServer EXCEPT !.pc = "failed"]
    /\ UNCHANGED <<schemaVars, jobVars, boots, inflight, health, provVars>>

RequestArrives ==
    /\ server.pc = "up" /\ inflight < stack.maxRequests
    /\ inflight' = inflight + 1
    /\ UNCHANGED <<schemaVars, jobVars, server, boots, health, provVars>>

RequestEnds ==
    /\ inflight > 0
    /\ inflight' = inflight - 1
    /\ UNCHANGED <<schemaVars, jobVars, server, boots, health, provVars>>

(* GET /health: the database, and Redis when it is enabled *)
HealthCheck(db, redis) ==
    /\ server.pc = "up"
    /\ redis \/ server.config.redis
    /\ health' = IF db /\ redis THEN "ok" ELSE "degraded"
    /\ UNCHANGED <<schemaVars, jobVars, server, boots, inflight, provVars>>

(* Mutant: the pool is closed while app.close() still waits. *)
ShutdownPoolFirst ==
    /\ \/ server.pc = "up" /\ server' = [server EXCEPT !.pc = "closing"]
       \/ server.pc = "closing" /\ server' = [server EXCEPT !.pc = "draining", !.pool = FALSE]
       \/ /\ server.pc = "draining" /\ inflight = 0
          /\ server' = [NoServer EXCEPT !.pc = "exited"]
    /\ UNCHANGED <<schemaVars, jobVars, boots, inflight, health, provVars>>

(* shutdown: sockets and heartbeats at once; app.close() stops accepting   *)
(* and waits for the requests; then the bridge and the pool, and exit.     *)
Shutdown ==
    /\ \/ server.pc = "up" /\ server' = [server EXCEPT !.pc = "closing"]
       \/ server.pc = "closing" /\ inflight = 0 /\ server' = [server EXCEPT !.pc = "bridge"]
       \/ server.pc = "bridge" /\ server' = [server EXCEPT !.pc = "pool", !.pool = FALSE]
       \/ server.pc = "pool" /\ server' = [NoServer EXCEPT !.pc = "exited"]
    /\ UNCHANGED <<schemaVars, jobVars, boots, inflight, health, provVars>>

-----------------------------------------------------------------------------
(* Provisioning.  Ids and keys are the number of the attempt that made     *)
(* them; a cloud task is given its key, which is always the first.         *)

KeyGiven == 1

StartProvision ==
    /\ prov.pc \in {"idle", "failed", "done"} /\ attempts < stack.maxAttempts
    /\ stack.kind = "local" => health = "ok"
    /\ rows > 0
    /\ attempts' = attempts + 1
    /\ prov' = [NoTask EXCEPT !.pc = "lookup"]
    /\ UNCHANGED <<schemaVars, jobVars, serverVars, tables, keyFile, runnerEnv>>

(* getByKeyHash of the key in the file, or of the key given: its workspace *)
(* is adopted.                                                             *)
LookUpKey ==
    LET key == IF stack.kind = "cloud" THEN KeyGiven ELSE keyFile
        found == key \in DOMAIN tables.keys IN
    /\ prov.pc = "lookup"
    /\ prov' = IF found THEN [pc |-> "surface", key |-> key, ws |-> tables.keys[key]]
               ELSE [prov EXCEPT !.pc = "workspace"]
    /\ UNCHANGED <<schemaVars, jobVars, serverVars, attempts, tables, keyFile, runnerEnv>>

FindWorkspace ==
    /\ prov.pc = "workspace"
    /\ \/ \E w \in tables.workspaces : prov' = [prov EXCEPT !.pc = "key", !.ws = w]
       \/ tables.workspaces = {} /\ prov' = [prov EXCEPT !.pc = "create"]
    /\ UNCHANGED <<schemaVars, jobVars, serverVars, attempts, tables, keyFile, runnerEnv>>

CreateWorkspace ==
    /\ prov.pc = "create"
    /\ tables' = [tables EXCEPT !.workspaces = @ \cup {attempts}]
    /\ prov' = [prov EXCEPT !.pc = "key", !.ws = attempts]
    /\ UNCHANGED <<schemaVars, jobVars, serverVars, attempts, keyFile, runnerEnv>>

Stored(keys, key, ws) ==
    [k \in DOMAIN keys \cup {key} |-> IF k \in DOMAIN keys THEN keys[k] ELSE ws]

(* The key is minted, or the given one stored. *)
CreateKey ==
    LET key == IF stack.kind = "cloud" THEN KeyGiven ELSE attempts IN
    /\ prov.pc = "key"
    /\ tables' = [tables EXCEPT !.keys = Stored(@, key, prov.ws)]
    /\ prov' = [prov EXCEPT !.pc = "surface", !.key = key]
    /\ UNCHANGED <<schemaVars, jobVars, serverVars, attempts, keyFile, runnerEnv>>

(* Mutant: the workspace is handed to the runner before its agent exists. *)
SurfaceKeyAndWorkspace ==
    /\ prov.pc = "surface"
    /\ keyFile' = IF stack.kind = "local" THEN prov.key ELSE keyFile
    /\ runnerEnv' = IF stack.kind = "local" THEN prov.ws ELSE runnerEnv
    /\ prov' = [prov EXCEPT !.pc = "agent"]
    /\ UNCHANGED <<schemaVars, jobVars, serverVars, attempts, tables>>

(* The local stack's key goes to the mounted file. *)
SurfaceKey ==
    /\ prov.pc = "surface"
    /\ keyFile' = IF stack.kind = "local" THEN prov.key ELSE keyFile
    /\ prov' = [prov EXCEPT !.pc = "agent"]
    /\ UNCHANGED <<schemaVars, jobVars, serverVars, attempts, tables, runnerEnv>>

FindAgent ==
    /\ prov.pc = "agent"
    /\ prov' = [prov EXCEPT !.pc = IF prov.ws \in tables.agents THEN "env" ELSE "createAgent"]
    /\ UNCHANGED <<schemaVars, jobVars, serverVars, attempts, tables, keyFile, runnerEnv>>

CreateAgent ==
    /\ prov.pc = "createAgent"
    /\ tables' = [tables EXCEPT !.agents = @ \cup {prov.ws}]
    /\ prov' = [prov EXCEPT !.pc = "env"]
    /\ UNCHANGED <<schemaVars, jobVars, serverVars, attempts, keyFile, runnerEnv>>

(* The local stack's runner learns its workspace. *)
HandOver ==
    /\ prov.pc = "env"
    /\ runnerEnv' = IF stack.kind = "local" THEN prov.ws ELSE runnerEnv
    /\ prov' = [prov EXCEPT !.pc = "done"]
    /\ UNCHANGED <<schemaVars, jobVars, serverVars, attempts, tables, keyFile>>

(* A call rejects or the container is stopped. *)
ProvisionFails ==
    /\ prov.pc \notin {"idle", "failed", "done"}
    /\ prov' = [NoTask EXCEPT !.pc = "failed"]
    /\ UNCHANGED <<schemaVars, jobVars, serverVars, attempts, tables, keyFile, runnerEnv>>

-----------------------------------------------------------------------------
Next ==
    \/ \E e \in Edits : EditByHand(e)
    \/ \E n \in 1 .. Len(Snapshots), skip \in BOOLEAN : StartJob(n, skip)
    \/ JobQueriesRows \/ JobIntrospects \/ JobReadsLast \/ JobApplies \/ JobFails
    \/ \E env \in Environments, n \in 1 .. Len(Snapshots) : Boot(env, n)
    \/ BootReadsLast \/ BootMigrates \/ BootContinues \/ BootFails
    \/ RequestArrives \/ RequestEnds
    \/ \E db, redis \in BOOLEAN : HealthCheck(db, redis)
    \/ Shutdown
    \/ StartProvision \/ LookUpKey \/ FindWorkspace \/ CreateWorkspace \/ CreateKey
    \/ SurfaceKey \/ FindAgent \/ CreateAgent \/ HandOver \/ ProvisionFails

Spec == Init /\ [][Next]_vars

-----------------------------------------------------------------------------
(* Properties *)

(* Whichever migrations and processes ran before or after a change: in any *)
(* checkout, db:check is clean exactly when db:status has every migration  *)
(* of the journal as applied and none as unknown, and nobody changed the   *)
(* schema in a way the comparison claims to see.  A changed default is a   *)
(* note, and nothing else is.                                              *)
DriftIsWhatWasEdited ==
    \A n \in 1 .. Len(Snapshots) :
        LET check == DbCheck(catalog, n) IN
        /\ check.differences = {} <=> /\ DbStatus(n, rows) = {"APPLIED"}
                                      /\ edits \subseteq Unseen
        /\ check.notes # {} <=> edits \cap Noted # {}

(* migrate.ts, preflightDriftGuard: "On drift, abort and apply NOTHING".   *)
(* A job gets past its preflight only if the schema had not been changed   *)
(* by hand when it started, however its queries interleave with a server   *)
(* that migrates at boot; exempt are the skip and the virgin database.     *)
DriftedIsNotMigrated ==
    job.pc \in {"read", "apply", "done"} /\ ~job.skip /\ job.rows > 0 => job.before \subseteq Unseen

(* While a request is in flight the pool is open, an AUTO_MIGRATE server   *)
(* has its schema, and a cloud server neither the fixture provider nor a   *)
(* public URL that is missing or names a local host (of an IPv6 loopback   *)
(* the check knows nothing).                                               *)
ServingIsSound ==
    server.pc = "up" \/ inflight > 0 =>
        /\ server.pool
        /\ server.config.auto => rows >= server.journal
        /\ stack.kind = "cloud" => /\ "fixture" \notin server.providers
                              /\ server.config.url \notin {"missing", "localhost"}

(* The key file and the runner's file outlive the database they were       *)
(* written for.  However often provisioning was interrupted and run again: *)
(* there is one workspace at most; a key that it wrote to the file is      *)
(* stored; a workspace that it told the runner of has its agent and is the *)
(* one the key opens; and when an attempt ends, both files are of this     *)
(* database.  (One that stops between the two files may leave a new key    *)
(* beside an old runner-env.json, until the next one ends.)                *)
BootstrapHandsOver ==
    /\ Cardinality(tables.workspaces) <= 1
    /\ keyFile \notin {None, Stale} => keyFile \in DOMAIN tables.keys
    /\ runnerEnv \notin {None, Stale} => /\ runnerEnv \in tables.agents
                                        /\ tables.keys[keyFile] = runnerEnv
    /\ prov.pc = "done" /\ stack.kind = "local" =>
          keyFile \in DOMAIN tables.keys /\ runnerEnv = tables.keys[keyFile]
=============================================================================
