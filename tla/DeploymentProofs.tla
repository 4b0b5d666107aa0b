-------------------------- MODULE DeploymentProofs --------------------------
(***************************************************************************)
(* What Deployment promises, proved for every list of snapshots, every     *)
(* hand-made change and every set of deployments: the server serves over   *)
(* an open pool and a migrated schema, provisioning hands over a key that  *)
(* opens the workspace of the runner, and the drift check neither misses   *)
(* nor invents a difference.                                               *)
(***************************************************************************)
EXTENDS Deployment, SequenceTheorems, FiniteSetTheorems, WellFoundedInduction, TLAPS

LEMMA SnapshotsLen == Len(Snapshots) \in Nat
BY SnapshotAssumption

-----------------------------------------------------------------------------
(* The server.  rows only grows, so that what a migrating server has       *)
(* brought it to is still there when it serves.                            *)

Journal == 0 .. Len(Snapshots)

ServerPCs == {"off", "failed", "exited", "read", "migrate", "build", "gateway", "listen", "up",
              "closing", "bridge", "pool"}
Config == [auto : BOOLEAN, redis : BOOLEAN, fixture : BOOLEAN, modelKey : BOOLEAN,
           url : {"missing", "wss", "ws", "localhost", "wss ipv6 loopback"}]
JobPCs == {"idle", "rows", "introspect", "read", "apply", "done", "failed", "aborted"}

ServerTypeOK ==
    /\ stack \in Stacks
    /\ rows \in Nat /\ inflight \in Nat
    /\ server \in [pc : ServerPCs, journal : Journal, last : Nat, pool : BOOLEAN, config : Config,
                   providers : SUBSET {"echo", "keyed", "fixture"}]
    /\ job \in [pc : JobPCs, journal : Journal, skip : BOOLEAN, rows : Nat, raw : {job.raw},
                last : Nat, before : {job.before}]

(* Requests are answered before the bridge and the pool are closed. *)
DrainInv == inflight > 0 => server.pc \in {"up", "closing"}

PoolInv == server.pc \notin {"off", "failed", "exited", "pool"} => server.pool

(* AUTO_MIGRATE: past the migration, its journal is applied. *)
MigratedInv ==
    /\ server.pc = "migrate" => server.last <= rows
    /\ server.pc \in {"build", "gateway", "listen", "up", "closing"} /\ server.config.auto
          => rows >= server.journal

(* What loadServerConfig has refused cannot be in the configuration. *)
ConfigInv ==
    server.pc \notin {"off", "failed", "exited"} /\ stack.kind = "cloud" =>
        "fixture" \notin server.providers /\ server.config.url \notin {"missing", "localhost"}

ServerInv == ServerTypeOK /\ DrainInv /\ PoolInv /\ MigratedInv /\ ConfigInv

LEMMA ServerInit == Init => ServerInv
<1> SUFFICES ASSUME Init PROVE ServerInv
  OBVIOUS
<1> USE SnapshotsLen DEF Init, NoServer, NoJob, NoConfig
<1>1. ServerTypeOK
  BY DEF ServerTypeOK, ServerPCs, Config, JobPCs, Journal
<1>2. DrainInv /\ PoolInv /\ MigratedInv /\ ConfigInv
  BY DEF DrainInv, PoolInv, MigratedInv, ConfigInv
<1> QED BY <1>1, <1>2 DEF ServerInv

(* Both migrators add what they had pending and nothing else. *)
LEMMA CommitGrows ==
    ASSUME NEW last \in Nat, NEW journal \in Nat, rows \in Nat, Commit(last, journal)
    PROVE  rows' \in Nat /\ rows' >= rows /\ (last <= rows => rows' >= journal)
BY DEF Commit, Pending

LEMMA ServerEnv ==
    ASSUME ServerInv, UNCHANGED <<stack, server, inflight>>, rows' \in Nat, rows' >= rows,
           job' \in [pc : JobPCs, journal : Journal, skip : BOOLEAN, rows : Nat, raw : {job'.raw},
                     last : Nat, before : {job'.before}]
    PROVE  ServerInv'
<1> USE DEF ServerInv
<1>1. ServerTypeOK'
  BY DEF ServerTypeOK
<1>2. MigratedInv'
  <2>1. rows \in Nat /\ server.last \in Nat /\ server.journal \in Int
    BY SnapshotsLen DEF ServerTypeOK, Journal
  <2> QED BY <2>1 DEF MigratedInv
<1>3. DrainInv' /\ PoolInv' /\ ConfigInv'
  BY DEF DrainInv, PoolInv, ConfigInv
<1> QED BY <1>1, <1>2, <1>3

LEMMA JobKeepsServer ==
    ASSUME ServerInv, JobQueriesRows \/ JobIntrospects \/ JobReadsLast \/ JobApplies \/ JobFails
                      \/ \E n \in 1 .. Len(Snapshots), skip \in BOOLEAN : StartJob(n, skip)
    PROVE  ServerInv'
<1> USE SnapshotsLen
<1>0. rows \in Nat /\ job \in [pc : JobPCs, journal : Journal, skip : BOOLEAN, rows : Nat,
                                raw : {job.raw}, last : Nat, before : {job.before}]
  BY DEF ServerInv, ServerTypeOK
<1>1. UNCHANGED <<stack, server, inflight>>
  BY DEF JobQueriesRows, JobIntrospects, JobReadsLast, JobApplies, JobFails, StartJob, schemaVars,
         serverVars
<1>2. rows' \in Nat /\ rows' >= rows
  <2>1. CASE JobApplies
    <3>1. job.last \in Nat /\ job.journal \in Nat
      BY <1>0 DEF Journal
    <3> QED BY <2>1, <3>1, <1>0, CommitGrows DEF JobApplies
  <2>2. CASE ~JobApplies
    <3>1. UNCHANGED rows
      BY <2>2 DEF JobQueriesRows, JobIntrospects, JobReadsLast, JobFails, StartJob, schemaVars
    <3> QED BY <3>1, <1>0
  <2> QED BY <2>1, <2>2
<1>3. job' \in [pc : JobPCs, journal : Journal, skip : BOOLEAN, rows : Nat, raw : {job'.raw},
                 last : Nat, before : {job'.before}]
  <2>1. CASE JobQueriesRows
    BY <1>0, <2>1 DEF JobQueriesRows, JobPCs
  <2>2. CASE JobIntrospects
    BY <1>0, <2>2 DEF JobIntrospects, JobPCs
  <2>3. CASE JobReadsLast \/ JobApplies \/ JobFails
    BY <1>0, <2>3 DEF JobReadsLast, JobApplies, JobFails, JobPCs
  <2>4. ASSUME NEW n \in 1 .. Len(Snapshots), NEW skip \in BOOLEAN, StartJob(n, skip)
        PROVE  job' \in [pc : JobPCs, journal : Journal, skip : BOOLEAN, rows : Nat,
                          raw : {job'.raw}, last : Nat, before : {job'.before}]
    <3>1. PICK pc \in {"read", "rows"} :
             job' = [pc |-> pc, journal |-> n, skip |-> skip, rows |-> 0, raw |-> <<>>, last |-> 0,
                     before |-> edits]
      BY <2>4 DEF StartJob, NoJob
    <3>2. pc \in JobPCs /\ n \in Journal
      BY DEF JobPCs, Journal
    <3> QED BY <3>1, <3>2
  <2> QED BY <2>1, <2>2, <2>3, <2>4
<1> QED BY <1>0, <1>1, <1>2, <1>3, ServerEnv

(* A configuration that was accepted in the cloud has no fixture provider  *)
(* and a URL that is there and does not name a local host.                 *)
LEMMA AcceptedConfig ==
    ASSUME NEW env \in Environments, ConfigErrors(env) = {}, env.deployEnv = "prod"
    PROVE  "fixture" \notin Providers(LoadServerConfig(env))
           /\ LoadServerConfig(env).url \notin {"missing", "localhost"}
<1>1. ~env.fixture /\ ~UrlRefused(env)
  BY DEF ConfigErrors
<1>2. env.url \notin {"missing", "localhost"}
  BY <1>1 DEF UrlRefused
<1> QED BY <1>1, <1>2 DEF Providers, LoadServerConfig

(* No server *)
LEMMA ServerGone ==
    ASSUME ServerInv, NEW pc \in {"failed", "exited"}, server' = [NoServer EXCEPT !.pc = pc],
           server.pc \notin {"up", "closing"}, UNCHANGED <<stack, rows, job, inflight>>
    PROVE  ServerInv'
<1>1. server' = [pc |-> pc, journal |-> 0, last |-> 0, pool |-> FALSE, config |-> NoConfig,
                 providers |-> {}]
  BY DEF NoServer
<1>2. NoConfig \in Config /\ pc \in ServerPCs /\ 0 \in Journal
  BY SnapshotsLen DEF NoConfig, Config, ServerPCs, Journal
<1>3. server' \in [pc : ServerPCs, journal : Journal, last : Nat, pool : BOOLEAN, config : Config,
                   providers : SUBSET {"echo", "keyed", "fixture"}]
  <2>1. FALSE \in BOOLEAN /\ 0 \in Nat /\ {} \in SUBSET {"echo", "keyed", "fixture"}
    OBVIOUS
  <2> QED BY ONLY <2>1, <1>1, <1>2, Zenon
<1>4. ServerTypeOK'
  BY <1>3 DEF ServerInv, ServerTypeOK
<1> QED BY <1>1, <1>4 DEF ServerInv, DrainInv, PoolInv, MigratedInv, ConfigInv

LEMMA BootKeepsServer ==
    ASSUME ServerInv, NEW env \in Environments, NEW n \in 1 .. Len(Snapshots), Boot(env, n)
    PROVE  ServerInv'
<1> USE SnapshotsLen DEF Boot, schemaVars, jobVars
<1>1. CASE ConfigErrors(env) # {}
  BY <1>1, ServerGone
<1>2. CASE ConfigErrors(env) = {}
  <2> DEFINE config == LoadServerConfig(env)
  <2>1. server' = [pc |-> IF env.auto THEN "read" ELSE "build", journal |-> n, last |-> 0,
                   pool |-> TRUE, config |-> config, providers |-> Providers(config)]
    <3>1. server' = [NoServer EXCEPT !.pc = IF env.auto THEN "read" ELSE "build",
                       !.journal = n, !.pool = TRUE, !.config = config,
                       !.providers = Providers(config)]
      BY <1>2
    <3> QED BY <3>1 DEF NoServer
  <2>2. config \in Config /\ Providers(config) \subseteq {"echo", "keyed", "fixture"}
        /\ config.auto = env.auto
    BY DEF LoadServerConfig, Environments, Config, Providers
  <2>a. (IF env.auto THEN "read" ELSE "build") \in ServerPCs /\ n \in Journal
    BY DEF ServerPCs, Journal
  <2> HIDE DEF config
  <2>b. server' \in [pc : ServerPCs, journal : Journal, last : Nat, pool : BOOLEAN,
                     config : Config, providers : SUBSET {"echo", "keyed", "fixture"}]
    <3>1. TRUE \in BOOLEAN /\ 0 \in Nat
      OBVIOUS
    <3> QED BY ONLY <3>1, <2>1, <2>2, <2>a, Zenon
  <2>3. ServerTypeOK'
    BY <2>b DEF ServerInv, ServerTypeOK
  <2>4. stack.kind = "cloud" => "fixture" \notin Providers(config) /\ config.url \notin {"missing", "localhost"}
    BY <1>2, AcceptedConfig DEF config
  <2>c. /\ server'.pc = (IF env.auto THEN "read" ELSE "build") /\ server'.journal = n
        /\ server'.pool /\ server'.config = config /\ server'.providers = Providers(config)
    BY ONLY <2>1, Zenon
  <2>d. UNCHANGED <<stack, rows, inflight>> /\ server.pc \in {"off", "failed", "exited"}
    OBVIOUS
  <2>5. ConfigInv'
    BY ONLY <2>c, <2>d, <2>4 DEF ConfigInv
  <2>6. DrainInv' /\ PoolInv' /\ MigratedInv'
    BY ONLY ServerInv, <2>c, <2>d, <2>2 DEF ServerInv, DrainInv, PoolInv, MigratedInv
  <2> QED BY <2>3, <2>5, <2>6 DEF ServerInv
<1> QED BY <1>1, <1>2

LEMMA LifeKeepsServer ==
    ASSUME ServerInv, BootReadsLast \/ BootMigrates \/ BootContinues \/ BootFails
                      \/ RequestArrives \/ RequestEnds \/ Shutdown
    PROVE  ServerInv'
<1> USE SnapshotsLen DEF ServerInv
<1>0. /\ UNCHANGED <<stack, job>>
      /\ rows \in Nat /\ server.last \in Nat /\ server.journal \in Nat /\ inflight \in Nat
  BY DEF BootReadsLast, BootMigrates, BootContinues, BootFails, RequestArrives, RequestEnds,
         Shutdown, schemaVars, jobVars, ServerTypeOK, Journal
<1>1. CASE BootReadsLast
  <2>1. server' = [server EXCEPT !.pc = "migrate", !.last = rows] /\ UNCHANGED <<rows, inflight>>
        /\ server.pc = "read"
    BY <1>1 DEF BootReadsLast, schemaVars
  <2>2. ServerTypeOK'
    BY <1>0, <2>1 DEF ServerTypeOK, ServerPCs
  <2> QED BY <1>0, <2>1, <2>2 DEF ServerTypeOK, DrainInv, PoolInv, MigratedInv, ConfigInv
<1>2. CASE BootMigrates
  <2>1. CASE server' = [NoServer EXCEPT !.pc = "failed"] /\ UNCHANGED rows
    <3>1. inflight' = inflight /\ server.pc = "migrate"
      BY <1>2 DEF BootMigrates
    <3> QED BY <1>0, <2>1, <3>1, ServerGone
  <2>2. CASE Commit(server.last, server.journal) /\ server' = [server EXCEPT !.pc = "build"]
    <3>1. inflight' = inflight /\ server.pc = "migrate"
      BY <1>2 DEF BootMigrates
    <3>2. rows' \in Nat /\ rows' >= server.journal
      BY <1>0, <2>2, <3>1, CommitGrows DEF MigratedInv
    <3>3. ServerTypeOK'
      BY <1>0, <2>2, <3>1, <3>2 DEF ServerTypeOK, ServerPCs
    <3> QED BY <1>0, <2>2, <3>1, <3>2, <3>3
            DEF ServerTypeOK, DrainInv, PoolInv, MigratedInv, ConfigInv
  <2> QED BY <1>2, <2>1, <2>2 DEF BootMigrates
<1>3. CASE BootContinues
  <2>1. PICK pc \in {"gateway", "listen", "up"} : server' = [server EXCEPT !.pc = pc]
    BY <1>3 DEF BootContinues, ServerTypeOK
  <2>2. UNCHANGED <<rows, inflight>> /\ server.pc \in {"build", "gateway", "listen"}
    BY <1>3 DEF BootContinues, schemaVars
  <2>3. ServerTypeOK'
    BY <1>0, <2>1, <2>2 DEF ServerTypeOK, ServerPCs
  <2> QED BY <1>0, <2>1, <2>2, <2>3 DEF ServerTypeOK, DrainInv, PoolInv, MigratedInv, ConfigInv
<1>4. CASE BootFails
  <2>1. server' = [NoServer EXCEPT !.pc = "failed"] /\ UNCHANGED <<rows, inflight>>
        /\ server.pc \in {"read", "migrate", "build", "gateway", "listen"}
    BY <1>4 DEF BootFails, schemaVars
  <2> QED BY <1>0, <2>1, ServerGone
<1>5. CASE RequestArrives \/ RequestEnds
  <2>1. UNCHANGED <<rows, server>> /\ inflight' \in Nat
        /\ (inflight' > 0 => server.pc = "up" \/ inflight > 0)
    BY <1>0, <1>5 DEF RequestArrives, RequestEnds, schemaVars
  <2>2. ServerTypeOK'
    BY <1>0, <2>1 DEF ServerTypeOK
  <2> QED BY <1>0, <2>1, <2>2 DEF DrainInv, PoolInv, MigratedInv, ConfigInv
<1>6. CASE Shutdown
  <2>0. UNCHANGED <<rows, inflight>>
    BY <1>6 DEF Shutdown, schemaVars
  <2>1. CASE server.pc = "pool"
    <3>1. server' = [NoServer EXCEPT !.pc = "exited"]
      BY <1>6, <2>1 DEF Shutdown
    <3> QED BY <1>0, <2>0, <2>1, <3>1, ServerGone
  <2>2. CASE server.pc # "pool"
    <3>1. \/ server.pc = "up" /\ server' = [server EXCEPT !.pc = "closing"]
          \/ server.pc = "closing" /\ inflight = 0 /\ server' = [server EXCEPT !.pc = "bridge"]
          \/ server.pc = "bridge" /\ server' = [server EXCEPT !.pc = "pool", !.pool = FALSE]
      BY <1>6, <2>2 DEF Shutdown
    <3>2. ServerTypeOK'
      BY <1>0, <2>0, <3>1 DEF ServerTypeOK, ServerPCs
    <3>3. UNCHANGED <<server.config, server.providers, server.journal>>
      BY <3>1 DEF ServerTypeOK
    <3>4. /\ server'.pc \in {"closing", "bridge", "pool"} /\ server.pc \in {"up", "closing", "bridge"}
          /\ server'.pc = "closing" => server.pc = "up"
          /\ server'.pc \in {"bridge", "pool"} => inflight = 0 \/ server.pc = "bridge"
      BY <3>1 DEF ServerTypeOK
    <3>5. server'.pc # "pool" => server'.pool
      BY <3>1 DEF ServerTypeOK, PoolInv
    <3>6. DrainInv' /\ MigratedInv' /\ ConfigInv'
      BY <1>0, <2>0, <3>3, <3>4 DEF DrainInv, MigratedInv, ConfigInv
    <3> QED BY <3>2, <3>4, <3>5, <3>6 DEF PoolInv
  <2> QED BY <2>1, <2>2
<1> QED BY <1>1, <1>2, <1>3, <1>4, <1>5, <1>6

LEMMA ServerStep == ServerInv /\ [Next]_vars => ServerInv'
<1> SUFFICES ASSUME ServerInv, [Next]_vars PROVE ServerInv'
  OBVIOUS
<1>0. ASSUME UNCHANGED <<stack, rows, job, server, inflight>> PROVE ServerInv'
  BY <1>0 DEF ServerInv, ServerTypeOK, DrainInv, PoolInv, MigratedInv, ConfigInv
<1>1. CASE \/ \E e \in Edits : EditByHand(e)
           \/ \E db, redis \in BOOLEAN : HealthCheck(db, redis)
           \/ StartProvision \/ LookUpKey \/ FindWorkspace \/ CreateWorkspace \/ CreateKey
           \/ SurfaceKey \/ FindAgent \/ CreateAgent \/ HandOver \/ ProvisionFails
           \/ UNCHANGED vars
  <2>1. UNCHANGED <<stack, rows, job, server, inflight>>
    BY <1>1 DEF EditByHand, HealthCheck, StartProvision, LookUpKey, FindWorkspace,
                CreateWorkspace, CreateKey, SurfaceKey, FindAgent, CreateAgent, HandOver,
                ProvisionFails, vars, schemaVars, jobVars, serverVars
  <2> QED BY <1>0, <2>1
<1> QED BY <1>1, JobKeepsServer, BootKeepsServer, LifeKeepsServer DEF Next

(* Whenever a server is up or a request is in flight: its pool is open,    *)
(* shutdown's order included; an AUTO_MIGRATE server has at least the      *)
(* migrations of its own journal, whoever else migrated; and a cloud       *)
(* server has no fixture provider and a public URL that is neither missing *)
(* nor on a host of LOCAL_HOSTS.                                           *)
THEOREM ServingIsSoundCorrect == Spec => []ServingIsSound
<1>1. ServerInv => ServingIsSound
  BY DEF ServerInv, DrainInv, PoolInv, MigratedInv, ConfigInv, ServingIsSound
<1> QED BY <1>1, ServerInit, ServerStep, PTL DEF Spec

-----------------------------------------------------------------------------
(* Provisioning.  Its rows are created in an order that makes each refer   *)
(* only to what is there; a task that starts again meets what the          *)
(* interrupted ones left.                                                  *)

TaskPCs == {"idle", "failed", "done", "lookup", "workspace", "create", "key", "surface", "agent",
            "createAgent", "env"}

(* Every key opens a workspace that is there, every agent is of one. *)
TablesInv ==
    /\ tables \in [workspaces : SUBSET Nat, keys : [DOMAIN tables.keys -> tables.workspaces],
                   agents : SUBSET tables.workspaces]
    /\ \A v, w \in tables.workspaces : v = w

(* What the running task knows is in the tables. *)
TaskInv ==
    /\ attempts \in Nat
    /\ prov \in [pc : TaskPCs, key : {prov.key}, ws : {prov.ws}]
    /\ prov.pc = "create" => tables.workspaces = {}
    /\ prov.pc \in {"key", "surface", "agent", "createAgent", "env"} => prov.ws \in tables.workspaces
    /\ prov.pc \in {"surface", "agent", "createAgent", "env"} => prov.key \in DOMAIN tables.keys
    /\ prov.pc \in {"agent", "createAgent", "env"} /\ stack.kind = "local" => keyFile = prov.key
    /\ prov.pc = "env" => prov.ws \in tables.agents
    /\ prov.pc = "done" /\ stack.kind = "local" =>
          runnerEnv \in tables.agents /\ keyFile \in DOMAIN tables.keys

(* The key is in the file before the runner is told of its workspace.      *)
(* Until then either file may be one that an earlier database left.        *)
FilesInv ==
    /\ keyFile \in {None, Stale} \cup DOMAIN tables.keys
    /\ runnerEnv \notin {None, Stale} => runnerEnv \in tables.agents /\ keyFile \in DOMAIN tables.keys

ProvisionInv == TablesInv /\ TaskInv /\ FilesInv

LEMMA ProvisionInit == Init => ProvisionInv
<1> SUFFICES ASSUME Init PROVE ProvisionInv
  OBVIOUS
<1>1. tables = [workspaces |-> {}, keys |-> Empty, agents |-> {}] /\ DOMAIN Empty = {}
      /\ Empty \in [{} -> {}]
  BY DEF Init, Empty
<1>2. TablesInv
  BY <1>1 DEF TablesInv
<1>3. TaskInv
  BY DEF Init, NoTask, TaskInv, TaskPCs
<1>4. FilesInv
  BY DEF Init, FilesInv, LeftBehind
<1> QED BY <1>2, <1>3, <1>4 DEF ProvisionInv

LEMMA ProvisionStep == ProvisionInv /\ [Next]_vars => ProvisionInv'
<1> SUFFICES ASSUME ProvisionInv, [Next]_vars PROVE ProvisionInv'
  OBVIOUS
<1> USE DEF ProvisionInv
<1>1. ASSUME UNCHANGED <<stack, prov, attempts, tables, keyFile, runnerEnv>> PROVE ProvisionInv'
  BY <1>1 DEF TablesInv, TaskInv, FilesInv
<1>2. ASSUME UNCHANGED tables PROVE TablesInv'
  BY <1>2 DEF TablesInv
<1>3. CASE StartProvision
  <2>1. /\ UNCHANGED <<stack, tables, keyFile, runnerEnv>> /\ attempts' = attempts + 1
        /\ prov' = [NoTask EXCEPT !.pc = "lookup"]
    BY <1>3 DEF StartProvision, schemaVars
  <2>2. TaskInv'
    BY <2>1 DEF TaskInv, NoTask, TaskPCs
  <2> QED BY <1>2, <2>1, <2>2 DEF FilesInv
<1>4. CASE LookUpKey
  <2>1. /\ UNCHANGED <<stack, attempts, tables, keyFile, runnerEnv>>
        /\ \/ \E key \in DOMAIN tables.keys :
                 prov' = [pc |-> "surface", key |-> key, ws |-> tables.keys[key]]
           \/ prov' = [prov EXCEPT !.pc = "workspace"]
    BY <1>4 DEF LookUpKey, schemaVars
  <2>2. TaskInv'
    BY <2>1 DEF TablesInv, TaskInv, TaskPCs
  <2> QED BY <1>2, <2>1, <2>2 DEF FilesInv
<1>5. CASE FindWorkspace
  <2>1. UNCHANGED <<stack, attempts, tables, keyFile, runnerEnv>>
    BY <1>5 DEF FindWorkspace, schemaVars
  <2>2. TaskInv'
    BY <1>5, <2>1 DEF FindWorkspace, TaskInv, TaskPCs
  <2> QED BY <1>2, <2>1, <2>2 DEF FilesInv
<1>6. CASE CreateWorkspace
  <2>1. /\ UNCHANGED <<stack, attempts, keyFile, runnerEnv>> /\ prov.pc = "create"
        /\ tables' = [tables EXCEPT !.workspaces = @ \cup {attempts}]
        /\ prov' = [prov EXCEPT !.pc = "key", !.ws = attempts]
    BY <1>6 DEF CreateWorkspace, schemaVars
  <2>2. tables.workspaces = {}
    BY <2>1 DEF TaskInv
  <2>3. tables'.workspaces = {attempts} /\ tables'.keys = tables.keys /\ tables'.agents = tables.agents
    BY <2>1, <2>2 DEF TablesInv
  <2>4. TablesInv'
    BY <2>1, <2>2, <2>3 DEF TablesInv, TaskInv
  <2>5. TaskInv'
    BY <2>1, <2>3 DEF TaskInv, TaskPCs
  <2> QED BY <2>1, <2>3, <2>4, <2>5 DEF FilesInv
<1>7. CASE CreateKey
  <2>1. PICK key : /\ tables' = [tables EXCEPT !.keys = Stored(@, key, prov.ws)]
                   /\ prov' = [prov EXCEPT !.pc = "surface", !.key = key]
    BY <1>7 DEF CreateKey
  <2>2. UNCHANGED <<stack, attempts, keyFile, runnerEnv>> /\ prov.pc = "key"
    BY <1>7 DEF CreateKey, schemaVars
  <2>3. prov.ws \in tables.workspaces
    BY <2>2 DEF TaskInv
  <2>4. /\ tables'.workspaces = tables.workspaces /\ tables'.agents = tables.agents
        /\ tables'.keys = Stored(tables.keys, key, prov.ws)
    BY <2>1 DEF TablesInv
  <2>5. /\ DOMAIN tables'.keys = DOMAIN tables.keys \cup {key}
        /\ tables'.keys \in [DOMAIN tables'.keys -> tables.workspaces]
    BY <2>3, <2>4 DEF Stored, TablesInv
  <2>6. TablesInv'
    BY <2>1, <2>4, <2>5 DEF TablesInv
  <2>7. TaskInv'
    BY <2>1, <2>2, <2>3, <2>4, <2>5 DEF TaskInv, TaskPCs
  <2> QED BY <2>2, <2>4, <2>5, <2>6, <2>7 DEF FilesInv
<1>8. CASE SurfaceKey
  <2>1. /\ UNCHANGED <<stack, attempts, tables, runnerEnv>> /\ prov.pc = "surface"
        /\ keyFile' = (IF stack.kind = "local" THEN prov.key ELSE keyFile)
        /\ prov' = [prov EXCEPT !.pc = "agent"]
    BY <1>8 DEF SurfaceKey, schemaVars
  <2>2. TaskInv'
    BY <2>1 DEF TaskInv, TaskPCs
  <2>3. FilesInv'
    BY <2>1 DEF TaskInv, FilesInv
  <2> QED BY <1>2, <2>1, <2>2, <2>3
<1>9. CASE FindAgent
  <2>1. /\ UNCHANGED <<stack, attempts, tables, keyFile, runnerEnv>> /\ prov.pc = "agent"
        /\ prov' = [prov EXCEPT !.pc = IF prov.ws \in tables.agents THEN "env" ELSE "createAgent"]
    BY <1>9 DEF FindAgent, schemaVars
  <2>2. TaskInv'
    BY <2>1 DEF TaskInv, TaskPCs
  <2> QED BY <1>2, <2>1, <2>2 DEF FilesInv
<1>10. CASE CreateAgent
  <2>1. /\ UNCHANGED <<stack, attempts, keyFile, runnerEnv>> /\ prov.pc = "createAgent"
        /\ tables' = [tables EXCEPT !.agents = @ \cup {prov.ws}]
        /\ prov' = [prov EXCEPT !.pc = "env"]
    BY <1>10 DEF CreateAgent, schemaVars
  <2>2. /\ tables'.workspaces = tables.workspaces /\ tables'.keys = tables.keys
        /\ tables'.agents = tables.agents \cup {prov.ws}
    BY <2>1 DEF TablesInv
  <2>3. TablesInv'
    BY <2>1, <2>2 DEF TablesInv, TaskInv
  <2>4. TaskInv'
    BY <2>1, <2>2 DEF TaskInv, TaskPCs
  <2> QED BY <2>1, <2>2, <2>3, <2>4 DEF FilesInv
<1>11. CASE HandOver
  <2>1. /\ UNCHANGED <<stack, attempts, tables, keyFile>> /\ prov.pc = "env"
        /\ runnerEnv' = (IF stack.kind = "local" THEN prov.ws ELSE runnerEnv)
        /\ prov' = [prov EXCEPT !.pc = "done"]
    BY <1>11 DEF HandOver, schemaVars
  <2>2. TaskInv'
    BY <2>1 DEF TaskInv, TaskPCs
  <2>3. FilesInv'
    BY <2>1 DEF TaskInv, FilesInv
  <2> QED BY <1>2, <2>1, <2>2, <2>3
<1>12. CASE ProvisionFails
  <2>1. /\ UNCHANGED <<stack, attempts, tables, keyFile, runnerEnv>>
        /\ prov' = [NoTask EXCEPT !.pc = "failed"]
    BY <1>12 DEF ProvisionFails, schemaVars
  <2>2. TaskInv'
    BY <2>1 DEF TaskInv, NoTask, TaskPCs
  <2> QED BY <1>2, <2>1, <2>2 DEF FilesInv
<1>13. CASE \/ \E e \in Edits : EditByHand(e)
            \/ \E n \in 1 .. Len(Snapshots), skip \in BOOLEAN : StartJob(n, skip)
            \/ JobQueriesRows \/ JobIntrospects \/ JobReadsLast \/ JobApplies \/ JobFails
            \/ \E env \in Environments, n \in 1 .. Len(Snapshots) : Boot(env, n)
            \/ BootReadsLast \/ BootMigrates \/ BootContinues \/ BootFails
            \/ RequestArrives \/ RequestEnds
            \/ \E db, redis \in BOOLEAN : HealthCheck(db, redis)
            \/ Shutdown \/ UNCHANGED vars
  <2>1. UNCHANGED <<stack, prov, attempts, tables, keyFile, runnerEnv>>
    BY <1>13 DEF EditByHand, StartJob, JobQueriesRows, JobIntrospects, JobReadsLast, JobApplies,
                 JobFails, Boot, BootReadsLast, BootMigrates, BootContinues, BootFails,
                 RequestArrives, RequestEnds, HealthCheck, Shutdown, vars, schemaVars, provVars
  <2> QED BY <1>1, <2>1
<1> QED BY <1>3, <1>4, <1>5, <1>6, <1>7, <1>8, <1>9, <1>10, <1>11, <1>12, <1>13 DEF Next

(* However often provisioning stops half-way and is run again, local or in *)
(* the cloud, over files that an earlier database may have left: there is  *)
(* at most one workspace; a key the task has written is in the database; a *)
(* workspace it told the runner of has its agent and is the one that key   *)
(* opens; and a task that ends leaves neither file as the earlier database *)
(* had it.                                                                 *)
THEOREM BootstrapHandsOverCorrect == Spec => []BootstrapHandsOver
<1>1. ASSUME ProvisionInv PROVE BootstrapHandsOver
  <2>1. Cardinality(tables.workspaces) <= 1
    <3>1. CASE tables.workspaces = {}
      BY <3>1, FS_EmptySet
    <3>2. CASE tables.workspaces # {}
      <4>1. PICK w : tables.workspaces = {w}
        BY <1>1, <3>2 DEF ProvisionInv, TablesInv
      <4> QED BY <4>1, FS_Singleton
    <3> QED BY <3>1, <3>2
  <2>2. keyFile \notin {None, Stale} => keyFile \in DOMAIN tables.keys
    BY <1>1 DEF ProvisionInv, FilesInv
  <2>3. ASSUME runnerEnv \in tables.agents, keyFile \in DOMAIN tables.keys
        PROVE  tables.keys[keyFile] = runnerEnv
    BY <1>1, <2>3 DEF ProvisionInv, TablesInv
  <2>4. runnerEnv \notin {None, Stale} => runnerEnv \in tables.agents /\ tables.keys[keyFile] = runnerEnv
    BY <1>1, <2>3 DEF ProvisionInv, FilesInv
  <2>5. prov.pc = "done" /\ stack.kind = "local" =>
           keyFile \in DOMAIN tables.keys /\ runnerEnv = tables.keys[keyFile]
    BY <1>1, <2>3 DEF ProvisionInv, TaskInv
  <2> QED BY <2>1, <2>2, <2>4, <2>5 DEF BootstrapHandsOver
<1> QED BY <1>1, ProvisionInit, ProvisionStep, PTL DEF Spec

-----------------------------------------------------------------------------
(* The comparison.  What diffSchemas finds no difference in.               *)

Same(f, g) == DOMAIN f = DOMAIN g /\ \A x \in DOMAIN f : f[x] = g[x]

SameColumns(f, g) == /\ DOMAIN f = DOMAIN g
                     /\ \A c \in DOMAIN f : f[c].type = g[c].type /\ f[c].notNull = g[c].notNull

SameTable(e, a) ==
    /\ SameColumns(e.columns, a.columns)
    /\ Same(e.indexes, a.indexes)
    /\ Same(e.foreignKeys, a.foreignKeys)
    /\ e.primaryKey = a.primaryKey

SameSchema(e, a) ==
    /\ Same(e.enums, a.enums)
    /\ DOMAIN e.tables = DOMAIN a.tables
    /\ \A t \in DOMAIN e.tables : SameTable(e.tables[t], a.tables[t])

LEMMA CompareSame ==
    ASSUME NEW kind, NEW table, NEW f, NEW g
    PROVE  Compare(kind, table, f, g) = {} <=> Same(f, g)
<1> DEFINE missing == DOMAIN f \ DOMAIN g
           unexpected == DOMAIN g \ DOMAIN f
           mismatch == {n \in DOMAIN f \cap DOMAIN g : f[n] # g[n]}
<1>1. ASSUME NEW s, NEW detail PROVE Difference(kind, Objects(table, s), detail) = {} <=> s = {}
  <2>1. CASE s = {}
    BY <2>1 DEF Difference, Objects
  <2>2. CASE s # {}
    <3>1. PICK n \in s : TRUE
      BY <2>2
    <3>2. <<table, n>> \in Objects(table, s)
      BY DEF Objects
    <3>3. [kind |-> kind, object |-> <<table, n>>, detail |-> detail]
              \in Difference(kind, Objects(table, s), detail)
      BY <3>2 DEF Difference
    <3> QED BY <2>2, <3>3
  <2> QED BY <2>1, <2>2
<1>2. Compare(kind, table, f, g) = Difference(kind, Objects(table, missing), "missing_in_db")
                                   \cup Difference(kind, Objects(table, unexpected), "unexpected_in_db")
                                   \cup Difference(kind, Objects(table, mismatch), "mismatch")
  BY DEF Compare
<1> HIDE DEF missing, unexpected, mismatch
<1>3. Compare(kind, table, f, g) = {} <=> missing = {} /\ unexpected = {} /\ mismatch = {}
  <2>1. /\ Difference(kind, Objects(table, missing), "missing_in_db") = {} <=> missing = {}
        /\ Difference(kind, Objects(table, unexpected), "unexpected_in_db") = {} <=> unexpected = {}
        /\ Difference(kind, Objects(table, mismatch), "mismatch") = {} <=> mismatch = {}
    BY ONLY <1>1, Zenon
  <2> QED BY ONLY <1>2, <2>1
<1> USE DEF missing, unexpected, mismatch
<1>4. missing = {} /\ unexpected = {} /\ mismatch = {} <=> Same(f, g)
  BY DEF Same
<1> QED BY <1>3, <1>4

LEMMA DiffTableSame ==
    ASSUME NEW t, NEW e, NEW a
    PROVE  DiffTable(t, e, a) = {} <=> SameTable(e, a)
<1>1. Same(Compared(e.columns), Compared(a.columns)) <=> SameColumns(e.columns, a.columns)
  BY DEF Same, SameColumns, Compared
<1>2. Difference("primaryKey", IF e.primaryKey = a.primaryKey THEN {} ELSE {<<t, "">>}, "mismatch") = {}
      <=> e.primaryKey = a.primaryKey
  BY DEF Difference
<1> QED BY <1>1, <1>2, CompareSame DEF DiffTable, SameTable

(* diffSchemas is exact on the structure it claims to compare: it returns  *)
(* nothing if and only if both schemas have the same enums with the same   *)
(* values in the same order, the same tables, and in each of them the same *)
(* columns with type and nullability, the same indexes, foreign keys and   *)
(* primary key.                                                            *)
THEOREM DiffSchemasExact ==
    ASSUME NEW expected, NEW actual
    PROVE  DiffSchemas(expected, actual) = {} <=> SameSchema(expected, actual)
<1> DEFINE common == DOMAIN expected.tables \cap DOMAIN actual.tables
           Diff(t) == DiffTable(t, expected.tables[t], actual.tables[t])
<1>1. Same(Present(expected.tables), Present(actual.tables))
      <=> DOMAIN expected.tables = DOMAIN actual.tables
  BY DEF Same, Present
<1>2. (UNION {Diff(t) : t \in common} = {}) <=> \A t \in common : Diff(t) = {}
  OBVIOUS
<1>3. \A t \in common : Diff(t) = {} <=> SameTable(expected.tables[t], actual.tables[t])
  BY DiffTableSame
<1>4. DiffSchemas(expected, actual) = Compare("enum", "", expected.enums, actual.enums)
          \cup Compare("table", "", Present(expected.tables), Present(actual.tables))
          \cup UNION {Diff(t) : t \in common}
  BY DEF DiffSchemas
<1> HIDE DEF Diff
<1>5. DiffSchemas(expected, actual) = {} <=>
          /\ Same(expected.enums, actual.enums)
          /\ DOMAIN expected.tables = DOMAIN actual.tables
          /\ \A t \in common : SameTable(expected.tables[t], actual.tables[t])
  <2>1. DiffSchemas(expected, actual) = {} <=>
          /\ Compare("enum", "", expected.enums, actual.enums) = {}
          /\ Compare("table", "", Present(expected.tables), Present(actual.tables)) = {}
          /\ UNION {Diff(t) : t \in common} = {}
    BY ONLY <1>4
  <2> QED BY ONLY <2>1, <1>1, <1>2, <1>3, CompareSame
<1> QED BY ONLY <1>5 DEF SameSchema

-----------------------------------------------------------------------------
(* A database that only migrations have made *)

Live(db, n) ==
    AssembleLiveSchema([k \in 1 .. 6 |-> Query(Queries[k], db, DOMAIN Snapshots[n].tables)])

(* What introspection sees of one table *)
SeenTable(t) == LiveTable(t.columns, IndexRows(t.indexes), t.foreignKeys, t.primaryKey)

LEMMA LiveSchema ==
    ASSUME NEW db, NEW n
    PROVE  /\ DOMAIN Live(db, n).tables = DOMAIN db.tables
           /\ Live(db, n).enums = db.enums
           /\ \A t \in DOMAIN Snapshots[n].tables \cap DOMAIN db.tables :
                 Live(db, n).tables[t] = SeenTable(db.tables[t])
<1> DEFINE names == DOMAIN Snapshots[n].tables
           seen == names \cap DOMAIN db.tables
           raw == [k \in 1 .. 6 |-> Query(Queries[k], db, names)]
<1>1. /\ raw[1] = Query("tables", db, names) /\ raw[2] = Query("columns", db, names)
      /\ raw[3] = Query("enums", db, names) /\ raw[4] = Query("indexes", db, names)
      /\ raw[5] = Query("foreignKeys", db, names) /\ raw[6] = Query("primaryKeys", db, names)
  BY DEF Queries
<1>2. /\ raw[1] = DOMAIN db.tables
      /\ raw[2] = [t \in seen |-> db.tables[t].columns]
      /\ raw[3] = db.enums
      /\ raw[4] = [t \in seen |-> IndexRows(db.tables[t].indexes)]
      /\ raw[5] = [t \in seen |-> db.tables[t].foreignKeys]
      /\ raw[6] = [t \in seen |-> db.tables[t].primaryKey]
  BY <1>1 DEF Query
<1>3. Live(db, n) = AssembleLiveSchema(raw)
  BY DEF Live
<1> HIDE DEF raw
<1>4. DOMAIN Live(db, n).tables = DOMAIN db.tables /\ Live(db, n).enums = db.enums
  BY <1>2, <1>3 DEF AssembleLiveSchema
<1>5. ASSUME NEW t \in seen PROVE Live(db, n).tables[t] = SeenTable(db.tables[t])
  <2>1. /\ RowsOf(raw[2], t, Empty) = db.tables[t].columns
        /\ RowsOf(raw[4], t, Empty) = IndexRows(db.tables[t].indexes)
        /\ RowsOf(raw[5], t, Empty) = db.tables[t].foreignKeys
        /\ RowsOf(raw[6], t, {}) = db.tables[t].primaryKey
    BY <1>2 DEF RowsOf
  <2>2. Live(db, n).tables[t] = LiveTable(RowsOf(raw[2], t, Empty), RowsOf(raw[4], t, Empty),
                                          RowsOf(raw[5], t, Empty), RowsOf(raw[6], t, {}))
    BY <1>2, <1>3 DEF AssembleLiveSchema
  <2> QED BY <2>1, <2>2 DEF SeenTable
<1> QED BY <1>4, <1>5

(* The types of drizzle and of Postgres are brought to one form. *)
LEMMA ColumnRoundTrip ==
    ASSUME NEW enums, NEW c, IsColumn(c, enums)
    PROVE  /\ LiveColumn(CatalogColumn(c, enums)).type = c.type
           /\ LiveColumn(CatalogColumn(c, enums)).notNull = c.notNull
           /\ LiveColumn(CatalogColumn(c, enums)).default = NormalizeDefault(c.default)
<1> DEFINE row == CatalogColumn(c, enums)
<1>1. /\ row.udt = c.type.name /\ row.length = c.type.length /\ row.nullable = ~c.notNull
      /\ row.default = [c.default EXCEPT !.cast = c.default.quoted]
      /\ row.data = IF c.type.name \in enums THEN "USER-DEFINED"
                    ELSE IF c.type.name = "varchar" THEN "character varying"
                    ELSE IF c.type.name = "char" THEN "character" ELSE c.type.name
  BY DEF CatalogColumn
<1> HIDE DEF row
<1>2. row.default.text = c.default.text
  BY <1>1 DEF IsColumn
<1>3. /\ c.type \in [name : {c.type.name}, length : Nat]
      /\ c.type.name \notin {"USER-DEFINED", "character varying", "character"}
      /\ c.type.length > 0 => c.type.name \in {"varchar", "char"} \ enums
  BY DEF IsColumn, IsType
<1>4. c.type = [name |-> c.type.name, length |-> c.type.length] /\ c.type.length \in Nat
  BY <1>3
<1>a. c.type.name \in enums \/ c.type.name \notin {"varchar", "char"} => c.type.length = 0
  <2>1. PICK n \in Nat : n = c.type.length
    BY <1>4
  <2>2. c.type.name \in enums \/ c.type.name \notin {"varchar", "char"} => ~(n > 0)
    BY ONLY <1>3, <2>1
  <2> QED BY ONLY <2>1, <2>2
<1>5. CanonicalizeLiveType(row) = [name |-> c.type.name, length |-> c.type.length]
  <2>1. CASE c.type.name \in enums
    <3>1. c.type.length = 0 /\ row.data = "USER-DEFINED"
      BY <1>1, <1>a, <2>1
    <3> QED BY <1>1, <3>1 DEF CanonicalizeLiveType
  <2>2. CASE c.type.name \notin enums /\ c.type.name = "varchar"
    BY <1>1, <2>2 DEF CanonicalizeLiveType
  <2>3. CASE c.type.name \notin enums /\ c.type.name = "char"
    BY <1>1, <2>3 DEF CanonicalizeLiveType
  <2>4. CASE c.type.name \notin enums \cup {"varchar", "char"}
    <3>1. c.type.length = 0 /\ row.data = c.type.name
      BY <1>1, <1>a, <2>4
    <3> QED BY <1>3, <3>1 DEF CanonicalizeLiveType
  <2> QED BY <2>1, <2>2, <2>3, <2>4
<1> QED BY <1>1, <1>2, <1>4, <1>5 DEF LiveColumn, NormalizeDefault, IsColumn, row

LEMMA ActionRoundTrip ==
    \A a \in Actions : NormalizeAction(NormalizeAction(a)) = NormalizeAction(a)
BY DEF Actions, NormalizeAction

LEMMA KeysRoundTrip ==
    ASSUME NEW keys, \A k \in DOMAIN keys : IsForeignKey(keys[k])
    PROVE  NormalizedKeys(NormalizedKeys(keys)) = NormalizedKeys(keys)
<1> DEFINE Normal(key) == [key EXCEPT !.onDelete = NormalizeAction(@), !.onUpdate = NormalizeAction(@)]
<1>1. ASSUME NEW k \in DOMAIN keys PROVE Normal(Normal(keys[k])) = Normal(keys[k])
  BY ActionRoundTrip DEF IsForeignKey
<1>2. NormalizedKeys(keys) = [k \in DOMAIN keys |-> Normal(keys[k])]
  BY DEF NormalizedKeys
<1>3. NormalizedKeys(NormalizedKeys(keys)) = [k \in DOMAIN keys |-> Normal(Normal(keys[k]))]
  BY <1>2 DEF NormalizedKeys
<1> HIDE DEF Normal
<1> QED BY <1>1, <1>2, <1>3

LEMMA IndexesRoundTrip ==
    ASSUME NEW indexes, NEW unique, \A i \in DOMAIN indexes : IsIndex(indexes[i])
    PROVE  IndexRows(Merged([i \in DOMAIN indexes |-> [indexes[i] EXCEPT !.constraint = FALSE]],
                            [i \in DOMAIN unique |-> [columns |-> unique[i], isUnique |-> TRUE,
                                                      constraint |-> TRUE]]))
           = [i \in DOMAIN indexes |-> [columns |-> PlainColumns(indexes[i].columns),
                                        isUnique |-> indexes[i].isUnique]]
<1> DEFINE own == [i \in DOMAIN indexes |-> [indexes[i] EXCEPT !.constraint = FALSE]]
           constraints == [i \in DOMAIN unique |-> [columns |-> unique[i], isUnique |-> TRUE,
                                                    constraint |-> TRUE]]
           all == Merged(own, constraints)
           rows_ == {j \in DOMAIN all : ~all[j].constraint /\ PlainColumns(all[j].columns) # <<>>}
<1>1. \A i \in DOMAIN indexes : /\ own[i].columns = indexes[i].columns
                                /\ own[i].isUnique = indexes[i].isUnique
                                /\ ~own[i].constraint
                                /\ PlainColumns(indexes[i].columns) # <<>>
  BY DEF IsIndex
<1>2. DOMAIN own = DOMAIN indexes /\ \A i \in DOMAIN constraints : constraints[i].constraint
  OBVIOUS
<1> HIDE DEF own, constraints
<1>3. DOMAIN all = DOMAIN own \cup DOMAIN constraints
      /\ \A i \in DOMAIN all : all[i] = IF i \in DOMAIN own THEN own[i] ELSE constraints[i]
  BY DEF Merged
<1> HIDE DEF all
<1>4. rows_ = DOMAIN indexes
  <2>1. ASSUME NEW j \in DOMAIN indexes PROVE j \in rows_
    <3>1. j \in DOMAIN all /\ all[j] = own[j]
      BY <1>2, <1>3
    <3> QED BY <1>1, <3>1
  <2>2. ASSUME NEW j \in DOMAIN all, j \notin DOMAIN indexes PROVE j \notin rows_
    <3>1. j \in DOMAIN constraints /\ all[j] = constraints[j]
      BY <1>2, <1>3, <2>2
    <3> QED BY <1>2, <3>1
  <2> QED BY <2>1, <2>2
<1>5. IndexRows(all) = [i \in rows_ |-> [columns |-> PlainColumns(all[i].columns),
                                         isUnique |-> all[i].isUnique]]
  BY DEF IndexRows
<1>6. \A i \in DOMAIN indexes : /\ all[i].columns = indexes[i].columns
                                /\ all[i].isUnique = indexes[i].isUnique
  BY <1>1, <1>2, <1>3
<1> HIDE DEF rows_
<1>7. IndexRows(all) = [i \in DOMAIN indexes |-> [columns |-> PlainColumns(indexes[i].columns),
                                                  isUnique |-> indexes[i].isUnique]]
  BY <1>4, <1>5, <1>6
<1> QED BY <1>7 DEF all, own, constraints

LEMMA TableRoundTrip ==
    ASSUME NEW enums, NEW t, IsTable(t, enums)
    PROVE  SeenTable(CatalogTable(t, enums)) = ProjectTable(t)
<1> DEFINE c == CatalogTable(t, enums)
           keys == {d \in DOMAIN t.columns : t.columns[d].primaryKey} \cup t.compositePrimaryKey
<1>1. /\ c.columns = [d \in DOMAIN t.columns |-> CatalogColumn(t.columns[d], enums)]
      /\ c.indexes = Merged([i \in DOMAIN t.indexes |-> [t.indexes[i] EXCEPT !.constraint = FALSE]],
                            [i \in DOMAIN t.uniqueConstraints |->
                               [columns |-> t.uniqueConstraints[i], isUnique |-> TRUE,
                                constraint |-> TRUE]])
      /\ c.foreignKeys = NormalizedKeys(t.foreignKeys)
      /\ c.primaryKey = keys
  BY DEF CatalogTable
<1> HIDE DEF c, keys
<1>2. IndexRows(c.indexes) = [i \in DOMAIN t.indexes |->
                                [columns |-> PlainColumns(t.indexes[i].columns),
                                 isUnique |-> t.indexes[i].isUnique]]
  BY <1>1, IndexesRoundTrip DEF IsTable
<1>3. NormalizedKeys(c.foreignKeys) = NormalizedKeys(t.foreignKeys)
  BY <1>1, KeysRoundTrip DEF IsTable
<1>4. [d \in DOMAIN c.columns |-> LiveColumn(c.columns[d])]
      = [d \in DOMAIN t.columns |-> [type |-> t.columns[d].type, notNull |-> t.columns[d].notNull,
                                     default |-> NormalizeDefault(t.columns[d].default)]]
  <2>1. ASSUME NEW d \in DOMAIN t.columns
        PROVE  LiveColumn(c.columns[d]) = [type |-> t.columns[d].type,
                                           notNull |-> t.columns[d].notNull,
                                           default |-> NormalizeDefault(t.columns[d].default)]
    <3>1. IsColumn(t.columns[d], enums) /\ c.columns[d] = CatalogColumn(t.columns[d], enums)
      BY <1>1 DEF IsTable
    <3>2. LiveColumn(c.columns[d]) = [type |-> LiveColumn(c.columns[d]).type,
                                      notNull |-> LiveColumn(c.columns[d]).notNull,
                                      default |-> LiveColumn(c.columns[d]).default]
      BY DEF LiveColumn
    <3> QED BY <3>1, <3>2, ColumnRoundTrip
  <2> QED BY <1>1, <2>1
<1>5. SeenTable(c) = [columns |-> [d \in DOMAIN c.columns |-> LiveColumn(c.columns[d])],
                      indexes |-> IndexRows(c.indexes),
                      foreignKeys |-> NormalizedKeys(c.foreignKeys), primaryKey |-> c.primaryKey]
  BY DEF SeenTable, LiveTable
<1> QED BY <1>1, <1>2, <1>3, <1>4, <1>5 DEF ProjectTable, c, keys

-----------------------------------------------------------------------------
(* The catalogs that the journal goes through *)

LEMMA CatalogShape ==
    ASSUME NEW n \in 0 .. Len(Snapshots)
    PROVE  /\ CatalogAfter(n) = [tables |-> CatalogAfter(n).tables, enums |-> CatalogAfter(n).enums]
           /\ CatalogAfter(n).tables = [t \in DOMAIN CatalogAfter(n).tables |-> CatalogAfter(n).tables[t]]
           /\ CatalogAfter(n).enums \in [DOMAIN CatalogAfter(n).enums -> Seq(STRING)]
           /\ \A t \in DOMAIN CatalogAfter(n).tables :
                 /\ CatalogAfter(n).tables[t] =
                       [columns |-> CatalogAfter(n).tables[t].columns,
                        indexes |-> CatalogAfter(n).tables[t].indexes,
                        foreignKeys |-> CatalogAfter(n).tables[t].foreignKeys,
                        primaryKey |-> CatalogAfter(n).tables[t].primaryKey]
                 /\ CatalogAfter(n).tables[t].columns =
                       [c \in DOMAIN CatalogAfter(n).tables[t].columns |->
                           CatalogAfter(n).tables[t].columns[c]]
<1>1. CASE n = 0
  <2>1. CatalogAfter(n) = [tables |-> Empty, enums |-> Empty]
    BY <1>1 DEF CatalogAfter, EmptyCatalog
  <2>2. DOMAIN Empty = {} /\ Empty = [t \in DOMAIN Empty |-> Empty[t]] /\ Empty \in [{} -> Seq(STRING)]
    BY DEF Empty
  <2> QED BY <2>1, <2>2
<1>2. CASE n # 0
  <2> DEFINE s == Snapshots[n]
             Table(t) == CatalogTable(s.tables[t], DOMAIN s.enums)
  <2>1. CatalogAfter(n) = [tables |-> [t \in DOMAIN s.tables |-> Table(t)], enums |-> s.enums]
    BY <1>2 DEF CatalogAfter
  <2>2. s.enums \in [DOMAIN s.enums -> Seq(STRING)]
    BY <1>2, SnapshotAssumption DEF IsSnapshot
  <2>3. ASSUME NEW t
        PROVE  /\ Table(t) = [columns |-> Table(t).columns, indexes |-> Table(t).indexes,
                              foreignKeys |-> Table(t).foreignKeys,
                              primaryKey |-> Table(t).primaryKey]
               /\ Table(t).columns = [c \in DOMAIN Table(t).columns |-> Table(t).columns[c]]
    BY DEF CatalogTable
  <2> HIDE DEF Table, s
  <2>4. /\ CatalogAfter(n).enums = s.enums
        /\ DOMAIN CatalogAfter(n).tables = DOMAIN s.tables
        /\ \A t \in DOMAIN s.tables : CatalogAfter(n).tables[t] = Table(t)
    BY <2>1
  <2>5. CatalogAfter(n) = [tables |-> CatalogAfter(n).tables, enums |-> CatalogAfter(n).enums]
    BY <2>1, Zenon
  <2>6. CatalogAfter(n).tables = [t \in DOMAIN CatalogAfter(n).tables |-> CatalogAfter(n).tables[t]]
    BY <2>1
  <2>7. CatalogAfter(n).enums \in [DOMAIN CatalogAfter(n).enums -> Seq(STRING)]
    BY <2>2, <2>4
  <2>8. ASSUME NEW t \in DOMAIN CatalogAfter(n).tables
        PROVE  /\ CatalogAfter(n).tables[t] =
                     [columns |-> CatalogAfter(n).tables[t].columns,
                      indexes |-> CatalogAfter(n).tables[t].indexes,
                      foreignKeys |-> CatalogAfter(n).tables[t].foreignKeys,
                      primaryKey |-> CatalogAfter(n).tables[t].primaryKey]
               /\ CatalogAfter(n).tables[t].columns =
                     [c \in DOMAIN CatalogAfter(n).tables[t].columns |->
                         CatalogAfter(n).tables[t].columns[c]]
    <3>1. CatalogAfter(n).tables[t] = Table(t)
      BY <2>4
    <3> QED BY <2>3, <3>1
  <2> QED BY <2>5, <2>6, <2>7, <2>8
<1> QED BY <1>1, <1>2

LEMMA KeptReflexive == ASSUME NEW a PROVE Kept(a, a)
BY DEF Kept, Agree

LEMMA KeptTransitive ==
    ASSUME NEW a, NEW b, NEW c, Kept(a, b), Kept(b, c)
    PROVE  Kept(a, c)
<1>1. ASSUME NEW t \in DOMAIN a.tables
      PROVE  /\ Agree(a.tables[t].columns, c.tables[t].columns)
             /\ a.tables[t].indexes = c.tables[t].indexes
             /\ a.tables[t].foreignKeys = c.tables[t].foreignKeys
             /\ a.tables[t].primaryKey = c.tables[t].primaryKey
  <2>1. t \in DOMAIN b.tables
    BY DEF Kept
  <2>2. Agree(a.tables[t].columns, b.tables[t].columns) /\ Agree(b.tables[t].columns, c.tables[t].columns)
    BY <2>1 DEF Kept
  <2>3. Agree(a.tables[t].columns, c.tables[t].columns)
    BY ONLY <2>2 DEF Agree
  <2> QED BY <2>1, <2>3 DEF Kept
<1>2. ASSUME NEW e \in DOMAIN a.enums PROVE Agree(a.enums[e], c.enums[e])
  <2>1. Agree(a.enums[e], b.enums[e]) /\ Agree(b.enums[e], c.enums[e])
    BY DEF Kept
  <2> QED BY ONLY <2>1 DEF Agree
<1>3. DOMAIN a.tables \subseteq DOMAIN c.tables /\ DOMAIN a.enums \subseteq DOMAIN c.enums
  BY DEF Kept
<1> QED BY <1>1, <1>2, <1>3 DEF Kept

LEMMA AddedStays ==
    ASSUME NEW a, NEW b, NEW c, Kept(a, b), Kept(b, c), Added(a, b)
    PROVE  Added(a, c)
<1>1. CASE DOMAIN b.tables \ DOMAIN a.tables # {}
  BY <1>1 DEF Kept, Added
<1>2. CASE \E t \in DOMAIN a.tables : DOMAIN b.tables[t].columns \ DOMAIN a.tables[t].columns # {}
  <2>1. PICK t \in DOMAIN a.tables : DOMAIN b.tables[t].columns \ DOMAIN a.tables[t].columns # {}
    BY <1>2
  <2>2. DOMAIN b.tables[t].columns \subseteq DOMAIN c.tables[t].columns
    BY DEF Kept, Agree
  <2> QED BY <2>1, <2>2 DEF Added
<1>3. CASE DOMAIN b.enums \ DOMAIN a.enums # {}
  BY <1>3 DEF Kept, Added
<1>4. CASE \E e \in DOMAIN a.enums : DOMAIN b.enums[e] \ DOMAIN a.enums[e] # {}
  <2>1. PICK e \in DOMAIN a.enums : DOMAIN b.enums[e] \ DOMAIN a.enums[e] # {}
    BY <1>4
  <2>2. DOMAIN b.enums[e] \subseteq DOMAIN c.enums[e]
    BY DEF Kept, Agree
  <2> QED BY <2>1, <2>2 DEF Added
<1> QED BY <1>1, <1>2, <1>3, <1>4 DEF Added

(* Induction is by a least counterexample. *)
Less == {p \in Nat \X Nat : p[1] < p[2]}

LEMMA LessWF == IsWellFoundedOn(Less, Nat)
BY NatLessThanWellFounded DEF OpToRel, Less

LEMMA LeastNumber ==
    ASSUME NEW T, T \subseteq Nat, T # {}
    PROVE  \E x \in T : \A y \in T : x <= y
<1>1. PICK x \in T : \A y \in T : ~(<<y, x>> \in Less)
  BY LessWF, WFMin
<1>2. \A y \in T : ~(y < x)
  BY <1>1 DEF Less
<1> QED BY <1>2

LEMMA KeptBetween ==
    ASSUME NEW m \in 0 .. Len(Snapshots), NEW n \in 0 .. Len(Snapshots), m <= n
    PROVE  Kept(CatalogAfter(m), CatalogAfter(n))
<1> USE SnapshotsLen
<1> DEFINE T == {k \in m .. Len(Snapshots) : ~Kept(CatalogAfter(m), CatalogAfter(k))}
<1>1. ASSUME T # {} PROVE FALSE
  <2>0. T \subseteq Nat
    OBVIOUS
  <2>1. PICK k \in T : \A j \in T : k <= j
    <3> HIDE DEF T
    <3> QED BY <1>1, <2>0, LeastNumber
  <2>2. k # m
    BY <2>1, KeptReflexive
  <2>3. k \in 1 .. Len(Snapshots) /\ k - 1 \in m .. Len(Snapshots)
    BY <2>2
  <2>4. k - 1 \notin T
    BY <2>1, <2>3
  <2>5. Kept(CatalogAfter(m), CatalogAfter(k - 1)) /\ Kept(CatalogAfter(k - 1), CatalogAfter(k))
    BY <2>3, <2>4, JournalAssumption
  <2> QED BY <2>1, <2>5, KeptTransitive
<1>2. n \in m .. Len(Snapshots)
  OBVIOUS
<1> QED BY <1>1, <1>2

LEMMA AddedBetween ==
    ASSUME NEW m \in 0 .. Len(Snapshots), NEW n \in 0 .. Len(Snapshots), m < n
    PROVE  Added(CatalogAfter(m), CatalogAfter(n))
<1> USE SnapshotsLen
<1>1. m + 1 \in 1 .. Len(Snapshots) /\ (m + 1) - 1 = m /\ m + 1 <= n
  OBVIOUS
<1>2. Kept(CatalogAfter(m), CatalogAfter(m + 1)) /\ Added(CatalogAfter(m), CatalogAfter(m + 1))
  BY <1>1, JournalAssumption
<1>3. Kept(CatalogAfter(m + 1), CatalogAfter(n))
  BY <1>1, KeptBetween
<1> QED BY <1>2, <1>3, AddedStays

(* A migration that is in the catalog cannot be applied again. *)
LEMMA AppliedOnce ==
    ASSUME NEW n \in 1 .. Len(Snapshots), NEW m \in n .. Len(Snapshots)
    PROVE  ~CanApply(CatalogAfter(m), n)
<1> USE SnapshotsLen
<1> DEFINE a == CatalogAfter(n - 1)
           b == CatalogAfter(n)
           c == CatalogAfter(m)
<1> SUFFICES ASSUME CanApply(c, n) PROVE FALSE
  OBVIOUS
<1>1. Added(a, b) /\ Kept(a, b) /\ Kept(b, c)
  BY JournalAssumption, KeptBetween
<1>0. b.enums \in [DOMAIN b.enums -> Seq(STRING)] /\ a.enums \in [DOMAIN a.enums -> Seq(STRING)]
  <2>1. n \in 0 .. Len(Snapshots) /\ n - 1 \in 0 .. Len(Snapshots)
    OBVIOUS
  <2> QED BY <2>1, CatalogShape
<1>d. /\ NewTables(n) = DOMAIN b.tables \ DOMAIN a.tables
      /\ \A t : NewColumns(n, t) = DOMAIN b.tables[t].columns \ DOMAIN a.tables[t].columns
      /\ AlteredTables(n) = {t \in DOMAIN a.tables : NewColumns(n, t) # {}}
      /\ \A e : NewValues(n, e) = SubSeq(b.enums[e], 1 + Len(a.enums[e]), Len(b.enums[e]))
      /\ CanApply(c, n) =>
            /\ NewTables(n) \cap DOMAIN c.tables = {}
            /\ \A t \in AlteredTables(n) : NewColumns(n, t) \cap DOMAIN c.tables[t].columns = {}
            /\ \A e \in DOMAIN b.enums : IF e \notin DOMAIN a.enums THEN e \notin DOMAIN c.enums
                                         ELSE Range(NewValues(n, e)) \cap Range(c.enums[e]) = {}
  BY DEF NewTables, NewColumns, AlteredTables, NewValues, CanApply
<1> HIDE DEF a, b, c
<1>2. CASE DOMAIN b.tables \ DOMAIN a.tables # {}
  BY <1>1, <1>2, <1>d DEF Kept
<1>3. CASE \E t \in DOMAIN a.tables : DOMAIN b.tables[t].columns \ DOMAIN a.tables[t].columns # {}
  <2>1. PICK t \in DOMAIN a.tables : DOMAIN b.tables[t].columns \ DOMAIN a.tables[t].columns # {}
    BY <1>3
  <2>2. DOMAIN b.tables[t].columns \subseteq DOMAIN c.tables[t].columns
    BY <1>1 DEF Kept, Agree
  <2>3. t \in AlteredTables(n)
    BY <1>d, <2>1
  <2> QED BY <1>d, <2>1, <2>2, <2>3
<1>4. CASE DOMAIN b.enums \ DOMAIN a.enums # {}
  BY <1>1, <1>4, <1>d DEF Kept
<1>5. CASE \E e \in DOMAIN a.enums : DOMAIN b.enums[e] \ DOMAIN a.enums[e] # {}
  <2>1. PICK e \in DOMAIN a.enums : DOMAIN b.enums[e] \ DOMAIN a.enums[e] # {}
    BY <1>5
  <2>2. PICK i : i \in DOMAIN b.enums[e] /\ i \notin DOMAIN a.enums[e]
    BY <2>1
  <2>3. e \in DOMAIN b.enums
    BY <1>1 DEF Kept
  <2>4. a.enums[e] \in Seq(STRING) /\ b.enums[e] \in Seq(STRING)
    BY <1>0, <2>3
  <2>5. b.enums[e][i] \in Range(NewValues(n, e))
    <3> DEFINE old == a.enums[e]
               new == b.enums[e]
    <3>1. i \in 1 .. Len(new) /\ i \notin 1 .. Len(old) /\ Len(old) \in Nat /\ Len(new) \in Nat
      BY <2>2, <2>4
    <3>2. NewValues(n, e) = SubSeq(new, 1 + Len(old), Len(new))
      BY <1>d
    <3> HIDE DEF old, new
    <3>3. i - Len(old) \in 1 .. (Len(new) - Len(old)) /\ (1 + Len(old)) + (i - Len(old)) - 1 = i
      BY <3>1
    <3>4. /\ DOMAIN NewValues(n, e) = 1 .. (Len(new) - Len(old))
          /\ NewValues(n, e)[i - Len(old)] = new[i]
      <4>1. new \in Seq(STRING)
        BY <2>4 DEF new
      <4> QED BY <3>1, <3>2, <3>3, <4>1
    <3> QED BY <3>3, <3>4 DEF Range, new
  <2>6. b.enums[e][i] \in Range(c.enums[e])
    <3>1. Agree(b.enums[e], c.enums[e])
      BY <1>1, <2>3 DEF Kept
    <3> QED BY <2>2, <3>1 DEF Agree, Range
  <2> QED BY <1>d, <2>3, <2>5, <2>6
<1> QED BY <1>1, <1>2, <1>3, <1>4, <1>5 DEF Added

LEMMA AppendedValues ==
    ASSUME NEW old \in Seq(STRING), NEW new \in Seq(STRING), Agree(old, new)
    PROVE  old \o SubSeq(new, 1 + Len(old), Len(new)) = new
<1>1. PICK k \in Nat : k = Len(old) /\ DOMAIN old = 1 .. k
  OBVIOUS
<1>2. PICK l \in Nat : l = Len(new) /\ DOMAIN new = 1 .. l
  OBVIOUS
<1>3. k <= l
  BY <1>1, <1>2 DEF Agree
<1> DEFINE rest == SubSeq(new, 1 + k, l)
<1>4. rest \in Seq(STRING) /\ Len(rest) = l - k /\ \A i \in 1 .. (l - k) : rest[i] = new[k + i]
  BY <1>1, <1>2, <1>3
<1> HIDE DEF rest
<1>5. old \o rest \in Seq(STRING) /\ Len(old \o rest) = l
  BY <1>1, <1>3, <1>4
<1>6. ASSUME NEW i \in 1 .. l PROVE (old \o rest)[i] = new[i]
  <2>1. CASE i \in 1 .. k
    BY <1>1, <1>3, <1>4, <2>1 DEF Agree
  <2>2. CASE i \notin 1 .. k
    <3>1. i - k \in 1 .. (l - k) /\ k + (i - k) = i
      BY <1>3, <2>2
    <3>2. (old \o rest)[i] = rest[i - k]
      BY <1>1, <1>3, <1>4, <2>2
    <3> QED BY <1>4, <3>1, <3>2
  <2> QED BY <2>1, <2>2
<1> DEFINE all == old \o rest
<1>7. all \in Seq(STRING) /\ Len(all) = Len(new) /\ \A i \in 1 .. Len(all) : all[i] = new[i]
  BY <1>2, <1>5, <1>6
<1> HIDE DEF all
<1>8. all = new
  BY <1>7, SeqEqual
<1>9. SubSeq(new, 1 + Len(old), Len(new)) = rest
  BY <1>1, <1>2 DEF rest
<1> QED BY <1>8, <1>9 DEF all

LEMMA SameFunction ==
    ASSUME NEW f, NEW g, f = [x \in DOMAIN f |-> f[x]], g = [x \in DOMAIN g |-> g[x]],
           DOMAIN f = DOMAIN g, \A x \in DOMAIN f : f[x] = g[x]
    PROVE  f = g
OBVIOUS

LEMMA WithColumns ==
    ASSUME NEW r, NEW columns,
           r = [columns |-> r.columns, indexes |-> r.indexes, foreignKeys |-> r.foreignKeys,
                primaryKey |-> r.primaryKey]
    PROVE  [r EXCEPT !.columns = columns]
           = [columns |-> columns, indexes |-> r.indexes, foreignKeys |-> r.foreignKeys,
              primaryKey |-> r.primaryKey]
<1>2. PICK c, i, f, p : r = [columns |-> c, indexes |-> i, foreignKeys |-> f, primaryKey |-> p]
  OBVIOUS
<1>3. r.indexes = i /\ r.foreignKeys = f /\ r.primaryKey = p
  BY ONLY <1>2
<1>4. [r EXCEPT !.columns = columns]
      = [columns |-> columns, indexes |-> i, foreignKeys |-> f, primaryKey |-> p]
  BY ONLY <1>2
<1> QED BY ONLY <1>3, <1>4

(* A migration on the catalog of the one before makes its own. *)
LEMMA ApplyNextCatalog ==
    ASSUME NEW n \in 1 .. Len(Snapshots)
    PROVE  Apply(CatalogAfter(n - 1), n) = CatalogAfter(n)
<1> USE SnapshotsLen
<1> DEFINE a == CatalogAfter(n - 1)
           b == CatalogAfter(n)
           New == DOMAIN b.tables \ DOMAIN a.tables
           Cols(t) == DOMAIN b.tables[t].columns \ DOMAIN a.tables[t].columns
           Altered == {t \in DOMAIN a.tables : Cols(t) # {}}
           Values(e) == SubSeq(b.enums[e], 1 + Len(a.enums[e]), Len(b.enums[e]))
           Table(t) == IF t \in New THEN b.tables[t]
                       ELSE IF t \notin Altered THEN a.tables[t]
                       ELSE [a.tables[t] EXCEPT !.columns =
                               Merged(@, [c \in Cols(t) |-> b.tables[t].columns[c]])]
           Enum(e) == IF e \notin DOMAIN a.enums THEN b.enums[e] ELSE a.enums[e] \o Values(e)
<1>1. n \in 0 .. Len(Snapshots) /\ n - 1 \in 0 .. Len(Snapshots)
  OBVIOUS
<1>2. Kept(a, b)
  BY JournalAssumption
<1>3. Apply(a, n) = [tables |-> [t \in DOMAIN a.tables \cup New |-> Table(t)],
                     enums |-> [e \in DOMAIN a.enums \cup DOMAIN b.enums |-> Enum(e)]]
  BY DEF Apply, NewTables, NewColumns, AlteredTables, NewValues
<1>4. /\ b = [tables |-> b.tables, enums |-> b.enums]
      /\ b.tables = [t \in DOMAIN b.tables |-> b.tables[t]]
      /\ b.enums \in [DOMAIN b.enums -> Seq(STRING)] /\ a.enums \in [DOMAIN a.enums -> Seq(STRING)]
  BY <1>1, CatalogShape
<1>5. ASSUME NEW t \in DOMAIN a.tables
      PROVE  /\ a.tables[t] = [columns |-> a.tables[t].columns, indexes |-> a.tables[t].indexes,
                               foreignKeys |-> a.tables[t].foreignKeys,
                               primaryKey |-> a.tables[t].primaryKey]
             /\ b.tables[t] = [columns |-> b.tables[t].columns, indexes |-> b.tables[t].indexes,
                               foreignKeys |-> b.tables[t].foreignKeys,
                               primaryKey |-> b.tables[t].primaryKey]
             /\ a.tables[t].columns = [c \in DOMAIN a.tables[t].columns |-> a.tables[t].columns[c]]
             /\ b.tables[t].columns = [c \in DOMAIN b.tables[t].columns |-> b.tables[t].columns[c]]
  <2>1. t \in DOMAIN b.tables
    BY <1>2 DEF Kept
  <2> QED BY <1>1, <2>1, CatalogShape
<1> HIDE DEF a, b
<1>6. DOMAIN a.tables \cup New = DOMAIN b.tables /\ DOMAIN a.enums \cup DOMAIN b.enums = DOMAIN b.enums
  BY <1>2 DEF Kept
<1>7. ASSUME NEW t \in DOMAIN a.tables PROVE Table(t) = b.tables[t]
  <2>0. /\ Agree(a.tables[t].columns, b.tables[t].columns)
        /\ a.tables[t].indexes = b.tables[t].indexes
        /\ a.tables[t].foreignKeys = b.tables[t].foreignKeys
        /\ a.tables[t].primaryKey = b.tables[t].primaryKey
    BY <1>2 DEF Kept
  <2>1. Merged(a.tables[t].columns, [c \in Cols(t) |-> b.tables[t].columns[c]]) = b.tables[t].columns
    BY <1>5, <2>0 DEF Merged, Agree
  <2>2. CASE Cols(t) = {}
    <3>1. a.tables[t].columns = b.tables[t].columns
      <4>1. DOMAIN a.tables[t].columns = DOMAIN b.tables[t].columns
        BY <2>0, <2>2 DEF Agree
      <4>2. \A c \in DOMAIN a.tables[t].columns : a.tables[t].columns[c] = b.tables[t].columns[c]
        BY <2>0 DEF Agree
      <4> DEFINE f == a.tables[t].columns
                 g == b.tables[t].columns
      <4>3. f = [x \in DOMAIN f |-> f[x]] /\ g = [x \in DOMAIN g |-> g[x]]
        BY <1>5
      <4>4. DOMAIN f = DOMAIN g /\ \A x \in DOMAIN f : f[x] = g[x]
        BY <4>1, <4>2
      <4> HIDE DEF f, g
      <4>5. f = g
        BY ONLY <4>3, <4>4, SameFunction
      <4> QED BY <4>5 DEF f, g
    <3>2. a.tables[t] = b.tables[t]
      BY <1>5, <2>0, <3>1
    <3> QED BY <2>2, <3>2
  <2>3. CASE Cols(t) # {}
    <3>1. t \in Altered /\ t \notin New
      BY <2>3
    <3>2. Table(t) = [a.tables[t] EXCEPT !.columns = b.tables[t].columns]
      BY <2>1, <3>1
    <3> HIDE DEF Table
    <3>3. [a.tables[t] EXCEPT !.columns = b.tables[t].columns]
          = [columns |-> b.tables[t].columns, indexes |-> a.tables[t].indexes,
             foreignKeys |-> a.tables[t].foreignKeys, primaryKey |-> a.tables[t].primaryKey]
      <4> DEFINE x == a.tables[t]
      <4>1. x = [columns |-> x.columns, indexes |-> x.indexes, foreignKeys |-> x.foreignKeys,
                 primaryKey |-> x.primaryKey]
        BY <1>5
      <4> HIDE DEF x
      <4>2. [x EXCEPT !.columns = b.tables[t].columns]
            = [columns |-> b.tables[t].columns, indexes |-> x.indexes,
               foreignKeys |-> x.foreignKeys, primaryKey |-> x.primaryKey]
        BY ONLY <4>1, WithColumns
      <4> QED BY <4>2 DEF x
    <3>4. b.tables[t] = [columns |-> b.tables[t].columns, indexes |-> b.tables[t].indexes,
                         foreignKeys |-> b.tables[t].foreignKeys,
                         primaryKey |-> b.tables[t].primaryKey]
      BY <1>5
    <3> QED BY ONLY <2>0, <3>2, <3>3, <3>4, Zenon
  <2> QED BY <2>2, <2>3
<1>8. \A t \in DOMAIN b.tables : Table(t) = b.tables[t]
  BY <1>7
<1>9. \A e \in DOMAIN b.enums : Enum(e) = b.enums[e]
  <2>1. ASSUME NEW e \in DOMAIN a.enums PROVE a.enums[e] \o Values(e) = b.enums[e]
    <3>1. Agree(a.enums[e], b.enums[e]) /\ e \in DOMAIN b.enums
      BY <1>2 DEF Kept
    <3>2. a.enums[e] \in Seq(STRING) /\ b.enums[e] \in Seq(STRING)
      BY <1>4, <3>1
    <3> QED BY <3>1, <3>2, AppendedValues
  <2> QED BY <2>1
<1> HIDE DEF Table, Enum
<1>10. /\ [t \in DOMAIN a.tables \cup New |-> Table(t)] = b.tables
       /\ [e \in DOMAIN a.enums \cup DOMAIN b.enums |-> Enum(e)] = b.enums
  BY <1>4, <1>6, <1>8, <1>9
<1>11. Apply(a, n) = b
  BY <1>3, <1>4, <1>10
<1> QED BY <1>11 DEF a, b

-----------------------------------------------------------------------------
(* drizzle's migrate *)

Start(db) == [ok |-> TRUE, db |-> db]

IsChain(done, db, last, count) ==
    done = [k \in 0 .. count |->
              IF k = 0 THEN [ok |-> TRUE, db |-> db] ELSE ApplyNext(done[k - 1], last + k)]

Chain(db, last, count) == CHOOSE done : IsChain(done, db, last, count)

LEMMA AppliedChain ==
    ASSUME NEW last, NEW journal
    PROVE  Applied(last, journal) = Chain(catalog, last, Pending(last, journal))[Pending(last, journal)]
BY DEF Applied, Chain, IsChain

LEMMA IsChainByStep ==
    ASSUME NEW done, NEW db, NEW last, NEW count \in Nat
    PROVE  IsChain(done, db, last, count) <=>
              /\ DOMAIN done = 0 .. count /\ done = [k \in 0 .. count |-> done[k]]
              /\ done[0] = Start(db)
              /\ \A k \in 1 .. count : done[k] = ApplyNext(done[k - 1], last + k)
<1> DEFINE Body(k) == IF k = 0 THEN Start(db) ELSE ApplyNext(done[k - 1], last + k)
<1>1. Body(0) = Start(db) /\ \A k \in 1 .. count : Body(k) = ApplyNext(done[k - 1], last + k)
  OBVIOUS
<1>2. IsChain(done, db, last, count) <=> done = [k \in 0 .. count |-> Body(k)]
  BY DEF IsChain, Start
<1>3. (0 .. count) = {0} \cup (1 .. count)
  OBVIOUS
<1> HIDE DEF Body
<1> DEFINE dom == 0 .. count
           ste == 1 .. count
<1>4. 0 \in dom /\ dom = {0} \cup ste
  BY <1>3
<1> HIDE DEF dom, ste
<1>5. (done = [k \in dom |-> Body(k)]) <=>
          /\ DOMAIN done = dom /\ done = [k \in dom |-> done[k]]
          /\ done[0] = Body(0) /\ \A k \in ste : done[k] = Body(k)
  <2>1. ASSUME done = [k \in dom |-> Body(k)]
        PROVE  /\ DOMAIN done = dom /\ done = [k \in dom |-> done[k]]
               /\ done[0] = Body(0) /\ \A k \in ste : done[k] = Body(k)
    BY <1>4, <2>1
  <2>2. ASSUME DOMAIN done = dom, done = [k \in dom |-> done[k]], done[0] = Body(0),
               \A k \in ste : done[k] = Body(k)
        PROVE  done = [k \in dom |-> Body(k)]
    <3>1. \A k \in dom : done[k] = Body(k)
      BY <1>4, <2>2
    <3> QED BY <2>2, <3>1
  <2> QED BY <2>1, <2>2
<1> QED BY <1>1, <1>2, <1>5 DEF dom, ste

LEMMA ChainExists ==
    ASSUME NEW db, NEW last, NEW count \in Nat
    PROVE  \E done : IsChain(done, db, last, count)
<1> DEFINE T == {c \in Nat : ~\E done : IsChain(done, db, last, c)}
<1>1. ASSUME T # {} PROVE FALSE
  <2>0. T \subseteq Nat
    OBVIOUS
  <2>1. PICK c \in T : \A j \in T : c <= j
    <3> HIDE DEF T
    <3> QED BY <1>1, <2>0, LeastNumber
  <2>2. CASE c = 0
    <3> DEFINE one == [k \in 0 .. 0 |-> Start(db)]
    <3>1. DOMAIN one = 0 .. 0 /\ one = [k \in 0 .. 0 |-> one[k]] /\ one[0] = Start(db)
      OBVIOUS
    <3> HIDE DEF one
    <3>2. \A k \in 1 .. 0 : one[k] = ApplyNext(one[k - 1], last + k)
      OBVIOUS
    <3>3. IsChain(one, db, last, 0)
      BY ONLY 0 \in Nat, <3>1, <3>2, IsChainByStep
    <3> QED BY <2>1, <2>2, <3>3
  <2>3. CASE c # 0
    <3>0. c \in Nat /\ c - 1 \in Nat
      BY <2>1, <2>3
    <3>1. c - 1 \notin T
      BY <2>1, <3>0
    <3>2. PICK f : IsChain(f, db, last, c - 1)
      BY <3>0, <3>1
    <3>a. f[0] = Start(db) /\ \A k \in 1 .. (c - 1) : f[k] = ApplyNext(f[k - 1], last + k)
      BY <3>0, <3>2, IsChainByStep
    <3> DEFINE g == [k \in 0 .. c |-> IF k = c THEN ApplyNext(f[c - 1], last + c) ELSE f[k]]
    <3>3. DOMAIN g = 0 .. c /\ g = [k \in 0 .. c |-> g[k]]
      OBVIOUS
    <3>4. \A k \in 0 .. (c - 1) : g[k] = f[k]
      BY <3>0
    <3>5. g[c] = ApplyNext(f[c - 1], last + c)
      BY <3>0
    <3> HIDE DEF g
    <3>6. g[0] = Start(db)
      BY <3>0, <3>a, <3>4
    <3>7. ASSUME NEW k \in 1 .. c PROVE g[k] = ApplyNext(g[k - 1], last + k)
      <4>0. k - 1 \in 0 .. (c - 1)
        BY <3>0
      <4>1. CASE k = c
        BY <3>4, <3>5, <4>0, <4>1
      <4>2. CASE k # c
        <5>1. k \in 1 .. (c - 1) /\ k \in 0 .. (c - 1)
          BY <3>0, <4>2
        <5>2. g[k - 1] = f[k - 1] /\ g[k] = f[k]
          BY <3>4, <4>0, <5>1
        <5> QED BY <3>a, <5>1, <5>2
      <4> QED BY <4>1, <4>2
    <3>8. IsChain(g, db, last, c)
      BY <3>0, <3>3, <3>6, <3>7, IsChainByStep
    <3> QED BY <2>1, <3>8
  <2> QED BY <2>2, <2>3
<1> QED BY <1>1

LEMMA ChainDef ==
    ASSUME NEW db, NEW last, NEW count \in Nat
    PROVE  /\ Chain(db, last, count)[0] = Start(db)
           /\ \A k \in 1 .. count :
                 Chain(db, last, count)[k] = ApplyNext(Chain(db, last, count)[k - 1], last + k)
<1>1. IsChain(Chain(db, last, count), db, last, count)
  BY ChainExists DEF Chain
<1> QED BY <1>1, IsChainByStep

(* Somebody who read the last row and then applies: if another migrated in *)
(* between, the first statement fails, and with it the transaction.        *)
LEMMA CommitKeepsCatalog ==
    ASSUME rows \in Journal, catalog = CatalogAfter(rows), NEW last \in Nat, last <= rows,
           NEW journal \in Journal, Commit(last, journal)
    PROVE  rows' \in Journal /\ catalog' = CatalogAfter(rows')
<1> USE SnapshotsLen DEF Journal
<1> DEFINE P == Pending(last, journal)
           chain == Chain(catalog, last, P)
<1>1. P \in Nat /\ (P > 0 => last + P = journal)
  BY DEF Pending
<1>2. chain[0] = Start(catalog) /\ \A k \in 1 .. P : chain[k] = ApplyNext(chain[k - 1], last + k)
  BY <1>1, ChainDef
<1>3. chain[P].ok /\ catalog' = chain[P].db /\ rows' = rows + P
  BY AppliedChain DEF Commit
<1> HIDE DEF chain, P
<1> DEFINE Good(k) == chain[k].ok => /\ chain[k].db = CatalogAfter(rows + k)
                                     /\ k = 0 \/ last = rows
           T == {k \in 0 .. P : ~Good(k)}
<1>4. T = {}
  <2> SUFFICES ASSUME T # {} PROVE FALSE
    OBVIOUS
  <2>0. T \subseteq Nat
    BY <1>1
  <2>1. PICK k \in T : \A j \in T : k <= j
    <3> HIDE DEF T
    <3> QED BY <2>0, LeastNumber
  <2>2. Good(0)
    BY <1>2 DEF Start
  <2>3. k # 0 /\ k \in 0 .. P /\ ~Good(k)
    BY <2>1, <2>2
  <2>4. k \in 1 .. P /\ k - 1 \in 0 .. P /\ ~(k <= k - 1)
    BY <1>1, <2>3
  <2>5. Good(k - 1)
    BY <2>1, <2>4
  <2>6. chain[k] = ApplyNext(chain[k - 1], last + k)
    BY <1>2, <2>4
  <2>7. /\ chain[k - 1].ok /\ CanApply(chain[k - 1].db, last + k)
        /\ chain[k].db = Apply(chain[k - 1].db, last + k)
    BY <2>3, <2>6 DEF ApplyNext
  <2>8. chain[k - 1].db = CatalogAfter(rows + (k - 1)) /\ (k - 1 = 0 \/ last = rows)
    BY <2>5, <2>7
  <2> HIDE DEF Good, T
  <2>9. last + k \in 1 .. Len(Snapshots)
    BY <1>1, <2>4
  <2>10. last = rows
    <3> SUFFICES ASSUME last # rows PROVE FALSE
      OBVIOUS
    <3>1. k - 1 = 0 /\ last + k <= rows /\ rows + (k - 1) = rows
      BY <2>4, <2>8
    <3>2. rows \in (last + k) .. Len(Snapshots)
      BY <2>9, <3>1
    <3> QED BY <2>7, <2>8, <2>9, <3>1, <3>2, AppliedOnce
  <2>11. rows + (k - 1) = (last + k) - 1 /\ rows + k = last + k
    BY <2>4, <2>10
  <2>12. chain[k].db = CatalogAfter(rows + k)
    BY <2>7, <2>8, <2>9, <2>11, ApplyNextCatalog
  <2> QED BY <2>3, <2>10, <2>12 DEF Good
<1>5. Good(P)
  BY <1>1, <1>4
<1>6. catalog' = CatalogAfter(rows') /\ (P = 0 \/ last = rows)
  BY <1>3, <1>5
<1>7. rows' \in Journal
  BY <1>1, <1>3, <1>6
<1> QED BY <1>6, <1>7

MigrationInv ==
    /\ job.pc = "apply" => job.last <= rows
    /\ edits = {} => rows \in Journal /\ catalog = CatalogAfter(rows)

LEMMA MigrationInit == Init => MigrationInv
BY DEF Init, MigrationInv, NoJob, Journal

LEMMA MigrationStep == ServerInv /\ MigrationInv /\ [Next]_vars => MigrationInv'
<1> SUFFICES ASSUME ServerInv, MigrationInv, [Next]_vars PROVE MigrationInv'
  OBVIOUS
<1>0. /\ rows \in Nat /\ job.last \in Nat /\ job.journal \in Journal
      /\ server.last \in Nat /\ server.journal \in Journal
      /\ job \in [pc : JobPCs, journal : Journal, skip : BOOLEAN, rows : Nat, raw : {job.raw},
                  last : Nat, before : {job.before}]
      /\ server.pc = "migrate" => server.last <= rows
  BY DEF ServerInv, ServerTypeOK, MigratedInv
<1>1. ASSUME UNCHANGED <<catalog, rows, edits, job>> PROVE MigrationInv'
  BY <1>1 DEF MigrationInv
<1>2. ASSUME UNCHANGED <<catalog, rows, edits>>, job'.pc = "apply" => job'.last <= rows
      PROVE  MigrationInv'
  BY <1>2 DEF MigrationInv
<1>3. ASSUME NEW e \in Edits, EditByHand(e) PROVE MigrationInv'
  <2>1. edits' # {} /\ UNCHANGED <<rows, job>>
    BY <1>3 DEF EditByHand, jobVars
  <2> QED BY <2>1 DEF MigrationInv
<1>4. ASSUME NEW n \in 1 .. Len(Snapshots), NEW skip \in BOOLEAN, StartJob(n, skip)
      PROVE  MigrationInv'
  <2>1. job'.pc # "apply"
    BY <1>4 DEF StartJob, NoJob
  <2> QED BY <1>2, <1>4, <2>1 DEF StartJob, schemaVars
<1>5. CASE JobQueriesRows
  <2>1. job'.pc # "apply"
    BY <1>0, <1>5 DEF JobQueriesRows
  <2> QED BY <1>2, <1>5, <2>1 DEF JobQueriesRows, schemaVars
<1>6. CASE JobIntrospects
  <2>1. job'.pc # "apply"
    BY <1>0, <1>6 DEF JobIntrospects
  <2> QED BY <1>2, <1>6, <2>1 DEF JobIntrospects, schemaVars
<1>7. CASE JobReadsLast
  <2>1. job'.last = rows
    BY <1>0, <1>7 DEF JobReadsLast
  <2> QED BY <1>0, <1>2, <1>7, <2>1 DEF JobReadsLast, schemaVars
<1>8. CASE JobApplies
  <2>1. job'.pc # "apply" /\ UNCHANGED edits /\ job.pc = "apply"
    BY <1>0, <1>8 DEF JobApplies
  <2>2. job.last <= rows
    BY <2>1 DEF MigrationInv
  <2>3. CASE Commit(job.last, job.journal)
    BY <1>0, <2>1, <2>2, <2>3, CommitKeepsCatalog DEF MigrationInv
  <2>4. CASE UNCHANGED <<catalog, rows>>
    BY <1>2, <2>1, <2>4
  <2> QED BY <1>8, <2>3, <2>4 DEF JobApplies
<1>9. CASE JobFails
  <2>1. job'.pc # "apply"
    BY <1>0, <1>9 DEF JobFails
  <2> QED BY <1>2, <1>9, <2>1 DEF JobFails, schemaVars
<1>10. CASE BootMigrates
  <2>1. UNCHANGED <<edits, job>> /\ server.pc = "migrate"
    BY <1>10 DEF BootMigrates, jobVars
  <2>2. CASE Commit(server.last, server.journal)
    <3>1. rows' \in Nat /\ rows' >= rows
      <4>1. server.journal \in Nat
        BY <1>0, SnapshotsLen DEF Journal
      <4> QED BY <1>0, <2>2, <4>1, CommitGrows
    <3>2. job'.pc = "apply" => job'.last <= rows'
      BY <1>0, <2>1, <3>1 DEF MigrationInv
    <3>3. edits' = {} => rows' \in Journal /\ catalog' = CatalogAfter(rows')
      BY <1>0, <2>1, <2>2, CommitKeepsCatalog DEF MigrationInv
    <3> QED BY <3>2, <3>3 DEF MigrationInv
  <2>3. CASE UNCHANGED <<catalog, rows>>
    BY <1>1, <2>1, <2>3
  <2> QED BY <1>10, <2>2, <2>3 DEF BootMigrates
<1>11. CASE \/ \E env \in Environments, n \in 1 .. Len(Snapshots) : Boot(env, n)
            \/ BootReadsLast \/ BootContinues \/ BootFails \/ RequestArrives \/ RequestEnds
            \/ \E db, redis \in BOOLEAN : HealthCheck(db, redis)
            \/ Shutdown
            \/ StartProvision \/ LookUpKey \/ FindWorkspace \/ CreateWorkspace \/ CreateKey
            \/ SurfaceKey \/ FindAgent \/ CreateAgent \/ HandOver \/ ProvisionFails
            \/ UNCHANGED vars
  <2>1. UNCHANGED <<catalog, rows, edits, job>>
    BY <1>11 DEF Boot, BootReadsLast, BootContinues, BootFails, RequestArrives, RequestEnds,
                 HealthCheck, Shutdown, StartProvision, LookUpKey, FindWorkspace,
                 CreateWorkspace, CreateKey, SurfaceKey, FindAgent, CreateAgent, HandOver,
                 ProvisionFails, vars, schemaVars, jobVars
  <2> QED BY <1>1, <2>1
<1> QED BY <1>3, <1>4, <1>5, <1>6, <1>7, <1>8, <1>9, <1>10, <1>11 DEF Next

(* Migrate jobs and servers that migrate at boot may read the last row     *)
(* before, and apply after, one another: as long as nobody changes the     *)
(* schema by hand, no migration is applied twice or left out, and the      *)
(* catalog is the one that the recorded rows stand for.                    *)
THEOREM CatalogIsWhatRowsSay ==
    Spec => [](edits = {} => rows \in 0 .. Len(Snapshots) /\ catalog = CatalogAfter(rows))
<1>1. MigrationInv => (edits = {} => rows \in 0 .. Len(Snapshots) /\ catalog = CatalogAfter(rows))
  BY DEF MigrationInv, Journal
<1> QED BY <1>1, ServerInit, ServerStep, MigrationInit, MigrationStep, PTL DEF Spec

-----------------------------------------------------------------------------
(* db:check and db:status on such a database *)

LEMMA StatusApplied ==
    ASSUME NEW n \in 1 .. Len(Snapshots), NEW m \in Journal
    PROVE  DbStatus(n, m) = {"APPLIED"} <=> m = n
<1> USE SnapshotsLen DEF Journal
<1> DEFINE status == ComputeMigrationStatus(n, m)
           D == 1 .. (IF m > n THEN m ELSE n)
<1>1. /\ DOMAIN status = D
      /\ \A i \in D : status[i] = IF i > n THEN "UNKNOWN" ELSE IF i <= m THEN "APPLIED" ELSE "PENDING"
  BY DEF ComputeMigrationStatus
<1> HIDE DEF status
<1>2. DbStatus(n, m) = {status[i] : i \in D}
  BY <1>1 DEF DbStatus, Range, status
<1>3. CASE m = n
  <2>1. 1 \in D /\ \A i \in D : status[i] = "APPLIED"
    BY <1>1, <1>3
  <2> HIDE DEF D
  <2> QED BY <1>2, <1>3, <2>1
<1>4. CASE m > n
  <2>1. m \in D /\ status[m] = "UNKNOWN"
    BY <1>1, <1>4
  <2>2. status[m] \in DbStatus(n, m)
    BY <1>2, <2>1
  <2> QED BY <1>4, <2>1, <2>2
<1>5. CASE m < n
  <2>1. n \in D /\ status[n] = "PENDING"
    BY <1>1, <1>5
  <2>2. status[n] \in DbStatus(n, m)
    BY <1>2, <2>1
  <2> QED BY <1>5, <2>1, <2>2
<1> QED BY <1>3, <1>4, <1>5

(* The snapshot in the words of the catalog it makes *)
LEMMA Projection ==
    ASSUME NEW n \in 1 .. Len(Snapshots)
    PROVE  /\ ProjectSnapshot(Snapshots[n]).enums = CatalogAfter(n).enums
           /\ DOMAIN ProjectSnapshot(Snapshots[n]).tables = DOMAIN CatalogAfter(n).tables
           /\ DOMAIN Snapshots[n].tables = DOMAIN CatalogAfter(n).tables
           /\ \A t \in DOMAIN CatalogAfter(n).tables :
                 ProjectSnapshot(Snapshots[n]).tables[t] = SeenTable(CatalogAfter(n).tables[t])
<1> USE SnapshotsLen
<1> DEFINE s == Snapshots[n]
<1>1. IsSnapshot(s)
  BY SnapshotAssumption
<1>2. /\ CatalogAfter(n).enums = s.enums
      /\ DOMAIN CatalogAfter(n).tables = DOMAIN s.tables
      /\ \A t \in DOMAIN s.tables : CatalogAfter(n).tables[t] = CatalogTable(s.tables[t], DOMAIN s.enums)
  BY DEF CatalogAfter
<1>3. /\ ProjectSnapshot(s).enums = s.enums
      /\ DOMAIN ProjectSnapshot(s).tables = DOMAIN s.tables
      /\ \A t \in DOMAIN s.tables : ProjectSnapshot(s).tables[t] = ProjectTable(s.tables[t])
  BY DEF ProjectSnapshot
<1> HIDE DEF s
<1>4. \A t \in DOMAIN s.tables : SeenTable(CatalogAfter(n).tables[t]) = ProjectTable(s.tables[t])
  BY <1>1, <1>2, TableRoundTrip DEF IsSnapshot
<1> QED BY <1>2, <1>3, <1>4 DEF s

(* The columns of a table as introspection returns them *)
LEMMA SeenColumns ==
    ASSUME NEW t
    PROVE  /\ DOMAIN SeenTable(t).columns = DOMAIN t.columns
           /\ \A c \in DOMAIN t.columns : SeenTable(t).columns[c] = LiveColumn(t.columns[c])
BY DEF SeenTable, LiveTable

(* A catalog of the journal compared with a snapshot of the journal *)
LEMMA CheckIsExact ==
    ASSUME NEW n \in 1 .. Len(Snapshots), NEW m \in Journal
    PROVE  /\ DbCheck(CatalogAfter(m), n).differences = {} <=> m = n
           /\ DbCheck(CatalogAfter(m), n).notes = {}
<1> USE SnapshotsLen DEF Journal
<1> DEFINE a == CatalogAfter(m)
           b == CatalogAfter(n)
           expected == ProjectSnapshot(Snapshots[n])
           actual == Live(a, n)
<1>1. /\ DbCheck(a, n).differences = DiffSchemas(expected, actual)
      /\ DbCheck(a, n).notes = CollectDefaultNotes(expected, actual)
  BY DEF DbCheck, CheckDrift, Live
<1>2. /\ expected.enums = b.enums /\ DOMAIN expected.tables = DOMAIN b.tables
      /\ \A t \in DOMAIN b.tables : expected.tables[t] = SeenTable(b.tables[t])
  BY Projection
<1>3. /\ actual.enums = a.enums /\ DOMAIN actual.tables = DOMAIN a.tables
      /\ \A t \in DOMAIN a.tables \cap DOMAIN b.tables : actual.tables[t] = SeenTable(a.tables[t])
  BY LiveSchema, Projection
<1>4. /\ m <= n => Kept(a, b)
      /\ n <= m => Kept(b, a)
      /\ m < n => Added(a, b)
      /\ n < m => Added(b, a)
  <2>1. n \in 0 .. Len(Snapshots)
    OBVIOUS
  <2> QED BY <2>1, KeptBetween, AddedBetween
<1>5. m = n => a = b
  OBVIOUS
<1> HIDE DEF a, b, expected, actual
<1>6. ASSUME m = n PROVE DiffSchemas(expected, actual) = {}
  <2>1. SameSchema(expected, actual)
    <3>1. ASSUME NEW t \in DOMAIN expected.tables
          PROVE  SameTable(expected.tables[t], actual.tables[t])
      <4>1. expected.tables[t] = actual.tables[t]
        BY <1>2, <1>3, <1>5, <1>6
      <4> QED BY <4>1 DEF SameTable, SameColumns, Same
    <3>2. Same(expected.enums, actual.enums) /\ DOMAIN expected.tables = DOMAIN actual.tables
      BY <1>2, <1>3, <1>5, <1>6 DEF Same
    <3> QED BY <3>1, <3>2 DEF SameSchema
  <2> QED BY <2>1, DiffSchemasExact
<1>7. ASSUME DiffSchemas(expected, actual) = {} PROVE m = n
  <2>1. SameSchema(expected, actual)
    BY <1>7, DiffSchemasExact
  <2>2. DOMAIN a.tables = DOMAIN b.tables /\ DOMAIN a.enums = DOMAIN b.enums
        /\ \A e \in DOMAIN a.enums : a.enums[e] = b.enums[e]
    BY <1>2, <1>3, <2>1 DEF SameSchema, Same
  <2>3. ASSUME NEW t \in DOMAIN a.tables
        PROVE  DOMAIN a.tables[t].columns = DOMAIN b.tables[t].columns
    <3>1. expected.tables[t] = SeenTable(b.tables[t]) /\ actual.tables[t] = SeenTable(a.tables[t])
      BY <1>2, <1>3, <2>2
    <3>2. DOMAIN expected.tables[t].columns = DOMAIN actual.tables[t].columns
      BY <1>2, <2>1, <2>2 DEF SameSchema, SameTable, SameColumns
    <3> QED BY <3>1, <3>2, SeenColumns
  <2>4. ~Added(a, b) /\ ~Added(b, a)
    BY <2>2, <2>3 DEF Added
  <2> QED BY <1>4, <2>4
<1>8. CollectDefaultNotes(expected, actual) = {}
  <2>1. ASSUME NEW t \in DOMAIN expected.tables \cap DOMAIN actual.tables,
               NEW c \in DOMAIN expected.tables[t].columns \cap DOMAIN actual.tables[t].columns
        PROVE  expected.tables[t].columns[c].default = actual.tables[t].columns[c].default
    <3>1. t \in DOMAIN a.tables /\ t \in DOMAIN b.tables
      BY <1>2, <1>3
    <3>2. expected.tables[t] = SeenTable(b.tables[t]) /\ actual.tables[t] = SeenTable(a.tables[t])
      BY <1>2, <1>3, <3>1
    <3>3. c \in DOMAIN a.tables[t].columns /\ c \in DOMAIN b.tables[t].columns
      BY <3>2, SeenColumns
    <3>4. Agree(a.tables[t].columns, b.tables[t].columns) \/ Agree(b.tables[t].columns, a.tables[t].columns)
      BY <1>4, <3>1 DEF Kept
    <3>5. a.tables[t].columns[c] = b.tables[t].columns[c]
      BY <3>3, <3>4 DEF Agree
    <3> QED BY <3>2, <3>3, <3>5, SeenColumns
  <2> QED BY <2>1 DEF CollectDefaultNotes
<1> QED BY <1>1, <1>6, <1>7, <1>8 DEF a

(* No false alarm and no false calm: as long as nobody has changed the     *)
(* schema by hand, db:check of any checkout is clean exactly when its      *)
(* db:status has every migration applied and none unknown, and it notes no *)
(* default; whatever types, enums, indexes, constraints, keys and actions  *)
(* the snapshots declare, and however jobs and booting servers migrated.   *)
THEOREM CleanUnlessEdited == Spec => [](edits = {} => DriftIsWhatWasEdited)
<1>1. ASSUME MigrationInv, edits = {} PROVE DriftIsWhatWasEdited
  <2>1. rows \in Journal /\ catalog = CatalogAfter(rows)
    BY <1>1 DEF MigrationInv
  <2>2. edits \subseteq Unseen /\ edits \cap Noted = {}
    BY <1>1
  <2>3. ASSUME NEW n \in 1 .. Len(Snapshots)
        PROVE  /\ DbCheck(catalog, n).differences = {} <=> DbStatus(n, rows) = {"APPLIED"}
               /\ DbCheck(catalog, n).notes = {}
    BY <2>1, CheckIsExact, StatusApplied
  <2> QED BY <2>2, <2>3 DEF DriftIsWhatWasEdited
<1> QED BY <1>1, ServerInit, ServerStep, MigrationInit, MigrationStep, PTL DEF Spec

=============================================================================
