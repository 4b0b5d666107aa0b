------------------------- MODULE ControlPlaneProofs -------------------------
(***************************************************************************)
(* The invariants of the control plane, for any number of requests,        *)
(* failing queries and apps, and any tables to start from.                 *)
(*                                                                         *)
(* A handler reads in one step what it acts on in a later one.  That is    *)
(* sound because rows are never deleted and never change owner (Grows),    *)
(* so that what a request has once established of a row (RequestOK) stays  *)
(* true whatever other requests write meanwhile.                           *)
(***************************************************************************)
EXTENDS ControlPlane, TLAPS

Tables == {"users", "workspaces", "members", "keys", "agents", "sessions", "runs", "traces"}
KeyColumns == {"ws", "by", "revokedBy"}
AgentColumns == {"ws", "name", "url"}
SessionColumns == {"agent", "status"}
Fields == {"op", "cred", "target", "arg", "ws", "user", "read", "touched", "code", "hit", "cause", "pc"}
AppFields == {"pc", "runner", "closed", "todo", "req", "error", "status"}

(* The constraints of the schema that the proofs need: unique subs and     *)
(* foreign keys; and that members made and revoked the keys.               *)
KeyOK(d, k) ==
    /\ DOMAIN d.keys[k] = KeyColumns
    /\ <<d.keys[k].by, d.keys[k].ws>> \in d.members
    /\ d.keys[k].revokedBy # None => <<d.keys[k].revokedBy, d.keys[k].ws>> \in d.members
SessionOK(d, s) == DOMAIN d.sessions[s] = SessionColumns /\ d.sessions[s].agent \in DOMAIN d.agents
TablesOK(d) ==
    /\ DOMAIN d = Tables
    /\ \A m \in d.members : m = <<m[1], m[2]>>
    /\ \A u, v \in DOMAIN d.users : d.users[u] = d.users[v] => u = v
    /\ \A k \in DOMAIN d.keys : KeyOK(d, k)
    /\ \A a \in DOMAIN d.agents : DOMAIN d.agents[a] = AgentColumns
    /\ \A s \in DOMAIN d.sessions : SessionOK(d, s)
    /\ \A n \in DOMAIN d.runs : d.runs[n] \in DOMAIN d.sessions
    /\ \A t \in DOMAIN d.traces : d.traces[t] \in DOMAIN d.runs

(* No row of d is deleted, or belongs to another in e. *)
Grows(d, e) ==
    /\ \A u \in DOMAIN d.users : u \in DOMAIN e.users /\ e.users[u] = d.users[u]
    /\ d.members \subseteq e.members
    /\ \A k \in DOMAIN d.keys : k \in DOMAIN e.keys /\ e.keys[k].ws = d.keys[k].ws
    /\ \A a \in DOMAIN d.agents : a \in DOMAIN e.agents /\ e.agents[a].ws = d.agents[a].ws
    /\ \A s \in DOMAIN d.sessions : s \in DOMAIN e.sessions /\ e.sessions[s].agent = d.sessions[s].agent
    /\ \A n \in DOMAIN d.runs : n \in DOMAIN e.runs /\ e.runs[n] = d.runs[n]
    /\ \A t \in DOMAIN d.traces : t \in DOMAIN e.traces /\ e.traces[t] = d.traces[t]

(* The id is not taken yet. *)
Free(d, i) ==
    i \notin DOMAIN d.keys /\ i \notin DOMAIN d.agents /\ i \notin DOMAIN d.sessions /\ i \notin DOMAIN d.runs
FreeUser(d, i) == i \notin DOMAIN d.users
OnlyAdds(d, e, i) ==
    \A j : j # i => (Free(d, j) => Free(e, j)) /\ (FreeUser(d, j) => FreeUser(e, j))

(* A write on behalf of request i *)
Writes(d, e, i) == TablesOK(e) /\ Grows(d, e) /\ OnlyAdds(d, e, i)

(* The tables say that the row exists and belongs to ws. *)
AgentOwned(d, a, ws) == a \in DOMAIN d.agents /\ d.agents[a].ws = ws
SessionOwned(d, s, ws) == s \in DOMAIN d.sessions /\ AgentOwned(d, d.sessions[s].agent, ws)
RunOwned(d, n, ws) == n \in DOMAIN d.runs /\ SessionOwned(d, d.runs[n], ws)
Owned(d, row, ws) ==
    \/ row[1] = "workspace" /\ row[2] = ws
    \/ row[1] = "key" /\ row[2] \in DOMAIN d.keys /\ d.keys[row[2]].ws = ws
    \/ row[1] = "agent" /\ AgentOwned(d, row[2], ws)
    \/ row[1] = "session" /\ SessionOwned(d, row[2], ws)
    \/ row[1] = "run" /\ RunOwned(d, row[2], ws)

SessionOps == {"getSession", "patchSession", "messages", "createRun"}
RunOps == {"getRun", "toolCalls", "cancel", "trace", "metrics"}

(* What a request under an API key has established when it is at its pc *)
DataRequestOK(d, q) ==
    /\ q.pc \in {"key", "handle", "update", "create", "insertSession", "write", "insertRun",
                "userMessage", "done"}
    /\ q.pc = "key" => q.touched = {}
    /\ (q.pc \notin {"key", "done"}) \/ q.touched # {} =>
          q.cred \in DOMAIN d.keys /\ d.keys[q.cred].ws = q.ws
    /\ \A row \in q.touched : Owned(d, row, q.ws)
    /\ q.pc = "update" => q.op = "register" /\ AgentOwned(d, q.read.id, q.ws)
    /\ q.pc = "create" => q.op = "register"
    /\ q.pc = "insertSession" => AgentOwned(d, q.read, q.ws)
    /\ q.pc \in {"write", "insertRun"} => SessionOwned(d, q.target, q.ws)
    /\ q.op \in SessionOps => q.target \in DOMAIN d.sessions
    /\ q.op \in RunOps => q.target \in DOMAIN d.runs
    /\ q.op = "spans" => q.target \in DOMAIN d.traces

(* and one under a Cognito token *)
UserRequestOK(d, q) ==
    /\ q.pc \in {"token", "user", "insert", "reread", "handle", "owner", "keys", "revoke", "done"}
    /\ q.user # None \/ q.pc \in {"handle", "owner", "keys", "revoke"} =>
          q.user \in DOMAIN d.users /\ d.users[q.user] = q.cred
    /\ q.pc \in {"token", "user", "insert", "reread"} => q.touched = {}
    /\ q.pc = "reread" => q.hit \/ \E u \in DOMAIN d.users : d.users[u] = q.cred
    /\ q.pc \in {"keys", "revoke"} => <<q.user, q.target>> \in d.members
    /\ q.pc = "revoke" => q.arg \in DOMAIN d.keys /\ d.keys[q.arg].ws = q.target
    /\ \A row \in q.touched : \E m \in d.members : m = <<q.user, m[2]>> /\ Owned(d, row, m[2])

RequestOK(d, i, q) ==
    /\ DOMAIN q = Fields
    /\ q.op \in DataOps \cup UserOps
    /\ q.op \in DataOps => DataRequestOK(d, q)
    /\ q.op \in UserOps => UserRequestOK(d, q)
    /\ q.code # ""
    /\ q.code = "INTERNAL" => q.hit \/ q.cause \in {"race", "body"}
    /\ q.pc \notin {"userMessage", "done"} => Free(d, i)
    /\ q.pc \in {"token", "user", "insert"} => FreeUser(d, i)

(* Runner URLs: ups are the apps whose runner answered at some time. *)
UrlsOK(d, ups) == \A a \in DOMAIN d.agents : d.agents[a].url \in Apps => d.agents[a].url \in ups
UrlOK(q, ups) ==
    /\ q.op = "register" => q.arg = None \/ q.arg \in ups
    /\ q.pc = "update" => (q.read.url \in Apps => q.read.url \in ups)

IsSeq(s) == \E n \in Nat : DOMAIN s = 1 .. n /\ s = [i \in 1 .. n |-> s[i]]

Ups == {p \in Apps : app[p].runner \/ app[p].closed}

RequestsInv ==
    /\ IsSeq(reqs)
    /\ \A i \in DOMAIN reqs : RequestOK(db, i, reqs[i])
    /\ \A i \in Nat \ DOMAIN reqs : i # 0 => Free(db, i) /\ FreeUser(db, i)
    /\ FreeUser(db, None)
RunnersInv ==
    /\ UrlsOK(db, Ups)
    /\ \A i \in DOMAIN reqs : UrlOK(reqs[i], Ups)
AppInv ==
    /\ DOMAIN app = Apps
    /\ \A p \in Apps :
          /\ DOMAIN app[p] = AppFields
          /\ app[p].pc = "register" => p \in Ups
          /\ app[p].req # None => app[p].req \in DOMAIN reqs

IInv == TablesOK(db) /\ RequestsInv /\ RunnersInv /\ AppInv

-----------------------------------------------------------------------------
(* Sequences of any values, and tables *)

LEMMA AppendFacts ==
    ASSUME NEW s, IsSeq(s), NEW x
    PROVE  LET t == Append(s, x) IN
           /\ IsSeq(t) /\ Len(s) \in Nat /\ DOMAIN s = 1 .. Len(s)
           /\ DOMAIN t = 1 .. (Len(s) + 1) /\ t[Len(s) + 1] = x
           /\ \A i \in DOMAIN s : t[i] = s[i]
<1> DEFINE S == {s[i] : i \in DOMAIN s} \cup {x}
           t == Append(s, x)
<1>1. PICK n \in Nat : DOMAIN s = 1 .. n /\ s = [i \in 1 .. n |-> s[i]]
  BY DEF IsSeq
<1>2. s \in [1 .. n -> S]
  BY <1>1
<1>3. s \in Seq(S) /\ Len(s) = n
  BY <1>2
<1>4. t \in Seq(S) /\ Len(t) = n + 1 /\ t[n + 1] = x /\ \A i \in 1 .. n : t[i] = s[i]
  BY <1>3
<1> HIDE DEF t, S
<1>7. t \in [1 .. (n + 1) -> S] /\ n + 1 \in Nat
  BY <1>4
<1>5. DOMAIN t = 1 .. (n + 1) /\ t = [i \in 1 .. (n + 1) |-> t[i]] /\ n + 1 \in Nat
  BY <1>7
<1>6. IsSeq(t)
  BY <1>5 DEF IsSeq
<1> QED
  BY <1>1, <1>3, <1>4, <1>5, <1>6 DEF t

LEMMA ExceptFacts ==
    ASSUME NEW s, IsSeq(s), NEW x, NEW r \in DOMAIN s
    PROVE  LET t == [s EXCEPT ![r] = x] IN
           /\ IsSeq(t) /\ DOMAIN t = DOMAIN s /\ t[r] = x
           /\ \A i \in DOMAIN s : i # r => t[i] = s[i]
  BY DEF IsSeq

(* The write changes this table only. *)
Only(d, e, table) == DOMAIN e = DOMAIN d /\ \A t \in DOMAIN d : t # table => e[t] = d[t]

(* What each write of the repositories does to the tables *)

LEMMA AddUser ==
    ASSUME NEW d, TablesOK(d), NEW u, NEW sub, FreeUser(d, u),
           \A v \in DOMAIN d.users : d.users[v] # sub,
           NEW e, Only(d, e, "users"), e.users = Inserted(d.users, u, sub)
    PROVE  Writes(d, e, u)
<1>1. /\ DOMAIN e = Tables /\ e.users = Inserted(d.users, u, sub)
      /\ e.members = d.members /\ e.keys = d.keys /\ e.agents = d.agents
      /\ e.sessions = d.sessions /\ e.runs = d.runs /\ e.traces = d.traces
  BY DEF TablesOK, Tables, Only
<1>2. /\ DOMAIN e.users = DOMAIN d.users \cup {u} /\ e.users[u] = sub
      /\ \A z \in DOMAIN d.users : e.users[z] = d.users[z]
  BY <1>1 DEF Inserted, FreeUser
<1> HIDE DEF Tables
<1>5. ASSUME NEW x \in DOMAIN e.users, NEW y \in DOMAIN e.users, e.users[x] = e.users[y]
      PROVE  x = y
  BY <1>2, <1>5 DEF TablesOK
<1>3. TablesOK(e)
  BY <1>1, <1>5 DEF TablesOK, KeyOK, SessionOK
<1>4. Grows(d, e) /\ OnlyAdds(d, e, u)
  BY <1>1, <1>2 DEF Grows, OnlyAdds, Free, FreeUser
<1> QED
  BY <1>3, <1>4 DEF Writes

LEMMA AddWorkspace ==
    ASSUME NEW d, TablesOK(d), NEW i, NEW e, Only(d, e, "workspaces")
    PROVE  Writes(d, e, i)
<1>1. /\ DOMAIN e = Tables /\ e.users = d.users
      /\ e.members = d.members /\ e.keys = d.keys /\ e.agents = d.agents
      /\ e.sessions = d.sessions /\ e.runs = d.runs /\ e.traces = d.traces
  BY DEF TablesOK, Tables, Only
<1> HIDE DEF Tables
<1>3. TablesOK(e)
  BY <1>1 DEF TablesOK, KeyOK, SessionOK
<1>4. Grows(d, e) /\ OnlyAdds(d, e, i)
  BY <1>1 DEF Grows, OnlyAdds, Free, FreeUser
<1> QED
  BY <1>1, <1>3, <1>4 DEF Writes

LEMMA AddMember ==
    ASSUME NEW d, TablesOK(d), NEW u, NEW w, NEW i, NEW e,
           Only(d, e, "members"), e.members = d.members \cup {<<u, w>>}
    PROVE  Writes(d, e, i)
<1>1. /\ DOMAIN e = Tables /\ e.users = d.users
      /\ e.members = d.members \cup {<<u, w>>} /\ e.keys = d.keys /\ e.agents = d.agents
      /\ e.sessions = d.sessions /\ e.runs = d.runs /\ e.traces = d.traces
  BY DEF TablesOK, Tables, Only
<1> HIDE DEF Tables
<1>2. \A m \in e.members : m = <<m[1], m[2]>>
  BY <1>1 DEF TablesOK
<1>3. TablesOK(e)
  BY <1>1, <1>2 DEF TablesOK, KeyOK, SessionOK
<1>4. Grows(d, e) /\ OnlyAdds(d, e, i)
  BY <1>1 DEF Grows, OnlyAdds, Free, FreeUser
<1> QED
  BY <1>1, <1>3, <1>4 DEF Writes

LEMMA AddKey ==
    ASSUME NEW d, TablesOK(d), NEW k, NEW ws, NEW u, Free(d, k), <<u, ws>> \in d.members, NEW e,
           Only(d, e, "keys"), e.keys = Inserted(d.keys, k, [ws |-> ws, by |-> u, revokedBy |-> None])
    PROVE  Writes(d, e, k)
<1> DEFINE row == [ws |-> ws, by |-> u, revokedBy |-> None]
<1>1. /\ DOMAIN e = Tables /\ e.users = d.users /\ e.keys = Inserted(d.keys, k, row)
      /\ e.members = d.members /\ e.agents = d.agents
      /\ e.sessions = d.sessions /\ e.runs = d.runs /\ e.traces = d.traces
  BY DEF TablesOK, Tables, Only
<1>5. DOMAIN row = KeyColumns /\ row.by = u /\ row.ws = ws /\ row.revokedBy = None
  BY DEF KeyColumns
<1> HIDE DEF Tables, row
<1>2. /\ DOMAIN e.keys = DOMAIN d.keys \cup {k} /\ e.keys[k] = row
      /\ \A z \in DOMAIN d.keys : e.keys[z] = d.keys[z]
  BY <1>1 DEF Inserted, Free
<1>7. KeyOK(e, k)
  BY <1>1, <1>2, <1>5 DEF KeyOK, TablesOK
<1>8. \A z \in DOMAIN d.keys : z # k => KeyOK(e, z)
  BY <1>1, <1>2 DEF TablesOK, KeyOK
<1>6. \A z \in DOMAIN e.keys : KeyOK(e, z)
  BY <1>2, <1>7, <1>8
<1>3. TablesOK(e)
  BY <1>1, <1>6 DEF TablesOK, SessionOK
<1>4. Grows(d, e) /\ OnlyAdds(d, e, k)
  BY <1>1, <1>2 DEF Grows, OnlyAdds, Free, FreeUser
<1> QED
  BY <1>1, <1>3, <1>4 DEF Writes

LEMMA Revoke ==
    ASSUME NEW d, TablesOK(d), NEW k \in DOMAIN d.keys, NEW u, <<u, d.keys[k].ws>> \in d.members,
           NEW i, NEW e, Only(d, e, "keys"),
           NEW row, e.keys = [d.keys EXCEPT ![k] = row], DOMAIN row = KeyColumns,
           row.by = d.keys[k].by, row.ws = d.keys[k].ws, row.revokedBy = u
    PROVE  Writes(d, e, i)
<1>1. /\ DOMAIN e = Tables /\ e.users = d.users /\ e.keys = [d.keys EXCEPT ![k] = row]
      /\ e.members = d.members /\ e.agents = d.agents
      /\ e.sessions = d.sessions /\ e.runs = d.runs /\ e.traces = d.traces
  BY DEF TablesOK, Tables, Only
<1> HIDE DEF Tables
<1>2. /\ DOMAIN e.keys = DOMAIN d.keys /\ e.keys[k] = row
      /\ \A z \in DOMAIN d.keys : z # k => e.keys[z] = d.keys[z]
  BY <1>1
<1>7. KeyOK(e, k)
  BY <1>1, <1>2 DEF KeyOK, TablesOK
<1>8. \A z \in DOMAIN d.keys : z # k => KeyOK(e, z)
  BY <1>1, <1>2 DEF TablesOK, KeyOK
<1>6. \A z \in DOMAIN e.keys : KeyOK(e, z)
  BY <1>2, <1>7, <1>8
<1>3. TablesOK(e)
  BY <1>1, <1>6 DEF TablesOK, SessionOK
<1>4. Grows(d, e) /\ OnlyAdds(d, e, i)
  BY <1>1, <1>2 DEF Grows, OnlyAdds, Free, FreeUser
<1> QED
  BY <1>1, <1>3, <1>4 DEF Writes

LEMMA AddAgent ==
    ASSUME NEW d, TablesOK(d), NEW a, NEW ws, NEW name, NEW url, Free(d, a), NEW e,
           Only(d, e, "agents"),
           e.agents = Inserted(d.agents, a, [ws |-> ws, name |-> name, url |-> url])
    PROVE  Writes(d, e, a)
<1> DEFINE row == [ws |-> ws, name |-> name, url |-> url]
<1>1. /\ DOMAIN e = Tables /\ e.users = d.users /\ e.agents = Inserted(d.agents, a, row)
      /\ e.members = d.members /\ e.keys = d.keys
      /\ e.sessions = d.sessions /\ e.runs = d.runs /\ e.traces = d.traces
  BY DEF TablesOK, Tables, Only
<1>5. DOMAIN row = AgentColumns /\ row.ws = ws /\ row.url = url
  BY DEF AgentColumns
<1> HIDE DEF Tables, row
<1>2. /\ DOMAIN e.agents = DOMAIN d.agents \cup {a} /\ e.agents[a] = row
      /\ \A z \in DOMAIN d.agents : e.agents[z] = d.agents[z]
  BY <1>1 DEF Inserted, Free
<1>3. TablesOK(e)
  BY <1>1, <1>2, <1>5 DEF TablesOK, SessionOK, KeyOK
<1>4. Grows(d, e) /\ OnlyAdds(d, e, a)
  BY <1>1, <1>2 DEF Grows, OnlyAdds, Free, FreeUser
<1> QED
  BY <1>3, <1>4 DEF Writes

LEMMA SetUrl ==
    ASSUME NEW d, TablesOK(d), NEW a \in DOMAIN d.agents, NEW i, NEW e,
           Only(d, e, "agents"), NEW row, e.agents = [d.agents EXCEPT ![a] = row],
           DOMAIN row = AgentColumns, row.ws = d.agents[a].ws
    PROVE  Writes(d, e, i)
<1>1. /\ DOMAIN e = Tables /\ e.users = d.users /\ e.agents = [d.agents EXCEPT ![a] = row]
      /\ e.members = d.members /\ e.keys = d.keys
      /\ e.sessions = d.sessions /\ e.runs = d.runs /\ e.traces = d.traces
  BY DEF TablesOK, Tables, Only
<1> HIDE DEF Tables
<1>2. /\ DOMAIN e.agents = DOMAIN d.agents /\ e.agents[a] = row
      /\ \A z \in DOMAIN d.agents : z # a => e.agents[z] = d.agents[z]
  BY <1>1
<1>3. TablesOK(e)
  BY <1>1, <1>2 DEF TablesOK, SessionOK, KeyOK
<1>4. Grows(d, e) /\ OnlyAdds(d, e, i)
  BY <1>1, <1>2 DEF Grows, OnlyAdds, Free, FreeUser
<1> QED
  BY <1>3, <1>4 DEF Writes

LEMMA AddSession ==
    ASSUME NEW d, TablesOK(d), NEW s, NEW a \in DOMAIN d.agents, Free(d, s), NEW e,
           Only(d, e, "sessions"),
           e.sessions = Inserted(d.sessions, s, [agent |-> a, status |-> "active"])
    PROVE  Writes(d, e, s)
<1> DEFINE row == [agent |-> a, status |-> "active"]
<1>1. /\ DOMAIN e = Tables /\ e.users = d.users /\ e.agents = d.agents
      /\ e.members = d.members /\ e.keys = d.keys
      /\ e.sessions = Inserted(d.sessions, s, row) /\ e.runs = d.runs /\ e.traces = d.traces
  BY DEF TablesOK, Tables, Only
<1>5. DOMAIN row = SessionColumns /\ row.agent = a
  BY DEF SessionColumns
<1> HIDE DEF Tables, row
<1>2. /\ DOMAIN e.sessions = DOMAIN d.sessions \cup {s} /\ e.sessions[s] = row
      /\ \A z \in DOMAIN d.sessions : e.sessions[z] = d.sessions[z]
  BY <1>1 DEF Inserted, Free
<1>6. \A z \in DOMAIN e.sessions : SessionOK(e, z)
  BY <1>1, <1>2, <1>5 DEF TablesOK, SessionOK, AgentOwned
<1>3. TablesOK(e)
  BY <1>1, <1>2, <1>6 DEF TablesOK, KeyOK
<1>4. Grows(d, e) /\ OnlyAdds(d, e, s)
  BY <1>1, <1>2 DEF Grows, OnlyAdds, Free, FreeUser
<1> QED
  BY <1>3, <1>4 DEF Writes

LEMMA SetStatus ==
    ASSUME NEW d, TablesOK(d), NEW s \in DOMAIN d.sessions, NEW i, NEW e,
           Only(d, e, "sessions"), NEW row, e.sessions = [d.sessions EXCEPT ![s] = row],
           DOMAIN row = SessionColumns, row.agent = d.sessions[s].agent
    PROVE  Writes(d, e, i)
<1>1. /\ DOMAIN e = Tables /\ e.users = d.users /\ e.agents = d.agents
      /\ e.members = d.members /\ e.keys = d.keys
      /\ e.sessions = [d.sessions EXCEPT ![s] = row] /\ e.runs = d.runs /\ e.traces = d.traces
  BY DEF TablesOK, Tables, Only
<1> HIDE DEF Tables
<1>2. /\ DOMAIN e.sessions = DOMAIN d.sessions /\ e.sessions[s] = row
      /\ \A z \in DOMAIN d.sessions : z # s => e.sessions[z] = d.sessions[z]
  BY <1>1
<1>6. \A z \in DOMAIN e.sessions : SessionOK(e, z)
  BY <1>1, <1>2 DEF TablesOK, SessionOK
<1>3. TablesOK(e)
  BY <1>1, <1>2, <1>6 DEF TablesOK, KeyOK
<1>4. Grows(d, e) /\ OnlyAdds(d, e, i)
  BY <1>1, <1>2 DEF Grows, OnlyAdds, Free, FreeUser
<1> QED
  BY <1>1, <1>3, <1>4 DEF Writes

LEMMA AddRun ==
    ASSUME NEW d, TablesOK(d), NEW n, NEW s \in DOMAIN d.sessions, Free(d, n), NEW e,
           Only(d, e, "runs"), e.runs = Inserted(d.runs, n, s)
    PROVE  Writes(d, e, n)
<1>1. /\ DOMAIN e = Tables /\ e.users = d.users /\ e.agents = d.agents
      /\ e.members = d.members /\ e.keys = d.keys
      /\ e.sessions = d.sessions /\ e.runs = Inserted(d.runs, n, s) /\ e.traces = d.traces
  BY DEF TablesOK, Tables, Only
<1> HIDE DEF Tables
<1>2. /\ DOMAIN e.runs = DOMAIN d.runs \cup {n} /\ e.runs[n] = s
      /\ \A z \in DOMAIN d.runs : e.runs[z] = d.runs[z]
  BY <1>1 DEF Inserted, Free
<1>3. TablesOK(e)
  BY <1>1, <1>2 DEF TablesOK, KeyOK, SessionOK, SessionOwned
<1>4. Grows(d, e) /\ OnlyAdds(d, e, n)
  BY <1>1, <1>2 DEF Grows, OnlyAdds, Free, FreeUser
<1> QED
  BY <1>3, <1>4 DEF Writes

-----------------------------------------------------------------------------
(* What a request has established survives the writes of the others. *)

LEMMA OwnedGrows ==
    ASSUME NEW d, NEW e, TablesOK(d), Grows(d, e)
    PROVE  /\ \A a, ws : AgentOwned(d, a, ws) => AgentOwned(e, a, ws)
           /\ \A s, ws : SessionOwned(d, s, ws) => SessionOwned(e, s, ws)
           /\ \A n, ws : RunOwned(d, n, ws) => RunOwned(e, n, ws)
           /\ \A row, ws : Owned(d, row, ws) => Owned(e, row, ws)
<1>1. \A a, ws : AgentOwned(d, a, ws) => AgentOwned(e, a, ws)
  BY DEF Grows, AgentOwned
<1>2. \A s, ws : SessionOwned(d, s, ws) => SessionOwned(e, s, ws)
  BY <1>1 DEF Grows, SessionOwned
<1>3. \A n, ws : RunOwned(d, n, ws) => RunOwned(e, n, ws)
  BY <1>2 DEF Grows, RunOwned
<1>4. \A k \in DOMAIN d.keys : k \in DOMAIN e.keys /\ e.keys[k].ws = d.keys[k].ws
  BY DEF Grows
<1>5. \A row, ws : Owned(d, row, ws) => Owned(e, row, ws)
  BY <1>1, <1>2, <1>3, <1>4 DEF Owned
<1> QED
  BY <1>1, <1>2, <1>3, <1>5

LEMMA DataRequestKept ==
    ASSUME NEW d, NEW e, TablesOK(d), Grows(d, e), NEW q, DataRequestOK(d, q)
    PROVE  DataRequestOK(e, q)
<1>1. /\ \A k \in DOMAIN d.keys : k \in DOMAIN e.keys /\ e.keys[k].ws = d.keys[k].ws
      /\ \A s \in DOMAIN d.sessions : s \in DOMAIN e.sessions
      /\ \A n \in DOMAIN d.runs : n \in DOMAIN e.runs
      /\ \A t \in DOMAIN d.traces : t \in DOMAIN e.traces
  BY DEF Grows
<1> HIDE DEF SessionOps, RunOps
<1> QED
  BY <1>1, OwnedGrows DEF DataRequestOK

LEMMA UserRequestKept ==
    ASSUME NEW d, NEW e, TablesOK(d), Grows(d, e), NEW q, UserRequestOK(d, q)
    PROVE  UserRequestOK(e, q)
<1>1. /\ \A k \in DOMAIN d.keys : k \in DOMAIN e.keys /\ e.keys[k].ws = d.keys[k].ws
      /\ \A u \in DOMAIN d.users : u \in DOMAIN e.users /\ e.users[u] = d.users[u]
      /\ d.members \subseteq e.members
  BY DEF Grows
<1>2. \A row \in q.touched : \E m \in e.members : m = <<q.user, m[2]>> /\ Owned(e, row, m[2])
  BY <1>1, OwnedGrows DEF UserRequestOK
<1>3. q.pc = "reread" => q.hit \/ \E u \in DOMAIN e.users : e.users[u] = q.cred
  BY <1>1 DEF UserRequestOK
<1> QED
  BY <1>1, <1>2, <1>3 DEF UserRequestOK

LEMMA RequestKept ==
    ASSUME NEW d, NEW e, TablesOK(d), Grows(d, e), NEW i, NEW j, i # j, OnlyAdds(d, e, j),
           NEW q, RequestOK(d, i, q)
    PROVE  RequestOK(e, i, q)
  BY DataRequestKept, UserRequestKept DEF RequestOK, OnlyAdds

-----------------------------------------------------------------------------
(* A step of request r: it was not answered yet, and what it writes and    *)
(* what becomes of it are in order.                                        *)
Steps(d, e, r, q, x, ups) ==
    /\ q.pc # "done" /\ Writes(d, e, r) /\ RequestOK(e, r, x)
    /\ (UrlsOK(d, ups) /\ UrlOK(q, ups)) => (UrlsOK(e, ups) /\ UrlOK(x, ups))

LEMMA StepKeeps ==
    ASSUME IInv, NEW r \in DOMAIN reqs, NEW x, Steps(db, db', r, reqs[r], x, Ups),
           reqs' = [reqs EXCEPT ![r] = x], app' = app
    PROVE  IInv'
<1>0. Ups' = Ups
  BY DEF Ups
<1>1. /\ IsSeq(reqs') /\ DOMAIN reqs' = DOMAIN reqs /\ reqs'[r] = x
      /\ \A i \in DOMAIN reqs : i # r => reqs'[i] = reqs[i]
  BY ExceptFacts DEF IInv, RequestsInv
<1>2. TablesOK(db) /\ TablesOK(db') /\ Grows(db, db') /\ OnlyAdds(db, db', r)
  BY DEF Steps, Writes, IInv
<1>3. ASSUME NEW i \in DOMAIN reqs'
      PROVE  RequestOK(db', i, reqs'[i])
  <2>1. CASE i = r
    BY <1>1, <2>1 DEF Steps
  <2>2. CASE i # r
    <3>1. RequestOK(db, i, reqs[i]) /\ reqs'[i] = reqs[i]
      BY <1>1, <2>2 DEF IInv, RequestsInv
    <3> QED
      BY <1>2, <2>2, <3>1, RequestKept
  <2> QED
    BY <2>1, <2>2
<1>4. RequestsInv'
  <2>0. r # 0 /\ r \in Nat
    BY DEF IInv, RequestsInv, IsSeq
  <2>1. \A i \in Nat \ DOMAIN reqs' : i # 0 => Free(db', i) /\ FreeUser(db', i)
    BY <1>1, <1>2 DEF OnlyAdds, IInv, RequestsInv
  <2>2. FreeUser(db', None)
    BY <1>2, <2>0 DEF OnlyAdds, IInv, RequestsInv, None
  <2> QED
    BY <1>1, <1>3, <2>1, <2>2 DEF RequestsInv
<1>5. RunnersInv'
  <2>1. UrlsOK(db', Ups) /\ UrlOK(x, Ups)
    BY DEF Steps, IInv, RunnersInv
  <2>2. \A i \in DOMAIN reqs' : UrlOK(reqs'[i], Ups)
    BY <1>1, <2>1 DEF IInv, RunnersInv
  <2> QED
    BY <1>0, <2>1, <2>2 DEF RunnersInv
<1>6. AppInv'
  BY <1>0, <1>1 DEF AppInv, IInv, Steps
<1> QED
  BY <1>2, <1>4, <1>5, <1>6 DEF IInv

-----------------------------------------------------------------------------
(* The records of requests *)

Same(q, x) ==
    /\ DOMAIN x = Fields
    /\ x.op = q.op /\ x.cred = q.cred /\ x.target = q.target /\ x.arg = q.arg

LEMMA OpsDisjoint == DataOps \cap UserOps = {}
  BY DEF DataOps, UserOps

Answered(q, c) == [q EXCEPT !.pc = "done", !.code = c]

LEMMA AnswerRecord ==
    ASSUME NEW q, DOMAIN q = Fields, NEW c
    PROVE  LET x == Answered(q, c) IN
           /\ Same(q, x) /\ x.pc = "done" /\ x.code = c
           /\ x.ws = q.ws /\ x.user = q.user /\ x.touched = q.touched
           /\ x.hit = q.hit /\ x.cause = q.cause
  BY DEF Fields, Same, Answered

LEMMA ReadRecord ==
    ASSUME NEW q, DOMAIN q = Fields, NEW rows, NEW x, x = Read(q, rows)
    PROVE  /\ Same(q, x) /\ x.pc = q.pc /\ x.code = q.code
           /\ x.ws = q.ws /\ x.user = q.user /\ x.touched = q.touched \cup rows /\ x.read = q.read
           /\ x.hit = q.hit /\ x.cause = q.cause
  BY DEF Fields, Same, Read

LEMMA HitRecord ==
    ASSUME NEW q, DOMAIN q = Fields, NEW x, x = [q EXCEPT !.hit = TRUE]
    PROVE  /\ Same(q, x) /\ x.pc = q.pc /\ x.code = q.code
           /\ x.ws = q.ws /\ x.user = q.user /\ x.touched = q.touched /\ x.read = q.read
           /\ x.hit = TRUE /\ x.cause = q.cause
  BY DEF Fields, Same

LEMMA CauseRecord ==
    ASSUME NEW q, DOMAIN q = Fields, NEW cause, NEW x, x = [q EXCEPT !.cause = cause]
    PROVE  /\ Same(q, x) /\ x.pc = q.pc /\ x.code = q.code
           /\ x.ws = q.ws /\ x.user = q.user /\ x.touched = q.touched /\ x.read = q.read
           /\ x.hit = q.hit /\ x.cause = cause
  BY DEF Fields, Same

Moved(q, p) == [q EXCEPT !.pc = p]

LEMMA MovedRecord ==
    ASSUME NEW q, DOMAIN q = Fields, NEW p
    PROVE  LET x == Moved(q, p) IN
           /\ Same(q, x) /\ x.pc = p /\ x.code = q.code
           /\ x.ws = q.ws /\ x.user = q.user /\ x.touched = q.touched /\ x.read = q.read
           /\ x.hit = q.hit /\ x.cause = q.cause
  BY DEF Fields, Same, Moved

LEMMA WsMoved ==
    ASSUME NEW q, DOMAIN q = Fields, NEW p, NEW ws
    PROVE  LET x == Moved([q EXCEPT !.ws = ws], p) IN
           /\ Same(q, x) /\ x.pc = p /\ x.code = q.code
           /\ x.ws = ws /\ x.touched = q.touched /\ x.hit = q.hit /\ x.cause = q.cause
  BY DEF Fields, Same, Moved

LEMMA UserMoved ==
    ASSUME NEW q, DOMAIN q = Fields, NEW p, NEW u
    PROVE  LET x == Moved([q EXCEPT !.user = u], p) IN
           /\ Same(q, x) /\ x.pc = p /\ x.code = q.code
           /\ x.user = u /\ x.touched = q.touched /\ x.hit = q.hit /\ x.cause = q.cause
  BY DEF Fields, Same, Moved

LEMMA FoundMoved ==
    ASSUME NEW q, DOMAIN q = Fields, NEW p, NEW v
    PROVE  LET x == Moved([q EXCEPT !.read = v], p) IN
           /\ Same(q, x) /\ x.pc = p /\ x.code = q.code /\ x.read = v
           /\ x.ws = q.ws /\ x.touched = q.touched /\ x.hit = q.hit /\ x.cause = q.cause
  BY DEF Fields, Same, Moved

LEMMA ReadMoved ==
    ASSUME NEW q, DOMAIN q = Fields, NEW p, NEW rows
    PROVE  LET x == Moved(Read(q, rows), p) IN
           /\ Same(q, x) /\ x.pc = p /\ x.code = q.code /\ x.touched = q.touched \cup rows
           /\ x.ws = q.ws /\ x.hit = q.hit /\ x.cause = q.cause
  BY DEF Fields, Same, Moved, Read

LEMMA HitMoved ==
    ASSUME NEW q, DOMAIN q = Fields, NEW p
    PROVE  LET x == Moved([q EXCEPT !.hit = TRUE], p) IN
           /\ Same(q, x) /\ x.pc = p /\ x.code = q.code /\ x.touched = q.touched
           /\ x.user = q.user /\ x.hit = TRUE /\ x.cause = q.cause
  BY DEF Fields, Same, Moved

-----------------------------------------------------------------------------
(* A request is answered, having touched rows that it may touch. *)

MayTouch(e, q, row) ==
    \/ row \in q.touched
    \/ q.op \in DataOps /\ q.pc # "key" /\ Owned(e, row, q.ws)
    \/ /\ q.op \in UserOps
       /\ \E m \in e.members : m = <<q.user, m[2]>> /\ Owned(e, row, m[2])

LEMMA Answers ==
    ASSUME NEW d, NEW e, NEW r, NEW q, NEW x, NEW ups,
           TablesOK(d), RequestOK(d, r, q), q.pc # "done", Writes(d, e, r),
           (UrlsOK(d, ups) /\ UrlOK(q, ups)) => UrlsOK(e, ups),
           Same(q, x), x.ws = q.ws, x.user = q.user, x.pc = "done",
           x.code # "", x.code = "INTERNAL" => x.hit \/ x.cause \in {"race", "body"},
           \A row \in x.touched : MayTouch(e, q, row)
    PROVE  Steps(d, e, r, q, x, ups)
<1>0. TablesOK(e) /\ Grows(d, e)
  BY DEF Writes
<1>1. ASSUME q.op \in DataOps
      PROVE  DataRequestOK(e, x)
  <2>1. DataRequestOK(e, q)
    BY <1>0, <1>1, DataRequestKept DEF RequestOK
  <2>2. q.op \notin UserOps
    BY <1>1, OpsDisjoint
  <2>3. \A row \in x.touched : row \in q.touched \/ (q.pc # "key" /\ Owned(e, row, q.ws))
    BY <2>2 DEF MayTouch
  <2>4. \A row \in x.touched : Owned(e, row, x.ws)
    BY <2>1, <2>3 DEF DataRequestOK
  <2>5. x.touched # {} => x.cred \in DOMAIN e.keys /\ e.keys[x.cred].ws = x.ws
    BY <2>1, <2>3 DEF DataRequestOK, Same
  <2> HIDE DEF SessionOps, RunOps
  <2> QED
    BY <2>1, <2>4, <2>5 DEF DataRequestOK, Same
<1>2. ASSUME q.op \in UserOps
      PROVE  UserRequestOK(e, x)
  <2>1. UserRequestOK(e, q)
    BY <1>0, <1>2, UserRequestKept DEF RequestOK
  <2>2. q.op \notin DataOps
    BY <1>2, OpsDisjoint
  <2>4. \A row \in x.touched : \E m \in e.members : m = <<x.user, m[2]>> /\ Owned(e, row, m[2])
    BY <2>1, <2>2 DEF UserRequestOK, MayTouch
  <2> QED
    BY <2>1, <2>4 DEF UserRequestOK, Same
<1>3. RequestOK(e, r, x)
  BY <1>1, <1>2 DEF RequestOK, Same
<1>4. UrlOK(q, ups) => UrlOK(x, ups)
  BY DEF UrlOK, Same
<1> QED
  BY <1>3, <1>4 DEF Steps

(* A request goes on, with a write for the user's row or the workspace or  *)
(* none.                                                                   *)
LEMMA DataContinues ==
    ASSUME NEW d, NEW r, NEW q, NEW x, NEW ups,
           TablesOK(d), RequestOK(d, r, q), q.pc \notin {"userMessage", "done"}, q.op \in DataOps,
           Same(q, x), x.code = q.code, x.hit = q.hit, x.cause = q.cause,
           DataRequestOK(d, x),
           UrlsOK(d, ups) /\ x.pc = "update" => (x.read.url \in Apps => x.read.url \in ups)
    PROVE  Steps(d, d, r, q, x, ups)
<1>1. Writes(d, d, r)
  BY DEF Writes, Grows, OnlyAdds
<1>2. q.op \notin UserOps
  BY OpsDisjoint
<1>3. RequestOK(d, r, x)
  BY <1>2 DEF RequestOK, DataRequestOK, Same
<1>4. UrlsOK(d, ups) /\ UrlOK(q, ups) => UrlOK(x, ups)
  BY DEF UrlOK, Same
<1> QED
  BY <1>1, <1>3, <1>4 DEF Steps

LEMMA UserContinues ==
    ASSUME NEW d, NEW e, NEW r, NEW q, NEW x, NEW ups,
           RequestOK(d, r, q), q.pc # "done", q.op \in UserOps,
           Writes(d, e, r), e.agents = d.agents, Free(d, r) => Free(e, r),
           x.pc \in {"token", "user", "insert"} => q.pc \in {"token", "user", "insert"} /\ e = d,
           Same(q, x), x.code = q.code, x.hit = q.hit \/ x.hit, x.cause = q.cause,
           UserRequestOK(e, x)
    PROVE  Steps(d, e, r, q, x, ups)
<1>2. q.op \notin DataOps
  BY OpsDisjoint
<1>3. RequestOK(e, r, x)
  BY <1>2 DEF RequestOK, UserRequestOK, Same
<1>4. UrlsOK(d, ups) => UrlsOK(e, ups)
  BY DEF UrlsOK
<1>5. x.op # "register" /\ x.pc # "update"
  BY <1>2 DEF Same, DataOps, UserRequestOK
<1> QED
  BY <1>3, <1>4, <1>5 DEF Steps, UrlOK

-----------------------------------------------------------------------------
(* The steps of a request.  GoesOn is what StepKeeps asks for. *)

GoesOn(r) ==
    /\ app' = app
    /\ \E x : Steps(db, db', r, reqs[r], x, Ups) /\ reqs' = [reqs EXCEPT ![r] = x]

LEMMA NoWrite == ASSUME NEW d, TablesOK(d), NEW r PROVE Writes(d, d, r)
  BY DEF Writes, Grows, OnlyAdds

(* Any request may be refused, or told of a failed query. *)
LEMMA Refused ==
    ASSUME IInv, NEW r \in DOMAIN reqs, reqs[r].pc # "done", db' = db, app' = app,
           NEW c, c \notin {"", "INTERNAL"}, Answer(r, reqs[r], c)
    PROVE  GoesOn(r)
<1> DEFINE x == Answered(reqs[r], c)
<1>1. TablesOK(db) /\ RequestOK(db, r, reqs[r]) /\ DOMAIN reqs[r] = Fields
  BY DEF IInv, RequestsInv, RequestOK
<1>2. reqs' = [reqs EXCEPT ![r] = x]
  BY DEF Answer, Answered
<1>3. /\ Same(reqs[r], x) /\ x.pc = "done" /\ x.code = c
      /\ x.ws = reqs[r].ws /\ x.user = reqs[r].user /\ x.touched = reqs[r].touched
  BY ONLY <1>1, AnswerRecord
<1> HIDE DEF x
<1>4. \A row \in x.touched : MayTouch(db', reqs[r], row)
  BY <1>3 DEF MayTouch
<1>5. Steps(db, db', r, reqs[r], x, Ups)
  BY <1>1, <1>3, <1>4, NoWrite, Answers
<1> QED
  BY <1>2, <1>5 DEF GoesOn

(* It may have hit a failing query first. *)
LEMMA Failed ==
    ASSUME IInv, NEW r \in DOMAIN reqs, reqs[r].pc # "done", db' = db, app' = app,
           NEW c, c # "", Answer(r, [reqs[r] EXCEPT !.hit = TRUE], c)
    PROVE  GoesOn(r)
<1> DEFINE y == [reqs[r] EXCEPT !.hit = TRUE]
           x == Answered(y, c)
<1>1. TablesOK(db) /\ RequestOK(db, r, reqs[r]) /\ DOMAIN reqs[r] = Fields
  BY DEF IInv, RequestsInv, RequestOK
<1>2. reqs' = [reqs EXCEPT ![r] = x]
  BY DEF Answer, Answered
<1>3. /\ Same(reqs[r], y) /\ y.ws = reqs[r].ws /\ y.user = reqs[r].user
      /\ y.touched = reqs[r].touched /\ y.hit = TRUE
  BY <1>1, HitRecord
<1> HIDE DEF y
<1>8. DOMAIN y = Fields
  BY <1>3 DEF Same
<1>4. /\ Same(y, x) /\ x.pc = "done" /\ x.code = c
      /\ x.ws = y.ws /\ x.user = y.user /\ x.touched = y.touched /\ x.hit = y.hit
  BY ONLY <1>8, AnswerRecord
<1> HIDE DEF x
<1>5. Same(reqs[r], x) /\ x.hit = TRUE
  BY <1>3, <1>4 DEF Same
<1>6. \A row \in x.touched : MayTouch(db', reqs[r], row)
  BY <1>3, <1>4 DEF MayTouch
<1>7. Steps(db, db', r, reqs[r], x, Ups)
  BY <1>1, <1>3, <1>4, <1>5, <1>6, NoWrite, Answers
<1> QED
  BY <1>2, <1>7 DEF GoesOn

(* It may be told of a lost race or of a body that cannot be read. *)
LEMMA Excused ==
    ASSUME IInv, NEW r \in DOMAIN reqs, reqs[r].pc # "done", db' = db, app' = app,
           NEW cause \in {"race", "body"}, Answer(r, [reqs[r] EXCEPT !.cause = cause], "INTERNAL")
    PROVE  GoesOn(r)
<1> DEFINE y == [reqs[r] EXCEPT !.cause = cause]
           x == Answered(y, "INTERNAL")
<1>1. TablesOK(db) /\ RequestOK(db, r, reqs[r]) /\ DOMAIN reqs[r] = Fields
  BY DEF IInv, RequestsInv, RequestOK
<1>2. reqs' = [reqs EXCEPT ![r] = x]
  BY DEF Answer, Answered
<1>3. /\ Same(reqs[r], y) /\ y.ws = reqs[r].ws /\ y.user = reqs[r].user
      /\ y.touched = reqs[r].touched /\ y.cause = cause
  BY <1>1, CauseRecord
<1> HIDE DEF y
<1>8. DOMAIN y = Fields
  BY <1>3 DEF Same
<1>4. /\ Same(y, x) /\ x.pc = "done" /\ x.code = "INTERNAL"
      /\ x.ws = y.ws /\ x.user = y.user /\ x.touched = y.touched /\ x.cause = y.cause
  BY ONLY <1>8, AnswerRecord
<1> HIDE DEF x
<1>5. Same(reqs[r], x) /\ x.cause \in {"race", "body"}
  BY <1>3, <1>4 DEF Same
<1>6. \A row \in x.touched : MayTouch(db', reqs[r], row)
  BY <1>3, <1>4 DEF MayTouch
<1>7. Steps(db, db', r, reqs[r], x, Ups)
  BY <1>1, <1>3, <1>4, <1>5, <1>6, NoWrite, Answers
<1> QED
  BY <1>2, <1>7 DEF GoesOn

(* A request is answered with rows that it may touch. *)
LEMMA Served ==
    ASSUME IInv, NEW r \in DOMAIN reqs, reqs[r].pc # "done", app' = app,
           Writes(db, db', r),
           (UrlsOK(db, Ups) /\ UrlOK(reqs[r], Ups)) => UrlsOK(db', Ups),
           NEW rows, \A row \in rows : MayTouch(db', reqs[r], row),
           Answer(r, Read(reqs[r], rows), "OK")
    PROVE  GoesOn(r)
<1> DEFINE y == Read(reqs[r], rows)
           x == Answered(y, "OK")
<1>1. TablesOK(db) /\ RequestOK(db, r, reqs[r]) /\ DOMAIN reqs[r] = Fields
  BY DEF IInv, RequestsInv, RequestOK
<1>2. reqs' = [reqs EXCEPT ![r] = x]
  BY DEF Answer, Answered
<1>3. /\ Same(reqs[r], y) /\ y.ws = reqs[r].ws /\ y.user = reqs[r].user
      /\ y.touched = reqs[r].touched \cup rows
  BY <1>1, ReadRecord
<1>4. /\ Same(y, x) /\ x.pc = "done" /\ x.code = "OK"
      /\ x.ws = y.ws /\ x.user = y.user /\ x.touched = y.touched
  BY <1>3, AnswerRecord DEF Same
<1> HIDE DEF x, y
<1>5. Same(reqs[r], x)
  BY <1>3, <1>4 DEF Same
<1>6. \A row \in x.touched : MayTouch(db', reqs[r], row)
  BY <1>3, <1>4 DEF MayTouch
<1>7. Steps(db, db', r, reqs[r], x, Ups)
  BY <1>1, <1>3, <1>4, <1>5, <1>6, Answers
<1> QED
  BY <1>2, <1>7 DEF GoesOn

(* A write whose route answers with nothing else *)
LEMMA Written ==
    ASSUME IInv, NEW r \in DOMAIN reqs, reqs[r].pc # "done", app' = app,
           Writes(db, db', r), db'.agents = db.agents, Answer(r, reqs[r], "OK")
    PROVE  GoesOn(r)
<1> DEFINE x == Answered(reqs[r], "OK")
<1>1. TablesOK(db) /\ RequestOK(db, r, reqs[r]) /\ DOMAIN reqs[r] = Fields
  BY DEF IInv, RequestsInv, RequestOK
<1>2. reqs' = [reqs EXCEPT ![r] = x]
  BY DEF Answer, Answered
<1>3. /\ Same(reqs[r], x) /\ x.pc = "done" /\ x.code = "OK"
      /\ x.ws = reqs[r].ws /\ x.user = reqs[r].user /\ x.touched = reqs[r].touched
  BY <1>1, AnswerRecord
<1> HIDE DEF x
<1>4. \A row \in x.touched : MayTouch(db', reqs[r], row)
  BY <1>3 DEF MayTouch
<1>6. UrlsOK(db, Ups) => UrlsOK(db', Ups)
  BY DEF UrlsOK
<1>5. Steps(db, db', r, reqs[r], x, Ups)
  BY <1>1, <1>3, <1>4, <1>6, Answers
<1> QED
  BY <1>2, <1>5 DEF GoesOn

-----------------------------------------------------------------------------
(* Authentication *)

(* What is known of the request that takes a step *)
LEMMA Known ==
    ASSUME IInv, NEW r \in DOMAIN reqs
    PROVE  /\ TablesOK(db) /\ RequestOK(db, r, reqs[r]) /\ DOMAIN reqs[r] = Fields
           /\ reqs[r].op \in DataOps => reqs[r].op \notin UserOps /\ DataRequestOK(db, reqs[r])
           /\ reqs[r].op \notin DataOps => reqs[r].op \in UserOps /\ UserRequestOK(db, reqs[r])
           /\ r \in Nat /\ r # None
<1>1. TablesOK(db) /\ RequestOK(db, r, reqs[r])
  BY DEF IInv, RequestsInv
<1>2. r \in Nat /\ r # None
  BY DEF IInv, RequestsInv, IsSeq, None
<1> HIDE DEF DataOps, UserOps
<1> QED
  BY <1>1, <1>2, OpsDisjoint DEF RequestOK

LEMMA DbFailsGoesOn ==
    ASSUME IInv, NEW r \in DOMAIN reqs, DbFails(r)
    PROVE  GoesOn(r)
<1> DEFINE q == reqs[r]
           y == [q EXCEPT !.hit = TRUE]
<1>1. y.pc = q.pc /\ y.op = q.op
  BY Known DEF Fields
<1>2. q.pc # "done" /\ db' = db /\ app' = app
  BY <1>1 DEF DbFails
<1>3. CASE Continue(r, y, "reread") /\ q.pc = "insert"
  <2> DEFINE x == Moved(y, "reread")
  <2>1. reqs' = [reqs EXCEPT ![r] = x]
    BY <1>3 DEF Continue, Moved
  <2>2. UserRequestOK(db, q) /\ q.op \in UserOps
    BY <1>3, Known DEF DataRequestOK
  <2>3. /\ Same(q, x) /\ x.pc = "reread" /\ x.code = q.code /\ x.touched = q.touched
        /\ x.user = q.user /\ x.hit = TRUE /\ x.cause = q.cause
    BY Known, HitMoved
  <2> HIDE DEF x, y
  <2>4. UserRequestOK(db, x)
    BY <1>3, <2>2, <2>3 DEF UserRequestOK, Same
  <2>5. Steps(db, db', r, q, x, Ups)
    BY <1>2, <2>2, <2>3, <2>4, Known, NoWrite, UserContinues
  <2> QED
    BY <1>2, <2>1, <2>5 DEF GoesOn
<1>4. CASE \E c \in {"INTERNAL", "NOT_FOUND"} : Answer(r, y, c)
  <2>1. PICK c \in {"INTERNAL", "NOT_FOUND"} : Answer(r, y, c)
    BY <1>4
  <2> QED
    BY <1>2, <2>1, Failed
<1>5. \/ y.pc = "insert" /\ Continue(r, y, "reread")
      \/ y.pc # "insert" /\ Answer(r, y, "INTERNAL")
      \/ y.pc = "handle" /\ y.op \in OwnedOps /\ Answer(r, y, "NOT_FOUND")
  BY DEF DbFails
<1> QED
  BY <1>1, <1>3, <1>4, <1>5

LEMMA InvalidGoesOn ==
    ASSUME IInv, NEW r \in DOMAIN reqs, Invalid(r)
    PROVE  GoesOn(r)
<1>1. reqs[r].pc # "done" /\ db' = db /\ app' = app /\ Answer(r, reqs[r], "VALIDATION")
  BY DEF Invalid, Unchanged
<1> QED
  BY <1>1, Refused

LEMMA UnreadableGoesOn ==
    ASSUME IInv, NEW r \in DOMAIN reqs, Unreadable(r)
    PROVE  GoesOn(r)
<1>1. /\ reqs[r].pc # "done" /\ db' = db /\ app' = app
      /\ Answer(r, [reqs[r] EXCEPT !.cause = "body"], "INTERNAL")
  BY DEF Unreadable, Unchanged
<1> QED
  BY <1>1, Excused

LEMMA LookUpKeyGoesOn ==
    ASSUME IInv, NEW r \in DOMAIN reqs, LookUpKey(r)
    PROVE  GoesOn(r)
<1> DEFINE q == reqs[r]
<1>1. q.pc = "key" /\ db' = db /\ app' = app
  BY DEF LookUpKey, Unchanged
<1>2. CASE Answer(r, q, "UNAUTHORIZED")
  BY <1>1, <1>2, Refused
<1>3. CASE q.cred \in DOMAIN db.keys /\ Continue(r, [q EXCEPT !.ws = db.keys[q.cred].ws], "handle")
  <2> DEFINE ws == db.keys[q.cred].ws
             x == Moved([q EXCEPT !.ws = ws], "handle")
  <2>1. reqs' = [reqs EXCEPT ![r] = x]
    BY <1>3 DEF Continue, Moved
  <2>2. DataRequestOK(db, q) /\ q.op \in DataOps
    BY <1>1, Known DEF UserRequestOK
  <2>3. /\ Same(q, x) /\ x.pc = "handle" /\ x.code = q.code
        /\ x.ws = ws /\ x.touched = q.touched /\ x.hit = q.hit /\ x.cause = q.cause
    <3> HIDE DEF ws
    <3>1. DOMAIN q = Fields
      BY Known
    <3> QED
      BY ONLY <3>1, WsMoved
  <2> HIDE DEF x, SessionOps, RunOps
  <2>4. DataRequestOK(db, x)
    BY <1>1, <1>3, <2>2, <2>3 DEF DataRequestOK, Same
  <2>5. Steps(db, db', r, q, x, Ups)
    BY <1>1, <2>2, <2>3, <2>4, Known, DataContinues
  <2> QED
    BY <1>1, <2>1, <2>5 DEF GoesOn
<1> QED
  BY <1>2, <1>3 DEF LookUpKey

LEMMA VerifyTokenGoesOn ==
    ASSUME IInv, NEW r \in DOMAIN reqs, NEW verified, NEW use, NEW audience, NEW claims,
           VerifyToken(r, verified, use, audience, claims)
    PROVE  GoesOn(r)
<1> DEFINE q == reqs[r]
<1>1. q.pc = "token" /\ db' = db /\ app' = app
  BY DEF VerifyToken, Unchanged
<1>2. CASE Answer(r, q, "UNAUTHORIZED")
  BY <1>1, <1>2, Refused
<1>3. CASE Continue(r, q, "user")
  <2> DEFINE x == Moved(q, "user")
  <2>1. reqs' = [reqs EXCEPT ![r] = x]
    BY <1>3 DEF Continue, Moved
  <2>2. UserRequestOK(db, q) /\ q.op \in UserOps
    BY <1>1, Known DEF DataRequestOK
  <2>3. /\ Same(q, x) /\ x.pc = "user" /\ x.code = q.code /\ x.touched = q.touched
        /\ x.user = q.user /\ x.hit = q.hit /\ x.cause = q.cause
    BY Known, MovedRecord
  <2> HIDE DEF x
  <2>4. UserRequestOK(db, x)
    BY <1>1, <2>2, <2>3 DEF UserRequestOK, Same
  <2>5. Steps(db, db', r, q, x, Ups)
    BY <1>1, <2>2, <2>3, <2>4, Known, NoWrite, UserContinues
  <2> QED
    BY <1>1, <2>1, <2>5 DEF GoesOn
<1> QED
  BY <1>2, <1>3 DEF VerifyToken

(* A request that found its principal's user goes on as that user. *)
LEMMA FoundUser ==
    ASSUME IInv, NEW r \in DOMAIN reqs, reqs[r].pc \in {"user", "reread"}, db' = db, app' = app,
           NEW u \in UsersOf(reqs[r].cred), Continue(r, [reqs[r] EXCEPT !.user = u], "handle")
    PROVE  GoesOn(r)
<1> DEFINE q == reqs[r]
           x == Moved([q EXCEPT !.user = u], "handle")
<1>1. reqs' = [reqs EXCEPT ![r] = x]
  BY DEF Continue, Moved
<1>2. UserRequestOK(db, q) /\ q.op \in UserOps
  BY Known DEF DataRequestOK
<1>3. /\ Same(q, x) /\ x.pc = "handle" /\ x.code = q.code /\ x.touched = q.touched
      /\ x.user = u /\ x.hit = q.hit /\ x.cause = q.cause
  <2>1. DOMAIN q = Fields
    BY Known
  <2> QED
    BY ONLY <2>1, UserMoved
<1>4. u \in DOMAIN db.users /\ db.users[u] = q.cred
  BY DEF UsersOf
<1> HIDE DEF x
<1>5. UserRequestOK(db, x)
  BY <1>2, <1>3, <1>4 DEF UserRequestOK, Same
<1>6. Steps(db, db', r, q, x, Ups)
  BY <1>2, <1>3, <1>5, Known, NoWrite, UserContinues
<1> QED
  BY <1>1, <1>6 DEF GoesOn

LEMMA LookUpUserGoesOn ==
    ASSUME IInv, NEW r \in DOMAIN reqs, LookUpUser(r)
    PROVE  GoesOn(r)
<1> DEFINE q == reqs[r]
<1>1. q.pc = "user" /\ db' = db /\ app' = app
  BY DEF LookUpUser, Unchanged
<1>2. ASSUME NEW u \in UsersOf(q.cred), Continue(r, [q EXCEPT !.user = u], "handle")
      PROVE  GoesOn(r)
  BY <1>1, <1>2, FoundUser
<1>3. CASE Continue(r, q, "insert")
  <2> DEFINE x == Moved(q, "insert")
  <2>1. reqs' = [reqs EXCEPT ![r] = x]
    BY <1>3 DEF Continue, Moved
  <2>2. UserRequestOK(db, q) /\ q.op \in UserOps
    BY <1>1, Known DEF DataRequestOK
  <2>3. /\ Same(q, x) /\ x.pc = "insert" /\ x.code = q.code /\ x.touched = q.touched
        /\ x.user = q.user /\ x.hit = q.hit /\ x.cause = q.cause
    BY Known, MovedRecord
  <2> HIDE DEF x
  <2>4. UserRequestOK(db, x)
    BY <1>1, <2>2, <2>3 DEF UserRequestOK, Same
  <2>5. Steps(db, db', r, q, x, Ups)
    BY <1>1, <2>2, <2>3, <2>4, Known, NoWrite, UserContinues
  <2> QED
    BY <1>1, <2>1, <2>5 DEF GoesOn
<1> QED
  BY <1>2, <1>3 DEF LookUpUser

LEMMA InsertUserGoesOn ==
    ASSUME IInv, NEW r \in DOMAIN reqs, InsertUser(r)
    PROVE  GoesOn(r)
<1> DEFINE q == reqs[r]
<1>1. q.pc = "insert" /\ app' = app
  BY DEF InsertUser
<1>2. UserRequestOK(db, q) /\ q.op \in UserOps
  BY <1>1, Known DEF DataRequestOK
<1>3. CASE /\ UsersOf(q.cred) = {} /\ db' = WithUser(r, q.cred)
           /\ Continue(r, [q EXCEPT !.user = r], "handle")
  <2> DEFINE x == Moved([q EXCEPT !.user = r], "handle")
  <2>1. reqs' = [reqs EXCEPT ![r] = x]
    BY <1>3 DEF Continue, Moved
  <2>2. FreeUser(db, r) /\ Free(db, r)
    BY <1>1, Known DEF RequestOK
  <2>3. \A v \in DOMAIN db.users : db.users[v] # q.cred
    BY <1>3 DEF UsersOf
  <2>4. Only(db, db', "users") /\ db'.users = Inserted(db.users, r, q.cred)
    BY <1>3, Known DEF WithUser, Only, TablesOK, Tables
  <2>5. /\ Writes(db, db', r) /\ db'.agents = db.agents
        /\ r \in DOMAIN db'.users /\ db'.users[r] = q.cred /\ Free(db', r)
    <3>1. TablesOK(db)
      BY Known
    <3>2. Writes(db, db', r)
      BY ONLY <2>2, <2>3, <2>4, <3>1, AddUser
    <3>3. /\ db'.agents = db.agents /\ db'.keys = db.keys
          /\ db'.sessions = db.sessions /\ db'.runs = db.runs
      BY ONLY <2>4, <3>1 DEF Only, TablesOK, Tables
    <3>4. r \in DOMAIN db'.users /\ db'.users[r] = q.cred
      BY ONLY <2>2, <2>4 DEF FreeUser, Inserted
    <3> QED
      BY <2>2, <3>2, <3>3, <3>4 DEF Free
  <2>6. /\ Same(q, x) /\ x.pc = "handle" /\ x.code = q.code /\ x.touched = q.touched
        /\ x.user = r /\ x.hit = q.hit /\ x.cause = q.cause
    <3>1. DOMAIN q = Fields
      BY Known
    <3> QED
      BY ONLY <3>1, UserMoved
  <2> HIDE DEF x
  <2>7. UserRequestOK(db', x)
    BY <1>1, <1>2, <2>5, <2>6 DEF UserRequestOK, Same
  <2>8. Steps(db, db', r, q, x, Ups)
    BY <1>1, <1>2, <2>5, <2>6, <2>7, Known, UserContinues
  <2> QED
    BY <1>1, <2>1, <2>8 DEF GoesOn
<1>4. CASE UsersOf(q.cred) # {} /\ Continue(r, q, "reread") /\ db' = db
  <2> DEFINE x == Moved(q, "reread")
  <2>1. reqs' = [reqs EXCEPT ![r] = x]
    BY <1>4 DEF Continue, Moved
  <2>2. \E u \in DOMAIN db.users : db.users[u] = q.cred
    BY <1>4 DEF UsersOf
  <2>3. /\ Same(q, x) /\ x.pc = "reread" /\ x.code = q.code /\ x.touched = q.touched
        /\ x.user = q.user /\ x.hit = q.hit /\ x.cause = q.cause
    BY Known, MovedRecord
  <2> HIDE DEF x
  <2>4. UserRequestOK(db, x)
    BY <1>1, <1>2, <2>2, <2>3 DEF UserRequestOK, Same
  <2>5. Steps(db, db', r, q, x, Ups)
    BY <1>1, <1>2, <1>4, <2>3, <2>4, Known, NoWrite, UserContinues
  <2> QED
    BY <1>1, <2>1, <2>5 DEF GoesOn
<1> QED
  BY <1>3, <1>4 DEF InsertUser

LEMMA RereadUserGoesOn ==
    ASSUME IInv, NEW r \in DOMAIN reqs, RereadUser(r)
    PROVE  GoesOn(r)
<1> DEFINE q == reqs[r]
<1>1. q.pc = "reread" /\ db' = db /\ app' = app
  BY DEF RereadUser, Unchanged
<1>2. ASSUME NEW u \in UsersOf(q.cred), Continue(r, [q EXCEPT !.user = u], "handle")
      PROVE  GoesOn(r)
  BY <1>1, <1>2, FoundUser
<1>3. CASE UsersOf(q.cred) = {} /\ Answer(r, q, "INTERNAL")
  <2> DEFINE x == Answered(q, "INTERNAL")
  <2>1. reqs' = [reqs EXCEPT ![r] = x]
    BY <1>3 DEF Answer, Answered
  <2>2. q.hit
    BY <1>1, <1>3, Known DEF UserRequestOK, DataRequestOK, UsersOf
  <2>3. /\ Same(q, x) /\ x.pc = "done" /\ x.code = "INTERNAL" /\ x.touched = q.touched
        /\ x.user = q.user /\ x.ws = q.ws /\ x.hit = q.hit
    BY Known, AnswerRecord
  <2> HIDE DEF x
  <2>4. x.hit
    BY <2>2, <2>3
  <2>5. \A row \in x.touched : MayTouch(db', q, row)
    BY <2>3 DEF MayTouch
  <2>6. Steps(db, db', r, q, x, Ups)
    BY <1>1, <2>3, <2>4, <2>5, Known, NoWrite, Answers
  <2> QED
    BY <1>1, <2>1, <2>6 DEF GoesOn
<1> QED
  BY <1>2, <1>3 DEF RereadUser

-----------------------------------------------------------------------------
(* The management routes *)

(* A request past authentication is one of a user, by its op or its pc. *)
LEMMA KnownUser ==
    ASSUME IInv, NEW r \in DOMAIN reqs,
           \/ reqs[r].pc \in {"owner", "keys", "revoke"}
           \/ reqs[r].pc = "handle" /\ reqs[r].op \in UserOps
    PROVE  UserRequestOK(db, reqs[r]) /\ reqs[r].op \in UserOps
  BY Known DEF DataRequestOK

LEMMA CreateWorkspaceGoesOn ==
    ASSUME IInv, NEW r \in DOMAIN reqs, CreateWorkspace(r)
    PROVE  GoesOn(r)
<1> DEFINE q == reqs[r]
           x == Moved(q, "owner")
<1>1. q.pc = "handle" /\ q.op = "createWorkspace" /\ app' = app
  BY DEF CreateWorkspace, Handling
<1>2. UserRequestOK(db, q) /\ q.op \in UserOps
  BY <1>1, KnownUser DEF UserOps
<1>3. reqs' = [reqs EXCEPT ![r] = x]
  BY DEF CreateWorkspace, Continue, Moved
<1>4. Only(db, db', "workspaces")
  BY Known DEF CreateWorkspace, WithWorkspace, Only, TablesOK, Tables
<1>5. Writes(db, db', r) /\ db'.agents = db.agents
  <2>1. TablesOK(db)
    BY Known
  <2>2. db'.agents = db.agents
    BY <1>4, <2>1 DEF Only, TablesOK, Tables
  <2> QED
    BY <1>4, <2>1, <2>2, AddWorkspace
<1>6. /\ Same(q, x) /\ x.pc = "owner" /\ x.code = q.code /\ x.touched = q.touched
      /\ x.user = q.user /\ x.hit = q.hit /\ x.cause = q.cause
  BY Known, MovedRecord
<1> HIDE DEF x
<1>7. UserRequestOK(db', q)
  BY <1>2, <1>5, Known, UserRequestKept DEF Writes
<1>8. UserRequestOK(db', x)
  BY <1>1, <1>6, <1>7 DEF UserRequestOK, Same
<1>9. Free(db, r) => Free(db', r)
  <2>1. /\ db'.keys = db.keys /\ db'.sessions = db.sessions /\ db'.runs = db.runs
    BY <1>4, Known DEF TablesOK, Tables, Only
  <2> QED
    BY <1>5, <2>1 DEF Free
<1>10. Steps(db, db', r, q, x, Ups)
  BY <1>1, <1>2, <1>5, <1>6, <1>8, <1>9, UserContinues, Known
<1> QED
  BY <1>1, <1>3, <1>10 DEF GoesOn

LEMMA CreateOwnerGoesOn ==
    ASSUME IInv, NEW r \in DOMAIN reqs, CreateOwner(r)
    PROVE  GoesOn(r)
<1>1. reqs[r].pc = "owner" /\ app' = app /\ Answer(r, reqs[r], "OK")
  BY DEF CreateOwner
<1>2. Only(db, db', "members") /\ db'.members = db.members \cup {<<reqs[r].user, r>>}
  BY Known DEF CreateOwner, WithMember, Only, TablesOK, Tables
<1>3. Writes(db, db', r) /\ db'.agents = db.agents
  <2>1. TablesOK(db)
    BY Known
  <2>2. db'.agents = db.agents
    BY <1>2, <2>1 DEF Only, TablesOK, Tables
  <2>3. Writes(db, db', r)
    BY ONLY <1>2, <2>1, AddMember
  <2> QED
    BY <2>2, <2>3
<1> QED
  BY <1>1, <1>3, Written

LEMMA ListWorkspacesGoesOn ==
    ASSUME IInv, NEW r \in DOMAIN reqs, ListWorkspaces(r)
    PROVE  GoesOn(r)
<1> DEFINE q == reqs[r]
           rows == {<<"workspace", w>> : w \in WorkspacesOf(q.user)}
<1>1. /\ q.pc = "handle" /\ q.op = "listWorkspaces" /\ db' = db /\ app' = app
      /\ Answer(r, Read(q, rows), "OK")
  BY DEF ListWorkspaces, Handling, Unchanged
<1>2. q.op \in UserOps
  BY <1>1 DEF UserOps
<1>3. ASSUME NEW row \in rows
      PROVE  MayTouch(db', q, row)
  <2>1. PICK w \in WorkspacesOf(q.user) : row = <<"workspace", w>>
    OBVIOUS
  <2>2. PICK m \in db.members : m[1] = q.user /\ m[2] = w
    BY DEF WorkspacesOf
  <2>3. m = <<m[1], m[2]>>
    BY Known DEF TablesOK
  <2>4. Owned(db, row, m[2])
    BY <2>1, <2>2 DEF Owned
  <2> QED
    BY <1>1, <1>2, <2>2, <2>3, <2>4 DEF MayTouch
<1> HIDE DEF rows
<1> QED
  BY <1>1, <1>3, Known, NoWrite, Served

LEMMA GetWorkspaceGoesOn ==
    ASSUME IInv, NEW r \in DOMAIN reqs, GetWorkspace(r)
    PROVE  GoesOn(r)
<1> DEFINE q == reqs[r]
           rows == {<<"workspace", q.target>>}
<1>1. q.pc = "handle" /\ q.op = "getWorkspace" /\ db' = db /\ app' = app
  BY DEF GetWorkspace, Handling, Unchanged
<1>2. CASE Answer(r, q, "FORBIDDEN")
  BY <1>1, <1>2, Refused
<1>3. CASE <<q.user, q.target>> \in db.members /\ Answer(r, Read(q, rows), "OK")
  <2>1. ASSUME NEW row \in rows
        PROVE  MayTouch(db', q, row)
    <3> DEFINE m == <<q.user, q.target>>
    <3>1. m = <<q.user, m[2]>> /\ Owned(db, row, m[2])
      BY DEF Owned
    <3>2. q.op \in UserOps
      BY <1>1 DEF UserOps
    <3> QED
      BY <1>1, <1>3, <3>1, <3>2 DEF MayTouch
  <2> HIDE DEF rows
  <2> QED
    BY <1>1, <1>3, <2>1, Known, NoWrite, Served
<1> QED
  BY <1>2, <1>3 DEF GetWorkspace, IsMember

LEMMA MeGoesOn ==
    ASSUME IInv, NEW r \in DOMAIN reqs, Me(r)
    PROVE  GoesOn(r)
<1>1. reqs[r].pc = "handle" /\ db' = db /\ app' = app /\ Answer(r, reqs[r], "OK")
  BY DEF Me, Handling, Unchanged
<1> QED
  BY <1>1, Refused

(* The membership is checked here, and holds when the key is written. *)
LEMMA EnsureMemberGoesOn ==
    ASSUME IInv, NEW r \in DOMAIN reqs, EnsureMember(r)
    PROVE  GoesOn(r)
<1> DEFINE q == reqs[r]
<1>1. q.pc = "handle" /\ q.op \in {"createKey", "listKeys", "revokeKey"} /\ db' = db /\ app' = app
  BY DEF EnsureMember, Unchanged
<1>2. CASE Answer(r, q, "FORBIDDEN")
  BY <1>1, <1>2, Refused
<1>3. CASE <<q.user, q.target>> \in db.members /\ Continue(r, q, "keys")
  <2> DEFINE x == Moved(q, "keys")
  <2>1. reqs' = [reqs EXCEPT ![r] = x]
    BY <1>3 DEF Continue, Moved
  <2>2. UserRequestOK(db, q) /\ q.op \in UserOps
    BY <1>1, KnownUser DEF UserOps
  <2>3. /\ Same(q, x) /\ x.pc = "keys" /\ x.code = q.code /\ x.touched = q.touched
        /\ x.user = q.user /\ x.hit = q.hit /\ x.cause = q.cause
    BY Known, MovedRecord
  <2> HIDE DEF x
  <2>4. UserRequestOK(db, x)
    BY <1>1, <1>3, <2>2, <2>3 DEF UserRequestOK, Same
  <2>5. Steps(db, db', r, q, x, Ups)
    BY <1>1, <2>2, <2>3, <2>4, Known, NoWrite, UserContinues
  <2> QED
    BY <1>1, <2>1, <2>5 DEF GoesOn
<1> QED
  BY <1>2, <1>3 DEF EnsureMember, IsMember

LEMMA CreateKeyGoesOn ==
    ASSUME IInv, NEW r \in DOMAIN reqs, CreateKey(r)
    PROVE  GoesOn(r)
<1> DEFINE q == reqs[r]
           row == [ws |-> q.target, by |-> q.user, revokedBy |-> None]
<1>1. q.pc = "keys" /\ app' = app /\ Answer(r, q, "OK")
  BY DEF CreateKey
<1>2. TablesOK(db) /\ Free(db, r)
  BY <1>1, Known DEF RequestOK
<1>3. <<q.user, q.target>> \in db.members
  BY <1>1, KnownUser DEF UserRequestOK
<1>4. Only(db, db', "keys") /\ db'.keys = Inserted(db.keys, r, row) /\ db'.agents = db.agents
  BY <1>2 DEF CreateKey, WithKey, Only, TablesOK, Tables
<1>5. Writes(db, db', r)
  BY ONLY <1>2, <1>3, <1>4, AddKey
<1> QED
  BY <1>1, <1>4, <1>5, Written

LEMMA ListKeysGoesOn ==
    ASSUME IInv, NEW r \in DOMAIN reqs, ListKeys(r)
    PROVE  GoesOn(r)
<1> DEFINE q == reqs[r]
           rows == {<<"key", k>> : k \in KeysOf(q.target)}
<1>1. q.pc = "keys" /\ db' = db /\ app' = app /\ Answer(r, Read(q, rows), "OK")
  BY DEF ListKeys, Unchanged
<1>2. <<q.user, q.target>> \in db.members /\ q.op \in UserOps
  BY <1>1, KnownUser DEF UserRequestOK
<1>3. ASSUME NEW row \in rows
      PROVE  MayTouch(db', q, row)
  <2> DEFINE m == <<q.user, q.target>>
  <2>1. PICK k \in KeysOf(q.target) : row = <<"key", k>>
    OBVIOUS
  <2>2. m = <<q.user, m[2]>> /\ Owned(db, row, m[2])
    BY <2>1 DEF KeysOf, Owned
  <2> QED
    BY <1>1, <1>2, <2>2 DEF MayTouch
<1> HIDE DEF rows
<1> QED
  BY <1>1, <1>3, Known, NoWrite, Served

LEMMA FindKeyGoesOn ==
    ASSUME IInv, NEW r \in DOMAIN reqs, FindKey(r)
    PROVE  GoesOn(r)
<1> DEFINE q == reqs[r]
<1>1. q.pc = "keys" /\ db' = db /\ app' = app
  BY DEF FindKey, Unchanged
<1>2. CASE Answer(r, q, "NOT_FOUND")
  BY <1>1, <1>2, Refused
<1>3. CASE q.arg \in KeysOf(q.target) /\ Continue(r, q, "revoke")
  <2> DEFINE x == Moved(q, "revoke")
  <2>1. reqs' = [reqs EXCEPT ![r] = x]
    BY <1>3 DEF Continue, Moved
  <2>2. UserRequestOK(db, q) /\ q.op \in UserOps
    BY <1>1, KnownUser
  <2>3. /\ Same(q, x) /\ x.pc = "revoke" /\ x.code = q.code /\ x.touched = q.touched
        /\ x.user = q.user /\ x.hit = q.hit /\ x.cause = q.cause
    BY Known, MovedRecord
  <2> HIDE DEF x
  <2>6. q.arg \in DOMAIN db.keys /\ db.keys[q.arg].ws = q.target
    BY <1>3 DEF KeysOf
  <2>4. UserRequestOK(db, x)
    BY <1>1, <2>2, <2>3, <2>6 DEF UserRequestOK, Same
  <2>5. Steps(db, db', r, q, x, Ups)
    BY <1>1, <2>2, <2>3, <2>4, Known, NoWrite, UserContinues
  <2> QED
    BY <1>1, <2>1, <2>5 DEF GoesOn
<1> QED
  BY <1>2, <1>3 DEF FindKey

LEMMA RevokeKeyGoesOn ==
    ASSUME IInv, NEW r \in DOMAIN reqs, RevokeKey(r)
    PROVE  GoesOn(r)
<1> DEFINE q == reqs[r]
           k == q.arg
           row == [db.keys[k] EXCEPT !.revokedBy = q.user]
<1>1. q.pc = "revoke" /\ app' = app /\ Answer(r, q, "OK")
  BY DEF RevokeKey
<1>2. TablesOK(db)
  BY Known
<1>3. k \in DOMAIN db.keys /\ <<q.user, db.keys[k].ws>> \in db.members
  BY <1>1, KnownUser DEF UserRequestOK
<1>4. Only(db, db', "keys") /\ db'.keys = [db.keys EXCEPT ![k] = row] /\ db'.agents = db.agents
  BY <1>2 DEF RevokeKey, WithRevoked, Only, TablesOK, Tables
<1>5. /\ DOMAIN row = KeyColumns /\ row.by = db.keys[k].by /\ row.ws = db.keys[k].ws
      /\ row.revokedBy = q.user
  BY <1>2, <1>3 DEF TablesOK, KeyOK, KeyColumns
<1> HIDE DEF row, k
<1>6. Writes(db, db', r)
  BY ONLY <1>2, <1>3, <1>4, <1>5, Revoke
<1> QED
  BY <1>1, <1>4, <1>6, Written

-----------------------------------------------------------------------------
(* The data routes *)

LEMMA KnownKey ==
    ASSUME IInv, NEW r \in DOMAIN reqs,
           \/ reqs[r].pc \in {"update", "create", "insertSession", "write", "insertRun", "userMessage"}
           \/ reqs[r].pc = "handle" /\ reqs[r].op \in DataOps
    PROVE  DataRequestOK(db, reqs[r]) /\ reqs[r].op \in DataOps
  BY Known DEF UserRequestOK

LEMMA AnswerIfGoesOn ==
    ASSUME IInv, NEW r \in DOMAIN reqs, reqs[r].pc = "handle", reqs[r].op \in DataOps,
           db' = db, app' = app, NEW owned \in BOOLEAN, NEW rows, AnswerIf(r, owned, rows),
           owned => \A row \in rows : Owned(db, row, reqs[r].ws)
    PROVE  GoesOn(r)
<1>1. CASE Answer(r, reqs[r], "NOT_FOUND")
  BY <1>1, Refused
<1>2. CASE owned /\ Answer(r, Read(reqs[r], rows), "OK")
  <2>1. \A row \in rows : MayTouch(db', reqs[r], row)
    BY <1>2 DEF MayTouch
  <2> QED
    BY <1>2, <2>1, Known, NoWrite, Served
<1> QED
  BY <1>1, <1>2 DEF AnswerIf

LEMMA RowsOwned ==
    ASSUME NEW d, NEW ws
    PROVE  /\ \A a : AgentOwned(d, a, ws) => Owned(d, <<"agent", a>>, ws)
           /\ \A s : SessionOwned(d, s, ws) => Owned(d, <<"session", s>>, ws)
           /\ \A n : RunOwned(d, n, ws) => Owned(d, <<"run", n>>, ws)
  BY DEF Owned

LEMMA GetAgentGoesOn ==
    ASSUME IInv, NEW r \in DOMAIN reqs, GetAgent(r)
    PROVE  GoesOn(r)
<1> DEFINE q == reqs[r]
           owned == OwnsAgent(q.ws, q.target)
           rows == {<<"agent", q.target>>}
<1>1. q.pc = "handle" /\ q.op = "getAgent" /\ db' = db /\ app' = app /\ AnswerIf(r, owned, rows)
  BY DEF GetAgent, Handling, Unchanged
<1>2. q.op \in DataOps
  BY <1>1 DEF DataOps
<1>3. owned => AgentOwned(db, q.target, q.ws)
  BY DEF OwnsAgent, AgentsIn, AgentOwned
<1>4. owned => \A row \in rows : Owned(db, row, q.ws)
  BY <1>3, RowsOwned
<1>5. owned \in BOOLEAN
  BY DEF OwnsAgent
<1> HIDE DEF owned, rows
<1> QED
  BY <1>1, <1>2, <1>4, <1>5, AnswerIfGoesOn

LEMMA ListAgentsGoesOn ==
    ASSUME IInv, NEW r \in DOMAIN reqs, ListAgents(r)
    PROVE  GoesOn(r)
<1> DEFINE q == reqs[r]
           rows == {<<"agent", a>> : a \in AgentsIn(q.ws)}
<1>1. /\ q.pc = "handle" /\ q.op = "listAgents" /\ db' = db /\ app' = app
      /\ Answer(r, Read(q, rows), "OK")
  BY DEF ListAgents, Handling, Unchanged
<1>2. q.op \in DataOps
  BY <1>1 DEF DataOps
<1>3. ASSUME NEW row \in rows
      PROVE  MayTouch(db', q, row)
  <2>1. PICK a \in AgentsIn(q.ws) : row = <<"agent", a>>
    OBVIOUS
  <2>2. AgentOwned(db, a, q.ws)
    BY DEF AgentsIn, AgentOwned
  <2> QED
    BY <1>1, <1>2, <2>1, <2>2, RowsOwned DEF MayTouch
<1> HIDE DEF rows
<1> QED
  BY <1>1, <1>3, Known, NoWrite, Served

LEMMA AgentByNameGoesOn ==
    ASSUME IInv, NEW r \in DOMAIN reqs, AgentByName(r)
    PROVE  GoesOn(r)
<1> DEFINE q == reqs[r]
           found == Named(q.ws, q.target)
           owned == found # {}
           rows == {<<"agent", a>> : a \in found}
<1>1. q.pc = "handle" /\ q.op = "agentByName" /\ db' = db /\ app' = app /\ AnswerIf(r, owned, rows)
  BY DEF AgentByName, Handling, Unchanged
<1>2. q.op \in DataOps
  BY <1>1 DEF DataOps
<1>3. ASSUME NEW row \in rows
      PROVE  Owned(db, row, q.ws)
  <2>1. PICK a \in found : row = <<"agent", a>>
    OBVIOUS
  <2>2. AgentOwned(db, a, q.ws)
    BY DEF Named, AgentOwned
  <2> QED
    BY <2>1, <2>2, RowsOwned
<1>5. owned \in BOOLEAN
  OBVIOUS
<1> HIDE DEF owned, rows
<1> QED
  BY <1>1, <1>2, <1>3, <1>5, AnswerIfGoesOn

(* The agent that registration found stays the workspace's, and its URL    *)
(* the one of a runner that answered.                                      *)
LEMMA FindAgentGoesOn ==
    ASSUME IInv, NEW r \in DOMAIN reqs, FindAgent(r)
    PROVE  GoesOn(r)
<1> DEFINE q == reqs[r]
           found == Named(q.ws, q.target)
<1>1. q.pc = "handle" /\ q.op = "register" /\ db' = db /\ app' = app
  BY DEF FindAgent, Handling, Unchanged
<1>2. DataRequestOK(db, q) /\ q.op \in DataOps /\ DOMAIN q = Fields
  BY <1>1, KnownKey, Known DEF DataOps
<1>3. ASSUME NEW a \in found,
             Continue(r, [q EXCEPT !.read = [id |-> a, url |-> db.agents[a].url]], "update")
      PROVE  GoesOn(r)
  <2> DEFINE v == [id |-> a, url |-> db.agents[a].url]
             x == Moved([q EXCEPT !.read = v], "update")
  <2>1. reqs' = [reqs EXCEPT ![r] = x]
    BY <1>3 DEF Continue, Moved
  <2>2. v.id = a /\ v.url = db.agents[a].url
    OBVIOUS
  <2> HIDE DEF v
  <2>3. /\ Same(q, x) /\ x.pc = "update" /\ x.code = q.code /\ x.read = v
        /\ x.ws = q.ws /\ x.touched = q.touched /\ x.hit = q.hit /\ x.cause = q.cause
    BY ONLY <1>2, FoundMoved
  <2> HIDE DEF x, SessionOps, RunOps
  <2>6. AgentOwned(db, a, q.ws) /\ a \in DOMAIN db.agents
    BY DEF Named, AgentOwned
  <2>4. DataRequestOK(db, x)
    BY <1>1, <1>2, <2>2, <2>3, <2>6 DEF DataRequestOK, Same
  <2>7. UrlsOK(db, Ups) => (x.read.url \in Apps => x.read.url \in Ups)
    BY <2>2, <2>3, <2>6 DEF UrlsOK
  <2>5. Steps(db, db', r, q, x, Ups)
    BY <1>1, <1>2, <2>3, <2>4, <2>7, Known, DataContinues
  <2> QED
    BY <1>1, <2>1, <2>5 DEF GoesOn
<1>4. CASE Continue(r, q, "create")
  <2> DEFINE x == Moved(q, "create")
  <2>1. reqs' = [reqs EXCEPT ![r] = x]
    BY <1>4 DEF Continue, Moved
  <2>3. /\ Same(q, x) /\ x.pc = "create" /\ x.code = q.code
        /\ x.ws = q.ws /\ x.touched = q.touched /\ x.hit = q.hit /\ x.cause = q.cause
    BY Known, MovedRecord
  <2> HIDE DEF x, SessionOps, RunOps
  <2>4. DataRequestOK(db, x)
    BY <1>1, <1>2, <2>3 DEF DataRequestOK, Same
  <2>5. Steps(db, db', r, q, x, Ups)
    BY <1>1, <1>2, <2>3, <2>4, Known, DataContinues
  <2> QED
    BY <1>1, <2>1, <2>5 DEF GoesOn
<1> QED
  BY <1>3, <1>4 DEF FindAgent

LEMMA UpdateAgentGoesOn ==
    ASSUME IInv, NEW r \in DOMAIN reqs, UpdateAgent(r)
    PROVE  GoesOn(r)
<1> DEFINE q == reqs[r]
           a == q.read.id
           url == IF q.arg = None THEN q.read.url ELSE q.arg
           row == [db.agents[a] EXCEPT !.url = url]
           rows == {<<"agent", a>>}
<1>1. q.pc = "update" /\ app' = app /\ Answer(r, Read(q, rows), "OK")
  BY DEF UpdateAgent
<1>2. DataRequestOK(db, q) /\ q.op \in DataOps /\ TablesOK(db)
  BY <1>1, KnownKey, Known
<1>3. q.op = "register" /\ AgentOwned(db, a, q.ws)
  BY <1>1, <1>2 DEF DataRequestOK
<1>4. a \in DOMAIN db.agents
  BY <1>3 DEF AgentOwned
<1>5. Only(db, db', "agents") /\ db'.agents = [db.agents EXCEPT ![a] = row]
  BY <1>2 DEF UpdateAgent, WithUrl, Only, TablesOK, Tables
<1>6. DOMAIN row = AgentColumns /\ row.ws = db.agents[a].ws /\ row.url = url
  BY <1>2, <1>4 DEF TablesOK, AgentColumns
<1>7. UrlOK(q, Ups) => (url \in Apps => url \in Ups)
  BY <1>1, <1>3 DEF UrlOK
<1> HIDE DEF row, a, url
<1>8. Writes(db, db', r)
  BY ONLY <1>2, <1>4, <1>5, <1>6, SetUrl
<1>9. (UrlsOK(db, Ups) /\ UrlOK(q, Ups)) => UrlsOK(db', Ups)
  BY <1>4, <1>5, <1>6, <1>7 DEF UrlsOK
<1>10. AgentOwned(db', a, q.ws)
  BY <1>3, <1>4, <1>5, <1>6 DEF AgentOwned
<1>11. \A t \in rows : MayTouch(db', q, t)
  BY <1>1, <1>2, <1>10, RowsOwned DEF MayTouch
<1> HIDE DEF rows
<1> QED
  BY <1>1, <1>8, <1>9, <1>11, Served

(* (workspace, name) is unique: the loser of the race is told so. *)
LEMMA CreateAgentGoesOn ==
    ASSUME IInv, NEW r \in DOMAIN reqs, CreateAgent(r)
    PROVE  GoesOn(r)
<1> DEFINE q == reqs[r]
<1>1. q.pc = "create" /\ app' = app
  BY DEF CreateAgent
<1>2. DataRequestOK(db, q) /\ q.op \in DataOps /\ TablesOK(db) /\ Free(db, r)
  BY <1>1, KnownKey, Known DEF RequestOK
<1>3. CASE db' = WithAgent(r, q.ws, q.target, q.arg) /\ Answer(r, Read(q, {<<"agent", r>>}), "OK")
  <2> DEFINE row == [ws |-> q.ws, name |-> q.target, url |-> q.arg]
             rows == {<<"agent", r>>}
  <2>1. Only(db, db', "agents") /\ db'.agents = Inserted(db.agents, r, row)
    BY <1>2, <1>3 DEF WithAgent, Only, TablesOK, Tables
  <2>2. Writes(db, db', r)
    BY ONLY <1>2, <2>1, AddAgent
  <2>3. row.ws = q.ws /\ row.url = q.arg
    OBVIOUS
  <2> HIDE DEF row
  <2>4. /\ DOMAIN db'.agents = DOMAIN db.agents \cup {r} /\ db'.agents[r] = row
        /\ \A a \in DOMAIN db.agents : db'.agents[a] = db.agents[a]
    BY <1>2, <2>1 DEF Inserted, Free
  <2>5. q.op = "register"
    BY <1>1, <1>2 DEF DataRequestOK
  <2>6. UrlOK(q, Ups) => (q.arg \in Apps => q.arg \in Ups)
    BY <2>5, FreshIds DEF UrlOK
  <2>7. (UrlsOK(db, Ups) /\ UrlOK(q, Ups)) => UrlsOK(db', Ups)
    BY <2>3, <2>4, <2>6 DEF UrlsOK
  <2>8. AgentOwned(db', r, q.ws)
    BY <2>3, <2>4 DEF AgentOwned
  <2>9. \A t \in rows : MayTouch(db', q, t)
    BY <1>1, <1>2, <2>8, RowsOwned DEF MayTouch
  <2> HIDE DEF rows
  <2>10. Answer(r, Read(q, rows), "OK")
    BY <1>3 DEF rows
  <2> QED
    BY <1>1, <2>2, <2>7, <2>9, <2>10, Served
<1>4. CASE db' = db /\ Answer(r, [q EXCEPT !.cause = "race"], "INTERNAL")
  BY <1>1, <1>4, Excused
<1> QED
  BY <1>3, <1>4 DEF CreateAgent

LEMMA ResolveAgentGoesOn ==
    ASSUME IInv, NEW r \in DOMAIN reqs, ResolveAgent(r)
    PROVE  GoesOn(r)
<1> DEFINE q == reqs[r]
           found == Named(q.ws, q.target)
<1>1. q.pc = "handle" /\ q.op = "createSession" /\ db' = db /\ app' = app
  BY DEF ResolveAgent, Handling, Unchanged
<1>2. DataRequestOK(db, q) /\ q.op \in DataOps /\ DOMAIN q = Fields
  BY <1>1, KnownKey, Known DEF DataOps
<1>3. ASSUME NEW a \in found, Continue(r, [q EXCEPT !.read = a], "insertSession")
      PROVE  GoesOn(r)
  <2> DEFINE x == Moved([q EXCEPT !.read = a], "insertSession")
  <2>1. reqs' = [reqs EXCEPT ![r] = x]
    BY <1>3 DEF Continue, Moved
  <2>3. /\ Same(q, x) /\ x.pc = "insertSession" /\ x.code = q.code /\ x.read = a
        /\ x.ws = q.ws /\ x.touched = q.touched /\ x.hit = q.hit /\ x.cause = q.cause
    <3> HIDE DEF found
    <3>1. DOMAIN q = Fields
      BY <1>2
    <3> QED
      BY ONLY <3>1, FoundMoved
  <2> HIDE DEF x, SessionOps, RunOps
  <2>6. AgentOwned(db, a, q.ws)
    BY DEF Named, AgentOwned
  <2>4. DataRequestOK(db, x)
    BY <1>1, <1>2, <2>3, <2>6 DEF DataRequestOK, Same
  <2>5. Steps(db, db', r, q, x, Ups)
    BY <1>1, <1>2, <2>3, <2>4, Known, DataContinues
  <2> QED
    BY <1>1, <2>1, <2>5 DEF GoesOn
<1>4. CASE Answer(r, q, "NOT_FOUND")
  BY <1>1, <1>4, Refused
<1> QED
  BY <1>3, <1>4 DEF ResolveAgent

LEMMA InsertSessionGoesOn ==
    ASSUME IInv, NEW r \in DOMAIN reqs, InsertSession(r)
    PROVE  GoesOn(r)
<1> DEFINE q == reqs[r]
           row == [agent |-> q.read, status |-> "active"]
           rows == {<<"session", r>>}
<1>1. q.pc = "insertSession" /\ app' = app /\ Answer(r, Read(q, rows), "OK")
  BY DEF InsertSession
<1>2. DataRequestOK(db, q) /\ q.op \in DataOps /\ TablesOK(db) /\ Free(db, r)
  BY <1>1, KnownKey, Known DEF RequestOK
<1>3. AgentOwned(db, q.read, q.ws) /\ q.read \in DOMAIN db.agents
  BY <1>1, <1>2 DEF DataRequestOK, AgentOwned
<1>4. /\ Only(db, db', "sessions") /\ db'.sessions = Inserted(db.sessions, r, row)
      /\ db'.agents = db.agents
  BY <1>2 DEF InsertSession, WithSession, Only, TablesOK, Tables
<1>5. Writes(db, db', r)
  BY ONLY <1>2, <1>3, <1>4, AddSession
<1>6. row.agent = q.read
  OBVIOUS
<1> HIDE DEF row
<1>7. r \in DOMAIN db'.sessions /\ db'.sessions[r] = row
  BY <1>2, <1>4 DEF Inserted, Free
<1>8. SessionOwned(db', r, q.ws)
  BY <1>3, <1>4, <1>6, <1>7 DEF SessionOwned, AgentOwned
<1>9. \A t \in rows : MayTouch(db', q, t)
  BY <1>1, <1>2, <1>8, RowsOwned DEF MayTouch
<1> HIDE DEF rows
<1>10. UrlsOK(db, Ups) => UrlsOK(db', Ups)
  BY <1>4 DEF UrlsOK
<1> QED
  BY <1>1, <1>5, <1>9, <1>10, Served

(* The checks of ownership, against the tables *)
LEMMA OwnsOwned ==
    ASSUME TablesOK(db), NEW ws
    PROVE  /\ \A s \in DOMAIN db.sessions : OwnsSession(ws, s) => SessionOwned(db, s, ws)
           /\ \A n \in DOMAIN db.runs : OwnsRun(ws, n) => RunOwned(db, n, ws)
<1>1. \A s \in DOMAIN db.sessions : OwnsSession(ws, s) => SessionOwned(db, s, ws)
  BY DEF OwnsSession, OwnsAgent, AgentsIn, SessionOwned, AgentOwned
<1>2. \A n \in DOMAIN db.runs : OwnsRun(ws, n) => RunOwned(db, n, ws)
  BY <1>1 DEF OwnsRun, RunOwned, TablesOK
<1> QED
  BY <1>1, <1>2

LEMMA ReadSessionGoesOn ==
    ASSUME IInv, NEW r \in DOMAIN reqs, ReadSession(r)
    PROVE  GoesOn(r)
<1> DEFINE q == reqs[r]
           owned == OwnsSession(q.ws, q.target)
           rows == {<<"session", q.target>>}
<1>1. q.pc = "handle" /\ q.op = "getSession" /\ db' = db /\ app' = app /\ AnswerIf(r, owned, rows)
  BY DEF ReadSession, Handling, Unchanged
<1>2. q.op \in DataOps
  BY <1>1 DEF DataOps
<1>3. q.target \in DOMAIN db.sessions
  BY <1>1, <1>2, KnownKey DEF DataRequestOK, SessionOps
<1>4. owned => \A row \in rows : Owned(db, row, q.ws)
  BY <1>3, Known, OwnsOwned, RowsOwned
<1>5. owned \in BOOLEAN
  BY DEF OwnsSession, OwnsAgent
<1> HIDE DEF owned, rows
<1> QED
  BY <1>1, <1>2, <1>4, <1>5, AnswerIfGoesOn

LEMMA CheckSessionGoesOn ==
    ASSUME IInv, NEW r \in DOMAIN reqs, CheckSession(r)
    PROVE  GoesOn(r)
<1> DEFINE q == reqs[r]
           rows == {<<"session", q.target>>}
<1>1. q.pc = "handle" /\ q.op \in {"patchSession", "messages", "createRun"} /\ db' = db /\ app' = app
  BY DEF CheckSession, Unchanged
<1>2. DataRequestOK(db, q) /\ q.op \in DataOps /\ DOMAIN q = Fields
  BY <1>1, KnownKey, Known DEF DataOps
<1>3. CASE Answer(r, q, "NOT_FOUND")
  BY <1>1, <1>3, Refused
<1>4. CASE OwnsSession(q.ws, q.target) /\ Continue(r, Read(q, rows), "write")
  <2> DEFINE x == Moved(Read(q, rows), "write")
  <2>1. reqs' = [reqs EXCEPT ![r] = x]
    BY <1>4 DEF Continue, Moved
  <2>2. q.target \in DOMAIN db.sessions
    BY <1>1, <1>2 DEF DataRequestOK, SessionOps
  <2>3. SessionOwned(db, q.target, q.ws)
    BY <1>4, <2>2, Known, OwnsOwned
  <2>4. \A row \in rows : Owned(db, row, q.ws)
    BY <2>3, RowsOwned
  <2> HIDE DEF rows
  <2>5. /\ Same(q, x) /\ x.pc = "write" /\ x.code = q.code /\ x.touched = q.touched \cup rows
        /\ x.ws = q.ws /\ x.hit = q.hit /\ x.cause = q.cause
    BY ONLY <1>2, ReadMoved
  <2> HIDE DEF x, SessionOps, RunOps
  <2>6. DataRequestOK(db, x)
    BY <1>1, <1>2, <2>3, <2>4, <2>5 DEF DataRequestOK, Same
  <2>7. Steps(db, db', r, q, x, Ups)
    BY <1>1, <1>2, <2>5, <2>6, Known, DataContinues
  <2> QED
    BY <1>1, <2>1, <2>7 DEF GoesOn
<1> QED
  BY <1>3, <1>4 DEF CheckSession

LEMMA UpdateSessionGoesOn ==
    ASSUME IInv, NEW r \in DOMAIN reqs, NEW status, UpdateSession(r, status)
    PROVE  GoesOn(r)
<1> DEFINE q == reqs[r]
           s == q.target
           row == [db.sessions[s] EXCEPT !.status = status]
<1>1. q.pc = "write" /\ app' = app /\ Answer(r, q, "OK")
  BY DEF UpdateSession
<1>2. DataRequestOK(db, q) /\ TablesOK(db)
  BY <1>1, KnownKey, Known
<1>3. s \in DOMAIN db.sessions
  BY <1>1, <1>2 DEF DataRequestOK, SessionOwned
<1>4. CASE db' = db
  BY <1>1, <1>2, <1>4, NoWrite, Written
<1>5. CASE db' = WithStatus(s, status)
  <2>1. /\ Only(db, db', "sessions") /\ db'.sessions = [db.sessions EXCEPT ![s] = row]
        /\ db'.agents = db.agents
    BY <1>2, <1>5 DEF WithStatus, Only, TablesOK, Tables
  <2>2. DOMAIN row = SessionColumns /\ row.agent = db.sessions[s].agent
    BY <1>2, <1>3 DEF TablesOK, SessionOK, SessionColumns
  <2> HIDE DEF row, s
  <2>3. Writes(db, db', r)
    BY ONLY <1>2, <1>3, <2>1, <2>2, SetStatus
  <2> QED
    BY <1>1, <2>1, <2>3, Written
<1> QED
  BY <1>4, <1>5 DEF UpdateSession

LEMMA ListMessagesGoesOn ==
    ASSUME IInv, NEW r \in DOMAIN reqs, NEW valid, NEW cursor, ListMessages(r, valid, cursor)
    PROVE  GoesOn(r)
<1>1. reqs[r].pc = "write" /\ db' = db /\ app' = app
  BY DEF ListMessages, Unchanged
<1>2. Answer(r, reqs[r], "OK") \/ Answer(r, reqs[r], "VALIDATION")
  BY DEF ListMessages
<1> QED
  BY <1>1, <1>2, Refused

LEMMA StartRunGoesOn ==
    ASSUME IInv, NEW r \in DOMAIN reqs, StartRun(r)
    PROVE  GoesOn(r)
<1> DEFINE q == reqs[r]
           x == Moved(q, "insertRun")
<1>1. q.pc = "write" /\ db' = db /\ app' = app
  BY DEF StartRun, Unchanged
<1>2. CASE \E c \in {"CONFLICT", "VALIDATION"} : Answer(r, q, c)
  BY <1>1, <1>2, Refused
<1>3. CASE Continue(r, q, "insertRun")
  <2>1. reqs' = [reqs EXCEPT ![r] = x]
    BY <1>3 DEF Continue, Moved
  <2>2. DataRequestOK(db, q) /\ q.op \in DataOps /\ DOMAIN q = Fields
    BY <1>1, KnownKey, Known
  <2>3. /\ Same(q, x) /\ x.pc = "insertRun" /\ x.code = q.code /\ x.touched = q.touched
        /\ x.ws = q.ws /\ x.hit = q.hit /\ x.cause = q.cause
    BY ONLY <2>2, MovedRecord
  <2> HIDE DEF x, SessionOps, RunOps
  <2>4. DataRequestOK(db, x)
    BY <1>1, <2>2, <2>3 DEF DataRequestOK, Same
  <2>5. Steps(db, db', r, q, x, Ups)
    BY <1>1, <2>2, <2>3, <2>4, Known, DataContinues
  <2> QED
    BY <1>1, <2>1, <2>5 DEF GoesOn
<1> QED
  BY <1>2, <1>3 DEF StartRun

LEMMA InsertRunGoesOn ==
    ASSUME IInv, NEW r \in DOMAIN reqs, InsertRun(r)
    PROVE  GoesOn(r)
<1> DEFINE q == reqs[r]
           rows == {<<"run", r>>}
           x == Moved(Read(q, rows), "userMessage")
<1>1. q.pc = "insertRun" /\ app' = app /\ db' = WithRun(r, q.target)
      /\ Continue(r, Read(q, rows), "userMessage")
  BY DEF InsertRun
<1>2. /\ DataRequestOK(db, q) /\ q.op \in DataOps /\ TablesOK(db) /\ Free(db, r)
      /\ RequestOK(db, r, q) /\ DOMAIN q = Fields
  BY <1>1, KnownKey, Known DEF RequestOK
<1>3. SessionOwned(db, q.target, q.ws) /\ q.target \in DOMAIN db.sessions
  BY <1>1, <1>2 DEF DataRequestOK, SessionOwned
<1>4. /\ Only(db, db', "runs") /\ db'.runs = Inserted(db.runs, r, q.target)
      /\ db'.agents = db.agents /\ db'.sessions = db.sessions
  BY <1>1, <1>2 DEF WithRun, Only, TablesOK, Tables
<1>5. Writes(db, db', r)
  BY ONLY <1>2, <1>3, <1>4, AddRun
<1>6. RunOwned(db', r, q.ws)
  <2>1. r \in DOMAIN db'.runs /\ db'.runs[r] = q.target
    BY <1>2, <1>4 DEF Inserted, Free
  <2> QED BY <1>3, <1>4, <2>1 DEF RunOwned, SessionOwned, AgentOwned
<1>7. \A t \in rows : Owned(db', t, q.ws)
  BY <1>6, RowsOwned
<1>8. reqs' = [reqs EXCEPT ![r] = x]
  BY <1>1 DEF Continue, Moved
<1> HIDE DEF rows
<1>9. /\ Same(q, x) /\ x.pc = "userMessage" /\ x.code = q.code /\ x.touched = q.touched \cup rows
      /\ x.ws = q.ws /\ x.hit = q.hit /\ x.cause = q.cause
  BY ONLY <1>2, ReadMoved
<1> HIDE DEF x, SessionOps, RunOps
<1>10. DataRequestOK(db', q)
  BY <1>2, <1>5, DataRequestKept DEF Writes
<1>11. DataRequestOK(db', x)
  BY <1>1, <1>7, <1>9, <1>10 DEF DataRequestOK, Same
<1>12. RequestOK(db', r, x)
  <2>1. x.op \notin UserOps
    BY <1>2, <1>9, OpsDisjoint DEF Same
  <2> QED BY <1>2, <1>9, <1>11, <2>1 DEF RequestOK, Same
<1>13. UrlsOK(db, Ups) /\ UrlOK(q, Ups) => UrlsOK(db', Ups) /\ UrlOK(x, Ups)
  BY <1>4, <1>9 DEF UrlsOK, UrlOK, Same
<1>14. Steps(db, db', r, q, x, Ups)
  BY <1>1, <1>5, <1>12, <1>13 DEF Steps
<1> QED
  BY <1>1, <1>8, <1>14 DEF GoesOn

LEMMA InsertUserMessageGoesOn ==
    ASSUME IInv, NEW r \in DOMAIN reqs, InsertUserMessage(r)
    PROVE  GoesOn(r)
<1>1. reqs[r].pc = "userMessage" /\ db' = db /\ app' = app /\ Answer(r, reqs[r], "OK")
  BY DEF InsertUserMessage, Unchanged
<1> QED
  BY <1>1, Refused

(* getRun, getRunToolCalls, requestCancel, the trace and the metrics *)
LEMMA RunAnswered ==
    ASSUME IInv, NEW r \in DOMAIN reqs, reqs[r].pc = "handle", reqs[r].op \in DataOps,
           db' = db, app' = app, NEW n \in DOMAIN db.runs, NEW owned \in BOOLEAN,
           owned => OwnsRun(reqs[r].ws, n), AnswerIf(r, owned, {<<"run", n>>})
    PROVE  GoesOn(r)
<1> DEFINE rows == {<<"run", n>>}
<1>1. owned => RunOwned(db, n, reqs[r].ws)
  BY Known, OwnsOwned
<1>2. owned => \A row \in rows : Owned(db, row, reqs[r].ws)
  BY <1>1, RowsOwned
<1>3. AnswerIf(r, owned, rows)
  OBVIOUS
<1> HIDE DEF rows
<1> QED
  BY <1>2, <1>3, AnswerIfGoesOn

LEMMA ReadRunGoesOn ==
    ASSUME IInv, NEW r \in DOMAIN reqs, ReadRun(r)
    PROVE  GoesOn(r)
<1> DEFINE q == reqs[r]
           owned == OwnsRun(q.ws, q.target)
<1>1. /\ q.pc = "handle" /\ q.op \in {"getRun", "toolCalls", "cancel"} /\ db' = db /\ app' = app
      /\ AnswerIf(r, owned, {<<"run", q.target>>})
  BY DEF ReadRun, Unchanged
<1>2. q.op \in DataOps
  BY <1>1 DEF DataOps
<1>3. q.target \in DOMAIN db.runs
  BY <1>1, <1>2, KnownKey DEF DataRequestOK, RunOps
<1>4. owned \in BOOLEAN
  BY DEF OwnsRun, OwnsSession, OwnsAgent
<1>5. owned => OwnsRun(q.ws, q.target)
  OBVIOUS
<1> HIDE DEF owned
<1> QED
  BY <1>1, <1>2, <1>3, <1>4, <1>5, RunAnswered

LEMMA TraceGoesOn ==
    ASSUME IInv, NEW r \in DOMAIN reqs, ReadTrace(r) \/ ReadMetrics(r)
    PROVE  GoesOn(r)
<1> DEFINE q == reqs[r]
           owned == OwnsRun(q.ws, q.target) /\ TracesOf(q.target) # {}
<1>1. /\ q.pc = "handle" /\ q.op \in {"trace", "metrics"} /\ db' = db /\ app' = app
      /\ AnswerIf(r, owned, {<<"run", q.target>>})
  BY DEF ReadTrace, ReadMetrics, AnswerTrace, Handling, Unchanged
<1>2. q.op \in DataOps
  BY <1>1 DEF DataOps
<1>3. q.target \in DOMAIN db.runs
  BY <1>1, <1>2, KnownKey DEF DataRequestOK, RunOps
<1>4. owned \in BOOLEAN
  OBVIOUS
<1>5. owned => OwnsRun(q.ws, q.target)
  OBVIOUS
<1> HIDE DEF owned
<1> QED
  BY <1>1, <1>2, <1>3, <1>4, <1>5, RunAnswered

LEMMA ReadSpansGoesOn ==
    ASSUME IInv, NEW r \in DOMAIN reqs, ReadSpans(r)
    PROVE  GoesOn(r)
<1> DEFINE q == reqs[r]
           n == db.traces[q.target]
           owned == OwnsRun(q.ws, n)
<1>1. /\ q.pc = "handle" /\ q.op = "spans" /\ db' = db /\ app' = app
      /\ AnswerIf(r, owned, {<<"run", n>>})
  BY DEF ReadSpans, Handling, Unchanged
<1>2. q.op \in DataOps
  BY <1>1 DEF DataOps
<1>3. n \in DOMAIN db.runs
  BY <1>1, <1>2, KnownKey, Known DEF DataRequestOK, TablesOK
<1>4. owned \in BOOLEAN
  BY DEF OwnsRun, OwnsSession, OwnsAgent
<1>5. owned => OwnsRun(q.ws, n)
  OBVIOUS
<1> HIDE DEF owned, n
<1> QED
  BY <1>1, <1>2, <1>3, <1>4, <1>5, RunAnswered

LEMMA StepGoesOn ==
    ASSUME IInv, NEW r \in DOMAIN reqs, Step(r)
    PROVE  GoesOn(r)
<1>1. CASE DbFails(r) \/ Unreadable(r) \/ Invalid(r)
  BY <1>1, DbFailsGoesOn, UnreadableGoesOn, InvalidGoesOn
<1>2. CASE Authenticate(r)
  BY <1>2, LookUpKeyGoesOn, VerifyTokenGoesOn DEF Authenticate
<1>3. CASE ResolveOrCreateUser(r)
  BY <1>3, LookUpUserGoesOn, InsertUserGoesOn, RereadUserGoesOn DEF ResolveOrCreateUser
<1>4. CASE ManagementRoutes(r)
  BY <1>4, MeGoesOn, CreateWorkspaceGoesOn, CreateOwnerGoesOn, ListWorkspacesGoesOn,
     GetWorkspaceGoesOn, EnsureMemberGoesOn, CreateKeyGoesOn, ListKeysGoesOn, FindKeyGoesOn,
     RevokeKeyGoesOn DEF ManagementRoutes, PostWorkspaces, DeleteKey
<1>5. CASE DataRoutes(r)
  BY <1>5, FindAgentGoesOn, UpdateAgentGoesOn, CreateAgentGoesOn, GetAgentGoesOn, ListAgentsGoesOn,
     AgentByNameGoesOn, ResolveAgentGoesOn, InsertSessionGoesOn, ReadSessionGoesOn,
     CheckSessionGoesOn, UpdateSessionGoesOn, ListMessagesGoesOn, StartRunGoesOn,
     InsertRunGoesOn, InsertUserMessageGoesOn, ReadRunGoesOn, TraceGoesOn, ReadSpansGoesOn
     DEF DataRoutes, PostAgents, GetAgents, PostSessions, PatchSession, GetMessages, PostRuns
<1> QED
  BY <1>1, <1>2, <1>3, <1>4, <1>5 DEF Step

LEMMA StepInv ==
    ASSUME IInv, NEW r \in DOMAIN reqs, Step(r)
    PROVE  IInv'
<1>1. PICK x : Steps(db, db', r, reqs[r], x, Ups) /\ reqs' = [reqs EXCEPT ![r] = x]
  BY StepGoesOn DEF GoesOn
<1>2. app' = app
  BY StepGoesOn DEF GoesOn
<1> QED
  BY <1>1, <1>2, StepKeeps

-----------------------------------------------------------------------------
(* A request arrives. *)

LEMMA RequestRecord ==
    ASSUME NEW op, NEW cred, NEW target, NEW arg
    PROVE  LET x == Request(op, cred, target, arg) IN
           /\ DOMAIN x = Fields /\ x.op = op /\ x.cred = cred /\ x.target = target /\ x.arg = arg
           /\ x.touched = {} /\ x.user = None /\ x.code = "OK"
           /\ x.pc = IF op \in DataOps THEN "key" ELSE "token"
  BY DEF Request, Fields

LEMMA RequestOKNew ==
    ASSUME IInv, NEW op \in DataOps \cup UserOps, NEW cred, NEW target, NEW arg, NEW i,
           Free(db, i), FreeUser(db, i),
           op \in SessionOps => target \in DOMAIN db.sessions,
           op \in RunOps => target \in DOMAIN db.runs,
           op = "spans" => target \in DOMAIN db.traces
    PROVE  RequestOK(db, i, Request(op, cred, target, arg))
<1> DEFINE x == Request(op, cred, target, arg)
<1>1. /\ DOMAIN x = Fields /\ x.op = op /\ x.cred = cred /\ x.target = target /\ x.arg = arg
      /\ x.touched = {} /\ x.user = None /\ x.code = "OK"
      /\ x.pc = IF op \in DataOps THEN "key" ELSE "token"
  BY RequestRecord
<1> HIDE DEF x, SessionOps, RunOps
<1>2. op \in DataOps => DataRequestOK(db, x)
  BY <1>1 DEF DataRequestOK
<1>3. op \notin DataOps => UserRequestOK(db, x)
  BY <1>1 DEF UserRequestOK
<1>4. RequestOK(db, i, x)
  BY <1>1, <1>2, <1>3, OpsDisjoint DEF RequestOK
<1> QED
  BY <1>4 DEF x

LEMMA AppendKeeps ==
    ASSUME IInv, NEW x, reqs' = Append(reqs, x), db' = db,
           (Free(db, Len(reqs) + 1) /\ FreeUser(db, Len(reqs) + 1)) => RequestOK(db, Len(reqs) + 1, x),
           UrlOK(x, Ups), Ups' = Ups
    PROVE  TablesOK(db') /\ RequestsInv' /\ RunnersInv' /\ DOMAIN reqs' = DOMAIN reqs \cup {Len(reqs) + 1}
           /\ Len(reqs) + 1 # None /\ \A i \in DOMAIN reqs : reqs'[i] = reqs[i]
<1> DEFINE k == Len(reqs) + 1
<1>1. /\ IsSeq(reqs') /\ Len(reqs) \in Nat /\ DOMAIN reqs = 1 .. Len(reqs)
      /\ DOMAIN reqs' = 1 .. k /\ reqs'[k] = x
      /\ \A i \in DOMAIN reqs : reqs'[i] = reqs[i]
  BY AppendFacts DEF IInv, RequestsInv
<1>2. k \in Nat \ DOMAIN reqs /\ k # 0 /\ DOMAIN reqs' = DOMAIN reqs \cup {k}
  BY <1>1
<1> HIDE DEF k
<1>3. Free(db, k) /\ FreeUser(db, k)
  BY <1>2 DEF IInv, RequestsInv
<1>4. RequestOK(db, k, x)
  BY <1>3 DEF k
<1>5. RequestsInv'
  BY <1>1, <1>2, <1>4 DEF IInv, RequestsInv
<1>6. RunnersInv'
  BY <1>1, <1>2 DEF IInv, RunnersInv
<1>7. TablesOK(db')
  BY DEF IInv
<1> QED
  BY <1>1, <1>2, <1>5, <1>6, <1>7 DEF k, None

LEMMA ArriveInv ==
    ASSUME IInv, NEW op \in DataOps \cup UserOps, NEW cred, NEW target, NEW arg,
           Arrive(op, cred, target, arg)
    PROVE  IInv'
<1> DEFINE x == Request(op, cred, target, arg)
<1>1. reqs' = Append(reqs, x) /\ db' = db /\ app' = app /\ target \in Targets(op)
  BY DEF Arrive
<1>2. /\ op \in SessionOps => target \in DOMAIN db.sessions
      /\ op \in RunOps => target \in DOMAIN db.runs
      /\ op = "spans" => target \in DOMAIN db.traces
  BY <1>1 DEF Targets, SessionOps, RunOps
<1>3. \A i : Free(db, i) /\ FreeUser(db, i) => RequestOK(db, i, x)
  BY <1>2, RequestOKNew
<1>4. Ups' = Ups
  BY <1>1 DEF Ups
<1>5. UrlOK(x, Ups)
  <2>1. x.op = op /\ x.arg = arg /\ x.pc \in {"key", "token"}
    BY RequestRecord
  <2>2. op = "register" => arg = None
    BY DEF Arrive
  <2> QED
    BY <2>1, <2>2 DEF UrlOK
<1> HIDE DEF x
<1>6. /\ TablesOK(db') /\ RequestsInv' /\ RunnersInv'
      /\ DOMAIN reqs' = DOMAIN reqs \cup {Len(reqs) + 1}
      /\ \A i \in DOMAIN reqs : reqs'[i] = reqs[i]
  BY <1>1, <1>3, <1>4, <1>5, AppendKeeps
<1>7. AppInv'
  BY <1>1, <1>4, <1>6 DEF IInv, AppInv
<1> QED
  BY <1>6, <1>7 DEF IInv

-----------------------------------------------------------------------------
(* The SDK app *)

AppOK(z, rs) ==
    /\ DOMAIN z = AppFields
    /\ z.pc = "register" => z.runner \/ z.closed
    /\ z.req # None => z.req \in DOMAIN rs

LEMMA AppKnown ==
    ASSUME IInv, NEW p \in Apps
    PROVE  DOMAIN app = Apps /\ AppOK(app[p], reqs) /\ DOMAIN app[p] = AppFields
  BY DEF IInv, AppInv, AppOK, Ups

(* A step of app p keeps the invariant if it keeps what is known of p. *)
LEMMA AppKeeps ==
    ASSUME IInv, NEW p \in Apps, db' = db, reqs' = reqs, DOMAIN app' = Apps,
           \A o \in Apps : o # p => app'[o] = app[o],
           AppOK(app'[p], reqs),
           app[p].runner \/ app[p].closed => app'[p].runner \/ app'[p].closed
    PROVE  IInv'
<1>1. Ups \subseteq Ups'
  BY DEF Ups
<1>2. UrlsOK(db', Ups')
  BY <1>1 DEF IInv, RunnersInv, UrlsOK
<1>3. \A i \in DOMAIN reqs' : UrlOK(reqs'[i], Ups')
  BY <1>1 DEF IInv, RunnersInv, UrlOK
<1>4. RunnersInv'
  BY <1>2, <1>3 DEF RunnersInv
<1>5. \A o \in Apps : AppOK(app'[o], reqs)
  BY AppKnown
<1>6. AppInv'
  BY <1>5 DEF AppInv, AppOK, Ups
<1>7. RequestsInv' /\ TablesOK(db')
  BY DEF IInv, RequestsInv
<1> QED
  BY <1>4, <1>6, <1>7 DEF IInv

LEMMA ListenInv ==
    ASSUME IInv, NEW p \in Apps, NEW configured, Listen(p, configured)
    PROVE  IInv'
<1>1. app[p].pc = "idle" /\ db' = db /\ reqs' = reqs
  BY DEF Listen
<1>2. /\ DOMAIN app' = Apps /\ (\A o \in Apps : o # p => app'[o] = app[o])
      /\ app'[p] = [app[p] EXCEPT !.pc = IF configured THEN "bind" ELSE "failed",
                                  !.error = IF configured THEN "OK" ELSE "VALIDATION"]
  BY AppKnown DEF Listen
<1>3. /\ DOMAIN app'[p] = AppFields /\ app'[p].pc \in {"bind", "failed"}
      /\ app'[p].error \in {"OK", "VALIDATION"}
      /\ app'[p].runner = app[p].runner /\ app'[p].closed = app[p].closed /\ app'[p].req = app[p].req
  BY <1>2, AppKnown DEF AppFields
<1>4. AppOK(app'[p], reqs)
  BY <1>3, AppKnown DEF AppOK
<1> QED
  BY <1>1, <1>2, <1>3, <1>4, AppKeeps

LEMMA StartRunnerInv ==
    ASSUME IInv, NEW p \in Apps, StartRunner(p)
    PROVE  IInv'
<1>1. app[p].pc = "bind" /\ db' = db /\ reqs' = reqs
  BY DEF StartRunner
<1>2. CASE app' = [app EXCEPT ![p].pc = "register", ![p].runner = TRUE]
  <2>2. /\ DOMAIN app' = Apps /\ (\A o \in Apps : o # p => app'[o] = app[o])
        /\ app'[p] = [app[p] EXCEPT !.pc = "register", !.runner = TRUE]
    BY <1>2, AppKnown
  <2>3. /\ DOMAIN app'[p] = AppFields /\ app'[p].pc = "register" /\ app'[p].runner = TRUE
        /\ app'[p].error = app[p].error /\ app'[p].req = app[p].req
    BY <2>2, AppKnown DEF AppFields
  <2>4. AppOK(app'[p], reqs) /\ app'[p].runner
    BY <1>1, <2>3, AppKnown DEF AppOK
  <2> QED
    BY <1>1, <2>2, <2>4, AppKeeps
<1>3. CASE app' = [app EXCEPT ![p].pc = "failed"]
  <2>2. /\ DOMAIN app' = Apps /\ (\A o \in Apps : o # p => app'[o] = app[o])
        /\ app'[p] = [app[p] EXCEPT !.pc = "failed"]
    BY <1>3, AppKnown
  <2>3. /\ DOMAIN app'[p] = AppFields /\ app'[p].pc = "failed" /\ app'[p].runner = app[p].runner
        /\ app'[p].closed = app[p].closed
        /\ app'[p].error = app[p].error /\ app'[p].req = app[p].req
    BY <2>2, AppKnown DEF AppFields
  <2>4. AppOK(app'[p], reqs)
    BY <1>1, <2>3, AppKnown DEF AppOK
  <2> QED
    BY <1>1, <2>2, <2>3, <2>4, AppKeeps
<1> QED
  BY <1>2, <1>3 DEF StartRunner

LEMMA CloseInv ==
    ASSUME IInv, NEW p \in Apps, Close(p)
    PROVE  IInv'
<1>1. db' = db /\ reqs' = reqs
  BY DEF Close
<1>2. /\ DOMAIN app' = Apps /\ (\A o \in Apps : o # p => app'[o] = app[o])
      /\ app'[p] = [app[p] EXCEPT !.runner = FALSE, !.closed = TRUE]
  BY AppKnown DEF Close
<1>3. /\ DOMAIN app'[p] = AppFields /\ app'[p].pc = app[p].pc /\ app'[p].closed = TRUE
      /\ app'[p].error = app[p].error /\ app'[p].req = app[p].req
  BY <1>2, AppKnown DEF AppFields
<1>4. AppOK(app'[p], reqs) /\ app'[p].closed
  BY <1>3, AppKnown DEF AppOK
<1> QED
  BY <1>1, <1>2, <1>4, AppKeeps

LEMMA RejectedInv ==
    ASSUME IInv, NEW p \in Apps, NEW error, NEW status, Rejected(p, error, status),
           db' = db, reqs' = reqs
    PROVE  IInv'
<1>2. /\ DOMAIN app' = Apps /\ (\A o \in Apps : o # p => app'[o] = app[o])
      /\ app'[p] = [app[p] EXCEPT !.pc = "failed", !.error = error, !.status = status]
  BY AppKnown DEF Rejected
<1>3. /\ DOMAIN app'[p] = AppFields /\ app'[p].pc = "failed" /\ app'[p].runner = app[p].runner
      /\ app'[p].closed = app[p].closed
      /\ app'[p].error = error /\ app'[p].req = app[p].req
  BY <1>2, AppKnown DEF AppFields
<1>4. AppOK(app'[p], reqs)
  BY <1>3, AppKnown DEF AppOK
<1> QED
  BY <1>2, <1>3, <1>4, AppKeeps

LEMMA RegisterReplyInv ==
    ASSUME IInv, NEW p \in Apps, NEW version, RegisterReply(p, version)
    PROVE  IInv'
<1> DEFINE reply == reqs[app[p].req]
<1>1. app[p].pc = "register" /\ db' = db /\ reqs' = reqs
  BY DEF RegisterReply
<1>3. CASE \E error, status : Rejected(p, error, status)
  BY <1>1, <1>3, RejectedInv
<1>5. CASE app' = [app EXCEPT ![p].req = None, ![p].todo = @ \ {reply.target},
                              ![p].pc = IF app[p].todo = {reply.target} THEN "up" ELSE @]
  <2> DEFINE todo == app[p].todo \ {reply.target}
             pc == IF app[p].todo = {reply.target} THEN "up" ELSE app[p].pc
  <2>2. /\ DOMAIN app' = Apps /\ (\A o \in Apps : o # p => app'[o] = app[o])
        /\ app'[p] = [app[p] EXCEPT !.req = None, !.todo = todo, !.pc = pc]
    BY <1>5, AppKnown DEF AppFields
  <2>5. pc \in {"up", "register"}
    BY <1>1
  <2> HIDE DEF todo, pc
  <2>3. /\ DOMAIN app'[p] = AppFields /\ app'[p].pc = pc /\ app'[p].runner = app[p].runner
        /\ app'[p].closed = app[p].closed
        /\ app'[p].error = app[p].error /\ app'[p].req = None
    BY <2>2, AppKnown DEF AppFields
  <2>4. AppOK(app'[p], reqs)
    BY <1>1, <2>3, <2>5, AppKnown DEF AppOK
  <2> QED
    BY <1>1, <2>2, <2>3, <2>4, AppKeeps
<1> QED
  BY <1>3, <1>5 DEF RegisterReply

LEMMA LoseReplyInv ==
    ASSUME IInv, NEW p \in Apps, LoseReply(p)
    PROVE  IInv'
<1>1. db' = db /\ reqs' = reqs
  BY DEF LoseReply
<1>2. CASE \E error \in {"TIMEOUT", "CONNECTION_ERROR"} : Rejected(p, error, StatusOf(error))
  BY <1>1, <1>2, RejectedInv
<1> DEFINE statuses == {403, 413, 429, 500, 502, 503, 504}
<1>3. CASE \E status \in statuses : Rejected(p, SdkError("", status), status)
  <2> HIDE DEF statuses
  <2>1. PICK status \in statuses : Rejected(p, SdkError("", status), status)
    BY <1>3, Zenon
  <2> QED
    BY <1>1, <2>1, RejectedInv
<1>4. CASE Rejected(p, "ZodError", 200)
  BY <1>1, <1>4, RejectedInv
<1>5. \/ \E error \in {"TIMEOUT", "CONNECTION_ERROR"} : Rejected(p, error, StatusOf(error))
      \/ \E status \in statuses : Rejected(p, SdkError("", status), status)
      \/ Rejected(p, "ZodError", 200)
  BY Zenon DEF LoseReply
<1> QED
  BY <1>2, <1>3, <1>4, <1>5

(* The runner answers before its first agent is registered. *)
LEMMA RegisterAgentInv ==
    ASSUME IInv, NEW p \in Apps, NEW name, RegisterAgent(p, name)
    PROVE  IInv'
<1> DEFINE x == Request("register", AppKey, name, p)
           k == Len(reqs) + 1
<1>1. app[p].pc = "register" /\ reqs' = Append(reqs, x) /\ db' = db
  BY DEF RegisterAgent
<1>2. /\ DOMAIN app' = Apps /\ (\A o \in Apps : o # p => app'[o] = app[o])
      /\ app'[p] = [app[p] EXCEPT !.req = k]
  BY AppKnown DEF RegisterAgent
<1>3. /\ DOMAIN app'[p] = AppFields /\ app'[p].pc = app[p].pc /\ app'[p].runner = app[p].runner
      /\ app'[p].closed = app[p].closed
      /\ app'[p].error = app[p].error /\ app'[p].req = k
  BY <1>2, AppKnown DEF AppFields
<1>4. Ups' = Ups
  BY <1>2, <1>3 DEF Ups
<1>5. UrlOK(x, Ups)
  <2>1. x.op = "register" /\ x.arg = p /\ x.pc \in {"key", "token"}
    BY RequestRecord
  <2>2. p \in Ups
    BY <1>1 DEF IInv, AppInv
  <2> QED
    BY <2>1, <2>2 DEF UrlOK
<1>6. \A i : Free(db, i) /\ FreeUser(db, i) => RequestOK(db, i, x)
  <2>1. "register" \in DataOps /\ "register" \notin SessionOps /\ "register" \notin RunOps
    BY DEF DataOps, SessionOps, RunOps
  <2> QED
    BY <2>1, RequestOKNew
<1> HIDE DEF x
<1>7. /\ TablesOK(db') /\ RequestsInv' /\ RunnersInv'
      /\ DOMAIN reqs' = DOMAIN reqs \cup {k} /\ k # None
      /\ \A i \in DOMAIN reqs : reqs'[i] = reqs[i]
  BY <1>1, <1>4, <1>5, <1>6, AppendKeeps
<1> HIDE DEF k
<1>8. \A o \in Apps : AppOK(app[o], reqs')
  BY <1>7, AppKnown DEF AppOK
<1>9. AppOK(app'[p], reqs')
  BY <1>1, <1>3, <1>7, <1>8 DEF AppOK
<1>10. AppInv'
  <2>1. \A o \in Apps : AppOK(app'[o], reqs')
    BY <1>2, <1>8, <1>9
  <2>2. DOMAIN app' = Apps
    BY <1>2
  <2> QED
    BY ONLY <2>1, <2>2 DEF AppInv, AppOK, Ups
<1> QED
  BY <1>7, <1>10 DEF IInv

-----------------------------------------------------------------------------
(* The theorems *)

LEMMA InitInv == Init => IInv
<1> SUFFICES ASSUME Init PROVE IInv
  OBVIOUS
<1>1. db = World /\ reqs = <<>>
  BY DEF Init
<1>2. TablesOK(db)
  <2>1. \A k \in DOMAIN db.keys : KeyOK(db, k)
    BY <1>1, WorldAssumption DEF KeyOK, KeyColumns
  <2>2. \A s \in DOMAIN db.sessions : SessionOK(db, s)
    BY <1>1, WorldAssumption DEF SessionOK, SessionColumns
  <2>3. \A m \in db.members : m = <<m[1], m[2]>>
    BY <1>1, WorldAssumption
  <2>4. DOMAIN db = Tables /\ \A a \in DOMAIN db.agents : DOMAIN db.agents[a] = AgentColumns
    BY <1>1, WorldAssumption DEF Tables, AgentColumns
  <2> QED
    BY <1>1, <2>1, <2>2, <2>3, <2>4, WorldAssumption DEF TablesOK
<1>3. RequestsInv
  <2>1. DOMAIN reqs = {} /\ IsSeq(reqs)
    BY <1>1 DEF IsSeq
  <2>2. \A i \in Nat : Free(db, i) /\ FreeUser(db, i)
    BY <1>1, FreshIds DEF Free, FreeUser
  <2> QED
    BY <2>1, <2>2 DEF RequestsInv, None
<1>4. UrlsOK(db, Ups) /\ RunnersInv
  BY <1>1, WorldAssumption DEF UrlsOK, RunnersInv
<1>5. AppInv
  <2>1. DOMAIN app = Apps
    BY DEF Init
  <2>2. \A p \in Apps : /\ DOMAIN app[p] = AppFields /\ app[p].pc = "idle"
                        /\ app[p].req = None /\ app[p].error = "OK"
    BY DEF Init, AppFields
  <2> QED
    BY <2>1, <2>2 DEF AppInv
<1> QED
  BY <1>2, <1>3, <1>4, <1>5 DEF IInv

LEMMA NextInv == IInv /\ [Next]_vars => IInv'
<1> SUFFICES ASSUME IInv, [Next]_vars PROVE IInv'
  OBVIOUS
<1>1. ASSUME NEW r \in DOMAIN reqs, Step(r)
      PROVE  IInv'
  BY <1>1, StepInv
<1>2. ASSUME NEW op \in DataOps \cup UserOps, NEW cred, NEW target, NEW arg,
             Arrive(op, cred, target, arg)
      PROVE  IInv'
  BY <1>2, ArriveInv
<1>3. ASSUME NEW p \in Apps,
             \/ \E configured \in BOOLEAN : Listen(p, configured)
             \/ StartRunner(p)
             \/ \E name \in Names : RegisterAgent(p, name)
             \/ \E version \in {None, 1, 2} : RegisterReply(p, version)
             \/ LoseReply(p) \/ Close(p)
      PROVE  IInv'
  BY <1>3, ListenInv, StartRunnerInv, RegisterAgentInv, RegisterReplyInv, LoseReplyInv, CloseInv
<1>4. CASE UNCHANGED vars
  BY <1>4 DEF vars, IInv, RequestsInv, RunnersInv, AppInv, Ups
<1>5. CASE \/ \E op \in DataOps, cred \in (DOMAIN db.keys) \cup {Keyless} : \E target \in Targets(op) :
                 Arrive(op, cred, target, None)
           \/ \E op \in UserOps, cred \in Subs, arg \in (DOMAIN db.keys) \cup {None} :
                 \E target \in Targets(op) : Arrive(op, cred, target, arg)
  BY <1>2, <1>5
<1> QED
  BY <1>1, <1>3, <1>4, <1>5 DEF Next

LEMMA ControlPlaneInv == Spec => []IInv
  BY InitInv, NextInv, PTL DEF Spec

(* The tables name the owner that the checks established. *)
LEMMA OwnerOfOwned ==
    ASSUME NEW row, NEW ws, Owned(db, row, ws)
    PROVE  Owner(row) = ws
<1>1. CASE row[1] = "workspace" /\ row[2] = ws
  BY <1>1 DEF Owner
<1>2. CASE row[1] = "key" /\ db.keys[row[2]].ws = ws
  BY <1>2 DEF Owner
<1>3. CASE row[1] = "agent" /\ AgentOwned(db, row[2], ws)
  BY <1>3 DEF Owner, AgentOwned
<1>4. CASE row[1] = "session" /\ SessionOwned(db, row[2], ws)
  BY <1>4 DEF Owner, SessionOwned, AgentOwned
<1>5. CASE row[1] = "run" /\ RunOwned(db, row[2], ws)
  BY <1>5 DEF Owner, RunOwned, SessionOwned, AgentOwned
<1> QED
  BY <1>1, <1>2, <1>3, <1>4, <1>5 DEF Owned

(* Whatever interleaving of checks, writes and failures: a request touches *)
(* rows only of the workspace of its key, or of one its user belongs to    *)
(* (agentService, sessionService, assertRunOwnership, ensureMember).       *)
THEOREM TenantIsolationHolds == Spec => []TenantIsolation
<1>1. IInv => TenantIsolation
  <2> SUFFICES ASSUME IInv, NEW r \in DOMAIN reqs, NEW row \in reqs[r].touched
               PROVE  IF reqs[r].op \in DataOps THEN db.keys[reqs[r].cred].ws = Owner(row)
                                                ELSE <<reqs[r].user, Owner(row)>> \in db.members
    BY DEF TenantIsolation
  <2>1. CASE reqs[r].op \in DataOps
    <3>1. DataRequestOK(db, reqs[r])
      BY <2>1, Known
    <3>2. db.keys[reqs[r].cred].ws = reqs[r].ws /\ Owned(db, row, reqs[r].ws)
      BY <3>1 DEF DataRequestOK
    <3> QED
      BY <2>1, <3>2, OwnerOfOwned
  <2>2. CASE reqs[r].op \notin DataOps
    <3>1. UserRequestOK(db, reqs[r])
      BY <2>2, Known
    <3>2. PICK m \in db.members : m = <<reqs[r].user, m[2]>> /\ Owned(db, row, m[2])
      BY <3>1 DEF UserRequestOK
    <3>3. Owner(row) = m[2]
      BY <3>2, OwnerOfOwned
    <3> QED
      BY <2>2, <3>2, <3>3
  <2> QED
    BY <2>1, <2>2
<1> QED
  BY <1>1, ControlPlaneInv, PTL

(* Concurrent first requests of a principal act as one user and none is    *)
(* told of the unique violation; a 500 is for a failed query, the lost     *)
(* race for an agent's name or a body that could not be read               *)
(* (provision-user.ts, agent-service.ts, error-handler.ts).                *)
THEOREM UsersConvergeHolds == Spec => []UsersConverge
<1>1. IInv => UsersConverge
  <2> SUFFICES ASSUME IInv PROVE UsersConverge
    OBVIOUS
  <2>1. ASSUME NEW r \in DOMAIN reqs, NEW s \in DOMAIN reqs, reqs[r].op \in UserOps,
               reqs[s].op \in UserOps, reqs[r].cred = reqs[s].cred,
               reqs[r].user # None, reqs[s].user # None
        PROVE  reqs[r].user = reqs[s].user
    <3>1. UserRequestOK(db, reqs[r]) /\ UserRequestOK(db, reqs[s]) /\ TablesOK(db)
      BY <2>1, Known
    <3>2. /\ reqs[r].user \in DOMAIN db.users /\ db.users[reqs[r].user] = reqs[r].cred
          /\ reqs[s].user \in DOMAIN db.users /\ db.users[reqs[s].user] = reqs[s].cred
      BY <2>1, <3>1 DEF UserRequestOK
    <3> QED
      BY <2>1, <3>1, <3>2 DEF TablesOK
  <2>2. ASSUME NEW r \in DOMAIN reqs, reqs[r].code = "INTERNAL"
        PROVE  reqs[r].hit \/ reqs[r].cause \in {"race", "body"}
    BY <2>2, Known DEF RequestOK
  <2> QED
    BY <2>1, <2>2 DEF UsersConverge
<1> QED
  BY <1>1, ControlPlaneInv, PTL

(* A key is made and revoked by members of its workspace only, although    *)
(* the check and the write by id are separate calls (ensureMember, then    *)
(* apiKeyRepo.create or revoke).                                           *)
THEOREM OnlyMembersManageKeysHolds == Spec => []OnlyMembersManageKeys
<1>1. IInv => OnlyMembersManageKeys
  BY DEF IInv, TablesOK, KeyOK, OnlyMembersManageKeys
<1> QED
  BY <1>1, ControlPlaneInv, PTL

(* An agent whose tools are said to run in an app is one whose runner      *)
(* answered, until it was closed, whatever replies were lost and whichever *)
(* updates wrote back an URL they had read (app.ts listen and close,       *)
(* client.ts, agent-service.ts).                                           *)
THEOREM RegisteredRunnerAnswersHolds == Spec => []RegisteredRunnerAnswers
<1>1. IInv => RegisteredRunnerAnswers
  BY DEF IInv, RunnersInv, UrlsOK, Ups, AppInv, RegisteredRunnerAnswers
<1> QED
  BY <1>1, ControlPlaneInv, PTL

(* No step deletes a row of a user, member, key, agent, session, run or    *)
(* trace, or gives it to another owner: what makes a check good for the    *)
(* writes that follow it.                                                  *)
THEOREM OwnersArePermanent == Spec => [][Grows(db, db')]_vars
<1>1. IInv /\ [Next]_vars => [Grows(db, db')]_vars
  <2> SUFFICES ASSUME IInv, Next PROVE Grows(db, db')
    OBVIOUS
  <2>1. ASSUME NEW r \in DOMAIN reqs, Step(r)
        PROVE  Grows(db, db')
    BY <2>1, StepGoesOn DEF GoesOn, Steps, Writes
  <2>2. CASE db' = db
    BY <2>2 DEF Grows
  <2>3. \/ \E r \in DOMAIN reqs : Step(r)
        \/ db' = db
    BY DEF Next, Arrive, Listen, StartRunner, RegisterAgent, RegisterReply, LoseReply, Close
  <2> QED
    BY <2>1, <2>2, <2>3
<1> QED
  BY <1>1, ControlPlaneInv, PTL DEF Spec

=============================================================================
