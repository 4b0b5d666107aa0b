----------------------------- MODULE ToolCalls -----------------------------
(***************************************************************************)
(* A tool call from the runtime to the SDK's tool runner and back: the     *)
(* executor resolver (tool-executor-resolver.ts), the local and the remote *)
(* executor (tool-executor-local.ts, tool-executor-remote.ts) with its     *)
(* retries, and the runner's request handler over its idempotency cache    *)
(* (packages/sdk tool-runner.ts).                                          *)
(*                                                                         *)
(* A request that its attempt gave up on is still in the network and may   *)
(* still be handled; replies may be lost; the runner may restart.  Each    *)
(* call is the only one of its run, whose executor is resolved at Begin;   *)
(* the calls of other runs appear as entries of the cache.                 *)
(***************************************************************************)
EXTENDS Integers, Sequences, SequencesExt, FiniteSets

CONSTANTS Calls,          \* call ids, the idempotency keys
          Urls,           \* runner URLs an agent may be registered under
          MaxRetries,
          MaxEntries,     \* maxIdempotencyEntries
          MaxExecutions,  \* bound: executions of one call
          MayRestart,     \* bound: may the runner restart, once
          None

ASSUME ToolCallsAssumption ==
    /\ MaxRetries \in Nat /\ MaxEntries \in Nat \ {0} /\ MaxExecutions \in Nat
    /\ MayRestart \in BOOLEAN
    /\ None \notin Urls \cup Calls /\ "local" \notin Urls

Attempts == 1 .. 1 + MaxRetries

VARIABLES
    agent,     \* the agent's record: toolRunnerUrl, whether it has tools, and
               \* whether registerLocalTools registers a handler for it
    memo,      \* the resolver's cache
    call,      \* each call: where its executor is, which attempt, the result
    aborted,   \* calls whose signal is aborted
    request,   \* each attempt's request in the network, and its reply
    cache,     \* the runner's entries, oldest first
    handler,   \* the executions of each call: "running" or how they ended
    forgotten, \* history: how often the cache let go of a call's entry
    restarted

runnerVars == <<cache, handler, forgotten, restarted>>
toolVars == <<agent, memo, call, aborted, request, runnerVars>>

NoRequest == [at |-> "none", run |-> 0, reply |-> "none"]

ToolInit ==
    /\ agent \in [url : Urls \cup {None}, tools : BOOLEAN, local : BOOLEAN]
    /\ memo = [k \in Urls \cup {"local"} |-> None]
    /\ call = [c \in Calls |-> [pc |-> "new", via |-> None, meant |-> None, attempt |-> 0,
                                result |-> "none"]]
    /\ aborted = {}
    /\ request = [c \in Calls |-> [a \in Attempts |-> NoRequest]]
    /\ cache = <<>>
    /\ handler = [c \in Calls |-> <<>>]
    /\ forgotten = [c \in Calls |-> 0]
    /\ restarted = FALSE

Done(c, result) == [call EXCEPT ![c].pc = "done", ![c].result = result]

-----------------------------------------------------------------------------
(* The resolver *)

CacheKey == IF agent.url = None THEN "local" ELSE agent.url

(* resolve, when nothing is memoised: a remote executor, the local one, no *)
(* executor at all, or one that is never meant to be invoked               *)
NewExecutor ==
    IF agent.url # None THEN agent.url
    ELSE IF agent.local THEN "local"
    ELSE IF agent.tools THEN "refused"
    ELSE "noop"

(* The agent is registered again under another URL or tool list; of no     *)
(* consequence once every run has resolved its executor.                   *)
Register ==
    /\ \E c \in Calls : call[c].pc = "new"
    /\ agent' \in [url : Urls \cup {None}, tools : BOOLEAN, local : BOOLEAN]
    /\ UNCHANGED <<memo, call, aborted, request, runnerVars>>

(* resolve; a refusal is not memoised *)
Resolved == IF memo[CacheKey] # None THEN memo[CacheKey] ELSE NewExecutor
Memoised == IF Resolved = "refused" THEN memo ELSE [memo EXCEPT ![CacheKey] = Resolved]

(* Another run of the agent resolves its executor. *)
OtherRun ==
    /\ \E c \in Calls : call[c].pc = "new"
    /\ memo' = Memoised
    /\ UNCHANGED <<agent, call, aborted, request, runnerVars>>

(* A run resolves its executor and starts its call. *)
Begin(c) ==
    LET executor == Resolved IN
    /\ call[c].pc = "new"
    /\ memo' = Memoised
    /\ call' = IF executor = "refused" THEN Done(c, "refused")
               ELSE [call EXCEPT ![c].pc = IF executor \in Urls THEN "prepare" ELSE "local",
                                 ![c].via = executor, ![c].meant = agent.url]
    /\ UNCHANGED <<agent, aborted, request, runnerVars>>

(* LocalToolExecutor.execute: the handler, the timeout and the abort race; *)
(* a handler that is not registered is an error.                           *)
LocalExecute(c, outcome) ==
    /\ call[c].pc = "local"
    /\ outcome \in (IF call[c].via = "noop" THEN {} ELSE {"ok"}) \cup {"error"}
                   \cup (IF c \in aborted THEN {"aborted"} ELSE {})
    /\ call' = Done(c, outcome)
    /\ UNCHANGED <<agent, memo, aborted, request, runnerVars>>

-----------------------------------------------------------------------------
(* RemoteToolExecutor *)

(* execute up to the first attempt: an aborted signal, an oversized input, *)
(* a disallowed target or a failed mint ends the call.                     *)
Prepare(c, fine) ==
    /\ call[c].pc = "prepare"
    /\ call' = IF fine THEN [call EXCEPT ![c].pc = "send", ![c].attempt = 1]
               ELSE Done(c, IF c \in aborted THEN "aborted" ELSE "error")
    /\ UNCHANGED <<agent, memo, aborted, request, runnerVars>>

(* Mutant: the attempt's signal carries the timeout only. *)
SendAttemptUnchecked(c) ==
    /\ call[c].pc = "send"
    /\ call' = [call EXCEPT ![c].pc = "waiting"]
    /\ request' = [request EXCEPT ![c][call[c].attempt].at = "sent"]
    /\ UNCHANGED <<agent, memo, aborted, runnerVars>>

(* One attempt begins; fetch rejects at once under an aborted signal. *)
SendAttempt(c) ==
    /\ call[c].pc = "send"
    /\ IF c \in aborted THEN call' = Done(c, "aborted") /\ UNCHANGED request
       ELSE /\ call' = [call EXCEPT ![c].pc = "waiting"]
            /\ request' = [request EXCEPT ![c][call[c].attempt].at = "sent"]
    /\ UNCHANGED <<agent, memo, aborted, runnerVars>>

(* A failed attempt is followed by a delay, the last one by the end. *)
AfterFailure(c) ==
    IF call[c].attempt < 1 + MaxRetries THEN [call EXCEPT ![c].pc = "delay"]
    ELSE Done(c, "error")

(* interpret: 2xx and 4xx are final, 5xx and broken connections are not *)
Interpret(c, reply) ==
    IF reply \in {"ok", "error"} THEN Done(c, reply) ELSE AfterFailure(c)

(* The reply of an attempt.  A body above the limit, or one of a 2xx that  *)
(* is not a runner's answer, is an error and final.                        *)
ReplyArrives(c) ==
    LET a == call[c].attempt IN
    /\ call[c].pc = "waiting" /\ request[c][a].at = "replied"
    /\ \/ call' = Interpret(c, request[c][a].reply)
       \/ call' = Done(c, "error")
    /\ UNCHANGED <<agent, memo, aborted, request, runnerVars>>

(* The attempt's own timeout: its request stays behind. *)
AttemptTimesOut(c) ==
    /\ call[c].pc = "waiting" /\ c \notin aborted
    /\ call' = AfterFailure(c)
    /\ UNCHANGED <<agent, memo, aborted, request, runnerVars>>

AbortSeen(c) ==
    /\ call[c].pc = "waiting" /\ c \in aborted
    /\ call' = Done(c, "aborted")
    /\ UNCHANGED <<agent, memo, aborted, request, runnerVars>>

(* Mutant: a retry is not counted. *)
DelayEndsUncounted(c) ==
    /\ call[c].pc = "delay"
    /\ call' = IF c \in aborted THEN Done(c, "aborted") ELSE [call EXCEPT ![c].pc = "send"]
    /\ UNCHANGED <<agent, memo, aborted, request, runnerVars>>

(* The delay is over; the caller's signal is looked at again. *)
DelayEnds(c) ==
    /\ call[c].pc = "delay"
    /\ call' = IF c \in aborted THEN Done(c, "aborted")
               ELSE [call EXCEPT ![c].pc = "send", ![c].attempt = @ + 1]
    /\ UNCHANGED <<agent, memo, aborted, request, runnerVars>>

(* The run is cancelled or its tool deadline fires. *)
Abort(c) ==
    /\ call[c].pc # "done" /\ c \notin aborted
    /\ aborted' = aborted \cup {c}
    /\ UNCHANGED <<agent, memo, call, request, runnerVars>>

-----------------------------------------------------------------------------
(* The network and the runner *)

(* The connection breaks, or a proxy answers 5xx in the runner's place; a  *)
(* handler that runs goes on.                                              *)
ConnectionFails(c, a) ==
    /\ request[c][a].at \in {"sent", "waiting"}
    /\ request' = [request EXCEPT ![c][a] = [NoRequest EXCEPT !.at = "replied", !.reply = "broken"]]
    /\ UNCHANGED <<agent, memo, call, aborted, runnerVars>>

(* The handler refuses: token expired or out of scope, unknown tool, bad   *)
(* input.                                                                  *)
RunnerRefuses(c, a) ==
    /\ request[c][a].at = "sent"
    /\ request' = [request EXCEPT ![c][a].at = "replied", ![c][a].reply = "error"]
    /\ UNCHANGED <<agent, memo, call, aborted, runnerVars>>

Entry(c) == {i \in 1 .. Len(cache) : cache[i].key = c}
Settled(e) == handler[e.key][e.run] # "running"

(* The other entries; a key has one at most. *)
Without(c) == IF Entry(c) = {} THEN cache ELSE RemoveAt(cache, CHOOSE i \in Entry(c) : TRUE)

(* evictIfNeeded: the oldest entries go, running or not. *)
Evicted(entries) == IF Len(entries) > MaxEntries THEN Tail(entries) ELSE entries

(* Mutant: the entry is stored when the handler ends. *)
CacheRunStoresLate(c, a) ==
    \/ \E i \in Entry(c) :
          /\ ~cache[i].old /\ Settled(cache[i])
          /\ request' = [request EXCEPT ![c][a].at = "waiting", ![c][a].run = cache[i].run]
          /\ UNCHANGED runnerVars
    \/ /\ \A i \in Entry(c) : ~Settled(cache[i]) \/ cache[i].old
       /\ Len(handler[c]) < MaxExecutions
       /\ handler' = [handler EXCEPT ![c] = Append(@, "running")]
       /\ request' = [request EXCEPT ![c][a].at = "waiting", ![c][a].run = Len(handler[c]) + 1]
       /\ cache' = Append(Without(c), [key |-> c, run |-> Len(handler[c]) + 1, old |-> FALSE])
       /\ UNCHANGED <<forgotten, restarted>>

(* IdempotencyCache.run: join the entry of the key unless it has expired,  *)
(* else start the handler under a new one.                                 *)
CacheRun(c, a) ==
    \/ \E i \in Entry(c) :
          /\ ~cache[i].old
          /\ cache' = Append(Without(c), cache[i])
          /\ request' = [request EXCEPT ![c][a].at = "waiting", ![c][a].run = cache[i].run]
          /\ UNCHANGED <<handler, forgotten, restarted>>
    \/ /\ \A i \in Entry(c) : cache[i].old
       /\ Len(handler[c]) < MaxExecutions
       /\ handler' = [handler EXCEPT ![c] = Append(@, "running")]
       /\ request' = [request EXCEPT ![c][a].at = "waiting", ![c][a].run = Len(handler[c]) + 1]
       /\ LET grown == Append(Without(c), [key |-> c, run |-> Len(handler[c]) + 1, old |-> FALSE])
          IN /\ cache' = Evicted(grown)
             /\ forgotten' = [k \in Calls |->
                  forgotten[k] + (IF k = c /\ Entry(c) # {} THEN 1 ELSE 0)
                    + (IF Len(grown) > MaxEntries /\ grown[1].key = k THEN 1 ELSE 0)]
       /\ UNCHANGED restarted

RunnerHandles(c, a) ==
    /\ request[c][a].at = "sent"
    /\ CacheRun(c, a)
    /\ UNCHANGED <<agent, memo, call, aborted>>

(* Mutant: only a success stays in the cache. *)
HandlerEndsForgets(c, n, outcome) ==
    /\ n \in 1 .. Len(handler[c]) /\ handler[c][n] = "running"
    /\ handler' = [handler EXCEPT ![c][n] = outcome]
    /\ cache' = IF outcome = "ok" THEN cache ELSE Without(c)
    /\ UNCHANGED <<agent, memo, call, aborted, request, forgotten, restarted>>

(* executeTool settles, with a result or with an error (500) or the tool   *)
(* timeout (504): outcomes that the entry keeps.                           *)
HandlerEnds(c, n, outcome) ==
    /\ n \in 1 .. Len(handler[c]) /\ handler[c][n] = "running"
    /\ handler' = [handler EXCEPT ![c][n] = outcome]
    /\ UNCHANGED <<agent, memo, call, aborted, request, cache, forgotten, restarted>>

(* A request that waits for a settled outcome is answered with it. *)
RunnerReplies(c, a) ==
    /\ request[c][a].at = "waiting"
    /\ handler[c][request[c][a].run] # "running"
    /\ request' = [request EXCEPT ![c][a].at = "replied",
                                  ![c][a].reply = handler[c][request[c][a].run]]
    /\ UNCHANGED <<agent, memo, call, aborted, runnerVars>>

(* idempotencyTtlMs after it settled an entry no longer counts. *)
Expire(i) ==
    /\ i \in 1 .. Len(cache) /\ cache[i].key # None /\ ~cache[i].old /\ Settled(cache[i])
    /\ cache' = [cache EXCEPT ![i].old = TRUE]
    /\ UNCHANGED <<agent, memo, call, aborted, request, handler, forgotten, restarted>>

(* The call of some other run takes an entry. *)
OtherCall ==
    LET grown == Append(cache, [key |-> None, run |-> 0, old |-> FALSE]) IN
    /\ cache' = Evicted(grown)
    /\ forgotten' = [c \in Calls |->
         forgotten[c] + (IF Len(grown) > MaxEntries /\ grown[1].key = c THEN 1 ELSE 0)]
    /\ UNCHANGED <<agent, memo, call, aborted, request, handler, restarted>>

(* The runner restarts with an empty cache; open connections break. *)
RunnerRestarts ==
    /\ MayRestart /\ ~restarted
    /\ restarted' = TRUE
    /\ cache' = <<>>
    /\ forgotten' = [c \in Calls |-> forgotten[c] + (IF Entry(c) # {} THEN 1 ELSE 0)]
    /\ handler' = [c \in Calls |-> [n \in 1 .. Len(handler[c]) |->
                     IF handler[c][n] = "running" THEN "killed" ELSE handler[c][n]]]
    /\ request' = [c \in Calls |-> [a \in Attempts |->
                     IF request[c][a].at # "waiting" THEN request[c][a]
                     ELSE [NoRequest EXCEPT !.at = "replied", !.reply = "broken"]]]
    /\ UNCHANGED <<agent, memo, call, aborted>>

-----------------------------------------------------------------------------
ExecutorStep(c) ==
    \/ Begin(c)
    \/ \E outcome \in {"ok", "error", "aborted"} : LocalExecute(c, outcome)
    \/ \E fine \in BOOLEAN : Prepare(c, fine)
    \/ SendAttempt(c) \/ ReplyArrives(c) \/ AttemptTimesOut(c) \/ AbortSeen(c) \/ DelayEnds(c)

ToolNext ==
    \/ Register \/ OtherRun \/ OtherCall
    \/ \E c \in Calls :
          \/ ExecutorStep(c) \/ Abort(c)
          \/ \E a \in Attempts : \/ ConnectionFails(c, a) \/ RunnerRefuses(c, a)
                                 \/ RunnerHandles(c, a) \/ RunnerReplies(c, a)
          \/ \E n \in 1 .. MaxExecutions, outcome \in {"ok", "failed"} :
                HandlerEnds(c, n, outcome)
    \/ \E i \in 1 .. MaxEntries : Expire(i)
    \/ RunnerRestarts

(* Promises settle and timers fire: an executor keeps going.  Nothing is   *)
(* asked of the network or of the runner.                                  *)
ToolFairness == \A c \in Calls : WF_toolVars(ExecutorStep(c))

-----------------------------------------------------------------------------
(* Properties *)

(* A logical call executes once, however attempts, lost replies and        *)
(* timeouts overlap; it can execute again only when the cache let go of    *)
(* its entry: at its limit, past its time to live or in a restart.         *)
OncePerEntry == \A c \in Calls : Len(handler[c]) <= 1 + forgotten[c]

(* An ok result is backed by an execution of this very call.  When the     *)
(* cache never let go of the call, its attempts are never given two        *)
(* different outcomes.                                                     *)
ResultIsTheCalls ==
    \A c \in Calls :
        /\ call[c].result = "ok" /\ call[c].via \in Urls =>
              \E n \in 1 .. Len(handler[c]) : handler[c][n] = "ok"
        /\ forgotten[c] = 0 => \A a, b \in Attempts :
              LET answers == {"ok", "failed"} IN
              request[c][a].reply \in answers /\ request[c][b].reply \in answers
                 => request[c][a].reply = request[c][b].reply

(* Once a call is aborted no further attempt is sent for it. *)
AbortStopsAttempts ==
    [][\A c \in aborted : \A a \in Attempts :
          request[c][a].at = "none" => request'[c][a].at = "none"]_toolVars

(* execute always returns, whatever the network and the runner do. *)
ExecuteReturns == \A c \in Calls : call[c].pc # "new" ~> call[c].pc = "done"
=============================================================================
