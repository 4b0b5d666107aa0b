---------------------------- MODULE RunExecution ----------------------------
(***************************************************************************)
(* The run execution service (packages/runtime): start, drive and          *)
(* requestCancel, the session lock, the engine's prerequisite checks, the  *)
(* deadlines and the agent loop, over the run, tool-call, message, trace   *)
(* and session rows of packages/db.                                        *)
(*                                                                         *)
(* The service is one Node process: code between two awaits on I/O runs    *)
(* without interruption, so an action is one awaited call taking effect    *)
(* followed by everything up to the next await.  pc[r] names the await the *)
(* run is suspended at.  Between two awaits of one run every other run,    *)
(* a cancel request, a timer, a session update or a restart may happen.    *)
(*                                                                         *)
(* A database call may reject.  LostWrites names the calls that may reject *)
(* without effect, LostAcks those that may reject after the effect.        *)
(***************************************************************************)
EXTENDS Integers, FiniteSets

CONSTANTS Runs, Sessions, None, SessionOf,
          MaxIterations,  \* options.maxToolIterations
          MaxCalls,       \* bound: tool calls the model asks for in one round
          Deadlines,      \* which of modelTimeoutMs, toolTimeoutMs, totalRunMs are set
          LostWrites, LostAcks,
          MayUpdateSession, \* clients send PATCH /sessions/:id
          MayRestart        \* the process may restart

Terminal == {"completed", "failed", "cancelled", "timed_out"}
RunStatus == {"running"} \cup Terminal

(* The awaited calls, named after the state of the run that waits on them. *)
SetupPCs == {"prereqs", "createRun", "createUser"}
BodyPCs  == {"history", "model", "streamEnd", "saveCalls", "createCall", "runTool",
             "recordCall", "toolMessage", "saveText", "complete", "maxFail"}
ExitPCs  == {"finalize", "closeCalls", "saveTrace"}
LoopPCs  == BodyPCs \cup ExitPCs
InFlight == SetupPCs \cup {"recheck"} \cup LoopPCs \cup {"driveCancel"}
PCs      == {"idle", "rejected", "done", "abandoned"} \cup InFlight

(* Phases a cancel request can find a run in: before the loop looks at the *)
(* abort for the first time, among the tool calls of a round, or anywhere  *)
(* else.                                                                   *)
CancelPhases == {"early", "tools", "late"}
PhaseOf(label) ==
    CASE label \in SetupPCs \cup {"recheck"} -> "early"
      [] label \in {"saveCalls", "createCall", "runTool", "recordCall", "toolMessage"} -> "tools"
      [] OTHER -> "late"

Calls  == (0 .. MaxIterations - 1) \X (1 .. MaxCalls)
Round  == 0 .. MaxIterations
Events == {"message_completed", "MAX_ITERATIONS", "CANCELLED", "TIMED_OUT", "ERROR"}
Causes == {"timeout", "cancel", "failure"}

ASSUME RunExecutionAssumption ==
    /\ SessionOf \in [Runs -> Sessions]
    /\ None \notin Runs
    /\ MaxIterations \in Nat
    /\ MaxCalls \in Nat \ {0}
    /\ Deadlines \subseteq {"model", "tool", "total"}
    /\ LostWrites \subseteq InFlight
    /\ LostAcks \subseteq InFlight
    /\ MayUpdateSession \in BOOLEAN
    /\ MayRestart \in BOOLEAN

VARIABLES
    \* RunExecutionService
    locks,          \* SessionLock: the run that holds each session, or None
    activeRuns,     \* runs with a registered AbortController
    cancelledRuns,  \* runs with a user cancellation to finalize
    \* each run's control state and RunContext
    pc,
    abortReason,    \* reason of ctx.abortSignal: "none", "cancel" or "total"
    ctx,            \* the loop's local variables
    \* database rows
    sessionRow, runRow, toolRow, messages, traceRow,
    \* the terminal ChatEvent the run emitted, or "none"
    event,
    \* history: where the first cancel accepted on a `running` row found each
    \* run, and the runs a deadline fired on while their row was `running`
    cancelRequested, deadlineFired

serviceVars == <<locks, activeRuns, cancelledRuns>>
dbVars      == <<sessionRow, runRow, toolRow, messages, traceRow>>
ghostVars   == <<cancelRequested, deadlineFired>>
vars == <<serviceVars, pc, abortReason, ctx, dbVars, event, ghostVars>>

Ctx == [iterationCount : Round,
        batch : 0 .. MaxCalls,          \* preparedCalls.length
        call  : 0 .. MaxCalls,          \* the call being processed, from 1
        text  : BOOLEAN,                \* assistantText is non-empty
        fired : BOOLEAN,                \* the per-call deadline signal aborted with a timeout
        deadlineHit : BOOLEAN,
        status : {"completed", "failed"},
        cause  : Causes,
        openToolCalls : SUBSET Calls]

NewCtx == [iterationCount |-> 0, batch |-> 0, call |-> 0, text |-> FALSE,
           fired |-> FALSE, deadlineHit |-> FALSE, status |-> "failed",
           cause |-> "failure", openToolCalls |-> {}]

Message == [role : {"user", "assistant", "calls", "tool"},
            round : Round, call : 0 .. MaxCalls]

TypeOK ==
    /\ locks \in [Sessions -> Runs \cup {None}]
    /\ activeRuns \subseteq Runs
    /\ cancelledRuns \subseteq Runs
    /\ pc \in [Runs -> PCs]
    /\ abortReason \in [Runs -> {"none", "cancel", "total"}]
    /\ ctx \in [Runs -> Ctx]
    /\ sessionRow \in [Sessions -> {"active", "closed"}]
    /\ runRow \in [Runs -> {"absent"} \cup RunStatus]
    /\ toolRow \in [Runs -> [Calls -> {"absent", "started", "completed", "failed"}]]
    /\ messages \in [Runs -> SUBSET Message]
    /\ traceRow \in [Runs -> {"absent", "ok", "error"}]
    /\ event \in [Runs -> {"none"} \cup Events]
    /\ cancelRequested \in [Runs -> {"none"} \cup CancelPhases]
    /\ deadlineFired \subseteq Runs

Init ==
    /\ locks = [s \in Sessions |-> None]
    /\ activeRuns = {}
    /\ cancelledRuns = {}
    /\ pc = [r \in Runs |-> "idle"]
    /\ abortReason = [r \in Runs |-> "none"]
    /\ ctx = [r \in Runs |-> NewCtx]
    /\ sessionRow = [s \in Sessions |-> "active"]
    /\ runRow = [r \in Runs |-> "absent"]
    /\ toolRow = [r \in Runs |-> [c \in Calls |-> "absent"]]
    /\ messages = [r \in Runs |-> {}]
    /\ traceRow = [r \in Runs |-> "absent"]
    /\ event = [r \in Runs |-> "none"]
    /\ cancelRequested = [r \in Runs |-> "none"]
    /\ deadlineFired = {}

-----------------------------------------------------------------------------
(* Database calls. *)

(* How the call a run is suspended at may settle. *)
Outcomes(op) == {"ok"} \cup (IF op \in LostWrites THEN {"lost"} ELSE {})
                       \cup (IF op \in LostAcks THEN {"unacked"} ELSE {})
Applied(o) == o # "lost"
Rejected(o) == o # "ok"

(* Mutant: a terminal UPDATE without its WHERE status='running'. *)
TransitionUnguarded(r, st, o) ==
    runRow' = IF Applied(o) THEN [runRow EXCEPT ![r] = st] ELSE runRow

(* run-repo complete/fail/cancel/timeout: UPDATE ... WHERE status='running' *)
Transition(r, st, o) ==
    runRow' = IF Applied(o) /\ runRow[r] = "running"
              THEN [runRow EXCEPT ![r] = st] ELSE runRow

(* tool-call-repo updateResult/fail: UPDATE ... WHERE status='started' *)
CallTransition(r, cs, st, o) ==
    toolRow' = IF Applied(o)
               THEN [toolRow EXCEPT ![r] =
                       [c \in Calls |-> IF c \in cs /\ @[c] = "started" THEN st ELSE @[c]]]
               ELSE toolRow

(* message-repo create *)
Persist(r, m, o) ==
    messages' = IF Applied(o) THEN [messages EXCEPT ![r] = @ \cup {m}] ELSE messages

UserMessage        == [role |-> "user", round |-> 0, call |-> 0]
CallsMessage(i, n) == [role |-> "calls", round |-> i, call |-> n]
ToolMessage(i, k)  == [role |-> "tool", round |-> i, call |-> k]
FinalMessage(i)    == [role |-> "assistant", round |-> i, call |-> 0]

-----------------------------------------------------------------------------
(* The session lock. *)

Acquired(s, r) == [locks EXCEPT ![s] = r]
Released(s, r) == [locks EXCEPT ![s] = IF @ = r THEN None ELSE @]

(* Dropping the registry entry and the lock, on every exit path. *)
FreeSession(r) ==
    /\ activeRuns' = activeRuns \ {r}
    /\ locks' = Released(SessionOf[r], r)

-----------------------------------------------------------------------------
(* Control helpers of the loop.  Each takes the locals the run leaves with. *)

Aborted(r) == abortReason[r] # "none"

(* timeoutReason of the signal given to the current model or tool call *)
CallTimedOut(r) == ctx[r].fired \/ abortReason[r] = "total"

(* Mutant: any aborted signal is taken for a user cancellation. *)
ClassifyAbortFirst(r, c) ==
    CASE Aborted(r) -> "cancel"
      [] ~Aborted(r) /\ c.deadlineHit -> "timeout"
      [] OTHER -> "failure"

ClassifyTerminal(r, c) ==
    CASE c.deadlineHit \/ abortReason[r] = "total" -> "timeout"
      [] ~c.deadlineHit /\ abortReason[r] = "cancel" -> "cancel"
      [] OTHER -> "failure"

Await(r, label, c) ==
    /\ pc' = [pc EXCEPT ![r] = label]
    /\ ctx' = [ctx EXCEPT ![r] = c]

(* throw inside the loop's try: classify, then await the terminal write *)
Throw(r, c) == Await(r, "finalize", [c EXCEPT !.cause = ClassifyTerminal(r, c)])

(* Mutant: the round limit is off by one. *)
LoopTopOffByOne(r, c) ==
    \/ /\ c.iterationCount > MaxIterations
       /\ Await(r, "maxFail", c)
    \/ /\ c.iterationCount <= MaxIterations
       /\ Aborted(r)
       /\ Throw(r, c)
    \/ /\ c.iterationCount <= MaxIterations
       /\ ~Aborted(r)
       /\ Await(r, "history", c)

(* The head of the while loop, up to its first await. *)
LoopTop(r, c) ==
    \/ /\ c.iterationCount >= MaxIterations
       /\ Await(r, "maxFail", c)
    \/ /\ c.iterationCount < MaxIterations
       /\ Aborted(r)
       /\ Throw(r, c)
    \/ /\ c.iterationCount < MaxIterations
       /\ ~Aborted(r)
       /\ Await(r, "history", c)

(* Mutant: open tool calls are not closed. *)
LoopFinallySkipsCalls(r, c) == Await(r, "saveTrace", c)

(* The loop's finally, up to its first await. *)
LoopFinally(r, c) ==
    Await(r, IF c.openToolCalls = {} THEN "saveTrace" ELSE "closeCalls", c)

(* Mutant: the session is released before the cancel write. *)
DriveFinallyEarlyRelease(r) ==
    /\ pc' = [pc EXCEPT ![r] = IF r \in cancelledRuns THEN "driveCancel" ELSE "done"]
    /\ FreeSession(r)
    /\ UNCHANGED cancelledRuns

(* Mutant: drive relies on the loop alone to persist the cancellation. *)
DriveFinallyNoCancel(r) ==
    /\ pc' = [pc EXCEPT ![r] = "done"]
    /\ FreeSession(r)
    /\ UNCHANGED cancelledRuns

(* drive's finally, up to its first await. *)
DriveFinally(r) ==
    \/ /\ r \in cancelledRuns
       /\ pc' = [pc EXCEPT ![r] = "driveCancel"]
       /\ UNCHANGED serviceVars
    \/ /\ r \notin cancelledRuns
       /\ pc' = [pc EXCEPT ![r] = "done"]
       /\ FreeSession(r)
       /\ UNCHANGED cancelledRuns

-----------------------------------------------------------------------------
(* start() *)

(* Mutant: start() does not look at the session lock. *)
StartRunUnlocked(r) ==
    /\ pc[r] = "idle"
    /\ locks' = [locks EXCEPT ![SessionOf[r]] = r]
    /\ activeRuns' = activeRuns \cup {r}
    /\ pc' = [pc EXCEPT ![r] = "prereqs"]
    /\ UNCHANGED <<cancelledRuns, abortReason, ctx, dbVars, event, ghostVars>>

(* The synchronous head of start(): mint the id, take the lock, register.  *)
StartRun(r) ==
    /\ pc[r] = "idle"
    /\ locks[SessionOf[r]] = None
    /\ locks' = Acquired(SessionOf[r], r)
    /\ activeRuns' = activeRuns \cup {r}
    /\ pc' = [pc EXCEPT ![r] = "prereqs"]
    /\ UNCHANGED <<cancelledRuns, abortReason, ctx, dbVars, event, ghostVars>>

(* The session is taken: CONFLICT before anything is persisted. *)
StartConflict(r) ==
    /\ pc[r] = "idle"
    /\ locks[SessionOf[r]] # None
    /\ pc' = [pc EXCEPT ![r] = "rejected"]
    /\ UNCHANGED <<serviceVars, abortReason, ctx, dbVars, event, ghostVars>>

(* Mutant: a failed setup keeps the lock. *)
SetupFailedWedged(r) ==
    /\ pc' = [pc EXCEPT ![r] = "done"]
    /\ activeRuns' = activeRuns \ {r}
    /\ UNCHANGED <<locks, cancelledRuns>>

(* The catch of start(): free the session and rethrow to the caller.  The  *)
(* row, if the insert took effect, is left as it is.                       *)
SetupFailed(r) ==
    /\ pc' = [pc EXCEPT ![r] = "done"]
    /\ FreeSession(r)
    /\ UNCHANGED cancelledRuns

SetupContinues(r, label) ==
    /\ pc' = [pc EXCEPT ![r] = label]
    /\ UNCHANGED serviceVars

(* resolveRunPrereqs settles well: the session is active and every read works. *)
PrereqsHold(r, o) == sessionRow[SessionOf[r]] = "active" /\ ~Rejected(o)

ResolvePrereqs(r) ==
    /\ pc[r] = "prereqs"
    /\ \E o \in Outcomes("prereqs") :
          IF PrereqsHold(r, o) THEN SetupContinues(r, "createRun") ELSE SetupFailed(r)
    /\ UNCHANGED <<abortReason, ctx, dbVars, event, ghostVars>>

CreateRun(r) ==
    /\ pc[r] = "createRun"
    /\ \E o \in Outcomes("createRun") :
          /\ runRow' = IF Applied(o) THEN [runRow EXCEPT ![r] = "running"] ELSE runRow
          /\ IF Rejected(o) THEN SetupFailed(r) ELSE SetupContinues(r, "createUser")
    /\ UNCHANGED <<abortReason, ctx, sessionRow, toolRow, messages, traceRow, event, ghostVars>>

CreateUserMessage(r) ==
    /\ pc[r] = "createUser"
    /\ \E o \in Outcomes("createUser") :
          /\ Persist(r, UserMessage, o)
          /\ IF Rejected(o) THEN SetupFailed(r) ELSE SetupContinues(r, "recheck")
    /\ UNCHANGED <<abortReason, ctx, sessionRow, runRow, toolRow, traceRow, event, ghostVars>>

-----------------------------------------------------------------------------
(* drive() and executePreparedRun() *)

(* executePreparedRun resolves the prerequisites a second time, outside    *)
(* the loop's try; then the loop emits message_started and reaches its     *)
(* first iteration.                                                        *)
RecheckPrereqs(r) ==
    /\ pc[r] = "recheck"
    /\ \E o \in Outcomes("recheck") :
          \/ /\ PrereqsHold(r, o)
             /\ LoopTop(r, NewCtx)
             /\ UNCHANGED serviceVars
          \/ /\ ~PrereqsHold(r, o)
             /\ DriveFinally(r)
             /\ UNCHANGED ctx
    /\ UNCHANGED <<abortReason, dbVars, event, ghostVars>>

(* The best-effort runs.cancel of drive's finally, then the release. *)
DriveCancel(r) ==
    /\ pc[r] = "driveCancel"
    /\ \E o \in Outcomes("driveCancel") : Transition(r, "cancelled", o)
    /\ cancelledRuns' = cancelledRuns \ {r}
    /\ FreeSession(r)
    /\ pc' = [pc EXCEPT ![r] = "done"]
    /\ UNCHANGED <<abortReason, ctx, sessionRow, toolRow, messages, traceRow, event, ghostVars>>

-----------------------------------------------------------------------------
(* runAgentLoop(): one model round *)

loopFrame == <<serviceVars, abortReason, sessionRow, traceRow, ghostVars>>

(* listBySession, build the context, resolve the provider, start the stream. *)
LoadHistory(r) ==
    /\ pc[r] = "history"
    /\ \E o \in Outcomes("history") :
          IF Rejected(o) THEN Throw(r, ctx[r])
          ELSE Await(r, "model", [ctx[r] EXCEPT !.fired = FALSE])
    /\ UNCHANGED <<loopFrame, runRow, toolRow, messages, event>>

(* A stream chunk: throwIfAborted, then a token grows assistantText. *)
ModelToken(r) ==
    /\ pc[r] = "model"
    /\ ~Aborted(r)
    /\ ~ctx[r].text
    /\ Await(r, "model", [ctx[r] EXCEPT !.text = TRUE])
    /\ UNCHANGED <<loopFrame, runRow, toolRow, messages, event>>

(* The last chunk is behind, n tool calls collected.  throwIfAborted runs  *)
(* only when a chunk arrives: a provider that stops yielding once its      *)
(* signal aborts brings an aborted run here too.                           *)
ModelLastChunk(r) ==
    /\ pc[r] = "model"
    /\ \E n \in 0 .. MaxCalls :
          Await(r, "streamEnd", [ctx[r] EXCEPT !.batch = n, !.call = 0])
    /\ UNCHANGED <<loopFrame, runRow, toolRow, messages, event>>

(* The stream throws, or a chunk arrives on an aborted run. *)
ModelThrows(r) ==
    /\ pc[r] \in {"model", "streamEnd"}
    /\ Throw(r, [ctx[r] EXCEPT !.deadlineHit = @ \/ CallTimedOut(r), !.fired = FALSE])
    /\ UNCHANGED <<loopFrame, runRow, toolRow, messages, event>>

(* The stream ends without another chunk.  An abort or a model deadline    *)
(* goes unnoticed: neither signal is checked here.                         *)
ModelEnds(r) ==
    /\ pc[r] = "streamEnd"
    /\ LET c == [ctx[r] EXCEPT !.fired = FALSE] IN
          IF c.batch > 0 THEN Await(r, "saveCalls", c)
          ELSE Await(r, IF c.text THEN "saveText" ELSE "complete", c)
    /\ UNCHANGED <<loopFrame, runRow, toolRow, messages, event>>

-----------------------------------------------------------------------------
(* runAgentLoop(): the tool calls of a round *)

CurrentCall(r) == <<ctx[r].iterationCount, ctx[r].call>>

(* Persist the assistant message naming every call; the first call starts. *)
SaveCalls(r) ==
    /\ pc[r] = "saveCalls"
    /\ \E o \in Outcomes("saveCalls") :
          /\ Persist(r, CallsMessage(ctx[r].iterationCount, ctx[r].batch), o)
          /\ IF Rejected(o) THEN Throw(r, ctx[r])
             ELSE Await(r, "createCall", [ctx[r] EXCEPT !.text = FALSE, !.call = 1])
    /\ UNCHANGED <<loopFrame, runRow, toolRow, event>>

(* Insert the tool-call row, then validate: a valid call goes to the       *)
(* executor, a rejected one straight to its `failed` record.               *)
CreateCall(r) ==
    /\ pc[r] = "createCall"
    /\ \E o \in Outcomes("createCall"), valid \in BOOLEAN :
          /\ toolRow' = IF Applied(o)
                        THEN [toolRow EXCEPT ![r][CurrentCall(r)] = "started"] ELSE toolRow
          /\ IF Rejected(o) THEN Throw(r, ctx[r])
             ELSE Await(r, IF valid THEN "runTool" ELSE "recordCall",
                        [ctx[r] EXCEPT !.openToolCalls = @ \cup {CurrentCall(r)},
                                       !.fired = FALSE, !.status = "failed"])
    /\ UNCHANGED <<loopFrame, runRow, messages, event>>

(* The executor returns; it answers `Aborted` once its signal is aborted.  *)
(* fired becomes toolFired: did the call's signal abort with a timeout?    *)
RunTool(r) ==
    /\ pc[r] = "runTool"
    /\ \E st \in {"completed", "failed"} :
          /\ st = "completed" => ~Aborted(r) /\ ~ctx[r].fired
          /\ Await(r, "recordCall", [ctx[r] EXCEPT !.status = st, !.fired = CallTimedOut(r)])
    /\ UNCHANGED <<loopFrame, runRow, toolRow, messages, event>>

(* updateResult; the call is closed and a fired deadline is remembered. *)
RecordCall(r) ==
    /\ pc[r] = "recordCall"
    /\ \E o \in Outcomes("recordCall") :
          /\ CallTransition(r, {CurrentCall(r)}, ctx[r].status, o)
          /\ IF Rejected(o) THEN Throw(r, ctx[r])
             ELSE Await(r, "toolMessage",
                        [ctx[r] EXCEPT !.openToolCalls = @ \ {CurrentCall(r)},
                                       !.deadlineHit = @ \/ ctx[r].fired])
    /\ UNCHANGED <<loopFrame, runRow, messages, event>>

(* Mutant: a failed call leaves no result message. *)
SaveToolMessageOnSuccess(r) ==
    /\ pc[r] = "toolMessage"
    /\ IF ctx[r].status = "completed"
       THEN Persist(r, ToolMessage(ctx[r].iterationCount, ctx[r].call), "ok")
       ELSE UNCHANGED messages
    /\ IF ctx[r].deadlineHit THEN Throw(r, ctx[r])
       ELSE IF ctx[r].call < ctx[r].batch
       THEN Await(r, "createCall", [ctx[r] EXCEPT !.call = @ + 1])
       ELSE LoopTop(r, [ctx[r] EXCEPT !.iterationCount = @ + 1])
    /\ UNCHANGED <<loopFrame, runRow, toolRow, event>>

(* Mutant: rounds are not counted. *)
SaveToolMessageUncounted(r) ==
    /\ pc[r] = "toolMessage"
    /\ Persist(r, ToolMessage(ctx[r].iterationCount, ctx[r].call), "ok")
    /\ IF ctx[r].deadlineHit THEN Throw(r, ctx[r])
       ELSE IF ctx[r].call < ctx[r].batch
       THEN Await(r, "createCall", [ctx[r] EXCEPT !.call = @ + 1])
       ELSE LoopTop(r, ctx[r])
    /\ UNCHANGED <<loopFrame, runRow, toolRow, event>>

(* Persist the tool result, then: time out, next call, or next round. *)
SaveToolMessage(r) ==
    /\ pc[r] = "toolMessage"
    /\ \E o \in Outcomes("toolMessage") :
          /\ Persist(r, ToolMessage(ctx[r].iterationCount, ctx[r].call), o)
          /\ IF Rejected(o) \/ ctx[r].deadlineHit THEN Throw(r, ctx[r])
             ELSE IF ctx[r].call < ctx[r].batch
             THEN Await(r, "createCall", [ctx[r] EXCEPT !.call = @ + 1])
             ELSE LoopTop(r, [ctx[r] EXCEPT !.iterationCount = @ + 1])
    /\ UNCHANGED <<loopFrame, runRow, toolRow, event>>

-----------------------------------------------------------------------------
(* runAgentLoop(): the exits *)

Emit(r, e) == event' = [event EXCEPT ![r] = e]

(* Out of rounds: runs.fail and run_failed(MAX_ITERATIONS).  assistantText *)
(* was reset when the last round's calls were saved, so none is persisted. *)
FailMaxIterations(r) ==
    /\ pc[r] = "maxFail"
    /\ \E o \in Outcomes("maxFail") :
          /\ Transition(r, "failed", o)
          /\ IF Rejected(o) THEN Throw(r, ctx[r]) /\ UNCHANGED event
             ELSE LoopFinally(r, ctx[r]) /\ Emit(r, "MAX_ITERATIONS")
    /\ UNCHANGED <<loopFrame, toolRow, messages>>

SaveText(r) ==
    /\ pc[r] = "saveText"
    /\ \E o \in Outcomes("saveText") :
          /\ Persist(r, FinalMessage(ctx[r].iterationCount), o)
          /\ IF Rejected(o) THEN Throw(r, ctx[r]) ELSE Await(r, "complete", ctx[r])
    /\ UNCHANGED <<loopFrame, runRow, toolRow, event>>

(* Mutant: the error of the completing write is swallowed. *)
CompleteSwallowsError(r) ==
    /\ pc[r] = "complete"
    /\ \E o \in Outcomes("complete") : Transition(r, "completed", o)
    /\ LoopFinally(r, ctx[r])
    /\ Emit(r, "message_completed")
    /\ UNCHANGED <<loopFrame, toolRow, messages>>

Complete(r) ==
    /\ pc[r] = "complete"
    /\ \E o \in Outcomes("complete") :
          /\ Transition(r, "completed", o)
          /\ IF Rejected(o) THEN Throw(r, ctx[r]) /\ UNCHANGED event
             ELSE LoopFinally(r, ctx[r]) /\ Emit(r, "message_completed")
    /\ UNCHANGED <<loopFrame, toolRow, messages>>

StatusOf(cause) == CASE cause = "timeout" -> "timed_out"
                     [] cause = "cancel"  -> "cancelled"
                     [] cause = "failure" -> "failed"
CodeOf(cause)   == CASE cause = "timeout" -> "TIMED_OUT"
                     [] cause = "cancel"  -> "CANCELLED"
                     [] cause = "failure" -> "ERROR"

(* The catch: the conditional write of the cause, errors swallowed, then   *)
(* run_failed with the cause's code whatever the write did.                *)
FinalizeRun(r) ==
    /\ pc[r] = "finalize"
    /\ \E o \in Outcomes("finalize") : Transition(r, StatusOf(ctx[r].cause), o)
    /\ Emit(r, CodeOf(ctx[r].cause))
    /\ LoopFinally(r, ctx[r])
    /\ UNCHANGED <<loopFrame, toolRow, messages>>

(* Fail the call a throw left open (there is at most one), best effort. *)
CloseCalls(r) ==
    /\ pc[r] = "closeCalls"
    /\ \E o \in Outcomes("closeCalls") :
          CallTransition(r, ctx[r].openToolCalls, "failed", o)
    /\ Await(r, "saveTrace", ctx[r])
    /\ UNCHANGED <<loopFrame, runRow, messages, event>>

(* trace.finish, best effort; executePreparedRun's finally disposes the    *)
(* total deadline and drive's finally runs.                                *)
SaveTrace(r) ==
    /\ pc[r] = "saveTrace"
    /\ \E o \in Outcomes("saveTrace") :
          traceRow' = IF Applied(o)
                      THEN [traceRow EXCEPT ![r] =
                              IF event[r] = "message_completed" THEN "ok" ELSE "error"]
                      ELSE traceRow
    /\ DriveFinally(r)
    /\ UNCHANGED <<abortReason, ctx, sessionRow, runRow, toolRow, messages, event, ghostVars>>

-----------------------------------------------------------------------------
(* What happens to a run from outside *)

(* session-service requestCancel: the row exists; the run is aborted if it *)
(* is in the registry, and the request is accepted in any case.            *)
RequestCancel(r) ==
    /\ runRow[r] # "absent"
    /\ r \in activeRuns
    /\ cancelledRuns' = cancelledRuns \cup {r}
    /\ abortReason' = [abortReason EXCEPT ![r] = IF @ = "none" THEN "cancel" ELSE @]
    /\ cancelRequested' = IF runRow[r] = "running" /\ cancelRequested[r] = "none"
                          THEN [cancelRequested EXCEPT ![r] = PhaseOf(pc[r])]
                          ELSE cancelRequested
    /\ UNCHANGED <<locks, activeRuns, pc, ctx, dbVars, event, deadlineFired>>

(* The timer of the running model or tool call fires.  If the run's own    *)
(* signal is already aborted the merged signal keeps its first reason.     *)
CallDeadline(r) ==
    /\ \/ pc[r] \in {"model", "streamEnd"} /\ "model" \in Deadlines
       \/ pc[r] = "runTool" /\ "tool" \in Deadlines
    /\ ~Aborted(r)
    /\ ~ctx[r].fired
    /\ ctx' = [ctx EXCEPT ![r].fired = TRUE]
    /\ deadlineFired' = deadlineFired \cup {r}
    /\ UNCHANGED <<serviceVars, pc, abortReason, dbVars, event, cancelRequested>>

(* The total-run timer, armed while the loop runs. *)
TotalDeadline(r) ==
    /\ "total" \in Deadlines
    /\ pc[r] \in LoopPCs
    /\ ~Aborted(r)
    /\ abortReason' = [abortReason EXCEPT ![r] = "total"]
    /\ deadlineFired' = IF runRow[r] = "running" THEN deadlineFired \cup {r}
                        ELSE deadlineFired
    /\ UNCHANGED <<serviceVars, pc, ctx, dbVars, event, cancelRequested>>

(* PATCH /sessions/:id, independent of the lock. *)
UpdateSession(s) ==
    /\ MayUpdateSession
    /\ \E st \in {"active", "closed"} :
          /\ st # sessionRow[s]
          /\ sessionRow' = [sessionRow EXCEPT ![s] = st]
    /\ UNCHANGED <<serviceVars, pc, abortReason, ctx, runRow, toolRow, messages,
                   traceRow, event, ghostVars>>

(* Execution is process-bound: a restart abandons every run in flight. *)
RestartProcess ==
    /\ MayRestart
    /\ \E r \in Runs : pc[r] \in InFlight
    /\ pc' = [r \in Runs |-> IF pc[r] \in InFlight THEN "abandoned" ELSE pc[r]]
    /\ locks' = [s \in Sessions |-> None]
    /\ activeRuns' = {}
    /\ cancelledRuns' = {}
    /\ UNCHANGED <<abortReason, ctx, dbVars, event, ghostVars>>

-----------------------------------------------------------------------------
SetupStep(r) == ResolvePrereqs(r) \/ CreateRun(r) \/ CreateUserMessage(r)
RoundStep(r) == \/ LoadHistory(r) \/ ModelToken(r) \/ ModelLastChunk(r)
                \/ ModelThrows(r) \/ ModelEnds(r)
                \/ SaveCalls(r) \/ CreateCall(r) \/ RunTool(r) \/ RecordCall(r)
                \/ SaveToolMessage(r)
ExitStep(r)  == \/ FailMaxIterations(r) \/ SaveText(r) \/ Complete(r)
                \/ FinalizeRun(r) \/ CloseCalls(r) \/ SaveTrace(r)
DriveStep(r) == RecheckPrereqs(r) \/ DriveCancel(r)

(* The steps of one run: the continuation of the call it awaits. *)
RunStep(r) == SetupStep(r) \/ RoundStep(r) \/ ExitStep(r) \/ DriveStep(r)

Next ==
    \/ \E r \in Runs : \/ StartRun(r) \/ StartConflict(r)
                       \/ RunStep(r)
                       \/ RequestCancel(r)
                       \/ CallDeadline(r) \/ TotalDeadline(r)
    \/ \E s \in Sessions : UpdateSession(s)
    \/ RestartProcess

Spec == Init /\ [][Next]_vars

(* Every awaited call settles: the database answers or rejects, a model    *)
(* stream ends or throws, an executor returns.                             *)
FairSpec == Spec /\ \A r \in Runs : WF_vars(RunStep(r))

-----------------------------------------------------------------------------
(* Properties *)

(* At most one run is in flight on a session, whichever entry point        *)
(* started it (run-execution-service.ts: "concurrent runs on one session   *)
(* conflict regardless of entry point").                                   *)
OneRunPerSession ==
    \A r, q \in Runs : r # q /\ SessionOf[r] = SessionOf[q]
                       => ~(pc[r] \in InFlight /\ pc[q] \in InFlight)

(* A held lock always belongs to a run that is still in flight on that     *)
(* session and can be cancelled through the registry: no exit path of      *)
(* start() or drive() wedges the session.                                  *)
SessionNotWedged ==
    \A s \in Sessions : locks[s] # None =>
        /\ SessionOf[locks[s]] = s
        /\ pc[locks[s]] \in InFlight
        /\ locks[s] \in activeRuns

(* A run row that left `running` never changes again, however cancel,      *)
(* deadline, failure and completion race (SC-13).                          *)
TerminalIsFinal ==
    [][\A r \in Runs : runRow[r] \in Terminal => runRow'[r] = runRow[r]]_runRow

(* However cancel, deadlines and answers race: a row says `cancelled` only *)
(* if a cancel was accepted while the run was running, and `timed_out`     *)
(* only if one of its deadlines fired; a cancel accepted before the loop   *)
(* first looks at the abort lands; one accepted among the tool calls of a  *)
(* round keeps the run from completing, whatever the tools still answer;   *)
(* and a run that drained left its row in a terminal state.  A cancel      *)
(* accepted while the history is read or the model streams promises        *)
(* nothing: a stream that ends without another chunk completes the run.    *)
OutcomeHasItsCause ==
    \A r \in Runs :
        /\ runRow[r] = "cancelled" => cancelRequested[r] # "none"
        /\ runRow[r] = "timed_out" => r \in deadlineFired
        /\ pc[r] = "done" /\ cancelRequested[r] = "early" => runRow[r] \in {"cancelled", "timed_out"}
        /\ cancelRequested[r] = "tools" => runRow[r] # "completed"
        /\ pc[r] = "done" /\ runRow[r] # "absent" => runRow[r] \in Terminal

(* The terminal event tells the status of the row.  Success is reported    *)
(* only for a `completed` row; the failure codes may differ from the row   *)
(* only where a terminal write can be lost or go unacknowledged.           *)
EventAgreesWithRow ==
    \A r \in Runs :
        /\ event[r] = "message_completed" => runRow[r] = "completed"
        /\ event[r] = "MAX_ITERATIONS" => runRow[r] = "failed"
        /\ \A cause \in Causes : event[r] = CodeOf(cause) =>
              \/ runRow[r] = StatusOf(cause)
              \/ "finalize" \in LostWrites /\ runRow[r] \in {"running", "cancelled"}
              \/ "complete" \in LostAcks /\ runRow[r] = "completed"
              \/ "maxFail" \in LostAcks /\ runRow[r] = "failed"

(* The calls the run's own assistant messages name without a tool message. *)
Unanswered(r) ==
    {c \in Calls : \E m \in messages[r] :
        /\ m.role = "calls" /\ m.round = c[1] /\ c[2] <= m.call
        /\ ToolMessage(c[1], c[2]) \notin messages[r]}

(* The model is never called again, and the run never completes, while a   *)
(* tool call of an earlier round has no result message in the history.     *)
HistoryAnswered ==
    \A r \in Runs : pc[r] \in {"history", "model", "streamEnd"} \/ runRow[r] = "completed"
                    => Unanswered(r) = {}

(* Once a run whose loop ran has drained, its run row is terminal, no tool *)
(* call dangles in `started` and the trace agrees with the row (SC-15).    *)
RecordsConsistent ==
    \A r \in Runs : pc[r] = "done" /\ event[r] # "none" =>
        /\ runRow[r] \in Terminal
        /\ \A c \in Calls : toolRow[r][c] # "started"
        /\ traceRow[r] = (IF runRow[r] = "completed" THEN "ok" ELSE "error")

(* Every accepted run drains and gives its session back.                   *)
AcceptedRunDrains == \A r \in Runs : pc[r] \in InFlight ~> pc[r] = "done"

(* An accepted cancel always leads to a terminal row, even when the run    *)
(* never reaches the loop because its session was closed meanwhile.        *)
CancelSettles == \A r \in Runs : cancelRequested[r] # "none" ~> runRow[r] \in Terminal

(* The service implements the abstract life cycle of a run. *)
Lifecycle == INSTANCE RunLifecycle WITH owner <- locks, row <- runRow
ImplementsLifecycle == Lifecycle!LifecycleSpec
=============================================================================
