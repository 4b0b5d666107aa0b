------------------------- MODULE RunExecutionProofs -------------------------
(***************************************************************************)
(* Theorems about RunExecution for any runs, sessions, round and call      *)
(* limits, deadlines, database faults, session updates and restarts.       *)
(*                                                                         *)
(* Types come first: the type invariant bounds the round counter, the call *)
(* index and the tool-call rows the loop addresses, so it is not inductive *)
(* alone; it needs RoundInv, which says what the guard at the head of the  *)
(* while loop still guarantees at each later await.                        *)
(*                                                                         *)
(* Then: what a step does to the control states, to the locks, the         *)
(* registry and the run rows is one of a few shapes (StepShape); LockInv   *)
(* and RowInv are inductive over these shapes; exclusion, finality and the *)
(* refinement of RunLifecycle follow.                                      *)
(*                                                                         *)
(* The second half is about outcomes.  What a step of a run does to the    *)
(* run's own rows, locals and report is stated once per action (the Own    *)
(* lemmas), what it leaves alone once for all (OthersUntouched), and what  *)
(* happens to a run from outside once (OutsideShape).  ReportInv (event    *)
(* and row), CauseInv (row and its cause) and HistoryInv (messages) hold   *)
(* whatever fails; EarlyInv and RecordInv hold when the calls named in     *)
(* Settling and Recording answer.                                          *)
(***************************************************************************)
EXTENDS RunExecution, TLAPS

(* The awaits of a round, and those of one tool call within it. *)
CallPCs  == {"createCall", "runTool", "recordCall", "toolMessage"}
RoundPCs == {"history", "model", "streamEnd", "saveCalls"} \cup CallPCs

(* What the loop's locals satisfy at an await. *)
RoundOK(label, c) ==
    /\ label \in RoundPCs => c.iterationCount < MaxIterations
    /\ label = "saveCalls" => c.batch >= 1
    /\ label \in CallPCs => c.call >= 1

RoundInv == \A r \in Runs : RoundOK(pc[r], ctx[r])

ControlOK == pc \in [Runs -> PCs] /\ ctx \in [Runs -> Ctx]

TypeInv == TypeOK /\ RoundInv

USE RunExecutionAssumption

-----------------------------------------------------------------------------
(* The ways a step moves a run's control preserve ControlOK and RoundInv. *)

LEMMA AwaitSafe ==
    ASSUME NEW r \in Runs, ControlOK, RoundInv,
           NEW l \in PCs, NEW c \in Ctx, RoundOK(l, c), Await(r, l, c)
    PROVE  ControlOK' /\ RoundInv'
BY DEF Await, ControlOK, RoundInv

LEMMA CauseInCtx ==
    ASSUME NEW c \in Ctx, NEW x \in Causes
    PROVE  [c EXCEPT !.cause = x] \in Ctx
BY DEF Ctx

LEMMA ThrowSafe ==
    ASSUME NEW r \in Runs, ControlOK, RoundInv, NEW c \in Ctx, Throw(r, c)
    PROVE  ControlOK' /\ RoundInv'
<1> DEFINE d == [c EXCEPT !.cause = ClassifyTerminal(r, c)]
<1>1. ClassifyTerminal(r, c) \in Causes
  BY DEF ClassifyTerminal, Causes
<1>2. d \in Ctx
  BY <1>1, CauseInCtx
<1>3. "finalize" \in PCs /\ RoundOK("finalize", d)
  BY DEF PCs, InFlight, LoopPCs, ExitPCs, RoundOK, RoundPCs, CallPCs
<1>4. Await(r, "finalize", d)
  BY DEF Throw
<1> HIDE DEF d
<1>5. QED
  BY <1>2, <1>3, <1>4, AwaitSafe

LEMMA LoopTopSafe ==
    ASSUME NEW r \in Runs, ControlOK, RoundInv, NEW c \in Ctx, LoopTop(r, c)
    PROVE  ControlOK' /\ RoundInv'
<1>1. CASE Throw(r, c)
  BY <1>1, ThrowSafe
<1>2. CASE Await(r, "maxFail", c)
  <2>1. "maxFail" \in PCs /\ RoundOK("maxFail", c)
    BY DEF PCs, InFlight, LoopPCs, BodyPCs, RoundOK, RoundPCs, CallPCs
  <2>2. QED
    BY <1>2, <2>1, AwaitSafe
<1>3. CASE c.iterationCount < MaxIterations /\ Await(r, "history", c)
  <2>1. "history" \in PCs /\ RoundOK("history", c)
    BY <1>3 DEF PCs, InFlight, LoopPCs, BodyPCs, RoundOK, RoundPCs, CallPCs
  <2>2. QED
    BY <1>3, <2>1, AwaitSafe
<1>4. QED
  BY <1>1, <1>2, <1>3 DEF LoopTop

LEMMA LoopFinallySafe ==
    ASSUME NEW r \in Runs, ControlOK, RoundInv, NEW c \in Ctx, LoopFinally(r, c)
    PROVE  ControlOK' /\ RoundInv'
<1>1. \A l \in {"saveTrace", "closeCalls"} : l \in PCs /\ RoundOK(l, c)
  BY DEF PCs, InFlight, LoopPCs, ExitPCs, RoundOK, RoundPCs, CallPCs
<1>2. QED
  BY <1>1, AwaitSafe DEF LoopFinally

(* Steps that move a run without touching the loop's locals, to an await   *)
(* outside a round.                                                        *)
LEMMA JumpSafe ==
    ASSUME NEW r \in Runs, ControlOK, RoundInv,
           NEW l \in PCs \ RoundPCs, pc' = [pc EXCEPT ![r] = l], ctx' = ctx
    PROVE  ControlOK' /\ RoundInv'
BY DEF ControlOK, RoundInv, RoundOK, RoundPCs, CallPCs

LEMMA CallIndices == 0 \in 0 .. MaxCalls /\ 1 \in 0 .. MaxCalls
OBVIOUS

LEMMA CurrentTyped ==
    ASSUME NEW r \in Runs, ctx[r] \in Ctx, RoundOK(pc[r], ctx[r]), pc[r] \in CallPCs
    PROVE  CurrentCall(r) \in Calls
BY DEF CurrentCall, Calls, Ctx, Round, RoundOK, RoundPCs

LEMMA NewCtxTyped == NewCtx \in Ctx
BY DEF NewCtx, Ctx, Round, Causes

-----------------------------------------------------------------------------
(* Control: every step of a run preserves ControlOK and RoundInv. *)

LEMMA OutsideSafe ==
    ASSUME NEW r \in Runs, ControlOK, RoundInv, SetupStep(r) \/ DriveStep(r) \/ SaveTrace(r)
    PROVE  ControlOK' /\ RoundInv'
<1>1. CASE SetupStep(r) \/ DriveCancel(r) \/ SaveTrace(r)
  <2>1. ctx' = ctx /\ \E l \in PCs \ RoundPCs : pc' = [pc EXCEPT ![r] = l]
    <3> USE DEF PCs, InFlight, SetupPCs, RoundPCs, CallPCs, SetupFailed, SetupContinues
    <3>1. CASE ResolvePrereqs(r)
      BY <3>1 DEF ResolvePrereqs
    <3>2. CASE CreateRun(r)
      BY <3>2 DEF CreateRun
    <3>3. CASE CreateUserMessage(r)
      BY <3>3 DEF CreateUserMessage
    <3>4. CASE DriveCancel(r)
      BY <3>4 DEF DriveCancel
    <3>5. CASE SaveTrace(r)
      BY <3>5 DEF SaveTrace, DriveFinally
    <3>6. QED
      BY <1>1, <3>1, <3>2, <3>3, <3>4, <3>5 DEF SetupStep
  <2>2. QED
    BY <2>1, JumpSafe
<1>2. CASE RecheckPrereqs(r)
  <2>1. CASE LoopTop(r, NewCtx)
    BY <2>1, NewCtxTyped, LoopTopSafe
  <2>2. CASE DriveFinally(r) /\ ctx' = ctx
    <3>1. \E l \in PCs \ RoundPCs : pc' = [pc EXCEPT ![r] = l]
      BY <2>2 DEF DriveFinally, PCs, InFlight, RoundPCs, CallPCs
    <3>2. QED
      BY <2>2, <3>1, JumpSafe
  <2>3. QED
    BY <1>2, <2>1, <2>2 DEF RecheckPrereqs
<1>3. QED
  BY <1>1, <1>2 DEF DriveStep

LEMMA ModelSafe ==
    ASSUME NEW r \in Runs, ControlOK, RoundInv,
           \/ LoadHistory(r) \/ ModelToken(r) \/ ModelLastChunk(r)
           \/ ModelThrows(r) \/ ModelEnds(r)
    PROVE  ControlOK' /\ RoundInv'
<1> USE DEF PCs, InFlight, LoopPCs, BodyPCs, RoundOK, RoundPCs, CallPCs
<1>1. ctx[r] \in Ctx /\ RoundOK(pc[r], ctx[r])
  BY DEF ControlOK, RoundInv
<1>2. CASE LoadHistory(r)
  <2> DEFINE c == [ctx[r] EXCEPT !.fired = FALSE]
  <2>1. c \in Ctx
    BY <1>1, CallIndices DEF Ctx
  <2>2. RoundOK("model", c)
    BY <1>1, <1>2 DEF LoadHistory, Ctx
  <2>3. Throw(r, ctx[r]) \/ Await(r, "model", c)
    BY <1>2, Zenon DEF LoadHistory
  <2> HIDE DEF c
  <2>4. QED
    BY <1>1, <2>1, <2>2, <2>3, ThrowSafe, AwaitSafe
<1>3. CASE ModelToken(r)
  <2> DEFINE c == [ctx[r] EXCEPT !.text = TRUE]
  <2>1. c \in Ctx
    BY <1>1, CallIndices DEF Ctx
  <2>2. RoundOK("model", c)
    BY <1>1, <1>3 DEF ModelToken, Ctx
  <2>3. Await(r, "model", c)
    BY <1>3, Zenon DEF ModelToken
  <2> HIDE DEF c
  <2>4. QED
    BY <2>1, <2>2, <2>3, AwaitSafe
<1>4. CASE ModelLastChunk(r)
  <2>1. PICK n \in 0 .. MaxCalls : Await(r, "streamEnd", [ctx[r] EXCEPT !.batch = n, !.call = 0])
    BY <1>4, Zenon DEF ModelLastChunk
  <2> DEFINE c == [ctx[r] EXCEPT !.batch = n, !.call = 0]
  <2>2. c \in Ctx
    BY <1>1, CallIndices DEF Ctx
  <2>3. RoundOK("streamEnd", c)
    BY <1>1, <1>4 DEF ModelLastChunk, Ctx
  <2> HIDE DEF c
  <2>4. QED
    BY <2>1, <2>2, <2>3, AwaitSafe DEF c
<1>5. CASE ModelThrows(r)
  <2> DEFINE b == ctx[r].deadlineHit \/ CallTimedOut(r)
             c == [ctx[r] EXCEPT !.deadlineHit = b, !.fired = FALSE]
  <2>1. b \in BOOLEAN
    OBVIOUS
  <2>2. c \in Ctx
    BY <1>1, <2>1 DEF Ctx
  <2>3. Throw(r, c)
    BY <1>5, Zenon DEF ModelThrows
  <2> HIDE DEF c
  <2>4. QED
    BY <2>2, <2>3, ThrowSafe
<1>6. CASE ModelEnds(r)
  <2> DEFINE c == [ctx[r] EXCEPT !.fired = FALSE]
  <2>1. c \in Ctx
    BY <1>1, CallIndices DEF Ctx
  <2>2. pc[r] = "streamEnd"
    BY <1>6 DEF ModelEnds
  <2>3. c.iterationCount < MaxIterations /\ c.batch \in Nat
    BY <1>1, <2>2 DEF Ctx
  <2>4. \/ c.batch > 0 /\ Await(r, "saveCalls", c)
        \/ Await(r, "saveText", c)
        \/ Await(r, "complete", c)
    BY <1>6, Zenon DEF ModelEnds
  <2> HIDE DEF c
  <2>5. RoundOK("saveText", c) /\ RoundOK("complete", c) /\ (c.batch > 0 => RoundOK("saveCalls", c))
    BY <2>3
  <2>6. QED
    BY <2>1, <2>4, <2>5, AwaitSafe
<1>7. QED
  BY <1>2, <1>3, <1>4, <1>5, <1>6

LEMMA ToolSafe ==
    ASSUME NEW r \in Runs, ControlOK, RoundInv,
           \/ SaveCalls(r) \/ CreateCall(r) \/ RunTool(r) \/ RecordCall(r)
           \/ SaveToolMessage(r)
    PROVE  ControlOK' /\ RoundInv'
<1> USE DEF PCs, InFlight, LoopPCs, BodyPCs, RoundOK, RoundPCs, CallPCs
<1>1. ctx[r] \in Ctx /\ RoundOK(pc[r], ctx[r])
  BY DEF ControlOK, RoundInv
<1>2. CASE SaveCalls(r)
  <2> DEFINE c == [ctx[r] EXCEPT !.text = FALSE, !.call = 1]
  <2>1. c \in Ctx
    BY <1>1, CallIndices DEF Ctx
  <2>2. RoundOK("createCall", c)
    BY <1>1, <1>2 DEF SaveCalls, Ctx
  <2>3. Throw(r, ctx[r]) \/ Await(r, "createCall", c)
    BY <1>2, Zenon DEF SaveCalls
  <2> HIDE DEF c
  <2>4. QED
    BY <1>1, <2>1, <2>2, <2>3, ThrowSafe, AwaitSafe
<1>3. CASE CreateCall(r)
  <2> DEFINE cs == ctx[r].openToolCalls \cup {CurrentCall(r)}
             c == [ctx[r] EXCEPT !.openToolCalls = cs, !.fired = FALSE, !.status = "failed"]
  <2>1. pc[r] = "createCall"
    BY <1>3 DEF CreateCall
  <2>2. cs \in SUBSET Calls
    BY <1>1, <2>1, CurrentTyped DEF Ctx
  <2>3. c \in Ctx
    BY <1>1, <2>2 DEF Ctx
  <2>4. RoundOK("runTool", c) /\ RoundOK("recordCall", c)
    BY <1>1, <2>1 DEF Ctx
  <2>5. Throw(r, ctx[r]) \/ Await(r, "runTool", c) \/ Await(r, "recordCall", c)
    BY <1>3, Zenon DEF CreateCall
  <2> HIDE DEF c
  <2>6. QED
    BY <1>1, <2>3, <2>4, <2>5, ThrowSafe, AwaitSafe
<1>4. CASE RunTool(r)
  <2>1. PICK st \in {"completed", "failed"} :
           Await(r, "recordCall", [ctx[r] EXCEPT !.status = st, !.fired = CallTimedOut(r)])
    BY <1>4, Zenon DEF RunTool
  <2> DEFINE c == [ctx[r] EXCEPT !.status = st, !.fired = CallTimedOut(r)]
  <2>2. CallTimedOut(r) \in BOOLEAN
    BY DEF CallTimedOut
  <2>3. c \in Ctx
    BY <1>1, <2>2 DEF Ctx
  <2>4. RoundOK("recordCall", c)
    BY <1>1, <1>4 DEF RunTool, Ctx
  <2> HIDE DEF c
  <2>5. QED
    BY <2>1, <2>3, <2>4, AwaitSafe DEF c
<1>5. CASE RecordCall(r)
  <2> DEFINE cs == ctx[r].openToolCalls \ {CurrentCall(r)}
             b == ctx[r].deadlineHit \/ ctx[r].fired
             c == [ctx[r] EXCEPT !.openToolCalls = cs, !.deadlineHit = b]
  <2>1. cs \in SUBSET Calls /\ b \in BOOLEAN
    BY <1>1 DEF Ctx
  <2>2. c \in Ctx
    BY <1>1, <2>1 DEF Ctx
  <2>3. RoundOK("toolMessage", c)
    BY <1>1, <1>5 DEF RecordCall, Ctx
  <2>4. Throw(r, ctx[r]) \/ Await(r, "toolMessage", c)
    BY <1>5, Zenon DEF RecordCall
  <2> HIDE DEF c
  <2>5. QED
    BY <1>1, <2>2, <2>3, <2>4, ThrowSafe, AwaitSafe
<1>6. CASE SaveToolMessage(r)
  <2> DEFINE n == ctx[r].call + 1
             i == ctx[r].iterationCount + 1
             c == [ctx[r] EXCEPT !.call = n]
             d == [ctx[r] EXCEPT !.iterationCount = i]
  <2>1. pc[r] = "toolMessage"
    BY <1>6 DEF SaveToolMessage
  <2>2. i \in Round /\ (ctx[r].call < ctx[r].batch => n \in 0 .. MaxCalls)
    BY <1>1, <2>1 DEF Ctx, Round
  <2>3. d \in Ctx /\ (ctx[r].call < ctx[r].batch => c \in Ctx)
    BY <1>1, <2>2 DEF Ctx
  <2>4. RoundOK("createCall", c)
    BY <1>1, <2>1 DEF Ctx
  <2>5. \/ Throw(r, ctx[r])
        \/ ctx[r].call < ctx[r].batch /\ Await(r, "createCall", c)
        \/ LoopTop(r, d)
    BY <1>6, Zenon DEF SaveToolMessage
  <2> HIDE DEF c, d
  <2>6. QED
    BY <1>1, <2>3, <2>4, <2>5, ThrowSafe, AwaitSafe, LoopTopSafe
<1>7. QED
  BY <1>2, <1>3, <1>4, <1>5, <1>6

LEMMA ExitSafe ==
    ASSUME NEW r \in Runs, ControlOK, RoundInv,
           \/ FailMaxIterations(r) \/ SaveText(r) \/ Complete(r)
           \/ FinalizeRun(r) \/ CloseCalls(r)
    PROVE  ControlOK' /\ RoundInv'
<1>1. ctx[r] \in Ctx
  BY DEF ControlOK
<1>2. \A l \in {"complete", "saveTrace"} : l \in PCs /\ RoundOK(l, ctx[r])
  BY DEF PCs, InFlight, LoopPCs, BodyPCs, ExitPCs, RoundOK, RoundPCs, CallPCs
<1>3. \/ Throw(r, ctx[r]) \/ LoopFinally(r, ctx[r])
      \/ Await(r, "complete", ctx[r]) \/ Await(r, "saveTrace", ctx[r])
  BY Zenon DEF FailMaxIterations, SaveText, Complete, FinalizeRun, CloseCalls
<1>4. QED
  BY <1>1, <1>2, <1>3, ThrowSafe, LoopFinallySafe, AwaitSafe

LEMMA ControlStep ==
    ASSUME TypeInv, [Next]_vars
    PROVE  ControlOK' /\ RoundInv'
<1>1. ControlOK /\ RoundInv
  BY DEF TypeInv, TypeOK, ControlOK
<1>2. ASSUME NEW r \in Runs, RunStep(r) PROVE ControlOK' /\ RoundInv'
  BY <1>1, <1>2, OutsideSafe, ModelSafe, ToolSafe, ExitSafe
     DEF RunStep, SetupStep, RoundStep, ExitStep, DriveStep
<1>3. ASSUME NEW r \in Runs, StartRun(r) \/ StartConflict(r) PROVE ControlOK' /\ RoundInv'
  <2>1. ctx' = ctx /\ \E l \in PCs \ RoundPCs : pc' = [pc EXCEPT ![r] = l]
    BY <1>3 DEF StartRun, StartConflict, PCs, InFlight, SetupPCs, RoundPCs, CallPCs
  <2>2. QED
    BY <1>1, <2>1, JumpSafe
<1>4. ASSUME NEW r \in Runs, CallDeadline(r) PROVE ControlOK' /\ RoundInv'
  <2> DEFINE c == [ctx[r] EXCEPT !.fired = TRUE]
  <2>1. c \in Ctx /\ RoundOK(pc[r], c)
    BY <1>1 DEF ControlOK, RoundInv, RoundOK, Ctx
  <2>2. pc' = pc /\ ctx' = [ctx EXCEPT ![r] = c]
    BY <1>4 DEF CallDeadline
  <2> HIDE DEF c
  <2>3. QED
    BY <1>1, <2>1, <2>2 DEF ControlOK, RoundInv
<1>5. ASSUME UNCHANGED <<pc, ctx>> PROVE ControlOK' /\ RoundInv'
  BY <1>1, <1>5 DEF ControlOK, RoundInv
<1>6. ASSUME RestartProcess PROVE ControlOK' /\ RoundInv'
  BY <1>1, <1>6 DEF RestartProcess, ControlOK, RoundInv, RoundOK, PCs, RoundPCs, CallPCs
<1>7. ASSUME NEW r \in Runs, RequestCancel(r) \/ TotalDeadline(r) PROVE UNCHANGED <<pc, ctx>>
  BY <1>7 DEF RequestCancel, TotalDeadline
<1>8. ASSUME NEW s \in Sessions, UpdateSession(s) PROVE UNCHANGED <<pc, ctx>>
  BY <1>8 DEF UpdateSession
<1>9. ASSUME UNCHANGED vars PROVE UNCHANGED <<pc, ctx>>
  BY <1>9 DEF vars
<1>10. QED
  BY <1>2, <1>3, <1>4, <1>5, <1>6, <1>7, <1>8, <1>9 DEF Next

-----------------------------------------------------------------------------
(* Data: the rows, the registry and the history variables. *)

ServiceOK == /\ locks \in [Sessions -> Runs \cup {None}]
             /\ activeRuns \subseteq Runs
             /\ cancelledRuns \subseteq Runs
RunRowOK  == runRow \in [Runs -> {"absent"} \cup RunStatus]
ToolRowOK == toolRow \in [Runs -> [Calls -> {"absent", "started", "completed", "failed"}]]
MessageOK == messages \in [Runs -> SUBSET Message]
RestOK    == /\ abortReason \in [Runs -> {"none", "cancel", "total"}]
             /\ sessionRow \in [Sessions -> {"active", "closed"}]
             /\ traceRow \in [Runs -> {"absent", "ok", "error"}]
             /\ event \in [Runs -> {"none"} \cup Events]
             /\ cancelRequested \in [Runs -> {"none"} \cup CancelPhases]
             /\ deadlineFired \subseteq Runs

LEMMA TypeParts == TypeOK <=> /\ ControlOK /\ ServiceOK /\ RunRowOK /\ ToolRowOK
                              /\ MessageOK /\ RestOK
BY DEF TypeOK, ControlOK, ServiceOK, RunRowOK, ToolRowOK, MessageOK, RestOK

LEMMA FreeSessionTyped ==
    ASSUME NEW r \in Runs, ServiceOK, FreeSession(r)
    PROVE  locks' \in [Sessions -> Runs \cup {None}] /\ activeRuns' \subseteq Runs
BY DEF ServiceOK, FreeSession, Released

LEMMA TransitionTyped ==
    ASSUME NEW r \in Runs, RunRowOK, NEW st \in Terminal, NEW o, Transition(r, st, o)
    PROVE  RunRowOK'
BY DEF RunRowOK, Transition, RunStatus

LEMMA CallTransitionTyped ==
    ASSUME NEW r \in Runs, ToolRowOK, NEW cs, NEW st \in {"completed", "failed"}, NEW o,
           CallTransition(r, cs, st, o)
    PROVE  ToolRowOK'
BY DEF ToolRowOK, CallTransition

LEMMA PersistTyped ==
    ASSUME NEW r \in Runs, MessageOK, NEW m \in Message, NEW o, Persist(r, m, o)
    PROVE  MessageOK'
BY DEF MessageOK, Persist

LEMMA ServiceStep ==
    ASSUME ServiceOK, [Next]_vars
    PROVE  ServiceOK'
<1>1. ASSUME NEW r \in Runs, SetupStep(r) PROVE ServiceOK'
  BY <1>1, FreeSessionTyped DEF SetupStep, ResolvePrereqs, CreateRun, CreateUserMessage,
     SetupFailed, SetupContinues, serviceVars, ServiceOK
<1>2. ASSUME NEW r \in Runs, DriveFinally(r) PROVE ServiceOK'
  BY <1>2, FreeSessionTyped DEF DriveFinally, serviceVars, ServiceOK
<1>3. ASSUME NEW r \in Runs, DriveStep(r) \/ SaveTrace(r) PROVE ServiceOK'
  BY <1>2, <1>3, FreeSessionTyped
     DEF DriveStep, RecheckPrereqs, DriveCancel, SaveTrace, serviceVars, ServiceOK
<1>4. ASSUME NEW r \in Runs, RoundStep(r) PROVE UNCHANGED serviceVars
  BY <1>4, Zenon DEF RoundStep, LoadHistory, ModelToken, ModelLastChunk, ModelThrows, ModelEnds,
     SaveCalls, CreateCall, RunTool, RecordCall, SaveToolMessage, loopFrame
<1>5. ASSUME NEW r \in Runs, ExitStep(r), ~SaveTrace(r) PROVE UNCHANGED serviceVars
  BY <1>5, Zenon DEF ExitStep, FailMaxIterations, SaveText, Complete, FinalizeRun, CloseCalls,
     loopFrame
<1>6. ASSUME NEW r \in Runs, StartRun(r) \/ StartConflict(r) \/ RequestCancel(r) PROVE ServiceOK'
  BY <1>6 DEF StartRun, StartConflict, RequestCancel, Acquired, serviceVars, ServiceOK
<1>7. ASSUME NEW r \in Runs, CallDeadline(r) \/ TotalDeadline(r) PROVE UNCHANGED serviceVars
  BY <1>7 DEF CallDeadline, TotalDeadline
<1>8. ASSUME NEW s \in Sessions, UpdateSession(s) PROVE UNCHANGED serviceVars
  BY <1>8 DEF UpdateSession
<1>9. ASSUME RestartProcess PROVE ServiceOK'
  BY <1>9 DEF RestartProcess, ServiceOK
<1>10. ASSUME UNCHANGED vars PROVE UNCHANGED serviceVars
  BY <1>10 DEF vars
<1>11. ASSUME UNCHANGED serviceVars PROVE ServiceOK'
  BY <1>11 DEF serviceVars, ServiceOK
<1>12. QED
  BY <1>1, <1>3, <1>4, <1>5, <1>6, <1>7, <1>8, <1>9, <1>10, <1>11 DEF Next, RunStep

LEMMA RunRowStep ==
    ASSUME TypeInv, [Next]_vars
    PROVE  RunRowOK'
<1>1. RunRowOK
  BY TypeParts DEF TypeInv
<1>2. ASSUME NEW r \in Runs, CreateRun(r) PROVE RunRowOK'
  BY <1>1, <1>2 DEF CreateRun, RunRowOK, RunStatus
<1>3. ASSUME NEW r \in Runs, FailMaxIterations(r) \/ Complete(r) \/ DriveCancel(r)
      PROVE  RunRowOK'
  BY <1>1, <1>3, TransitionTyped DEF FailMaxIterations, Complete, DriveCancel, Terminal
<1>4. ASSUME NEW r \in Runs, FinalizeRun(r) PROVE RunRowOK'
  <2>1. StatusOf(ctx[r].cause) \in Terminal
    BY DEF TypeInv, TypeOK, Ctx, Causes, StatusOf, Terminal
  <2>2. QED
    BY <1>1, <1>4, <2>1, TransitionTyped DEF FinalizeRun
<1>5. ASSUME NEW r \in Runs, RoundStep(r) PROVE UNCHANGED runRow
  BY <1>5, Zenon DEF RoundStep, LoadHistory, ModelToken, ModelLastChunk, ModelThrows, ModelEnds,
     SaveCalls, CreateCall, RunTool, RecordCall, SaveToolMessage
<1>6. ASSUME NEW r \in Runs, SaveText(r) \/ CloseCalls(r) \/ SaveTrace(r) PROVE UNCHANGED runRow
  BY <1>6, Zenon DEF SaveText, CloseCalls, SaveTrace
<1>7. ASSUME NEW r \in Runs, ResolvePrereqs(r) \/ CreateUserMessage(r) \/ RecheckPrereqs(r)
      PROVE  UNCHANGED runRow
  BY <1>7 DEF ResolvePrereqs, CreateUserMessage, RecheckPrereqs, dbVars
<1>8. ASSUME NEW r \in Runs, \/ StartRun(r) \/ StartConflict(r) \/ RequestCancel(r)
                             \/ CallDeadline(r) \/ TotalDeadline(r)
      PROVE  UNCHANGED runRow
  BY <1>8 DEF StartRun, StartConflict, RequestCancel, CallDeadline, TotalDeadline, dbVars
<1>9. ASSUME NEW s \in Sessions, UpdateSession(s) PROVE UNCHANGED runRow
  BY <1>9 DEF UpdateSession
<1>10. ASSUME RestartProcess PROVE UNCHANGED runRow
  BY <1>10 DEF RestartProcess, dbVars
<1>11. ASSUME UNCHANGED vars PROVE UNCHANGED runRow
  BY <1>11 DEF vars, dbVars
<1>12. ASSUME UNCHANGED runRow PROVE RunRowOK'
  BY <1>1, <1>12 DEF RunRowOK
<1>13. QED
  BY <1>2, <1>3, <1>4, <1>5, <1>6, <1>7, <1>8, <1>9, <1>10, <1>11, <1>12
     DEF Next, RunStep, SetupStep, ExitStep, DriveStep

LEMMA ToolRowStep ==
    ASSUME TypeInv, [Next]_vars
    PROVE  ToolRowOK'
<1>1. ToolRowOK /\ ControlOK /\ RoundInv
  BY TypeParts DEF TypeInv
<1>2. ASSUME NEW r \in Runs, CreateCall(r) PROVE ToolRowOK'
  <2>1. CurrentCall(r) \in Calls
    BY <1>1, <1>2, CurrentTyped DEF CreateCall, ControlOK, RoundInv, CallPCs
  <2>2. \/ toolRow' = toolRow
        \/ toolRow' = [toolRow EXCEPT ![r][CurrentCall(r)] = "started"]
    BY <1>2, Zenon DEF CreateCall
  <2>3. QED
    BY <1>1, <2>1, <2>2 DEF ToolRowOK
<1>3. ASSUME NEW r \in Runs, RecordCall(r) PROVE ToolRowOK'
  <2>1. ctx[r].status \in {"completed", "failed"}
    BY <1>1 DEF ControlOK, Ctx
  <2>2. \E o : CallTransition(r, {CurrentCall(r)}, ctx[r].status, o)
    BY <1>3, Zenon DEF RecordCall
  <2>3. QED
    BY <1>1, <2>1, <2>2, CallTransitionTyped
<1>4. ASSUME NEW r \in Runs, CloseCalls(r) PROVE ToolRowOK'
  <2>1. \E o : CallTransition(r, ctx[r].openToolCalls, "failed", o)
    BY <1>4, Zenon DEF CloseCalls
  <2>2. QED
    BY <1>1, <2>1, CallTransitionTyped
<1>5. ASSUME NEW r \in Runs, RoundStep(r), ~CreateCall(r), ~RecordCall(r) PROVE UNCHANGED toolRow
  BY <1>5, Zenon DEF RoundStep, LoadHistory, ModelToken, ModelLastChunk, ModelThrows, ModelEnds,
     SaveCalls, RunTool, SaveToolMessage
<1>6. ASSUME NEW r \in Runs, ExitStep(r), ~CloseCalls(r) PROVE UNCHANGED toolRow
  BY <1>6, Zenon DEF ExitStep, FailMaxIterations, SaveText, Complete, FinalizeRun, SaveTrace
<1>7. ASSUME NEW r \in Runs, SetupStep(r) \/ DriveStep(r) PROVE UNCHANGED toolRow
  BY <1>7 DEF SetupStep, DriveStep, ResolvePrereqs, CreateRun, CreateUserMessage,
     RecheckPrereqs, DriveCancel, dbVars
<1>8. ASSUME NEW r \in Runs, \/ StartRun(r) \/ StartConflict(r) \/ RequestCancel(r)
                             \/ CallDeadline(r) \/ TotalDeadline(r)
      PROVE  UNCHANGED toolRow
  BY <1>8 DEF StartRun, StartConflict, RequestCancel, CallDeadline, TotalDeadline, dbVars
<1>9. ASSUME NEW s \in Sessions, UpdateSession(s) PROVE UNCHANGED toolRow
  BY <1>9 DEF UpdateSession
<1>10. ASSUME RestartProcess \/ UNCHANGED vars PROVE UNCHANGED toolRow
  BY <1>10 DEF RestartProcess, dbVars, vars
<1>11. ASSUME UNCHANGED toolRow PROVE ToolRowOK'
  BY <1>1, <1>11 DEF ToolRowOK
<1>12. QED
  BY <1>2, <1>3, <1>4, <1>5, <1>6, <1>7, <1>8, <1>9, <1>10, <1>11 DEF Next, RunStep

LEMMA MessageStep ==
    ASSUME TypeInv, [Next]_vars
    PROVE  MessageOK'
<1>1. MessageOK /\ ControlOK
  BY TypeParts DEF TypeInv
<1>2. ASSUME NEW r \in Runs
      PROVE  /\ UserMessage \in Message
             /\ CallsMessage(ctx[r].iterationCount, ctx[r].batch) \in Message
             /\ ToolMessage(ctx[r].iterationCount, ctx[r].call) \in Message
             /\ FinalMessage(ctx[r].iterationCount) \in Message
  BY <1>1, CallIndices DEF ControlOK, Ctx, Message, Round, UserMessage, CallsMessage,
     ToolMessage, FinalMessage
<1>3. ASSUME NEW r \in Runs, CreateUserMessage(r) PROVE MessageOK'
  BY <1>1, <1>2, <1>3, PersistTyped DEF CreateUserMessage
<1>4. ASSUME NEW r \in Runs, SaveCalls(r) PROVE MessageOK'
  <2>1. \E o : Persist(r, CallsMessage(ctx[r].iterationCount, ctx[r].batch), o)
    BY <1>4, Zenon DEF SaveCalls
  <2>2. QED
    BY <1>1, <1>2, <2>1, PersistTyped
<1>5. ASSUME NEW r \in Runs, SaveToolMessage(r) PROVE MessageOK'
  <2>1. \E o : Persist(r, ToolMessage(ctx[r].iterationCount, ctx[r].call), o)
    BY <1>5, Zenon DEF SaveToolMessage
  <2>2. QED
    BY <1>1, <1>2, <2>1, PersistTyped
<1>6. ASSUME NEW r \in Runs, SaveText(r) PROVE MessageOK'
  <2>1. \E o : Persist(r, FinalMessage(ctx[r].iterationCount), o)
    BY <1>6, Zenon DEF SaveText
  <2>2. QED
    BY <1>1, <1>2, <2>1, PersistTyped
<1>7. ASSUME NEW r \in Runs, RoundStep(r), ~SaveCalls(r), ~SaveToolMessage(r)
      PROVE  UNCHANGED messages
  BY <1>7, Zenon DEF RoundStep, LoadHistory, ModelToken, ModelLastChunk, ModelThrows, ModelEnds,
     CreateCall, RunTool, RecordCall
<1>8. ASSUME NEW r \in Runs, ExitStep(r), ~SaveText(r) PROVE UNCHANGED messages
  BY <1>8, Zenon DEF ExitStep, FailMaxIterations, Complete, FinalizeRun, CloseCalls, SaveTrace
<1>9. ASSUME NEW r \in Runs, ResolvePrereqs(r) \/ CreateRun(r) \/ DriveStep(r)
      PROVE  UNCHANGED messages
  BY <1>9 DEF DriveStep, ResolvePrereqs, CreateRun, RecheckPrereqs, DriveCancel, dbVars
<1>10. ASSUME NEW r \in Runs, \/ StartRun(r) \/ StartConflict(r) \/ RequestCancel(r)
                              \/ CallDeadline(r) \/ TotalDeadline(r)
       PROVE  UNCHANGED messages
  BY <1>10 DEF StartRun, StartConflict, RequestCancel, CallDeadline, TotalDeadline, dbVars
<1>11. ASSUME NEW s \in Sessions, UpdateSession(s) PROVE UNCHANGED messages
  BY <1>11 DEF UpdateSession
<1>12. ASSUME RestartProcess \/ UNCHANGED vars PROVE UNCHANGED messages
  BY <1>12 DEF RestartProcess, dbVars, vars
<1>13. ASSUME UNCHANGED messages PROVE MessageOK'
  BY <1>1, <1>13 DEF MessageOK
<1>14. QED
  BY <1>3, <1>4, <1>5, <1>6, <1>7, <1>8, <1>9, <1>10, <1>11, <1>12, <1>13
     DEF Next, RunStep, SetupStep

LEMMA RestStep ==
    ASSUME TypeInv, [Next]_vars
    PROVE  RestOK'
<1> DEFINE restVars == <<abortReason, sessionRow, traceRow, event, ghostVars>>
<1>1. RestOK /\ ControlOK
  BY TypeParts DEF TypeInv
<1>2. ASSUME NEW r \in Runs, RoundStep(r) PROVE UNCHANGED restVars
  BY <1>2, Zenon DEF RoundStep, LoadHistory, ModelToken, ModelLastChunk, ModelThrows, ModelEnds,
     SaveCalls, CreateCall, RunTool, RecordCall, SaveToolMessage, loopFrame
<1>3. ASSUME NEW r \in Runs, SetupStep(r) \/ DriveStep(r) \/ StartRun(r) \/ StartConflict(r)
      PROVE  UNCHANGED restVars
  BY <1>3 DEF SetupStep, DriveStep, ResolvePrereqs, CreateRun, CreateUserMessage,
     RecheckPrereqs, DriveCancel, StartRun, StartConflict, dbVars
<1>4. ASSUME NEW r \in Runs, SaveText(r) \/ CloseCalls(r) PROVE UNCHANGED restVars
  BY <1>4, Zenon DEF SaveText, CloseCalls, loopFrame
<1>5. ASSUME NEW r \in Runs, FailMaxIterations(r) \/ Complete(r) \/ FinalizeRun(r) PROVE RestOK'
  <2>1. CodeOf(ctx[r].cause) \in Events
    BY <1>1 DEF ControlOK, Ctx, Causes, CodeOf, Events
  <2>2. UNCHANGED loopFrame /\ (UNCHANGED event \/ \E e \in Events : Emit(r, e))
    BY <1>5, <2>1 DEF FailMaxIterations, Complete, FinalizeRun, Events
  <2>3. QED
    BY <1>1, <2>2 DEF RestOK, loopFrame, ghostVars, Emit
<1>6. ASSUME NEW r \in Runs, SaveTrace(r) PROVE RestOK'
  BY <1>1, <1>6 DEF SaveTrace, RestOK, ghostVars
<1>7. ASSUME NEW r \in Runs, RequestCancel(r) PROVE RestOK'
  <2>1. PhaseOf(pc[r]) \in CancelPhases
    BY DEF PhaseOf, CancelPhases
  <2>2. QED
    BY <1>1, <1>7, <2>1 DEF RequestCancel, RestOK, dbVars
<1>8. ASSUME NEW r \in Runs, CallDeadline(r) PROVE RestOK'
  BY <1>1, <1>8 DEF CallDeadline, RestOK, dbVars
<1>9. ASSUME NEW r \in Runs, TotalDeadline(r) PROVE RestOK'
  BY <1>1, <1>9 DEF TotalDeadline, RestOK, dbVars
<1>10. ASSUME NEW s \in Sessions, UpdateSession(s) PROVE RestOK'
  BY <1>1, <1>10 DEF UpdateSession, RestOK, ghostVars
<1>11. ASSUME RestartProcess \/ UNCHANGED vars PROVE UNCHANGED restVars
  BY <1>11 DEF RestartProcess, dbVars, vars
<1>12. ASSUME UNCHANGED restVars PROVE RestOK'
  BY <1>1, <1>12 DEF RestOK, ghostVars
<1> HIDE DEF restVars
<1>13. QED
  BY <1>2, <1>3, <1>4, <1>5, <1>6, <1>7, <1>8, <1>9, <1>10, <1>11, <1>12
     DEF Next, RunStep, ExitStep

-----------------------------------------------------------------------------
(* The strengthened invariant holds initially. *)
LEMMA TypeInit == Init => TypeInv
<1> SUFFICES ASSUME Init PROVE TypeInv
  OBVIOUS
<1>1. ControlOK
  BY NewCtxTyped DEF Init, ControlOK, PCs
<1>2. RoundInv
  BY DEF Init, RoundInv, RoundOK, RoundPCs, CallPCs
<1>3. ServiceOK /\ RunRowOK /\ ToolRowOK /\ MessageOK /\ RestOK
  BY DEF Init, ServiceOK, RunRowOK, ToolRowOK, MessageOK, RestOK
<1>4. QED
  BY <1>1, <1>2, <1>3, TypeParts DEF TypeInv

(* The strengthened invariant is inductive. *)
LEMMA TypeStep == TypeInv /\ [Next]_vars => TypeInv'
<1> SUFFICES ASSUME TypeInv, [Next]_vars PROVE TypeInv'
  OBVIOUS
<1>1. ControlOK' /\ RoundInv'
  BY ControlStep
<1>2. ServiceOK'
  BY TypeParts, ServiceStep DEF TypeInv
<1>3. RunRowOK' /\ ToolRowOK' /\ MessageOK' /\ RestOK'
  BY RunRowStep, ToolRowStep, MessageStep, RestStep
<1>4. QED
  BY <1>1, <1>2, <1>3, TypeParts DEF TypeInv, TypeOK, ControlOK, ServiceOK, RunRowOK,
     ToolRowOK, MessageOK, RestOK

(* The inductive invariant of the types holds throughout. *)
THEOREM TypeInvCorrect == Spec => []TypeInv
BY TypeInit, TypeStep, PTL DEF Spec

(* Every reachable state is well typed: in particular the loop's round     *)
(* counter never passes maxToolIterations and every tool-call row the loop *)
(* addresses belongs to a round it may run (loop.ts, while condition).     *)
THEOREM TypeCorrect == Spec => []TypeOK
<1>1. TypeInv => TypeOK
  BY DEF TypeInv
<1>2. QED
  BY <1>1, TypeInvCorrect, PTL

-----------------------------------------------------------------------------
(* Locks and rows *)

(* A run is in flight exactly while it holds its session's lock, and is    *)
(* then in the registry.                                                   *)
LockInv ==
    /\ \A r \in Runs : pc[r] \in InFlight <=> locks[SessionOf[r]] = r
    /\ \A s \in Sessions : locks[s] # None => SessionOf[locks[s]] = s
    /\ \A r \in Runs : pc[r] \in InFlight => r \in activeRuns

(* A run that has not awaited its insert has no row. *)
RowInv == \A r \in Runs : pc[r] \in {"idle", "prereqs", "createRun"} => runRow[r] = "absent"

IInv == TypeInv /\ LockInv /\ RowInv

-----------------------------------------------------------------------------
(* A run step starts in flight and either moves the run to another await,  *)
(* past the prerequisites, with the lock and registry untouched, or ends   *)
(* it and frees the session.                                               *)
Stays(r) == /\ \E l \in InFlight \ {"prereqs"} :
                  /\ pc' = [pc EXCEPT ![r] = l]
                  /\ l = "createRun" => pc[r] = "prereqs"
            /\ locks' = locks
            /\ activeRuns' = activeRuns
Ends(r)  == /\ pc' = [pc EXCEPT ![r] = "done"]
            /\ FreeSession(r)

(* A run step leaves every row as it is, inserts the run's own row, or     *)
(* moves it from `running` to a terminal status.                           *)
KeepsRow(r)   == runRow' = runRow
InsertsRow(r) == pc[r] = "createRun" /\ runRow' = [runRow EXCEPT ![r] = "running"]
SettlesRow(r) == /\ runRow[r] = "running"
                 /\ \E st \in Terminal : runRow' = [runRow EXCEPT ![r] = st]

(* LoopTop and Throw only ever lead to an await of the loop. *)
LEMMA LoopMoves ==
    ASSUME NEW r \in Runs, NEW c, LoopTop(r, c) \/ Throw(r, c) \/ LoopFinally(r, c)
    PROVE  \E l \in LoopPCs : pc' = [pc EXCEPT ![r] = l]
BY DEF LoopTop, Throw, LoopFinally, Await, LoopPCs, BodyPCs, ExitPCs

LEMMA SetupShape ==
    ASSUME NEW r \in Runs, SetupStep(r)
    PROVE  /\ pc[r] \in InFlight
           /\ Stays(r) \/ Ends(r)
           /\ KeepsRow(r) \/ InsertsRow(r)
<1> USE DEF InFlight, SetupPCs, Stays, Ends, KeepsRow, InsertsRow, SetupFailed,
            SetupContinues, serviceVars, dbVars
<1>1. CASE ResolvePrereqs(r)
  BY <1>1 DEF ResolvePrereqs
<1>2. CASE CreateRun(r)
  BY <1>2 DEF CreateRun
<1>3. CASE CreateUserMessage(r)
  BY <1>3 DEF CreateUserMessage
<1>4. QED
  BY <1>1, <1>2, <1>3 DEF SetupStep

LEMMA RoundShape ==
    ASSUME NEW r \in Runs, RoundStep(r)
    PROVE  pc[r] \in InFlight /\ Stays(r) /\ KeepsRow(r)
<1> USE DEF InFlight, LoopPCs, BodyPCs, ExitPCs, SetupPCs, Stays, KeepsRow, loopFrame, serviceVars
<1>1. CASE LoadHistory(r)
  BY <1>1, LoopMoves DEF LoadHistory, Await
<1>2. CASE ModelToken(r)
  BY <1>2 DEF ModelToken, Await
<1>3. CASE ModelLastChunk(r)
  BY <1>3 DEF ModelLastChunk, Await
<1>4. CASE ModelThrows(r)
  BY <1>4, LoopMoves DEF ModelThrows
<1>5. CASE ModelEnds(r)
  BY <1>5 DEF ModelEnds, Await
<1>6. CASE SaveCalls(r)
  BY <1>6, LoopMoves DEF SaveCalls, Await
<1>7. CASE CreateCall(r)
  BY <1>7, LoopMoves DEF CreateCall, Await
<1>8. CASE RunTool(r)
  BY <1>8 DEF RunTool, Await
<1>9. CASE RecordCall(r)
  BY <1>9, LoopMoves DEF RecordCall, Await
<1>10. CASE SaveToolMessage(r)
  BY <1>10, LoopMoves DEF SaveToolMessage, Await
<1>11. QED
  BY <1>1, <1>2, <1>3, <1>4, <1>5, <1>6, <1>7, <1>8, <1>9, <1>10 DEF RoundStep

(* A conditional UPDATE keeps the row or settles it. *)
LEMMA TransitionShape ==
    ASSUME NEW r \in Runs, NEW st \in Terminal, NEW o, Transition(r, st, o)
    PROVE  KeepsRow(r) \/ SettlesRow(r)
BY DEF Transition, KeepsRow, SettlesRow

LEMMA ExitShape ==
    ASSUME NEW r \in Runs, TypeOK, ExitStep(r)
    PROVE  /\ pc[r] \in InFlight
           /\ \/ Stays(r) /\ (KeepsRow(r) \/ SettlesRow(r))
              \/ Ends(r) /\ KeepsRow(r)
<1> USE DEF InFlight, LoopPCs, BodyPCs, ExitPCs, SetupPCs, Stays, Ends, loopFrame, serviceVars
<1>1. CASE FailMaxIterations(r)
  <2>1. KeepsRow(r) \/ SettlesRow(r)
    BY <1>1, TransitionShape DEF FailMaxIterations, Terminal
  <2>2. QED
    BY <1>1, <2>1, LoopMoves DEF FailMaxIterations
<1>2. CASE SaveText(r)
  BY <1>2, LoopMoves DEF SaveText, Await, KeepsRow
<1>3. CASE Complete(r)
  <2>1. KeepsRow(r) \/ SettlesRow(r)
    BY <1>3, TransitionShape DEF Complete, Terminal
  <2>2. QED
    BY <1>3, <2>1, LoopMoves DEF Complete
<1>4. CASE FinalizeRun(r)
  <2>1. StatusOf(ctx[r].cause) \in Terminal
    BY DEF TypeOK, Ctx, Causes, StatusOf, Terminal
  <2>2. KeepsRow(r) \/ SettlesRow(r)
    BY <1>4, <2>1, TransitionShape DEF FinalizeRun
  <2>3. QED
    BY <1>4, <2>2, LoopMoves DEF FinalizeRun
<1>5. CASE CloseCalls(r)
  <2>1. pc[r] = "closeCalls" /\ Await(r, "saveTrace", ctx[r]) /\ UNCHANGED <<loopFrame, runRow>>
    BY <1>5, Zenon DEF CloseCalls
  <2>2. QED
    BY <2>1 DEF Await, KeepsRow
<1>6. CASE SaveTrace(r)
  BY <1>6 DEF SaveTrace, DriveFinally, KeepsRow
<1>7. QED
  BY <1>1, <1>2, <1>3, <1>4, <1>5, <1>6 DEF ExitStep

LEMMA DriveShape ==
    ASSUME NEW r \in Runs, DriveStep(r)
    PROVE  /\ pc[r] \in InFlight
           /\ \/ Stays(r) /\ KeepsRow(r)
              \/ Ends(r) /\ \/ KeepsRow(r)
                            \/ /\ runRow[r] = "running"
                               /\ runRow' = [runRow EXCEPT ![r] = "cancelled"]
<1> USE DEF InFlight, LoopPCs, BodyPCs, ExitPCs, SetupPCs, Stays, Ends, KeepsRow, serviceVars
<1>1. CASE RecheckPrereqs(r)
  BY <1>1, LoopMoves DEF RecheckPrereqs, DriveFinally, dbVars
<1>2. CASE DriveCancel(r)
  BY <1>2 DEF DriveCancel, Transition
<1>3. QED
  BY <1>1, <1>2 DEF DriveStep
(* The shape of every step of the system, as far as control, lock and rows *)
(* are concerned.                                                          *)
Takes(r) == /\ pc[r] = "idle"
            /\ locks[SessionOf[r]] = None
            /\ locks' = [locks EXCEPT ![SessionOf[r]] = r]
            /\ activeRuns' = activeRuns \cup {r}
            /\ pc' = [pc EXCEPT ![r] = "prereqs"]
            /\ runRow' = runRow
Refused(r) == /\ pc[r] = "idle"
              /\ pc' = [pc EXCEPT ![r] = "rejected"]
              /\ UNCHANGED <<locks, activeRuns, runRow>>
Moves(r) == pc[r] \in InFlight /\ Stays(r) /\ (KeepsRow(r) \/ InsertsRow(r) \/ SettlesRow(r))
Leaves(r) == /\ pc[r] \in InFlight
             /\ Ends(r)
             /\ \/ KeepsRow(r)
                \/ InsertsRow(r)
                \/ runRow[r] = "running" /\ runRow' = [runRow EXCEPT ![r] = "cancelled"]
Restarts == /\ pc' = [r \in Runs |-> IF pc[r] \in InFlight THEN "abandoned" ELSE pc[r]]
            /\ locks' = [s \in Sessions |-> None]
            /\ activeRuns' = {}
            /\ runRow' = runRow

LEMMA StepShape ==
    ASSUME TypeOK, [Next]_vars
    PROVE  \/ UNCHANGED <<locks, activeRuns, pc, runRow>>
           \/ Restarts
           \/ \E r \in Runs : Takes(r) \/ Refused(r) \/ Moves(r) \/ Leaves(r)
<1>1. ASSUME NEW r \in Runs, StartRun(r) PROVE Takes(r)
  BY <1>1 DEF StartRun, Takes, Acquired, dbVars
<1>2. ASSUME NEW r \in Runs, StartConflict(r) PROVE Refused(r)
  BY <1>2 DEF StartConflict, Refused, serviceVars, dbVars
<1>3. ASSUME NEW r \in Runs, RunStep(r) PROVE Moves(r) \/ Leaves(r)
  BY <1>3, SetupShape, RoundShape, ExitShape, DriveShape DEF RunStep, Moves, Leaves
<1>4. ASSUME NEW r \in Runs, RequestCancel(r) \/ CallDeadline(r) \/ TotalDeadline(r)
      PROVE  UNCHANGED <<locks, activeRuns, pc, runRow>>
  BY <1>4 DEF RequestCancel, CallDeadline, TotalDeadline, serviceVars, dbVars
<1>5. ASSUME NEW s \in Sessions, UpdateSession(s)
      PROVE  UNCHANGED <<locks, activeRuns, pc, runRow>>
  BY <1>5 DEF UpdateSession, serviceVars
<1>6. ASSUME RestartProcess PROVE Restarts
  BY <1>6 DEF RestartProcess, Restarts, dbVars
<1>7. ASSUME UNCHANGED vars PROVE UNCHANGED <<locks, activeRuns, pc, runRow>>
  BY <1>7 DEF vars, serviceVars, dbVars
<1>8. QED
  BY <1>1, <1>2, <1>3, <1>4, <1>5, <1>6, <1>7 DEF Next

-----------------------------------------------------------------------------
(* The inductive invariant *)

LEMMA LockInvInit == Init => LockInv /\ RowInv
BY DEF Init, LockInv, RowInv, InFlight, SetupPCs, LoopPCs, BodyPCs, ExitPCs

(* Labels outside InFlight. *)
LEMMA NotInFlight == /\ "idle" \notin InFlight /\ "done" \notin InFlight
                     /\ "rejected" \notin InFlight /\ "abandoned" \notin InFlight
                     /\ "prereqs" \in InFlight /\ "createRun" \in InFlight
BY DEF InFlight, SetupPCs, LoopPCs, BodyPCs, ExitPCs

LEMMA LockInvStep ==
    ASSUME IInv, [Next]_vars
    PROVE  LockInv'
<1>1. /\ locks \in [Sessions -> Runs \cup {None}]
      /\ pc \in [Runs -> PCs]
      /\ LockInv
  BY DEF IInv, TypeInv, TypeOK
<1>2. CASE UNCHANGED <<locks, activeRuns, pc, runRow>>
  BY <1>1, <1>2 DEF LockInv
<1>3. CASE Restarts
  BY <1>1, <1>3, NotInFlight DEF LockInv, Restarts
<1>4. ASSUME NEW r \in Runs, Takes(r) PROVE LockInv'
  BY <1>1, <1>4, NotInFlight DEF LockInv, Takes
<1>5. ASSUME NEW r \in Runs, Refused(r) PROVE LockInv'
  BY <1>1, <1>5, NotInFlight DEF LockInv, Refused
<1>6. ASSUME NEW r \in Runs, Moves(r) PROVE LockInv'
  BY <1>1, <1>6 DEF LockInv, Moves, Stays
<1>7. ASSUME NEW r \in Runs, Leaves(r) PROVE LockInv'
  BY <1>1, <1>7, NotInFlight DEF LockInv, Leaves, Ends, FreeSession, Released
<1>8. QED
  BY <1>2, <1>3, <1>4, <1>5, <1>6, <1>7, StepShape DEF IInv, TypeInv

LEMMA RowInvStep ==
    ASSUME IInv, [Next]_vars
    PROVE  RowInv'
<1>1. /\ pc \in [Runs -> PCs]
      /\ runRow \in [Runs -> {"absent"} \cup RunStatus]
      /\ RowInv
  BY DEF IInv, TypeInv, TypeOK
<1>2. CASE UNCHANGED <<locks, activeRuns, pc, runRow>>
  BY <1>1, <1>2 DEF RowInv
<1>3. CASE Restarts
  BY <1>1, <1>3, NotInFlight DEF RowInv, Restarts
<1>4. ASSUME NEW r \in Runs, Takes(r) PROVE RowInv'
  BY <1>1, <1>4 DEF RowInv, Takes
<1>5. ASSUME NEW r \in Runs, Refused(r) PROVE RowInv'
  BY <1>1, <1>5 DEF RowInv, Refused
<1>6. ASSUME NEW r \in Runs, Moves(r) PROVE RowInv'
  BY <1>1, <1>6, NotInFlight DEF RowInv, Moves, Stays, KeepsRow, InsertsRow, SettlesRow
<1>7. ASSUME NEW r \in Runs, Leaves(r) PROVE RowInv'
  BY <1>1, <1>7 DEF RowInv, Leaves, Ends, KeepsRow, InsertsRow
<1>8. QED
  BY <1>2, <1>3, <1>4, <1>5, <1>6, <1>7, StepShape DEF IInv, TypeInv

THEOREM IInvCorrect == Spec => []IInv
<1>1. Init => IInv
  BY TypeInit, LockInvInit DEF IInv
<1>2. IInv /\ [Next]_vars => IInv'
  BY TypeStep, LockInvStep, RowInvStep DEF IInv
<1>3. QED
  BY <1>1, <1>2, PTL DEF Spec

-----------------------------------------------------------------------------
(* At most one run is in flight on a session, for any number of runs and   *)
(* sessions and any interleaving with cancels, timers, failed writes and   *)
(* restarts (session-lock.ts acquire/release as run-execution-service.ts   *)
(* calls them).                                                            *)
THEOREM Exclusion == Spec => []OneRunPerSession
<1>1. IInv => OneRunPerSession
  BY DEF IInv, LockInv, OneRunPerSession
<1>2. QED
  BY <1>1, IInvCorrect, PTL

(* No exit path of start() or drive() leaves a lock behind: whoever holds  *)
(* a session is in flight on it and registered for cancellation.           *)
THEOREM NotWedged == Spec => []SessionNotWedged
<1>1. IInv => SessionNotWedged
  BY DEF IInv, TypeInv, TypeOK, LockInv, SessionNotWedged
<1>2. QED
  BY <1>1, IInvCorrect, PTL

(* A run row that left `running` never changes (run-repo.ts, the UPDATE    *)
(* ... WHERE status='running' of every terminal transition).               *)
THEOREM RowsAreFinal == Spec => TerminalIsFinal
<1>1. IInv /\ [Next]_vars => [\A r \in Runs : runRow[r] \in Terminal => runRow'[r] = runRow[r]]_runRow
  <2> SUFFICES ASSUME IInv, [Next]_vars, NEW q \in Runs, runRow[q] \in Terminal
               PROVE  runRow'[q] = runRow[q]
    OBVIOUS
  <2>1. runRow[q] # "absent" /\ runRow[q] # "running"
    BY DEF Terminal
  <2>2. runRow \in [Runs -> {"absent"} \cup RunStatus] /\ RowInv
    BY DEF IInv, TypeInv, TypeOK
  <2>3. ASSUME NEW r \in Runs, Moves(r) \/ Leaves(r) PROVE runRow'[q] = runRow[q]
    BY <2>1, <2>2, <2>3 DEF Moves, Leaves, KeepsRow, InsertsRow, SettlesRow, RowInv
  <2>4. QED
    BY <2>3, StepShape DEF IInv, TypeInv, Restarts, Takes, Refused
<1>2. QED
  BY <1>1, IInvCorrect, PTL DEF Spec, TerminalIsFinal

(* The service implements RunLifecycle: a row is created once, by the run  *)
(* that owns the session, leaves `running` at most once, while that run    *)
(* still owns the session, and a session changes hands only when free.     *)
THEOREM Refinement == Spec => ImplementsLifecycle
<1>1. Init => Lifecycle!LifecycleInit
  BY DEF Init, Lifecycle!LifecycleInit
<1>2. IInv /\ [Next]_vars => [Lifecycle!LifecycleNext]_<<locks, runRow>>
  <2> SUFFICES ASSUME IInv, [Next]_vars
               PROVE  Lifecycle!LifecycleNext \/ UNCHANGED <<locks, runRow>>
    OBVIOUS
  <2>1. /\ locks \in [Sessions -> Runs \cup {None}]
        /\ LockInv /\ RowInv
    BY DEF IInv, TypeInv, TypeOK
  <2>2. CASE Restarts
    BY <2>2 DEF Restarts, Lifecycle!LifecycleNext, Lifecycle!Restart
  <2>3. ASSUME NEW r \in Runs, Takes(r) PROVE Lifecycle!Acquire(r)
    BY <2>3 DEF Takes, Lifecycle!Acquire
  <2>4. ASSUME NEW r \in Runs, Refused(r) PROVE UNCHANGED <<locks, runRow>>
    BY <2>4 DEF Refused
  <2>5. ASSUME NEW r \in Runs, Moves(r)
        PROVE  \/ UNCHANGED <<locks, runRow>>
               \/ Lifecycle!Create(r)
               \/ \E st \in Terminal : Lifecycle!Finish(r, st)
    <3>1. Lifecycle!Owns(r)
      BY <2>1, <2>5 DEF Moves, LockInv, Lifecycle!Owns
    <3>2. CASE KeepsRow(r)
      BY <2>5, <3>2 DEF Moves, Stays, KeepsRow
    <3>3. CASE InsertsRow(r)
      BY <2>1, <2>5, <3>1, <3>3 DEF Moves, Stays, InsertsRow, RowInv, Lifecycle!Create
    <3>4. CASE SettlesRow(r)
      BY <2>5, <3>1, <3>4 DEF Moves, Stays, SettlesRow, Lifecycle!Finish
    <3>5. QED
      BY <2>5, <3>2, <3>3, <3>4 DEF Moves
  <2>6. ASSUME NEW r \in Runs, Leaves(r) PROVE Lifecycle!Release(r)
    <3>1. locks[SessionOf[r]] = r
      BY <2>1, <2>6 DEF Leaves, LockInv
    <3>2. locks' = [locks EXCEPT ![SessionOf[r]] = None]
      BY <2>1, <2>6, <3>1 DEF Leaves, Ends, FreeSession, Released
    <3>3. QED
      BY <2>1, <2>6, <3>1, <3>2 DEF Leaves, KeepsRow, InsertsRow, RowInv,
         Lifecycle!Release, Lifecycle!Owns
  <2>7. QED
    BY <2>2, <2>3, <2>4, <2>5, <2>6, StepShape
       DEF IInv, TypeInv, Lifecycle!LifecycleNext, Terminal, Lifecycle!Terminal
<1>3. QED
  BY <1>1, <1>2, IInvCorrect, PTL
     DEF Spec, ImplementsLifecycle, Lifecycle!LifecycleSpec, Lifecycle!lifecycleVars

-----------------------------------------------------------------------------
(* What a step of a run does to the run's own state, and to nobody else's  *)

SameRow(r) == runRow'[r] = runRow[r]
SameCalls(r) == toolRow'[r] = toolRow[r]
SameMessages(r) == messages'[r] = messages[r]
SameTrace(r) == traceRow'[r] = traceRow[r]
SameEvent(r) == event'[r] = event[r]
SameRows(r) == SameRow(r) /\ SameCalls(r) /\ SameMessages(r) /\ SameTrace(r) /\ SameEvent(r)

At(r, label, c) == pc'[r] = label /\ ctx'[r] = c
ThrownFrom(r, c) ==
    /\ pc'[r] = "finalize" /\ ctx'[r].cause = ClassifyTerminal(r, c)
    /\ ctx'[r].fired = c.fired /\ ctx'[r].deadlineHit = c.deadlineHit
    /\ ctx'[r].openToolCalls = c.openToolCalls
AtLoopTop(r, c) ==
    \/ c.iterationCount >= MaxIterations /\ At(r, "maxFail", c)
    \/ c.iterationCount < MaxIterations /\ Aborted(r) /\ ThrownFrom(r, c)
    \/ c.iterationCount < MaxIterations /\ ~Aborted(r) /\ At(r, "history", c)
AtLoopFinally(r, c) == At(r, IF c.openToolCalls = {} THEN "saveTrace" ELSE "closeCalls", c)
AtDriveFinally(r) ==
    \/ r \in cancelledRuns /\ pc'[r] = "driveCancel" /\ r \in cancelledRuns'
    \/ r \notin cancelledRuns /\ pc'[r] = "done" /\ r \notin cancelledRuns'
SettledAs(r, st, o) ==
    runRow'[r] = IF Applied(o) /\ runRow[r] = "running" THEN st ELSE runRow[r]

LEMMA OwnAwait ==
    ASSUME TypeOK, NEW r \in Runs, NEW label, NEW c, Await(r, label, c)
    PROVE  At(r, label, c)
BY DEF Await, At, TypeOK

LEMMA OwnThrow ==
    ASSUME TypeOK, NEW r \in Runs, NEW c \in Ctx, Throw(r, c)
    PROVE  ThrownFrom(r, c)
<1>1. At(r, "finalize", [c EXCEPT !.cause = ClassifyTerminal(r, c)])
  BY OwnAwait DEF Throw
<1>2. QED
  BY <1>1 DEF At, ThrownFrom, Ctx

LEMMA OwnLoopTop ==
    ASSUME TypeOK, NEW r \in Runs, NEW c \in Ctx, LoopTop(r, c)
    PROVE  AtLoopTop(r, c)
BY OwnAwait, OwnThrow DEF LoopTop, AtLoopTop

LEMMA OwnLoopFinally ==
    ASSUME TypeOK, NEW r \in Runs, NEW c, LoopFinally(r, c)
    PROVE  AtLoopFinally(r, c)
BY OwnAwait DEF LoopFinally, AtLoopFinally

LEMMA OwnDriveFinally ==
    ASSUME TypeOK, NEW r \in Runs, DriveFinally(r)
    PROVE  AtDriveFinally(r)
BY DEF DriveFinally, AtDriveFinally, TypeOK, serviceVars

LEMMA OwnTransition ==
    ASSUME TypeOK, NEW r \in Runs, NEW st, NEW o, Transition(r, st, o)
    PROVE  SettledAs(r, st, o)
BY DEF Transition, SettledAs, TypeOK

LEMMA OwnPersist ==
    ASSUME TypeOK, NEW r \in Runs, NEW m, NEW o, Persist(r, m, o)
    PROVE  messages'[r] = IF Applied(o) THEN messages[r] \cup {m} ELSE messages[r]
BY DEF Persist, TypeOK

LEMMA OutcomeFacts ==
    ASSUME NEW op, NEW o \in Outcomes(op)
    PROVE  /\ ~Applied(o) => op \in LostWrites /\ Rejected(o)
           /\ Rejected(o) => op \in LostWrites \cup LostAcks
           /\ Rejected(o) /\ Applied(o) => op \in LostAcks
BY DEF Outcomes, Applied, Rejected

(* start() *)
LEMMA OwnSetup ==
    ASSUME TypeOK, NEW r \in Runs, SetupStep(r)
    PROVE  /\ ctx'[r] = ctx[r] /\ SameCalls(r) /\ SameTrace(r) /\ SameEvent(r)
           /\ r \in cancelledRuns' <=> r \in cancelledRuns
           /\ \/ /\ pc[r] = "prereqs" /\ pc'[r] \in {"createRun", "done"}
                 /\ SameRow(r) /\ SameMessages(r)
              \/ /\ pc[r] = "createRun" /\ SameMessages(r)
                 /\ \/ pc'[r] = "createUser" /\ runRow'[r] = "running"
                    \/ pc'[r] = "done" /\ SameRow(r)
                    \/ pc'[r] = "done" /\ runRow'[r] = "running" /\ "createRun" \in LostAcks
              \/ /\ pc[r] = "createUser" /\ SameRow(r)
                 /\ messages'[r] \subseteq messages[r] \cup {UserMessage}
                 /\ \/ pc'[r] = "recheck"
                    \/ pc'[r] = "done" /\ "createUser" \in LostWrites \cup LostAcks
<1> USE DEF SetupFailed, SetupContinues, serviceVars, dbVars, SameRow, SameCalls, SameMessages,
            SameTrace, SameEvent
<1>1. CASE ResolvePrereqs(r)
  BY <1>1 DEF ResolvePrereqs, TypeOK
<1>2. CASE CreateRun(r)
  BY <1>2, OutcomeFacts DEF CreateRun, TypeOK
<1>3. CASE CreateUserMessage(r)
  <2>1. PICK o \in Outcomes("createUser") :
           /\ Persist(r, UserMessage, o)
           /\ IF Rejected(o) THEN SetupFailed(r) ELSE SetupContinues(r, "recheck")
    BY <1>3 DEF CreateUserMessage
  <2>2. messages'[r] \subseteq messages[r] \cup {UserMessage}
    BY <2>1, OwnPersist
  <2>3. pc'[r] = "recheck" \/ (pc'[r] = "done" /\ "createUser" \in LostWrites \cup LostAcks)
    BY <2>1, OutcomeFacts DEF TypeOK
  <2>4. r \in cancelledRuns' <=> r \in cancelledRuns
    BY <2>1
  <2>5. QED
    BY <1>3, <2>2, <2>3, <2>4 DEF CreateUserMessage
<1>4. QED
  BY <1>1, <1>2, <1>3 DEF SetupStep

(* executePreparedRun before the loop, and drive's finally *)
LEMMA OwnRecheck ==
    ASSUME TypeOK, NEW r \in Runs, RecheckPrereqs(r)
    PROVE  /\ pc[r] = "recheck" /\ SameRows(r)
           /\ \/ AtLoopTop(r, NewCtx) /\ (r \in cancelledRuns' <=> r \in cancelledRuns)
              \/ /\ AtDriveFinally(r) /\ ctx'[r] = ctx[r]
                 /\ \/ sessionRow[SessionOf[r]] # "active"
                    \/ "recheck" \in LostWrites \cup LostAcks
<1> USE DEF SameRows, SameRow, SameCalls, SameMessages, SameTrace, SameEvent
<1>1. pc[r] = "recheck" /\ SameRows(r)
  BY DEF RecheckPrereqs, dbVars
<1>2. PICK o \in Outcomes("recheck") :
         \/ PrereqsHold(r, o) /\ LoopTop(r, NewCtx) /\ UNCHANGED serviceVars
         \/ ~PrereqsHold(r, o) /\ DriveFinally(r) /\ UNCHANGED ctx
  BY DEF RecheckPrereqs
<1>3. CASE PrereqsHold(r, o) /\ LoopTop(r, NewCtx) /\ UNCHANGED serviceVars
  BY <1>1, <1>3, OwnLoopTop, NewCtxTyped DEF serviceVars
<1>4. CASE ~PrereqsHold(r, o) /\ DriveFinally(r) /\ UNCHANGED ctx
  BY <1>1, <1>4, OwnDriveFinally, OutcomeFacts DEF PrereqsHold
<1>5. QED
  BY <1>2, <1>3, <1>4

LEMMA OwnDriveCancel ==
    ASSUME TypeOK, NEW r \in Runs, DriveCancel(r)
    PROVE  /\ pc[r] = "driveCancel" /\ pc'[r] = "done" /\ r \notin cancelledRuns'
           /\ ctx'[r] = ctx[r] /\ SameCalls(r) /\ SameMessages(r) /\ SameTrace(r) /\ SameEvent(r)
           /\ \E o \in Outcomes("driveCancel") : SettledAs(r, "cancelled", o)
BY OwnTransition DEF DriveCancel, TypeOK, SameCalls, SameMessages, SameTrace, SameEvent

(* A model round *)
LEMMA OwnModel ==
    ASSUME TypeOK, NEW r \in Runs,
           LoadHistory(r) \/ ModelToken(r) \/ ModelLastChunk(r) \/ ModelThrows(r) \/ ModelEnds(r)
    PROVE  /\ SameRows(r)
           /\ \/ /\ pc[r] = "history"
                 /\ ThrownFrom(r, ctx[r]) \/ At(r, "model", [ctx[r] EXCEPT !.fired = FALSE])
              \/ pc[r] = "model" /\ ~Aborted(r) /\ At(r, "model", [ctx[r] EXCEPT !.text = TRUE])
              \/ /\ pc[r] = "model"
                 /\ \E n \in 0 .. MaxCalls :
                       At(r, "streamEnd", [ctx[r] EXCEPT !.batch = n, !.call = 0])
              \/ /\ pc[r] \in {"model", "streamEnd"}
                 /\ ThrownFrom(r, [ctx[r] EXCEPT !.deadlineHit = @ \/ CallTimedOut(r),
                                                 !.fired = FALSE])
              \/ /\ pc[r] = "streamEnd"
                 /\ \E label \in {"saveCalls", "saveText", "complete"} :
                       /\ At(r, label, [ctx[r] EXCEPT !.fired = FALSE])
                       /\ label = "saveCalls" => ctx[r].batch > 0
<1>1. SameRows(r)
  BY DEF LoadHistory, ModelToken, ModelLastChunk, ModelThrows, ModelEnds, loopFrame, SameRows,
         SameRow, SameCalls, SameMessages, SameTrace, SameEvent
<1>2. ctx[r] \in Ctx
  BY DEF TypeOK
<1>3. CASE LoadHistory(r)
  BY <1>1, <1>2, <1>3, OwnThrow, OwnAwait DEF LoadHistory
<1>4. CASE ModelToken(r)
  BY <1>1, <1>4, OwnAwait DEF ModelToken
<1>5. CASE ModelLastChunk(r)
  BY <1>1, <1>5, OwnAwait DEF ModelLastChunk
<1>6. CASE ModelThrows(r)
  <2>1. CallTimedOut(r) \in BOOLEAN /\ ctx[r].deadlineHit \in BOOLEAN
    BY <1>2 DEF CallTimedOut, Ctx
  <2>2. [ctx[r] EXCEPT !.deadlineHit = @ \/ CallTimedOut(r), !.fired = FALSE] \in Ctx
    BY <1>2, <2>1 DEF Ctx
  <2>3. QED
    BY <1>1, <1>6, <2>2, OwnThrow DEF ModelThrows
<1>7. CASE ModelEnds(r)
  <2> DEFINE c == [ctx[r] EXCEPT !.fired = FALSE]
  <2>1. c.batch = ctx[r].batch
    BY <1>2 DEF Ctx
  <2>2. \E label \in {"saveCalls", "saveText", "complete"} :
           Await(r, label, c) /\ (label = "saveCalls" => c.batch > 0)
    BY <1>7 DEF ModelEnds
  <2>3. QED
    BY <1>1, <1>7, <2>1, <2>2, OwnAwait DEF ModelEnds
<1>8. QED
  BY <1>3, <1>4, <1>5, <1>6, <1>7

(* The tool calls of a round *)
LEMMA OwnSaveCalls ==
    ASSUME TypeOK, NEW r \in Runs, SaveCalls(r)
    PROVE  /\ pc[r] = "saveCalls" /\ SameRow(r) /\ SameCalls(r) /\ SameTrace(r) /\ SameEvent(r)
           /\ \/ /\ ThrownFrom(r, ctx[r])
                 /\ messages'[r] \subseteq
                       messages[r] \cup {CallsMessage(ctx[r].iterationCount, ctx[r].batch)}
              \/ /\ At(r, "createCall", [ctx[r] EXCEPT !.text = FALSE, !.call = 1])
                 /\ messages'[r] =
                       messages[r] \cup {CallsMessage(ctx[r].iterationCount, ctx[r].batch)}
<1>1. pc[r] = "saveCalls" /\ SameRow(r) /\ SameCalls(r) /\ SameTrace(r) /\ SameEvent(r)
  BY DEF SaveCalls, loopFrame, SameRow, SameCalls, SameTrace, SameEvent
<1>2. PICK o \in Outcomes("saveCalls") :
         /\ Persist(r, CallsMessage(ctx[r].iterationCount, ctx[r].batch), o)
         /\ IF Rejected(o) THEN Throw(r, ctx[r])
            ELSE Await(r, "createCall", [ctx[r] EXCEPT !.text = FALSE, !.call = 1])
  BY DEF SaveCalls
<1>3. messages'[r] = IF Applied(o)
                     THEN messages[r] \cup {CallsMessage(ctx[r].iterationCount, ctx[r].batch)}
                     ELSE messages[r]
  BY <1>2, OwnPersist
<1>4. ctx[r] \in Ctx /\ (~Applied(o) => Rejected(o))
  BY OutcomeFacts DEF TypeOK
<1>5. QED
  BY <1>1, <1>2, <1>3, <1>4, OwnThrow, OwnAwait

LEMMA OwnCreateCall ==
    ASSUME TypeInv, NEW r \in Runs, CreateCall(r)
    PROVE  /\ pc[r] = "createCall" /\ SameRow(r) /\ SameMessages(r) /\ SameTrace(r) /\ SameEvent(r)
           /\ \A c \in Calls : c # CurrentCall(r) => toolRow'[r][c] = toolRow[r][c]
           /\ \/ /\ ThrownFrom(r, ctx[r])
                 /\ "createCall" \notin LostAcks => SameCalls(r)
              \/ \E label \in {"runTool", "recordCall"} :
                    At(r, label, [ctx[r] EXCEPT !.openToolCalls = @ \cup {CurrentCall(r)},
                                                !.fired = FALSE, !.status = "failed"])
<1>1. pc[r] = "createCall" /\ SameRow(r) /\ SameMessages(r) /\ SameTrace(r) /\ SameEvent(r)
  BY DEF CreateCall, loopFrame, SameRow, SameMessages, SameTrace, SameEvent
<1>2. TypeOK /\ ctx[r] \in Ctx /\ CurrentCall(r) \in Calls
  BY <1>1, CurrentTyped DEF TypeInv, TypeOK, RoundInv, CallPCs
<1>3. PICK o \in Outcomes("createCall"), valid \in BOOLEAN :
         /\ toolRow' = IF Applied(o) THEN [toolRow EXCEPT ![r][CurrentCall(r)] = "started"]
                       ELSE toolRow
         /\ IF Rejected(o) THEN Throw(r, ctx[r])
            ELSE Await(r, IF valid THEN "runTool" ELSE "recordCall",
                       [ctx[r] EXCEPT !.openToolCalls = @ \cup {CurrentCall(r)},
                                      !.fired = FALSE, !.status = "failed"])
  BY DEF CreateCall
<1>4. \A c \in Calls : c # CurrentCall(r) => toolRow'[r][c] = toolRow[r][c]
  <2>1. toolRow \in [Runs -> [Calls -> {"absent", "started", "completed", "failed"}]]
    BY <1>2 DEF TypeOK
  <2>2. QED
    BY <1>3, <2>1
<1>5. CASE Rejected(o)
  <2>1. Applied(o) => "createCall" \in LostAcks
    BY <1>5, OutcomeFacts
  <2>2. "createCall" \notin LostAcks => SameCalls(r)
    BY <1>3, <2>1 DEF SameCalls
  <2>3. QED
    BY <1>1, <1>2, <1>3, <1>4, <1>5, <2>2, OwnThrow
<1>6. CASE ~Rejected(o)
  BY <1>1, <1>2, <1>3, <1>4, <1>6, OwnAwait
<1>7. QED
  BY <1>5, <1>6

LEMMA OwnRunTool ==
    ASSUME TypeOK, NEW r \in Runs, RunTool(r)
    PROVE  /\ pc[r] = "runTool" /\ SameRows(r)
           /\ \E st \in {"completed", "failed"} :
                 At(r, "recordCall", [ctx[r] EXCEPT !.status = st, !.fired = CallTimedOut(r)])
<1>1. pc[r] = "runTool" /\ SameRows(r)
  BY DEF RunTool, loopFrame, SameRows, SameRow, SameCalls, SameMessages, SameTrace, SameEvent
<1>2. QED
  BY <1>1, OwnAwait DEF RunTool

LEMMA OwnCallTransition ==
    ASSUME TypeOK, NEW r \in Runs, NEW cs, NEW st, NEW o, CallTransition(r, cs, st, o)
    PROVE  /\ ~Applied(o) => toolRow'[r] = toolRow[r]
           /\ Applied(o) => \A c \in Calls :
                 toolRow'[r][c] = IF c \in cs /\ toolRow[r][c] = "started" THEN st
                                  ELSE toolRow[r][c]
BY DEF CallTransition, TypeOK

LEMMA OwnRecordCall ==
    ASSUME TypeOK, NEW r \in Runs, RecordCall(r)
    PROVE  /\ pc[r] = "recordCall" /\ SameRow(r) /\ SameMessages(r) /\ SameTrace(r) /\ SameEvent(r)
           /\ \A c \in Calls : toolRow'[r][c] = "started" => toolRow[r][c] = "started"
           /\ \/ ThrownFrom(r, ctx[r])
              \/ /\ At(r, "toolMessage", [ctx[r] EXCEPT !.openToolCalls = @ \ {CurrentCall(r)},
                                                        !.deadlineHit = @ \/ ctx[r].fired])
                 /\ CurrentCall(r) \in Calls => toolRow'[r][CurrentCall(r)] # "started"
<1>1. pc[r] = "recordCall" /\ SameRow(r) /\ SameMessages(r) /\ SameTrace(r) /\ SameEvent(r)
  BY DEF RecordCall, loopFrame, SameRow, SameMessages, SameTrace, SameEvent
<1>2. ctx[r] \in Ctx /\ ctx[r].status # "started"
  BY DEF TypeOK, Ctx
<1>3. PICK o \in Outcomes("recordCall") :
         /\ CallTransition(r, {CurrentCall(r)}, ctx[r].status, o)
         /\ IF Rejected(o) THEN Throw(r, ctx[r])
            ELSE Await(r, "toolMessage",
                       [ctx[r] EXCEPT !.openToolCalls = @ \ {CurrentCall(r)},
                                      !.deadlineHit = @ \/ ctx[r].fired])
  BY DEF RecordCall
<1>4. \A c \in Calls : /\ toolRow'[r][c] = "started" => toolRow[r][c] = "started"
                       /\ Applied(o) /\ c = CurrentCall(r) => toolRow'[r][c] # "started"
  BY <1>2, <1>3, OwnCallTransition
<1>5. ~Applied(o) => Rejected(o)
  BY OutcomeFacts
<1>6. CASE Rejected(o)
  BY <1>1, <1>2, <1>3, <1>4, <1>6, OwnThrow
<1>7. CASE ~Rejected(o)
  BY <1>1, <1>3, <1>4, <1>5, <1>7, OwnAwait
<1>8. QED
  BY <1>6, <1>7

LEMMA OwnSaveToolMessage ==
    ASSUME TypeInv, NEW r \in Runs, SaveToolMessage(r)
    PROVE  /\ pc[r] = "toolMessage" /\ SameRow(r) /\ SameCalls(r) /\ SameTrace(r) /\ SameEvent(r)
           /\ messages[r] \subseteq messages'[r]
           /\ messages'[r] \subseteq
                 messages[r] \cup {ToolMessage(ctx[r].iterationCount, ctx[r].call)}
           /\ \/ ThrownFrom(r, ctx[r])
              \/ /\ ToolMessage(ctx[r].iterationCount, ctx[r].call) \in messages'[r]
                 /\ \/ /\ ctx[r].call < ctx[r].batch
                       /\ At(r, "createCall", [ctx[r] EXCEPT !.call = @ + 1])
                    \/ /\ ctx[r].call >= ctx[r].batch
                       /\ AtLoopTop(r, [ctx[r] EXCEPT !.iterationCount = @ + 1])
<1>1. pc[r] = "toolMessage" /\ SameRow(r) /\ SameCalls(r) /\ SameTrace(r) /\ SameEvent(r)
  BY DEF SaveToolMessage, loopFrame, SameRow, SameCalls, SameTrace, SameEvent
<1>2. TypeOK /\ ctx[r] \in Ctx /\ ctx[r].call \in Nat /\ ctx[r].batch \in Nat
  BY DEF TypeInv, TypeOK, Ctx
<1>3. [ctx[r] EXCEPT !.iterationCount = @ + 1] \in Ctx
  <2>1. ctx[r].iterationCount + 1 \in Round
    BY <1>1, <1>2 DEF TypeInv, RoundInv, RoundOK, RoundPCs, CallPCs, Ctx, Round
  <2>2. QED
    BY <1>2, <2>1 DEF Ctx
<1>4. PICK o \in Outcomes("toolMessage") :
         /\ Persist(r, ToolMessage(ctx[r].iterationCount, ctx[r].call), o)
         /\ IF Rejected(o) \/ ctx[r].deadlineHit THEN Throw(r, ctx[r])
            ELSE IF ctx[r].call < ctx[r].batch
            THEN Await(r, "createCall", [ctx[r] EXCEPT !.call = @ + 1])
            ELSE LoopTop(r, [ctx[r] EXCEPT !.iterationCount = @ + 1])
  BY DEF SaveToolMessage
<1>5. messages'[r] = IF Applied(o)
                     THEN messages[r] \cup {ToolMessage(ctx[r].iterationCount, ctx[r].call)}
                     ELSE messages[r]
  BY <1>2, <1>4, OwnPersist
<1>6. CASE Rejected(o) \/ ctx[r].deadlineHit
  BY <1>1, <1>2, <1>4, <1>5, <1>6, OwnThrow
<1>7. CASE ~(Rejected(o) \/ ctx[r].deadlineHit)
  <2>1. Applied(o)
    BY <1>7, OutcomeFacts
  <2>2. \/ ctx[r].call < ctx[r].batch /\ At(r, "createCall", [ctx[r] EXCEPT !.call = @ + 1])
        \/ /\ ~(ctx[r].call < ctx[r].batch)
           /\ AtLoopTop(r, [ctx[r] EXCEPT !.iterationCount = @ + 1])
    BY <1>2, <1>3, <1>4, <1>7, OwnAwait, OwnLoopTop
  <2>3. QED
    BY <1>1, <1>2, <1>5, <2>1, <2>2
<1>8. QED
  BY <1>6, <1>7
(* The exits of the loop *)
LEMMA OwnTerminalWrite ==
    ASSUME TypeOK, NEW r \in Runs, FailMaxIterations(r) \/ Complete(r)
    PROVE  /\ SameCalls(r) /\ SameMessages(r) /\ SameTrace(r)
           /\ \E op \in {"maxFail", "complete"} : \E o \in Outcomes(op) :
                 /\ pc[r] = op
                 /\ SettledAs(r, IF op = "maxFail" THEN "failed" ELSE "completed", o)
                 /\ \/ Rejected(o) /\ ThrownFrom(r, ctx[r]) /\ SameEvent(r)
                    \/ /\ ~Rejected(o) /\ AtLoopFinally(r, ctx[r])
                       /\ event'[r] = IF op = "maxFail" THEN "MAX_ITERATIONS"
                                      ELSE "message_completed"
<1>1. SameCalls(r) /\ SameMessages(r) /\ SameTrace(r) /\ ctx[r] \in Ctx
  BY DEF FailMaxIterations, Complete, loopFrame, SameCalls, SameMessages, SameTrace, TypeOK
<1>2. CASE FailMaxIterations(r)
  <2>1. PICK o \in Outcomes("maxFail") :
           /\ Transition(r, "failed", o)
           /\ IF Rejected(o) THEN Throw(r, ctx[r]) /\ UNCHANGED event
              ELSE LoopFinally(r, ctx[r]) /\ Emit(r, "MAX_ITERATIONS")
    BY <1>2 DEF FailMaxIterations
  <2>2. pc[r] = "maxFail" /\ SettledAs(r, "failed", o)
    BY <1>2, <2>1, OwnTransition DEF FailMaxIterations
  <2>3. \/ Rejected(o) /\ ThrownFrom(r, ctx[r]) /\ SameEvent(r)
        \/ ~Rejected(o) /\ AtLoopFinally(r, ctx[r]) /\ event'[r] = "MAX_ITERATIONS"
    BY <1>1, <2>1, OwnThrow, OwnLoopFinally DEF Emit, SameEvent, TypeOK
  <2>4. QED
    BY <1>1, <2>2, <2>3
<1>3. CASE Complete(r)
  <2>1. PICK o \in Outcomes("complete") :
           /\ Transition(r, "completed", o)
           /\ IF Rejected(o) THEN Throw(r, ctx[r]) /\ UNCHANGED event
              ELSE LoopFinally(r, ctx[r]) /\ Emit(r, "message_completed")
    BY <1>3 DEF Complete
  <2>2. pc[r] = "complete" /\ SettledAs(r, "completed", o)
    BY <1>3, <2>1, OwnTransition DEF Complete
  <2>3. \/ Rejected(o) /\ ThrownFrom(r, ctx[r]) /\ SameEvent(r)
        \/ ~Rejected(o) /\ AtLoopFinally(r, ctx[r]) /\ event'[r] = "message_completed"
    BY <1>1, <2>1, OwnThrow, OwnLoopFinally DEF Emit, SameEvent, TypeOK
  <2>4. QED
    BY <1>1, <2>2, <2>3
<1>4. QED
  BY <1>2, <1>3

LEMMA OwnSaveText ==
    ASSUME TypeOK, NEW r \in Runs, SaveText(r)
    PROVE  /\ pc[r] = "saveText" /\ SameRow(r) /\ SameCalls(r) /\ SameTrace(r) /\ SameEvent(r)
           /\ messages[r] \subseteq messages'[r]
           /\ messages'[r] \subseteq messages[r] \cup {FinalMessage(ctx[r].iterationCount)}
           /\ ThrownFrom(r, ctx[r]) \/ At(r, "complete", ctx[r])
<1>1. /\ pc[r] = "saveText" /\ SameRow(r) /\ SameCalls(r) /\ SameTrace(r) /\ SameEvent(r)
      /\ ctx[r] \in Ctx
  BY DEF SaveText, loopFrame, SameRow, SameCalls, SameTrace, SameEvent, TypeOK
<1>2. PICK o \in Outcomes("saveText") :
         /\ Persist(r, FinalMessage(ctx[r].iterationCount), o)
         /\ IF Rejected(o) THEN Throw(r, ctx[r]) ELSE Await(r, "complete", ctx[r])
  BY DEF SaveText
<1>3. QED
  BY <1>1, <1>2, OwnPersist, OwnThrow, OwnAwait

LEMMA OwnFinalize ==
    ASSUME TypeOK, NEW r \in Runs, FinalizeRun(r)
    PROVE  /\ pc[r] = "finalize" /\ SameCalls(r) /\ SameMessages(r) /\ SameTrace(r)
           /\ AtLoopFinally(r, ctx[r]) /\ event'[r] = CodeOf(ctx[r].cause)
           /\ \E o \in Outcomes("finalize") : SettledAs(r, StatusOf(ctx[r].cause), o)
<1>1. pc[r] = "finalize" /\ SameCalls(r) /\ SameMessages(r) /\ SameTrace(r)
  BY DEF FinalizeRun, loopFrame, SameCalls, SameMessages, SameTrace
<1>2. AtLoopFinally(r, ctx[r])
  BY OwnLoopFinally DEF FinalizeRun
<1>3. event'[r] = CodeOf(ctx[r].cause)
  BY DEF FinalizeRun, Emit, TypeOK
<1>4. \E o \in Outcomes("finalize") : SettledAs(r, StatusOf(ctx[r].cause), o)
  BY OwnTransition DEF FinalizeRun
<1>5. QED
  BY <1>1, <1>2, <1>3, <1>4

LEMMA OwnCloseCalls ==
    ASSUME TypeOK, NEW r \in Runs, CloseCalls(r)
    PROVE  /\ pc[r] = "closeCalls" /\ SameRow(r) /\ SameMessages(r) /\ SameTrace(r) /\ SameEvent(r)
           /\ At(r, "saveTrace", ctx[r])
           /\ \A c \in Calls : toolRow'[r][c] = "started" =>
                 /\ toolRow[r][c] = "started"
                 /\ c \in ctx[r].openToolCalls => "closeCalls" \in LostWrites
<1>1. pc[r] = "closeCalls" /\ SameRow(r) /\ SameMessages(r) /\ SameTrace(r) /\ SameEvent(r)
  BY Zenon DEF CloseCalls, loopFrame, SameRow, SameMessages, SameTrace, SameEvent
<1>2. At(r, "saveTrace", ctx[r])
  BY OwnAwait, Zenon DEF CloseCalls
<1>3. PICK o \in Outcomes("closeCalls") : CallTransition(r, ctx[r].openToolCalls, "failed", o)
  BY Zenon DEF CloseCalls
<1>4. \A c \in Calls : toolRow'[r][c] = "started" =>
         /\ toolRow[r][c] = "started"
         /\ c \in ctx[r].openToolCalls => "closeCalls" \in LostWrites
  BY <1>3, OwnCallTransition, OutcomeFacts
<1>5. QED
  BY <1>1, <1>2, <1>4

LEMMA OwnSaveTrace ==
    ASSUME TypeOK, NEW r \in Runs, SaveTrace(r)
    PROVE  /\ pc[r] = "saveTrace" /\ SameRow(r) /\ SameCalls(r) /\ SameMessages(r) /\ SameEvent(r)
           /\ ctx'[r] = ctx[r] /\ AtDriveFinally(r)
           /\ "saveTrace" \notin LostWrites =>
                 traceRow'[r] = IF event[r] = "message_completed" THEN "ok" ELSE "error"
<1>1. /\ pc[r] = "saveTrace" /\ SameRow(r) /\ SameCalls(r) /\ SameMessages(r) /\ SameEvent(r)
      /\ ctx'[r] = ctx[r] /\ AtDriveFinally(r)
  BY OwnDriveFinally DEF SaveTrace, SameRow, SameCalls, SameMessages, SameEvent
<1>2. "saveTrace" \notin LostWrites =>
         traceRow'[r] = IF event[r] = "message_completed" THEN "ok" ELSE "error"
  BY OutcomeFacts DEF SaveTrace, TypeOK
<1>3. QED
  BY <1>1, <1>2

(* A step of a run touches no other run, and none of what only the world   *)
(* outside sets.                                                           *)
Untouched(q) ==
    /\ pc'[q] = pc[q] /\ ctx'[q] = ctx[q] /\ SameRows(q)
    /\ q \in cancelledRuns' <=> q \in cancelledRuns
WorldKept == UNCHANGED <<abortReason, sessionRow, cancelRequested, deadlineFired>>

LEMMA WorldKeptByRuns ==
    ASSUME NEW r \in Runs, RunStep(r)
    PROVE  WorldKept
<1> USE DEF WorldKept, dbVars, ghostVars, loopFrame
<1>1. CASE SetupStep(r)
  BY <1>1 DEF SetupStep, ResolvePrereqs, CreateRun, CreateUserMessage
<1>2. CASE DriveStep(r)
  BY <1>2 DEF DriveStep, RecheckPrereqs, DriveCancel
<1>3. CASE RoundStep(r)
  BY <1>3, Zenon DEF RoundStep, LoadHistory, ModelToken, ModelLastChunk, ModelThrows, ModelEnds, SaveCalls,
     CreateCall, RunTool, RecordCall, SaveToolMessage
<1>4. CASE ExitStep(r)
  BY <1>4, Zenon DEF ExitStep, FailMaxIterations, SaveText, Complete, FinalizeRun, CloseCalls, SaveTrace
<1>5. QED
  BY <1>1, <1>2, <1>3, <1>4 DEF RunStep

LEMMA OthersControl ==
    ASSUME TypeOK, NEW r \in Runs, NEW q \in Runs, q # r, NEW l, NEW c,
           Await(r, l, c) \/ Throw(r, c) \/ LoopTop(r, c) \/ LoopFinally(r, c)
    PROVE  pc'[q] = pc[q] /\ ctx'[q] = ctx[q]
<1>1. ASSUME NEW k, NEW d, Await(r, k, d) PROVE pc'[q] = pc[q] /\ ctx'[q] = ctx[q]
  BY <1>1 DEF Await, TypeOK
<1>2. ASSUME NEW d, Throw(r, d) PROVE pc'[q] = pc[q] /\ ctx'[q] = ctx[q]
  BY <1>1, <1>2 DEF Throw
<1>3. QED
  BY <1>1, <1>2 DEF LoopTop, LoopFinally

LEMMA OthersDrained ==
    ASSUME TypeOK, NEW r \in Runs, NEW q \in Runs, q # r, DriveFinally(r)
    PROVE  pc'[q] = pc[q] /\ (q \in cancelledRuns' <=> q \in cancelledRuns)
BY DEF DriveFinally, TypeOK, serviceVars

LEMMA OthersRows ==
    ASSUME TypeOK, NEW r \in Runs, NEW q \in Runs, q # r, NEW o, NEW x, NEW cs
    PROVE  /\ Transition(r, x, o) => SameRow(q)
           /\ Persist(r, x, o) => SameMessages(q)
           /\ CallTransition(r, cs, x, o) => SameCalls(q)
<1>1. Transition(r, x, o) => SameRow(q)
  BY DEF Transition, SameRow, TypeOK
<1>2. Persist(r, x, o) => SameMessages(q)
  BY DEF Persist, SameMessages, TypeOK
<1>3. CallTransition(r, cs, x, o) => SameCalls(q)
  BY DEF CallTransition, SameCalls, TypeOK
<1>4. QED
  BY <1>1, <1>2, <1>3

LEMMA OthersUntouched ==
    ASSUME TypeOK, NEW r \in Runs, NEW q \in Runs, q # r, RunStep(r)
    PROVE  Untouched(q)
<1> USE DEF Untouched, SameRows
<1>1. CASE SetupStep(r)
  <2> USE DEF SetupFailed, SetupContinues, serviceVars, dbVars
  <2>1. pc'[q] = pc[q] /\ ctx'[q] = ctx[q] /\ (q \in cancelledRuns' <=> q \in cancelledRuns)
    BY <1>1 DEF SetupStep, ResolvePrereqs, CreateRun, CreateUserMessage, TypeOK
  <2>2. SameRow(q) /\ SameCalls(q) /\ SameTrace(q) /\ SameEvent(q)
    BY <1>1 DEF SetupStep, ResolvePrereqs, CreateRun, CreateUserMessage, TypeOK,
                SameRow, SameCalls, SameTrace, SameEvent
  <2>3. SameMessages(q)
    BY <1>1, OthersRows DEF SetupStep, ResolvePrereqs, CreateRun, CreateUserMessage, SameMessages
  <2>4. QED
    BY <2>1, <2>2, <2>3
<1>2. CASE DriveStep(r)
  <2>1. CASE RecheckPrereqs(r)
    <3>1. SameRows(q)
      BY <2>1 DEF RecheckPrereqs, dbVars, SameRow, SameCalls, SameMessages, SameTrace, SameEvent
    <3>2. pc'[q] = pc[q] /\ ctx'[q] = ctx[q] /\ (q \in cancelledRuns' <=> q \in cancelledRuns)
      BY <2>1, OthersControl, OthersDrained DEF RecheckPrereqs, serviceVars
    <3>3. QED
      BY <3>1, <3>2
  <2>2. CASE DriveCancel(r)
    BY <2>2, OthersRows DEF DriveCancel, TypeOK, SameCalls, SameMessages, SameTrace, SameEvent
  <2>3. QED
    BY <1>2, <2>1, <2>2 DEF DriveStep
<1>3. CASE RoundStep(r)
  <2>1. (q \in cancelledRuns' <=> q \in cancelledRuns) /\ SameRow(q) /\ SameTrace(q) /\ SameEvent(q)
    BY <1>3, Zenon
       DEF RoundStep, LoadHistory, ModelToken, ModelLastChunk, ModelThrows, ModelEnds, SaveCalls,
           CreateCall, RunTool, RecordCall, SaveToolMessage, loopFrame, serviceVars,
           SameRow, SameTrace, SameEvent
  <2>2. SameMessages(q)
    BY <1>3, OthersRows
       DEF RoundStep, LoadHistory, ModelToken, ModelLastChunk, ModelThrows, ModelEnds, SaveCalls,
           CreateCall, RunTool, RecordCall, SaveToolMessage, SameMessages
  <2>3. SameCalls(q)
    <3>1. CASE CreateCall(r)
      BY <3>1 DEF CreateCall, SameCalls, TypeOK
    <3>2. CASE ~CreateCall(r)
      BY <1>3, <3>2, OthersRows
         DEF RoundStep, LoadHistory, ModelToken, ModelLastChunk, ModelThrows, ModelEnds, SaveCalls,
             RunTool, RecordCall, SaveToolMessage, SameCalls
    <3>3. QED
      BY <3>1, <3>2
  <2>4. pc'[q] = pc[q] /\ ctx'[q] = ctx[q]
    BY <1>3, OthersControl
       DEF RoundStep, LoadHistory, ModelToken, ModelLastChunk, ModelThrows, ModelEnds, SaveCalls,
           CreateCall, RunTool, RecordCall, SaveToolMessage
  <2>5. QED
    BY <2>1, <2>2, <2>3, <2>4
<1>4. CASE ExitStep(r)
  <2>1. CASE SaveTrace(r)
    BY <2>1, OthersDrained DEF SaveTrace, TypeOK, SameRow, SameCalls, SameMessages, SameTrace, SameEvent
  <2>2. CASE CloseCalls(r)
    <3>1. (q \in cancelledRuns' <=> q \in cancelledRuns) /\ SameRow(q) /\ SameTrace(q)
          /\ SameMessages(q) /\ SameEvent(q)
      BY <2>2, Zenon DEF CloseCalls, loopFrame, serviceVars, SameRow, SameTrace, SameMessages, SameEvent
    <3>2. SameCalls(q) /\ pc'[q] = pc[q] /\ ctx'[q] = ctx[q]
      BY <2>2, OthersRows, OthersControl, Zenon DEF CloseCalls
    <3>3. QED
      BY <3>1, <3>2
  <2>3. CASE FailMaxIterations(r) \/ SaveText(r) \/ Complete(r) \/ FinalizeRun(r)
    <3>1. (q \in cancelledRuns' <=> q \in cancelledRuns) /\ SameTrace(q) /\ SameCalls(q)
      BY <2>3, Zenon DEF FailMaxIterations, SaveText, Complete, FinalizeRun, loopFrame, serviceVars,
                         SameTrace, SameCalls
    <3>2. SameMessages(q)
      BY <2>3, OthersRows DEF FailMaxIterations, SaveText, Complete, FinalizeRun, SameMessages
    <3>3. SameRow(q)
      BY <2>3, OthersRows DEF FailMaxIterations, SaveText, Complete, FinalizeRun, SameRow
    <3>4. SameEvent(q)
      BY <2>3 DEF FailMaxIterations, SaveText, Complete, FinalizeRun, Emit, SameEvent, TypeOK
    <3>5. pc'[q] = pc[q] /\ ctx'[q] = ctx[q]
      BY <2>3, OthersControl DEF FailMaxIterations, SaveText, Complete, FinalizeRun
    <3>6. QED
      BY <3>1, <3>2, <3>3, <3>4, <3>5
  <2>4. QED
    BY <1>4, <2>1, <2>2, <2>3 DEF ExitStep
<1>5. QED
  BY <1>1, <1>2, <1>3, <1>4 DEF RunStep

(* Only a cancel request adds to cancelledRuns. *)
LEMMA CancelledShrinks ==
    ASSUME TypeOK, NEW r \in Runs, RunStep(r)
    PROVE  cancelledRuns' \subseteq cancelledRuns
<1> USE DEF serviceVars, loopFrame
<1>1. CASE SetupStep(r)
  BY <1>1 DEF SetupStep, ResolvePrereqs, CreateRun, CreateUserMessage, SetupFailed, SetupContinues
<1>2. CASE DriveStep(r)
  BY <1>2 DEF DriveStep, RecheckPrereqs, DriveCancel, DriveFinally
<1>3. CASE RoundStep(r)
  <2>1. cancelledRuns' = cancelledRuns
    BY <1>3, Zenon DEF RoundStep, LoadHistory, ModelToken, ModelLastChunk, ModelThrows, ModelEnds,
       SaveCalls, CreateCall, RunTool, RecordCall, SaveToolMessage
  <2>2. QED
    BY <2>1
<1>4. CASE ExitStep(r)
  <2>1. cancelledRuns' = cancelledRuns
    BY <1>4, Zenon DEF ExitStep, FailMaxIterations, SaveText, Complete, FinalizeRun, CloseCalls,
       SaveTrace, DriveFinally
  <2>2. QED
    BY <2>1
<1>5. QED
  BY <1>1, <1>2, <1>3, <1>4 DEF RunStep

(* What the steps that belong to no run's own execution do to a run q: it  *)
(* is admitted or refused, cancelled, hit by a deadline, or abandoned, and *)
(* nothing it persisted or reported changes.                               *)
Kept(q) == ctx'[q] = ctx[q] /\ abortReason'[q] = abortReason[q]
KeptGhosts(q) == /\ cancelRequested'[q] = cancelRequested[q]
                 /\ q \in deadlineFired' <=> q \in deadlineFired
KeptCancel(q) == q \in cancelledRuns' <=> q \in cancelledRuns
Admitted(q) == /\ pc[q] = "idle" /\ pc'[q] \in {"prereqs", "rejected"}
               /\ Kept(q) /\ KeptGhosts(q) /\ KeptCancel(q)
Abandoned(q) == /\ pc'[q] = IF pc[q] \in InFlight THEN "abandoned" ELSE pc[q]
                /\ Kept(q) /\ KeptGhosts(q) /\ cancelledRuns' = {}
Cancelled(q) ==
    /\ runRow[q] # "absent" /\ pc'[q] = pc[q] /\ ctx'[q] = ctx[q]
    /\ q \in activeRuns /\ q \in cancelledRuns'
    /\ abortReason'[q] = IF abortReason[q] = "none" THEN "cancel" ELSE abortReason[q]
    /\ cancelRequested'[q] = IF runRow[q] = "running" /\ cancelRequested[q] = "none"
                             THEN PhaseOf(pc[q]) ELSE cancelRequested[q]
    /\ deadlineFired' = deadlineFired
CallTimerFired(q) ==
    /\ pc[q] \in {"model", "streamEnd", "runTool"} /\ abortReason[q] = "none"
    /\ pc'[q] = pc[q] /\ ctx'[q] = [ctx[q] EXCEPT !.fired = TRUE]
    /\ abortReason'[q] = abortReason[q] /\ cancelRequested'[q] = cancelRequested[q]
    /\ q \in deadlineFired' /\ cancelledRuns' = cancelledRuns
RunTimerFired(q) ==
    /\ pc[q] \in LoopPCs /\ abortReason[q] = "none" /\ abortReason'[q] = "total"
    /\ pc'[q] = pc[q] /\ ctx'[q] = ctx[q] /\ cancelRequested'[q] = cancelRequested[q]
    /\ runRow[q] = "running" => q \in deadlineFired'
    /\ q \in deadlineFired => q \in deadlineFired'
    /\ cancelledRuns' = cancelledRuns
OutsideStep(q) ==
    \/ pc'[q] = pc[q] /\ Kept(q) /\ KeptGhosts(q) /\ KeptCancel(q)
    \/ Admitted(q) \/ Abandoned(q) \/ Cancelled(q) \/ CallTimerFired(q) \/ RunTimerFired(q)

LEMMA OutsideShape ==
    ASSUME TypeOK, [Next]_vars, NEW q \in Runs
    PROVE  \/ \E r \in Runs : RunStep(r)
           \/ /\ OutsideStep(q) /\ SameRows(q)
              /\ MayUpdateSession \/ sessionRow' = sessionRow
<1> USE DEF Kept, KeptGhosts, KeptCancel, serviceVars, dbVars, ghostVars,
            SameRows, SameRow, SameCalls, SameMessages, SameTrace, SameEvent
<1>1. ASSUME NEW r \in Runs, StartRun(r) \/ StartConflict(r)
      PROVE  OutsideStep(q) /\ SameRows(q) /\ sessionRow' = sessionRow
  <2>1. \/ pc'[q] = pc[q]
        \/ pc[q] = "idle" /\ pc'[q] \in {"prereqs", "rejected"}
    BY <1>1 DEF StartRun, StartConflict, TypeOK
  <2>2. Kept(q) /\ KeptGhosts(q) /\ KeptCancel(q) /\ SameRows(q) /\ sessionRow' = sessionRow
    BY <1>1 DEF StartRun, StartConflict
  <2>3. QED
    BY <2>1, <2>2 DEF OutsideStep, Admitted
<1>2. ASSUME NEW r \in Runs, RequestCancel(r)
      PROVE  OutsideStep(q) /\ SameRows(q) /\ sessionRow' = sessionRow
  <2>1. SameRows(q) /\ sessionRow' = sessionRow
    BY <1>2 DEF RequestCancel
  <2>2. CASE q = r
    <3>1. Cancelled(q)
      BY <1>2, <2>2 DEF RequestCancel, Cancelled, TypeOK
    <3>2. QED
      BY <2>1, <3>1 DEF OutsideStep
  <2>3. CASE q # r
    <3>1. pc'[q] = pc[q] /\ Kept(q) /\ KeptGhosts(q) /\ KeptCancel(q)
      BY <1>2, <2>3 DEF RequestCancel, TypeOK
    <3>2. QED
      BY <2>1, <3>1 DEF OutsideStep
  <2>4. QED
    BY <2>2, <2>3
<1>3. ASSUME NEW r \in Runs, CallDeadline(r)
      PROVE  OutsideStep(q) /\ SameRows(q) /\ sessionRow' = sessionRow
  <2>1. SameRows(q) /\ sessionRow' = sessionRow
    BY <1>3 DEF CallDeadline
  <2>2. CASE q = r
    <3>1. CallTimerFired(q)
      BY <1>3, <2>2 DEF CallDeadline, CallTimerFired, Aborted, TypeOK
    <3>2. QED
      BY <2>1, <3>1 DEF OutsideStep
  <2>3. CASE q # r
    <3>1. pc'[q] = pc[q] /\ Kept(q) /\ KeptGhosts(q) /\ KeptCancel(q)
      BY <1>3, <2>3 DEF CallDeadline, TypeOK
    <3>2. QED
      BY <2>1, <3>1 DEF OutsideStep
  <2>4. QED
    BY <2>2, <2>3
<1>4. ASSUME NEW r \in Runs, TotalDeadline(r)
      PROVE  OutsideStep(q) /\ SameRows(q) /\ sessionRow' = sessionRow
  <2>1. SameRows(q) /\ sessionRow' = sessionRow
    BY <1>4 DEF TotalDeadline
  <2>2. CASE q = r
    <3>1. RunTimerFired(q)
      BY <1>4, <2>2 DEF TotalDeadline, RunTimerFired, Aborted, TypeOK
    <3>2. QED
      BY <2>1, <3>1 DEF OutsideStep
  <2>3. CASE q # r
    <3>1. pc'[q] = pc[q] /\ Kept(q) /\ KeptGhosts(q) /\ KeptCancel(q)
      BY <1>4, <2>3 DEF TotalDeadline, TypeOK
    <3>2. QED
      BY <2>1, <3>1 DEF OutsideStep
  <2>4. QED
    BY <2>2, <2>3
<1>5. ASSUME NEW s \in Sessions, UpdateSession(s)
      PROVE  OutsideStep(q) /\ SameRows(q) /\ MayUpdateSession
  BY <1>5 DEF UpdateSession, OutsideStep
<1>6. ASSUME RestartProcess PROVE OutsideStep(q) /\ SameRows(q) /\ sessionRow' = sessionRow
  BY <1>6 DEF RestartProcess, OutsideStep, Abandoned
<1>7. ASSUME UNCHANGED vars PROVE OutsideStep(q) /\ SameRows(q) /\ sessionRow' = sessionRow
  BY <1>7 DEF vars, OutsideStep
<1>8. QED
  BY <1>1, <1>2, <1>3, <1>4, <1>5, <1>6, <1>7 DEF Next

-----------------------------------------------------------------------------
(* The terminal event and the row *)

BeforeLoop == {"idle", "rejected", "prereqs", "createRun", "createUser", "recheck"}
RunningPCs == {"createUser", "recheck"} \cup BodyPCs

(* Where a run is in its life: nothing is reported before the exits of the *)
(* loop, the row is `running` up to there, and the one write that may have *)
(* settled it behind the loop's back is a terminal write whose answer was  *)
(* lost.                                                                   *)
PhaseOK(r) ==
    /\ pc[r] \in BeforeLoop \cup BodyPCs \cup {"finalize"} => event[r] = "none"
    /\ pc[r] \in RunningPCs => runRow[r] = "running"
    /\ pc[r] = "finalize" => \/ runRow[r] = "running"
                             \/ "complete" \in LostAcks /\ runRow[r] = "completed"
                             \/ "maxFail" \in LostAcks /\ runRow[r] = "failed"
    /\ pc[r] \in {"closeCalls", "saveTrace"} => event[r] # "none"

(* EventAgreesWithRow for one run. *)
EventOK(r) ==
    /\ event[r] = "message_completed" => runRow[r] = "completed"
    /\ event[r] = "MAX_ITERATIONS" => runRow[r] = "failed"
    /\ \A cause \in Causes : event[r] = CodeOf(cause) =>
          \/ runRow[r] = StatusOf(cause)
          \/ "finalize" \in LostWrites /\ runRow[r] \in {"running", "cancelled"}
          \/ "complete" \in LostAcks /\ runRow[r] = "completed"
          \/ "maxFail" \in LostAcks /\ runRow[r] = "failed"

ReportInv == \A r \in Runs : PhaseOK(r) /\ EventOK(r)

LEMMA CodesDistinct ==
    ASSUME NEW c \in Causes
    PROVE  /\ CodeOf(c) \notin {"none", "message_completed", "MAX_ITERATIONS"}
           /\ StatusOf(c) \in Terminal /\ StatusOf(c) # "running"
           /\ \A d \in Causes : CodeOf(d) = CodeOf(c) => d = c
BY DEF Causes, CodeOf, StatusOf, Terminal

LEMMA ReportSetup ==
    ASSUME TypeInv, NEW r \in Runs, PhaseOK(r), EventOK(r), SetupStep(r)
    PROVE  PhaseOK(r)' /\ EventOK(r)'
<1>1. event[r] = "none" /\ event'[r] = "none"
  BY OwnSetup DEF TypeInv, PhaseOK, BeforeLoop, SameEvent
<1>2. EventOK(r)'
  BY <1>1 DEF EventOK, Causes, CodeOf
<1>3. PhaseOK(r)'
  BY <1>1, OwnSetup DEF TypeInv, PhaseOK, BeforeLoop, RunningPCs, BodyPCs, SameRow
<1>4. QED
  BY <1>2, <1>3

LEMMA ReportDrive ==
    ASSUME TypeInv, NEW r \in Runs, PhaseOK(r), EventOK(r), DriveStep(r)
    PROVE  PhaseOK(r)' /\ EventOK(r)'
<1>0. TypeOK
  BY DEF TypeInv
<1>1. CASE RecheckPrereqs(r)
  <2>1. pc[r] = "recheck" /\ event'[r] = "none" /\ runRow'[r] = "running"
    BY <1>0, <1>1, OwnRecheck DEF PhaseOK, BeforeLoop, RunningPCs, SameRows, SameEvent, SameRow
  <2>2. pc'[r] \in {"maxFail", "finalize", "history", "driveCancel", "done"}
    BY <1>0, <1>1, OwnRecheck DEF AtLoopTop, At, ThrownFrom, AtDriveFinally
  <2>3. PhaseOK(r)'
    BY <2>1, <2>2 DEF PhaseOK
  <2>4. EventOK(r)'
    BY <2>1 DEF EventOK, Causes, CodeOf
  <2>5. QED
    BY <2>3, <2>4
<1>2. CASE DriveCancel(r)
  <2>1. pc'[r] = "done" /\ event'[r] = event[r]
    BY <1>0, <1>2, OwnDriveCancel DEF SameEvent
  <2>2. runRow'[r] = runRow[r] \/ (runRow[r] = "running" /\ runRow'[r] = "cancelled")
    BY <1>0, <1>2, OwnDriveCancel DEF SettledAs
  <2>3. PhaseOK(r)'
    BY <2>1 DEF PhaseOK, BeforeLoop, BodyPCs, RunningPCs
  <2>4. EventOK(r)'
    <3>1. \A c \in Causes : StatusOf(c) # "running"
      BY CodesDistinct
    <3>2. QED
      BY <2>1, <2>2, <3>1 DEF EventOK
  <2>5. QED
    BY <2>3, <2>4
<1>3. QED
  BY <1>1, <1>2 DEF DriveStep

LEMMA RoundMoves ==
    ASSUME TypeInv, NEW r \in Runs, RoundStep(r)
    PROVE  /\ pc[r] \in BodyPCs /\ pc'[r] \in BodyPCs \cup {"finalize"}
           /\ SameRow(r) /\ SameTrace(r) /\ SameEvent(r)
<1>0. TypeOK
  BY DEF TypeInv
<1> USE DEF BodyPCs
<1>1. CASE LoadHistory(r) \/ ModelToken(r) \/ ModelLastChunk(r) \/ ModelThrows(r) \/ ModelEnds(r)
  BY <1>0, <1>1, OwnModel DEF At, ThrownFrom, SameRows
<1>2. CASE SaveCalls(r)
  BY <1>0, <1>2, OwnSaveCalls DEF At, ThrownFrom
<1>3. CASE CreateCall(r)
  BY <1>3, OwnCreateCall DEF At, ThrownFrom
<1>4. CASE RunTool(r)
  BY <1>0, <1>4, OwnRunTool DEF At, SameRows
<1>5. CASE RecordCall(r)
  BY <1>0, <1>5, OwnRecordCall DEF At, ThrownFrom
<1>6. CASE SaveToolMessage(r)
  BY <1>6, OwnSaveToolMessage DEF At, ThrownFrom, AtLoopTop
<1>7. QED
  BY <1>1, <1>2, <1>3, <1>4, <1>5, <1>6 DEF RoundStep

LEMMA ReportRound ==
    ASSUME TypeInv, NEW r \in Runs, PhaseOK(r), EventOK(r), RoundStep(r)
    PROVE  PhaseOK(r)' /\ EventOK(r)'
<1>1. pc[r] \in BodyPCs /\ pc'[r] \in BodyPCs \cup {"finalize"} /\ SameRow(r) /\ SameEvent(r)
  BY RoundMoves
<1>2. event'[r] = "none" /\ runRow'[r] = "running"
  BY <1>1 DEF PhaseOK, RunningPCs, SameRow, SameEvent
<1>3. QED
  BY <1>1, <1>2 DEF PhaseOK, EventOK, Causes, CodeOf, BodyPCs

LEMMA ReportExit ==
    ASSUME TypeInv, NEW r \in Runs, PhaseOK(r), EventOK(r), ExitStep(r)
    PROVE  PhaseOK(r)' /\ EventOK(r)'
<1>0. TypeOK /\ ctx[r].cause \in Causes
  BY DEF TypeInv, TypeOK, Ctx
<1>1. CASE FailMaxIterations(r) \/ Complete(r)
  <2>1. PICK op \in {"maxFail", "complete"} : \E o \in Outcomes(op) :
           /\ pc[r] = op
           /\ SettledAs(r, IF op = "maxFail" THEN "failed" ELSE "completed", o)
           /\ \/ Rejected(o) /\ ThrownFrom(r, ctx[r]) /\ SameEvent(r)
              \/ /\ ~Rejected(o) /\ AtLoopFinally(r, ctx[r])
                 /\ event'[r] = IF op = "maxFail" THEN "MAX_ITERATIONS" ELSE "message_completed"
    BY <1>0, <1>1, OwnTerminalWrite
  <2>2. PICK o \in Outcomes(op) :
           /\ pc[r] = op
           /\ SettledAs(r, IF op = "maxFail" THEN "failed" ELSE "completed", o)
           /\ \/ Rejected(o) /\ ThrownFrom(r, ctx[r]) /\ SameEvent(r)
              \/ /\ ~Rejected(o) /\ AtLoopFinally(r, ctx[r])
                 /\ event'[r] = IF op = "maxFail" THEN "MAX_ITERATIONS" ELSE "message_completed"
    BY <2>1
  <2>3. runRow[r] = "running" /\ event[r] = "none"
    BY <2>2 DEF PhaseOK, RunningPCs, BodyPCs
  <2>4. CASE Rejected(o)
    <3>1. pc'[r] = "finalize" /\ event'[r] = "none"
      BY <2>2, <2>3, <2>4 DEF ThrownFrom, SameEvent
    <3>2. \/ runRow'[r] = "running"
          \/ op \in LostAcks /\ runRow'[r] = IF op = "maxFail" THEN "failed" ELSE "completed"
      BY <2>2, <2>3, <2>4, OutcomeFacts DEF SettledAs
    <3>3. QED
      BY <3>1, <3>2 DEF PhaseOK, EventOK, Causes, CodeOf, RunningPCs, BodyPCs
  <2>5. CASE ~Rejected(o)
    <3>1. pc'[r] \in {"saveTrace", "closeCalls"}
      BY <2>2, <2>5 DEF AtLoopFinally, At
    <3>2. runRow'[r] = IF op = "maxFail" THEN "failed" ELSE "completed"
      BY <2>2, <2>3, <2>5, OutcomeFacts DEF SettledAs
    <3>3. event'[r] = IF op = "maxFail" THEN "MAX_ITERATIONS" ELSE "message_completed"
      BY <2>2, <2>5
    <3>4. PhaseOK(r)'
      BY <3>1, <3>3 DEF PhaseOK, BeforeLoop, RunningPCs, BodyPCs
    <3>5. EventOK(r)'
      BY <3>2, <3>3 DEF EventOK, Causes, CodeOf
    <3>6. QED
      BY <3>4, <3>5
  <2>6. QED
    BY <2>4, <2>5
<1>2. CASE SaveText(r)
  <2>1. pc[r] = "saveText" /\ pc'[r] \in {"finalize", "complete"} /\ SameRow(r) /\ SameEvent(r)
    BY <1>0, <1>2, OwnSaveText DEF At, ThrownFrom
  <2>2. event'[r] = "none" /\ runRow'[r] = "running"
    BY <2>1 DEF PhaseOK, RunningPCs, BodyPCs, SameRow, SameEvent
  <2>3. QED
    BY <2>1, <2>2 DEF PhaseOK, EventOK, Causes, CodeOf
<1>3. CASE FinalizeRun(r)
  <2>1. /\ pc[r] = "finalize" /\ pc'[r] \in {"saveTrace", "closeCalls"}
        /\ event'[r] = CodeOf(ctx[r].cause)
    BY <1>0, <1>3, OwnFinalize DEF AtLoopFinally, At
  <2>2. PICK o \in Outcomes("finalize") : SettledAs(r, StatusOf(ctx[r].cause), o)
    BY <1>0, <1>3, OwnFinalize
  <2>3. \/ runRow'[r] = StatusOf(ctx[r].cause)
        \/ "finalize" \in LostWrites /\ runRow'[r] = "running"
        \/ "complete" \in LostAcks /\ runRow'[r] = "completed"
        \/ "maxFail" \in LostAcks /\ runRow'[r] = "failed"
    BY <2>1, <2>2, OutcomeFacts DEF SettledAs, PhaseOK
  <2>4. PhaseOK(r)'
    BY <1>0, <2>1, CodesDistinct DEF PhaseOK, BeforeLoop, RunningPCs, BodyPCs
  <2>5. EventOK(r)'
    BY <1>0, <2>1, <2>3, CodesDistinct DEF EventOK
  <2>6. QED
    BY <2>4, <2>5
<1>4. CASE CloseCalls(r)
  <2>1. pc[r] = "closeCalls" /\ pc'[r] = "saveTrace" /\ SameRow(r) /\ SameEvent(r)
    BY <1>0, <1>4, OwnCloseCalls DEF At
  <2>2. QED
    BY <2>1 DEF PhaseOK, EventOK, BeforeLoop, RunningPCs, BodyPCs, SameRow, SameEvent
<1>5. CASE SaveTrace(r)
  <2>1. pc'[r] \in {"driveCancel", "done"} /\ SameRow(r) /\ SameEvent(r)
    BY <1>0, <1>5, OwnSaveTrace DEF AtDriveFinally
  <2>2. QED
    BY <2>1 DEF PhaseOK, EventOK, BeforeLoop, RunningPCs, BodyPCs, SameRow, SameEvent
<1>6. QED
  BY <1>1, <1>2, <1>3, <1>4, <1>5 DEF ExitStep

LEMMA ReportStep ==
    ASSUME TypeInv, ReportInv, [Next]_vars
    PROVE  ReportInv'
<1> SUFFICES ASSUME NEW q \in Runs PROVE PhaseOK(q)' /\ EventOK(q)'
  BY DEF ReportInv
<1>1. TypeOK /\ PhaseOK(q) /\ EventOK(q)
  BY DEF TypeInv, ReportInv
<1>2. ASSUME NEW r \in Runs, RunStep(r) PROVE PhaseOK(q)' /\ EventOK(q)'
  <2>1. CASE q = r
    BY <1>1, <1>2, <2>1, ReportSetup, ReportDrive, ReportRound, ReportExit DEF RunStep
  <2>2. CASE q # r
    <3>1. Untouched(q)
      BY <1>1, <1>2, <2>2, OthersUntouched
    <3>2. QED
      BY <1>1, <3>1 DEF PhaseOK, EventOK, Untouched, SameRows, SameRow, SameEvent
  <2>3. QED
    BY <2>1, <2>2
<1>3. ASSUME OutsideStep(q), SameRows(q) PROVE PhaseOK(q)' /\ EventOK(q)'
  <2>1. runRow'[q] = runRow[q] /\ event'[q] = event[q]
    BY <1>3 DEF SameRows, SameRow, SameEvent
  <2>2. \/ pc'[q] = pc[q] \/ pc'[q] = "abandoned"
        \/ pc[q] = "idle" /\ pc'[q] \in {"prereqs", "rejected"}
    BY <1>3 DEF OutsideStep, Admitted, Abandoned, Cancelled, CallTimerFired, RunTimerFired
  <2>3. PhaseOK(q)'
    BY <1>1, <2>1, <2>2 DEF PhaseOK, BeforeLoop, RunningPCs, BodyPCs
  <2>4. EventOK(q)'
    BY <1>1, <2>1 DEF EventOK
  <2>5. QED
    BY <2>3, <2>4
<1>4. QED
  BY <1>1, <1>2, <1>3, OutsideShape

-----------------------------------------------------------------------------
(* Every outcome has its cause *)

(* A run without a row was neither cancelled nor timed out.  While the row *)
(* is `running`, an abort reason, a pending cancellation and the cause     *)
(* that the catch is about to write are all backed by a cancel accepted on *)
(* the running row or by a deadline that fired on it.                      *)
CauseOK(r) ==
    /\ runRow[r] = "absent" => abortReason[r] = "none" /\ r \notin cancelledRuns
    /\ runRow[r] = "running" =>
         /\ abortReason[r] = "cancel" \/ r \in cancelledRuns => cancelRequested[r] # "none"
         /\ abortReason[r] = "total" => r \in deadlineFired
         /\ pc[r] = "finalize" => /\ ctx[r].cause = "cancel" => cancelRequested[r] # "none"
                                  /\ ctx[r].cause = "timeout" => r \in deadlineFired
    /\ ctx[r].fired \/ ctx[r].deadlineHit => r \in deadlineFired
    /\ pc[r] = "driveCancel" => r \in cancelledRuns
    /\ runRow[r] = "cancelled" => cancelRequested[r] # "none"
    /\ runRow[r] = "timed_out" => r \in deadlineFired

CauseInv == \A r \in Runs : CauseOK(r)

(* What a run's own step must respect. *)
LEMMA CauseKept ==
    ASSUME NEW r \in Runs, CauseOK(r), WorldKept, cancelledRuns' \subseteq cancelledRuns,
           ctx'[r].fired \/ ctx'[r].deadlineHit => r \in deadlineFired,
           pc'[r] = "driveCancel" => r \in cancelledRuns',
           runRow'[r] = "absent" => runRow[r] = "absent",
           runRow'[r] = "running" => runRow[r] = "running" \/ runRow[r] = "absent",
           runRow'[r] = "cancelled" => cancelRequested[r] # "none",
           runRow'[r] = "timed_out" => r \in deadlineFired,
           runRow'[r] = "running" /\ pc'[r] = "finalize" =>
              /\ ctx'[r].cause = "cancel" => cancelRequested[r] # "none"
              /\ ctx'[r].cause = "timeout" => r \in deadlineFired
    PROVE  CauseOK(r)'
<1>1. /\ abortReason'[r] = abortReason[r] /\ cancelRequested'[r] = cancelRequested[r]
      /\ deadlineFired' = deadlineFired
  BY DEF WorldKept
<1>2. r \in cancelledRuns' => r \in cancelledRuns
  OBVIOUS
<1>3. QED
  BY <1>1, <1>2 DEF CauseOK

(* A throw of a running run classifies what really happened. *)
LEMMA CauseThrown ==
    ASSUME NEW r \in Runs, CauseOK(r), WorldKept, cancelledRuns' \subseteq cancelledRuns,
           NEW c, ThrownFrom(r, c), c.fired \/ c.deadlineHit => r \in deadlineFired,
           SameRow(r) \/ runRow'[r] \in {"completed", "failed"}
    PROVE  CauseOK(r)'
<1>1. pc'[r] = "finalize" /\ ctx'[r].cause = ClassifyTerminal(r, c)
  BY DEF ThrownFrom
<1>2. ctx'[r].fired \/ ctx'[r].deadlineHit => r \in deadlineFired
  BY DEF ThrownFrom
<1>3. runRow[r] = "running" => /\ ctx'[r].cause = "cancel" => cancelRequested[r] # "none"
                               /\ ctx'[r].cause = "timeout" => r \in deadlineFired
  BY <1>1 DEF ClassifyTerminal, CauseOK
<1>4. /\ runRow'[r] = "absent" => runRow[r] = "absent"
      /\ runRow'[r] = "running" => runRow[r] = "running"
      /\ runRow'[r] = "cancelled" => cancelRequested[r] # "none"
      /\ runRow'[r] = "timed_out" => r \in deadlineFired
  BY DEF SameRow, CauseOK
<1>5. QED
  BY <1>1, <1>2, <1>3, <1>4, CauseKept

LEMMA CauseMoved ==
    ASSUME NEW r \in Runs, CauseOK(r), WorldKept, cancelledRuns' \subseteq cancelledRuns,
           pc'[r] \notin {"finalize", "driveCancel"},
           ctx'[r].fired \/ ctx'[r].deadlineHit => r \in deadlineFired,
           SameRow(r) \/ runRow'[r] \in {"completed", "failed"}
    PROVE  CauseOK(r)'
<1>1. /\ runRow'[r] = "absent" => runRow[r] = "absent"
      /\ runRow'[r] = "running" => runRow[r] = "running"
      /\ runRow'[r] = "cancelled" => cancelRequested[r] # "none"
      /\ runRow'[r] = "timed_out" => r \in deadlineFired
  BY DEF SameRow, CauseOK
<1>2. QED
  BY <1>1, CauseKept

(* The deadline marks the loop carries through its updates of its locals. *)
LEMMA LocalMarks ==
    ASSUME NEW c \in Ctx, NEW x, NEW y, NEW z
    PROVE  /\ [c EXCEPT !.text = x].fired = c.fired
           /\ [c EXCEPT !.text = x].deadlineHit = c.deadlineHit
           /\ [c EXCEPT !.fired = x].fired = x
           /\ [c EXCEPT !.fired = x].deadlineHit = c.deadlineHit
           /\ [c EXCEPT !.batch = x, !.call = y].fired = c.fired
           /\ [c EXCEPT !.batch = x, !.call = y].deadlineHit = c.deadlineHit
           /\ [c EXCEPT !.text = x, !.call = y].fired = c.fired
           /\ [c EXCEPT !.text = x, !.call = y].deadlineHit = c.deadlineHit
           /\ [c EXCEPT !.openToolCalls = x, !.fired = y, !.status = z].fired = y
           /\ [c EXCEPT !.openToolCalls = x, !.fired = y, !.status = z].deadlineHit = c.deadlineHit
           /\ [c EXCEPT !.status = x, !.fired = y].fired = y
           /\ [c EXCEPT !.status = x, !.fired = y].deadlineHit = c.deadlineHit
           /\ [c EXCEPT !.openToolCalls = x, !.deadlineHit = y].fired = c.fired
           /\ [c EXCEPT !.openToolCalls = x, !.deadlineHit = y].deadlineHit = y
BY DEF Ctx

LEMMA CauseSetup ==
    ASSUME IInv, NEW r \in Runs, CauseOK(r), SetupStep(r)
    PROVE  CauseOK(r)'
<1>0. TypeOK /\ RowInv
  BY DEF IInv, TypeInv
<1>1. WorldKept /\ cancelledRuns' \subseteq cancelledRuns
  BY <1>0, WorldKeptByRuns, CancelledShrinks DEF RunStep
<1>2. pc'[r] \notin {"finalize", "driveCancel"} /\ ctx'[r] = ctx[r]
  BY <1>0, OwnSetup
<1>3. SameRow(r) \/ (runRow[r] = "absent" /\ runRow'[r] = "running")
  BY <1>0, OwnSetup DEF RowInv
<1>4. CASE SameRow(r)
  BY <1>1, <1>2, <1>4, CauseMoved DEF CauseOK
<1>5. CASE runRow[r] = "absent" /\ runRow'[r] = "running"
  BY <1>1, <1>2, <1>5, CauseKept DEF CauseOK
<1>6. QED
  BY <1>3, <1>4, <1>5

LEMMA CauseDrive ==
    ASSUME TypeOK, NEW r \in Runs, CauseOK(r), DriveStep(r)
    PROVE  CauseOK(r)'
<1>1. WorldKept /\ cancelledRuns' \subseteq cancelledRuns
  BY WorldKeptByRuns, CancelledShrinks DEF RunStep
<1>2. CASE RecheckPrereqs(r)
  <2>1. SameRow(r)
    BY <1>2, OwnRecheck DEF SameRows
  <2>2. ~NewCtx.fired /\ ~NewCtx.deadlineHit
    BY DEF NewCtx
  <2>3. CASE AtLoopTop(r, NewCtx)
    BY <1>1, <2>1, <2>2, <2>3, CauseThrown, CauseMoved DEF AtLoopTop, At
  <2>4. CASE AtDriveFinally(r) /\ ctx'[r] = ctx[r]
    BY <1>1, <2>1, <2>4, CauseKept DEF AtDriveFinally, CauseOK, SameRow
  <2>5. QED
    BY <1>2, <2>3, <2>4, OwnRecheck
<1>3. CASE DriveCancel(r)
  <2>1. pc[r] = "driveCancel" /\ pc'[r] = "done" /\ ctx'[r] = ctx[r]
    BY <1>3, OwnDriveCancel
  <2>2. SameRow(r) \/ (runRow[r] = "running" /\ runRow'[r] = "cancelled")
    BY <1>3, OwnDriveCancel DEF SettledAs, SameRow
  <2>3. QED
    BY <1>1, <2>1, <2>2, CauseKept DEF CauseOK, SameRow
<1>4. QED
  BY <1>2, <1>3 DEF DriveStep

LEMMA CauseRound ==
    ASSUME TypeInv, NEW r \in Runs, CauseOK(r), PhaseOK(r), RoundStep(r)
    PROVE  CauseOK(r)'
<1>0. TypeOK /\ ctx[r] \in Ctx
  BY DEF TypeInv, TypeOK
<1>1. WorldKept /\ cancelledRuns' \subseteq cancelledRuns
  BY <1>0, WorldKeptByRuns, CancelledShrinks DEF RunStep
<1>2. SameRow(r) /\ pc[r] \in BodyPCs
  BY RoundMoves
<1>3. CallTimedOut(r) => r \in deadlineFired
  BY <1>2 DEF CallTimedOut, CauseOK, PhaseOK, RunningPCs
<1>4. ctx[r].fired \/ ctx[r].deadlineHit => r \in deadlineFired
  BY DEF CauseOK
<1>5. CASE ThrownFrom(r, ctx[r])
  BY <1>1, <1>2, <1>4, <1>5, CauseThrown
<1>6. CASE LoadHistory(r) \/ ModelToken(r) \/ ModelLastChunk(r) \/ ModelThrows(r) \/ ModelEnds(r)
  <2> DEFINE d == [ctx[r] EXCEPT !.deadlineHit = @ \/ CallTimedOut(r), !.fired = FALSE]
  <2>1. CASE ThrownFrom(r, d)
    <3>1. d.fired \/ d.deadlineHit => r \in deadlineFired
      BY <1>0, <1>3, <1>4 DEF Ctx
    <3>2. QED
      BY <1>1, <1>2, <2>1, <3>1, CauseThrown
  <2>2. CASE ~ThrownFrom(r, d) /\ ~ThrownFrom(r, ctx[r])
    <3>1. pc'[r] \notin {"finalize", "driveCancel"}
      BY <1>0, <1>6, <2>2, OwnModel DEF At
    <3>2. ctx'[r].fired \/ ctx'[r].deadlineHit => ctx[r].fired \/ ctx[r].deadlineHit
      <4>1. \/ ctx'[r] = [ctx[r] EXCEPT !.fired = FALSE]
            \/ ctx'[r] = [ctx[r] EXCEPT !.text = TRUE]
            \/ \E n \in 0 .. MaxCalls : ctx'[r] = [ctx[r] EXCEPT !.batch = n, !.call = 0]
        BY <1>0, <1>6, <2>2, OwnModel DEF At
      <4>2. CASE ctx'[r] = [ctx[r] EXCEPT !.fired = FALSE]
        BY <1>0, <4>2, LocalMarks
      <4>3. CASE ctx'[r] = [ctx[r] EXCEPT !.text = TRUE]
        BY <1>0, <4>3, LocalMarks
      <4>4. ASSUME NEW n \in 0 .. MaxCalls, ctx'[r] = [ctx[r] EXCEPT !.batch = n, !.call = 0]
            PROVE  ctx'[r].fired \/ ctx'[r].deadlineHit => ctx[r].fired \/ ctx[r].deadlineHit
        BY <1>0, <4>4, LocalMarks
      <4>5. QED
        BY <4>1, <4>2, <4>3, <4>4
    <3>3. QED
      BY <1>1, <1>2, <1>4, <3>1, <3>2, CauseMoved
  <2>3. QED
    BY <1>5, <2>1, <2>2
<1>7. CASE ~ThrownFrom(r, ctx[r]) /\ (SaveCalls(r) \/ CreateCall(r) \/ RunTool(r) \/ RecordCall(r))
  <2>1. pc'[r] \notin {"finalize", "driveCancel"}
    BY <1>0, <1>7, OwnSaveCalls, OwnCreateCall, OwnRunTool, OwnRecordCall DEF At
  <2>2. CASE SaveCalls(r)
    <3>1. ctx'[r].fired = ctx[r].fired /\ ctx'[r].deadlineHit = ctx[r].deadlineHit
      <4>1. ctx'[r] = [ctx[r] EXCEPT !.text = FALSE, !.call = 1]
        BY <1>0, <1>7, <2>2, OwnSaveCalls DEF At
      <4>2. QED
        BY <1>0, <4>1, LocalMarks
    <3>2. QED
      BY <1>1, <1>2, <1>4, <2>1, <3>1, CauseMoved
  <2>3. CASE CreateCall(r)
    <3>1. ~ctx'[r].fired /\ ctx'[r].deadlineHit = ctx[r].deadlineHit
      <4>1. ctx'[r] = [ctx[r] EXCEPT !.openToolCalls = @ \cup {CurrentCall(r)},
                                     !.fired = FALSE, !.status = "failed"]
        BY <1>7, <2>3, OwnCreateCall DEF At
      <4>2. QED
        BY <1>0, <4>1, LocalMarks
    <3>2. QED
      BY <1>1, <1>2, <1>4, <2>1, <3>1, CauseMoved
  <2>4. CASE RunTool(r)
    <3>1. ctx'[r].fired = CallTimedOut(r) /\ ctx'[r].deadlineHit = ctx[r].deadlineHit
      <4>1. PICK st \in {"completed", "failed"} :
               ctx'[r] = [ctx[r] EXCEPT !.status = st, !.fired = CallTimedOut(r)]
        BY <1>0, <2>4, OwnRunTool DEF At
      <4>2. QED
        BY <1>0, <4>1, LocalMarks
    <3>2. QED
      BY <1>1, <1>2, <1>3, <1>4, <2>1, <3>1, CauseMoved
  <2>5. CASE RecordCall(r)
    <3>1. /\ ctx'[r].fired = ctx[r].fired
          /\ ctx'[r].deadlineHit = (ctx[r].deadlineHit \/ ctx[r].fired)
      <4>1. ctx'[r] = [ctx[r] EXCEPT !.openToolCalls = @ \ {CurrentCall(r)},
                                     !.deadlineHit = @ \/ ctx[r].fired]
        BY <1>0, <1>7, <2>5, OwnRecordCall DEF At
      <4>2. QED
        BY <1>0, <4>1, LocalMarks
    <3>2. QED
      BY <1>1, <1>2, <1>4, <2>1, <3>1, CauseMoved
  <2>6. QED
    BY <1>7, <2>2, <2>3, <2>4, <2>5
<1>8. CASE ~ThrownFrom(r, ctx[r]) /\ SaveToolMessage(r)
  <2> DEFINE d == [ctx[r] EXCEPT !.call = @ + 1]
             e == [ctx[r] EXCEPT !.iterationCount = @ + 1]
  <2>1. At(r, "createCall", d) \/ AtLoopTop(r, e)
    BY <1>8, OwnSaveToolMessage
  <2>2. /\ d.fired = ctx[r].fired /\ d.deadlineHit = ctx[r].deadlineHit
        /\ e.fired = ctx[r].fired /\ e.deadlineHit = ctx[r].deadlineHit
    BY <1>0 DEF Ctx
  <2> HIDE DEF d, e
  <2>3. QED
    BY <1>1, <1>2, <1>4, <2>1, <2>2, CauseThrown, CauseMoved DEF At, AtLoopTop
<1>9. QED
  BY <1>5, <1>6, <1>7, <1>8 DEF RoundStep

LEMMA CauseExit ==
    ASSUME TypeOK, NEW r \in Runs, CauseOK(r), ExitStep(r)
    PROVE  CauseOK(r)'
<1>0. ctx[r] \in Ctx
  BY DEF TypeOK
<1>1. WorldKept /\ cancelledRuns' \subseteq cancelledRuns
  BY WorldKeptByRuns, CancelledShrinks DEF RunStep
<1>2. ctx[r].fired \/ ctx[r].deadlineHit => r \in deadlineFired
  BY DEF CauseOK
<1>3. CASE FailMaxIterations(r) \/ Complete(r)
  <2>1. SameRow(r) \/ runRow'[r] \in {"completed", "failed"}
    BY <1>3, OwnTerminalWrite DEF SettledAs, SameRow
  <2>2. ThrownFrom(r, ctx[r]) \/ (pc'[r] \notin {"finalize", "driveCancel"} /\ ctx'[r] = ctx[r])
    BY <1>3, OwnTerminalWrite DEF AtLoopFinally, At
  <2>3. QED
    BY <1>1, <1>2, <2>1, <2>2, CauseThrown, CauseMoved
<1>4. CASE SaveText(r)
  BY <1>1, <1>2, <1>4, OwnSaveText, CauseThrown, CauseMoved DEF At
<1>5. CASE FinalizeRun(r)
  <2>1. pc[r] = "finalize" /\ pc'[r] \in {"saveTrace", "closeCalls"} /\ ctx'[r] = ctx[r]
    BY <1>5, OwnFinalize DEF AtLoopFinally, At
  <2>2. SameRow(r) \/ (runRow[r] = "running" /\ runRow'[r] = StatusOf(ctx[r].cause))
    BY <1>5, OwnFinalize DEF SettledAs, SameRow
  <2>3. /\ runRow'[r] = "absent" => runRow[r] = "absent"
        /\ runRow'[r] = "running" => runRow[r] = "running"
        /\ runRow'[r] = "cancelled" => cancelRequested[r] # "none"
        /\ runRow'[r] = "timed_out" => r \in deadlineFired
    BY <1>0, <2>1, <2>2 DEF CauseOK, SameRow, Ctx, Causes, StatusOf
  <2>4. QED
    BY <1>1, <1>2, <2>1, <2>3, CauseKept
<1>6. CASE CloseCalls(r)
  BY <1>1, <1>2, <1>6, OwnCloseCalls, CauseMoved DEF At
<1>7. CASE SaveTrace(r)
  BY <1>1, <1>2, <1>7, OwnSaveTrace, CauseKept DEF AtDriveFinally, CauseOK, SameRow
<1>8. QED
  BY <1>3, <1>4, <1>5, <1>6, <1>7 DEF ExitStep

(* A run that reported an outcome, or whose loop runs, has a row. *)
LEMMA LoopHasRow ==
    ASSUME TypeOK, NEW r \in Runs, PhaseOK(r), EventOK(r), pc[r] \in LoopPCs
    PROVE  runRow[r] # "absent"
<1>1. CASE pc[r] \in BodyPCs \cup {"finalize"}
  BY <1>1 DEF PhaseOK, RunningPCs
<1>2. CASE event[r] \in Events
  BY <1>2 DEF EventOK, Events, Causes, CodeOf, StatusOf
<1>3. QED
  BY <1>1, <1>2 DEF PhaseOK, LoopPCs, ExitPCs, TypeOK

LEMMA CauseOutside ==
    ASSUME TypeOK, NEW q \in Runs, CauseOK(q), PhaseOK(q), EventOK(q), OutsideStep(q), SameRows(q)
    PROVE  CauseOK(q)'
<1>1. runRow'[q] = runRow[q]
  BY DEF SameRows, SameRow
<1> USE DEF Kept, KeptGhosts, KeptCancel
<1>2. CASE pc'[q] = pc[q] /\ Kept(q) /\ KeptGhosts(q) /\ KeptCancel(q)
  BY <1>1, <1>2 DEF CauseOK
<1>3. CASE Admitted(q)
  BY <1>1, <1>3 DEF CauseOK, Admitted
<1>4. CASE Abandoned(q)
  <2>1. pc'[q] \notin {"finalize", "driveCancel"}
    BY <1>4 DEF Abandoned, InFlight, LoopPCs, ExitPCs
  <2>2. QED
    BY <1>1, <1>4, <2>1 DEF CauseOK, Abandoned
<1>5. CASE Cancelled(q)
  <2>1. PhaseOf(pc[q]) # "none"
    BY DEF PhaseOf
  <2>2. QED
    BY <1>1, <1>5, <2>1 DEF CauseOK, Cancelled
<1>6. CASE CallTimerFired(q)
  <2>1. ctx'[q].cause = ctx[q].cause /\ pc'[q] # "finalize" /\ pc'[q] # "driveCancel"
    BY <1>6 DEF CallTimerFired, TypeOK, Ctx
  <2>2. QED
    BY <1>1, <1>6, <2>1 DEF CauseOK, CallTimerFired
<1>7. CASE RunTimerFired(q)
  <2>1. runRow[q] # "absent"
    BY <1>7, LoopHasRow DEF RunTimerFired
  <2>2. QED
    BY <1>1, <1>7, <2>1 DEF CauseOK, RunTimerFired
<1>8. QED
  BY <1>2, <1>3, <1>4, <1>5, <1>6, <1>7 DEF OutsideStep

LEMMA CauseStep ==
    ASSUME IInv, ReportInv, CauseInv, [Next]_vars
    PROVE  CauseInv'
<1> SUFFICES ASSUME NEW q \in Runs PROVE CauseOK(q)'
  BY DEF CauseInv
<1>1. TypeInv /\ TypeOK /\ PhaseOK(q) /\ EventOK(q) /\ CauseOK(q)
  BY DEF IInv, TypeInv, ReportInv, CauseInv
<1>2. ASSUME NEW r \in Runs, RunStep(r) PROVE CauseOK(q)'
  <2>1. CASE q = r
    BY <1>1, <1>2, <2>1, CauseSetup, CauseDrive, CauseRound, CauseExit DEF RunStep
  <2>2. CASE q # r
    <3>1. Untouched(q) /\ WorldKept
      BY <1>1, <1>2, <2>2, OthersUntouched, WorldKeptByRuns
    <3>2. QED
      BY <1>1, <3>1 DEF CauseOK, Untouched, WorldKept, SameRows, SameRow
  <2>3. QED
    BY <2>1, <2>2
<1>3. QED
  BY <1>1, <1>2, OutsideShape, CauseOutside

-----------------------------------------------------------------------------
(* Every call the history names is answered *)

(* The awaits at which no call of the current round was named yet. *)
FreshPCs == {"history", "model", "streamEnd", "saveCalls", "saveText", "complete"}

Answered(S, m) == \A k \in 1 .. m.call : ToolMessage(m.round, k) \in S

(* The messages S of a run at the await l with locals c: the calls of the  *)
(* earlier rounds are answered; those of the current round up to the one   *)
(* being processed; all of them once the row says `completed`.             *)
HistoryOK(l, c, S, row) ==
    \A m \in S : m.role = "calls" =>
        /\ l \notin BeforeLoop
        /\ l \in FreshPCs => m.round < c.iterationCount /\ Answered(S, m)
        /\ l \in CallPCs =>
             \/ m.round < c.iterationCount /\ Answered(S, m)
             \/ /\ m.round = c.iterationCount /\ m.call = c.batch
                /\ \A k \in 1 .. c.call - 1 : ToolMessage(m.round, k) \in S
        /\ row = "completed" => Answered(S, m)

HistoryInv == \A r \in Runs : HistoryOK(pc[r], ctx[r], messages[r], runRow[r])

(* The run leaves the rounds; it completes only with all calls answered. *)
LEMMA HistoryLeaves ==
    ASSUME NEW l, NEW c, NEW S, NEW row, HistoryOK(l, c, S, row),
           NEW k, NEW d, NEW T, NEW new,
           k \notin BeforeLoop \cup FreshPCs \cup CallPCs, S \subseteq T,
           new = "completed" => /\ row = "completed" \/ l = "complete"
                                /\ T = S
    PROVE  HistoryOK(k, d, T, new)
<1>1. l = "complete" => l \in FreshPCs
  BY DEF FreshPCs
<1>2. QED
  BY <1>1 DEF HistoryOK

(* It moves on within a phase and names no further call. *)
LEMMA HistoryKept ==
    ASSUME NEW l, NEW c, NEW S, NEW row, HistoryOK(l, c, S, row),
           NEW k, NEW d, NEW T, NEW new, S \subseteq T,
           \A m \in T : m.role = "calls" => m \in S,
           new = "completed" => row = "completed",
           \/ l \in FreshPCs /\ k \in FreshPCs
           \/ l \in CallPCs /\ k \in CallPCs,
           /\ d.iterationCount = c.iterationCount
           /\ k \in CallPCs => d.batch = c.batch /\ d.call = c.call
    PROVE  HistoryOK(k, d, T, new)
<1>1. \A m \in S : Answered(S, m) => Answered(T, m)
  BY DEF Answered
<1>2. BeforeLoop \cap FreshPCs = {} /\ BeforeLoop \cap CallPCs = {} /\ FreshPCs \cap CallPCs = {}
  BY DEF BeforeLoop, FreshPCs, CallPCs
<1>3. SUFFICES ASSUME NEW m \in T, m.role = "calls"
               PROVE  /\ k \in FreshPCs => m.round < d.iterationCount /\ Answered(T, m)
                      /\ k \in CallPCs =>
                           \/ m.round < d.iterationCount /\ Answered(T, m)
                           \/ /\ m.round = d.iterationCount /\ m.call = d.batch
                              /\ \A j \in 1 .. d.call - 1 : ToolMessage(m.round, j) \in T
                      /\ new = "completed" => Answered(T, m)
  BY <1>2 DEF HistoryOK
<1>4. m \in S
  BY <1>3
<1>5. new = "completed" => Answered(T, m)
  BY <1>1, <1>3, <1>4 DEF HistoryOK
<1>6. k \in FreshPCs => m.round < d.iterationCount /\ Answered(T, m)
  BY <1>1, <1>2, <1>3, <1>4 DEF HistoryOK
<1>7. ASSUME k \in CallPCs
      PROVE  \/ m.round < d.iterationCount /\ Answered(T, m)
             \/ /\ m.round = d.iterationCount /\ m.call = d.batch
                /\ \A j \in 1 .. d.call - 1 : ToolMessage(m.round, j) \in T
  BY <1>1, <1>2, <1>3, <1>4, <1>7 DEF HistoryOK
<1>8. QED
  BY <1>5, <1>6, <1>7

(* The assistant message that names the calls of the round. *)
LEMMA HistoryNames ==
    ASSUME NEW c \in Ctx, NEW S, HistoryOK("saveCalls", c, S, "running"), NEW d \in Ctx,
           d.iterationCount = c.iterationCount, d.batch = c.batch, d.call = 1
    PROVE  HistoryOK("createCall", d, S \cup {CallsMessage(c.iterationCount, c.batch)}, "running")
<1> DEFINE T == S \cup {CallsMessage(c.iterationCount, c.batch)}
<1>1. "createCall" \notin BeforeLoop /\ "createCall" \notin FreshPCs /\ "saveCalls" \in FreshPCs
  BY DEF BeforeLoop, FreshPCs
<1>2. SUFFICES ASSUME NEW m \in T, m.role = "calls"
               PROVE  \/ m.round < d.iterationCount /\ Answered(T, m)
                      \/ /\ m.round = d.iterationCount /\ m.call = d.batch
                         /\ \A j \in 1 .. d.call - 1 : ToolMessage(m.round, j) \in T
  BY <1>1 DEF HistoryOK
<1>3. CASE m \in S
  BY <1>1, <1>2, <1>3 DEF HistoryOK, Answered
<1>4. CASE m = CallsMessage(c.iterationCount, c.batch)
  <2>1. m.round = d.iterationCount /\ m.call = d.batch
    BY <1>4 DEF CallsMessage
  <2>2. QED
    BY <2>1
<1>5. QED
  BY <1>3, <1>4

(* The result of the current call, and the next call. *)
LEMMA HistoryNextCall ==
    ASSUME NEW c \in Ctx, NEW S, HistoryOK("toolMessage", c, S, "running"), NEW d \in Ctx,
           d.iterationCount = c.iterationCount, d.batch = c.batch, d.call = c.call + 1,
           NEW T, S \subseteq T, \A m \in T : m.role = "calls" => m \in S,
           ToolMessage(c.iterationCount, c.call) \in T
    PROVE  HistoryOK("createCall", d, T, "running")
<1>1. "createCall" \notin BeforeLoop /\ "createCall" \notin FreshPCs /\ "toolMessage" \in CallPCs
  BY DEF BeforeLoop, FreshPCs, CallPCs
<1>2. SUFFICES ASSUME NEW m \in T, m.role = "calls"
               PROVE  \/ m.round < d.iterationCount /\ Answered(T, m)
                      \/ /\ m.round = d.iterationCount /\ m.call = d.batch
                         /\ \A j \in 1 .. d.call - 1 : ToolMessage(m.round, j) \in T
  BY <1>1 DEF HistoryOK
<1>3. \/ m.round < c.iterationCount /\ Answered(S, m)
      \/ /\ m.round = c.iterationCount /\ m.call = c.batch
         /\ \A j \in 1 .. c.call - 1 : ToolMessage(m.round, j) \in S
  BY <1>1, <1>2 DEF HistoryOK
<1>4. c.call \in Nat
  BY DEF Ctx
<1>5. QED
  BY <1>3, <1>4 DEF Answered

(* The result of the last call, and the next round. *)
LEMMA HistoryNextRound ==
    ASSUME NEW c \in Ctx, NEW S, HistoryOK("toolMessage", c, S, "running"), NEW d \in Ctx,
           d.iterationCount = c.iterationCount + 1, c.call >= c.batch,
           NEW T, S \subseteq T, \A m \in T : m.role = "calls" => m \in S /\ m \in Message,
           ToolMessage(c.iterationCount, c.call) \in T
    PROVE  HistoryOK("history", d, T, "running")
<1>1. "history" \notin BeforeLoop /\ "history" \notin CallPCs /\ "toolMessage" \in CallPCs
  BY DEF BeforeLoop, CallPCs
<1>2. SUFFICES ASSUME NEW m \in T, m.role = "calls"
               PROVE  m.round < d.iterationCount /\ Answered(T, m)
  BY <1>1 DEF HistoryOK
<1>3. \/ m.round < c.iterationCount /\ Answered(S, m)
      \/ /\ m.round = c.iterationCount /\ m.call = c.batch
         /\ \A j \in 1 .. c.call - 1 : ToolMessage(m.round, j) \in S
  BY <1>1, <1>2 DEF HistoryOK
<1>4. c.call \in Nat /\ c.batch \in Nat /\ c.iterationCount \in Nat /\ m.round \in Nat
  BY <1>2 DEF Ctx, Round, Message
<1>5. QED
  BY <1>3, <1>4 DEF Answered

LEMMA LocalCounters ==
    ASSUME NEW c \in Ctx, NEW x, NEW y, NEW z
    PROVE  /\ \A d \in {[c EXCEPT !.text = x], [c EXCEPT !.fired = x],
                        [c EXCEPT !.status = x, !.fired = y],
                        [c EXCEPT !.openToolCalls = x, !.fired = y, !.status = z],
                        [c EXCEPT !.openToolCalls = x, !.deadlineHit = y]} :
                 d.iterationCount = c.iterationCount /\ d.batch = c.batch /\ d.call = c.call
           /\ [c EXCEPT !.batch = x, !.call = y].iterationCount = c.iterationCount
           /\ [c EXCEPT !.text = x, !.call = y].iterationCount = c.iterationCount
           /\ [c EXCEPT !.text = x, !.call = y].batch = c.batch
           /\ [c EXCEPT !.text = x, !.call = y].call = y
           /\ [c EXCEPT !.call = x].iterationCount = c.iterationCount
           /\ [c EXCEPT !.call = x].batch = c.batch
           /\ [c EXCEPT !.call = x].call = x
           /\ [c EXCEPT !.iterationCount = x].iterationCount = x
BY DEF Ctx

LEMMA HistoryModel ==
    ASSUME TypeInv, NEW r \in Runs, HistoryOK(pc[r], ctx[r], messages[r], runRow[r]), PhaseOK(r),
           LoadHistory(r) \/ ModelToken(r) \/ ModelLastChunk(r) \/ ModelThrows(r) \/ ModelEnds(r)
    PROVE  HistoryOK(pc'[r], ctx'[r], messages'[r], runRow'[r])
<1>0. TypeOK /\ ctx[r] \in Ctx
  BY DEF TypeInv, TypeOK
<1>1. messages'[r] = messages[r] /\ runRow'[r] = runRow[r] /\ pc[r] \in {"history", "model", "streamEnd"}
  BY <1>0, OwnModel DEF SameRows, SameMessages, SameRow
<1>2. CASE pc'[r] = "finalize"
  <2>1. runRow[r] = "running"
    BY <1>1 DEF PhaseOK, RunningPCs, BodyPCs
  <2>2. "finalize" \notin BeforeLoop \cup FreshPCs \cup CallPCs
    BY DEF BeforeLoop, FreshPCs, CallPCs
  <2>3. QED
    BY <1>1, <1>2, <2>1, <2>2, HistoryLeaves
<1>3. CASE pc'[r] # "finalize"
  <2>1. \/ ctx'[r] = [ctx[r] EXCEPT !.fired = FALSE]
        \/ ctx'[r] = [ctx[r] EXCEPT !.text = TRUE]
        \/ \E n \in 0 .. MaxCalls : ctx'[r] = [ctx[r] EXCEPT !.batch = n, !.call = 0]
    BY <1>0, <1>3, OwnModel DEF At, ThrownFrom
  <2>2. ctx'[r].iterationCount = ctx[r].iterationCount
    <3>1. CASE ctx'[r] = [ctx[r] EXCEPT !.fired = FALSE]
      BY <1>0, <3>1, LocalCounters
    <3>2. CASE ctx'[r] = [ctx[r] EXCEPT !.text = TRUE]
      BY <1>0, <3>2, LocalCounters
    <3>3. ASSUME NEW n \in 0 .. MaxCalls, ctx'[r] = [ctx[r] EXCEPT !.batch = n, !.call = 0]
          PROVE  ctx'[r].iterationCount = ctx[r].iterationCount
      BY <1>0, <3>3, LocalCounters
    <3>4. QED
      BY <2>1, <3>1, <3>2, <3>3
  <2>3. pc'[r] \in {"model", "streamEnd", "saveCalls", "saveText", "complete"}
    BY <1>0, <1>3, OwnModel DEF At, ThrownFrom
  <2>4. pc[r] \in FreshPCs /\ pc'[r] \in FreshPCs /\ pc'[r] \notin CallPCs
    BY <1>1, <2>3 DEF FreshPCs, CallPCs
  <2>5. QED
    BY <1>1, <2>2, <2>4, HistoryKept
<1>4. QED
  BY <1>2, <1>3

LEMMA HistoryThrown ==
    ASSUME NEW r \in Runs, HistoryOK(pc[r], ctx[r], messages[r], runRow[r]), PhaseOK(r),
           pc[r] \in BodyPCs, pc'[r] = "finalize", SameRow(r), messages[r] \subseteq messages'[r]
    PROVE  HistoryOK(pc'[r], ctx'[r], messages'[r], runRow'[r])
<1>1. runRow'[r] = "running"
  BY DEF PhaseOK, RunningPCs, SameRow
<1>2. "finalize" \notin BeforeLoop \cup FreshPCs \cup CallPCs
  BY DEF BeforeLoop, FreshPCs, CallPCs
<1>3. QED
  BY <1>1, <1>2, HistoryLeaves

LEMMA HistoryTools ==
    ASSUME TypeInv, TypeInv', NEW r \in Runs,
           HistoryOK(pc[r], ctx[r], messages[r], runRow[r]), PhaseOK(r),
           SaveCalls(r) \/ CreateCall(r) \/ RunTool(r) \/ RecordCall(r) \/ SaveToolMessage(r)
    PROVE  HistoryOK(pc'[r], ctx'[r], messages'[r], runRow'[r])
<1>0. TypeOK /\ ctx[r] \in Ctx /\ ctx'[r] \in Ctx /\ messages'[r] \subseteq Message
  BY DEF TypeInv, TypeOK
<1>1. pc[r] \in BodyPCs /\ SameRow(r)
  BY RoundMoves DEF RoundStep
<1>2. runRow[r] = "running" /\ runRow'[r] = "running"
  BY <1>1 DEF PhaseOK, RunningPCs, SameRow
<1>3. CASE pc'[r] = "finalize"
  <2>1. messages[r] \subseteq messages'[r]
    <3>1. CASE SaveCalls(r)
      BY <1>0, <3>1, OwnPersist DEF SaveCalls
    <3>2. CASE ~SaveCalls(r)
      BY <1>0, <3>2, OwnCreateCall, OwnRunTool, OwnRecordCall, OwnSaveToolMessage
         DEF SameRows, SameMessages
    <3>3. QED
      BY <3>1, <3>2
  <2>2. QED
    BY <1>1, <1>3, <2>1, HistoryThrown
<1>4. CASE pc'[r] # "finalize" /\ SaveCalls(r)
  <2>1. /\ pc[r] = "saveCalls" /\ pc'[r] = "createCall"
        /\ ctx'[r] = [ctx[r] EXCEPT !.text = FALSE, !.call = 1]
        /\ messages'[r] = messages[r] \cup {CallsMessage(ctx[r].iterationCount, ctx[r].batch)}
    BY <1>0, <1>4, OwnSaveCalls DEF At, ThrownFrom
  <2>2. /\ ctx'[r].iterationCount = ctx[r].iterationCount
        /\ ctx'[r].batch = ctx[r].batch /\ ctx'[r].call = 1
    BY <1>0, <2>1, LocalCounters
  <2>3. HistoryOK("saveCalls", ctx[r], messages[r], "running")
    BY <1>2, <2>1
  <2>4. HistoryOK("createCall", ctx'[r],
            messages[r] \cup {CallsMessage(ctx[r].iterationCount, ctx[r].batch)}, "running")
    BY <1>0, <2>2, <2>3, HistoryNames
  <2>5. QED
    BY <1>2, <2>1, <2>4
<1>5. CASE pc'[r] # "finalize" /\ (CreateCall(r) \/ RunTool(r) \/ RecordCall(r))
  <2>1. messages'[r] = messages[r] /\ pc[r] \in CallPCs /\ pc'[r] \in CallPCs
    <3>1. CASE CreateCall(r)
      BY <1>5, <3>1, OwnCreateCall DEF At, ThrownFrom, SameMessages, CallPCs
    <3>2. CASE RunTool(r)
      BY <1>0, <3>2, OwnRunTool DEF At, SameRows, SameMessages, CallPCs
    <3>3. CASE RecordCall(r)
      BY <1>0, <1>5, <3>3, OwnRecordCall DEF At, ThrownFrom, SameMessages, CallPCs
    <3>4. QED
      BY <1>5, <3>1, <3>2, <3>3
  <2>2. /\ ctx'[r].iterationCount = ctx[r].iterationCount
        /\ ctx'[r].batch = ctx[r].batch /\ ctx'[r].call = ctx[r].call
    <3>1. CASE CreateCall(r)
      <4>1. ctx'[r] = [ctx[r] EXCEPT !.openToolCalls = @ \cup {CurrentCall(r)},
                                     !.fired = FALSE, !.status = "failed"]
        BY <1>5, <3>1, OwnCreateCall DEF At, ThrownFrom
      <4>2. QED
        BY <1>0, <4>1, LocalCounters
    <3>2. CASE RunTool(r)
      <4>1. PICK st \in {"completed", "failed"} :
               ctx'[r] = [ctx[r] EXCEPT !.status = st, !.fired = CallTimedOut(r)]
        BY <1>0, <3>2, OwnRunTool DEF At
      <4>2. QED
        BY <1>0, <4>1, LocalCounters
    <3>3. CASE RecordCall(r)
      <4>1. ctx'[r] = [ctx[r] EXCEPT !.openToolCalls = @ \ {CurrentCall(r)},
                                     !.deadlineHit = @ \/ ctx[r].fired]
        BY <1>0, <1>5, <3>3, OwnRecordCall DEF At, ThrownFrom
      <4>2. QED
        BY <1>0, <4>1, LocalCounters
    <3>4. QED
      BY <1>5, <3>1, <3>2, <3>3
  <2>3. QED
    BY <1>2, <2>1, <2>2, HistoryKept
<1>6. CASE pc'[r] # "finalize" /\ SaveToolMessage(r)
  <2>1. /\ pc[r] = "toolMessage" /\ messages[r] \subseteq messages'[r]
        /\ messages'[r] \subseteq messages[r] \cup {ToolMessage(ctx[r].iterationCount, ctx[r].call)}
        /\ ToolMessage(ctx[r].iterationCount, ctx[r].call) \in messages'[r]
    BY <1>6, OwnSaveToolMessage DEF ThrownFrom
  <2>2. ToolMessage(ctx[r].iterationCount, ctx[r].call).role # "calls"
    BY DEF ToolMessage
  <2>3. \A m \in messages'[r] : m.role = "calls" => m \in messages[r] /\ m \in Message
    BY <1>0, <2>1, <2>2
  <2>4. \/ At(r, "createCall", [ctx[r] EXCEPT !.call = @ + 1])
        \/ /\ ctx[r].call >= ctx[r].batch
           /\ AtLoopTop(r, [ctx[r] EXCEPT !.iterationCount = @ + 1])
    BY <1>6, OwnSaveToolMessage DEF ThrownFrom
  <2>5. CASE At(r, "createCall", [ctx[r] EXCEPT !.call = @ + 1])
    <3>1. /\ pc'[r] = "createCall" /\ ctx'[r].iterationCount = ctx[r].iterationCount
          /\ ctx'[r].batch = ctx[r].batch /\ ctx'[r].call = ctx[r].call + 1
      BY <1>0, <2>5, LocalCounters DEF At
    <3>2. QED
      BY <1>0, <1>2, <2>1, <2>3, <3>1, HistoryNextCall
  <2>6. CASE pc'[r] = "maxFail"
    <3>1. "maxFail" \notin BeforeLoop \cup FreshPCs \cup CallPCs
      BY DEF BeforeLoop, FreshPCs, CallPCs
    <3>2. QED
      BY <1>2, <2>1, <2>6, <3>1, HistoryLeaves
  <2>7. CASE /\ ctx[r].call >= ctx[r].batch
             /\ At(r, "history", [ctx[r] EXCEPT !.iterationCount = @ + 1])
    <3>1. pc'[r] = "history" /\ ctx'[r].iterationCount = ctx[r].iterationCount + 1
      BY <1>0, <2>7, LocalCounters DEF At
    <3>2. QED
      BY <1>0, <1>2, <2>1, <2>3, <2>7, <3>1, HistoryNextRound
  <2>8. QED
    BY <1>6, <2>4, <2>5, <2>6, <2>7 DEF AtLoopTop, At, ThrownFrom
<1>7. QED
  BY <1>3, <1>4, <1>5, <1>6

LEMMA HistoryExit ==
    ASSUME TypeInv, NEW r \in Runs, HistoryOK(pc[r], ctx[r], messages[r], runRow[r]), PhaseOK(r),
           ExitStep(r)
    PROVE  HistoryOK(pc'[r], ctx'[r], messages'[r], runRow'[r])
<1>0. TypeOK /\ ctx[r].cause \in Causes
  BY DEF TypeInv, TypeOK, Ctx
<1>1. {"finalize", "closeCalls", "saveTrace", "driveCancel", "done"}
         \cap (BeforeLoop \cup FreshPCs \cup CallPCs) = {}
  BY DEF BeforeLoop, FreshPCs, CallPCs
<1>2. CASE FailMaxIterations(r) \/ Complete(r)
  <2>1. messages'[r] = messages[r] /\ pc'[r] \in {"finalize", "closeCalls", "saveTrace"}
    BY <1>0, <1>2, OwnTerminalWrite DEF SameMessages, AtLoopFinally, At, ThrownFrom
  <2>2. runRow'[r] = "completed" => runRow[r] = "completed" \/ pc[r] = "complete"
    BY <1>0, <1>2, OwnTerminalWrite DEF SettledAs
  <2>3. QED
    BY <1>1, <2>1, <2>2, HistoryLeaves
<1>3. CASE SaveText(r)
  <2>1. /\ pc[r] = "saveText" /\ SameRow(r) /\ messages[r] \subseteq messages'[r]
        /\ messages'[r] \subseteq messages[r] \cup {FinalMessage(ctx[r].iterationCount)}
        /\ pc'[r] = "finalize" \/ (pc'[r] = "complete" /\ ctx'[r] = ctx[r])
    BY <1>0, <1>3, OwnSaveText DEF At, ThrownFrom
  <2>2. CASE pc'[r] = "finalize"
    BY <2>1, <2>2, HistoryThrown DEF BodyPCs
  <2>3. CASE pc'[r] = "complete" /\ ctx'[r] = ctx[r]
    <3>1. FinalMessage(ctx[r].iterationCount).role # "calls"
      BY DEF FinalMessage
    <3>2. "saveText" \in FreshPCs /\ "complete" \in FreshPCs /\ "complete" \notin CallPCs
      BY DEF FreshPCs, CallPCs
    <3>3. \A m \in messages'[r] : m.role = "calls" => m \in messages[r]
      BY <2>1, <3>1
    <3>4. QED
      BY <2>1, <2>3, <3>2, <3>3, HistoryKept DEF SameRow
  <2>4. QED
    BY <2>1, <2>2, <2>3
<1>4. CASE FinalizeRun(r)
  <2>1. messages'[r] = messages[r] /\ pc'[r] \in {"closeCalls", "saveTrace"}
    BY <1>0, <1>4, OwnFinalize DEF SameMessages, AtLoopFinally, At
  <2>2. StatusOf(ctx[r].cause) # "completed"
    BY <1>0 DEF StatusOf, Causes
  <2>3. runRow'[r] = "completed" => runRow[r] = "completed"
    BY <1>0, <1>4, <2>2, OwnFinalize DEF SettledAs
  <2>4. QED
    BY <1>1, <2>1, <2>3, HistoryLeaves
<1>5. CASE CloseCalls(r)
  <2>1. messages'[r] = messages[r] /\ pc'[r] = "saveTrace" /\ runRow'[r] = runRow[r]
    BY <1>0, <1>5, OwnCloseCalls DEF SameMessages, SameRow, At
  <2>2. QED
    BY <1>1, <2>1, HistoryLeaves
<1>6. CASE SaveTrace(r)
  <2>1. /\ messages'[r] = messages[r] /\ pc'[r] \in {"driveCancel", "done"}
        /\ runRow'[r] = runRow[r]
    BY <1>0, <1>6, OwnSaveTrace DEF SameMessages, SameRow, AtDriveFinally
  <2>2. QED
    BY <1>1, <2>1, HistoryLeaves
<1>7. QED
  BY <1>2, <1>3, <1>4, <1>5, <1>6 DEF ExitStep

(* Before the loop there is no assistant message. *)
LEMMA HistoryBefore ==
    ASSUME TypeInv, NEW r \in Runs, HistoryOK(pc[r], ctx[r], messages[r], runRow[r]),
           SetupStep(r) \/ DriveStep(r)
    PROVE  HistoryOK(pc'[r], ctx'[r], messages'[r], runRow'[r])
<1>0. TypeOK
  BY DEF TypeInv
<1>1. CASE DriveCancel(r)
  <2>1. /\ pc'[r] = "done" /\ messages'[r] = messages[r]
        /\ runRow'[r] = "completed" => runRow[r] = "completed"
    BY <1>0, <1>1, OwnDriveCancel DEF SameMessages, SettledAs
  <2>2. "done" \notin BeforeLoop \cup FreshPCs \cup CallPCs
    BY DEF BeforeLoop, FreshPCs, CallPCs
  <2>3. QED
    BY <2>1, <2>2, HistoryLeaves
<1>2. CASE SetupStep(r) \/ RecheckPrereqs(r)
  <2>1. pc[r] \in BeforeLoop
    BY <1>0, <1>2, OwnSetup, OwnRecheck DEF BeforeLoop
  <2>2. messages'[r] \subseteq messages[r] \cup {UserMessage}
    BY <1>0, <1>2, OwnSetup, OwnRecheck DEF SameRows, SameMessages
  <2>3. UserMessage.role # "calls"
    BY DEF UserMessage
  <2>4. \A m \in messages'[r] : m.role # "calls"
    BY <2>1, <2>2, <2>3 DEF HistoryOK
  <2>5. QED
    BY <2>4 DEF HistoryOK
<1>3. QED
  BY <1>1, <1>2 DEF DriveStep

LEMMA HistoryOutside ==
    ASSUME TypeOK, NEW q \in Runs, HistoryOK(pc[q], ctx[q], messages[q], runRow[q]),
           OutsideStep(q), SameRows(q)
    PROVE  HistoryOK(pc'[q], ctx'[q], messages'[q], runRow'[q])
<1>1. messages'[q] = messages[q] /\ runRow'[q] = runRow[q] /\ ctx[q] \in Ctx
  BY DEF SameRows, SameMessages, SameRow, TypeOK
<1>2. /\ ctx'[q].iterationCount = ctx[q].iterationCount
      /\ ctx'[q].batch = ctx[q].batch /\ ctx'[q].call = ctx[q].call
  <2>1. ctx'[q] = ctx[q] \/ ctx'[q] = [ctx[q] EXCEPT !.fired = TRUE]
    BY DEF OutsideStep, Kept, Admitted, Abandoned, Cancelled, CallTimerFired, RunTimerFired
  <2>2. CASE ctx'[q] = [ctx[q] EXCEPT !.fired = TRUE]
    BY <1>1, <2>2, LocalCounters
  <2>3. QED
    BY <2>1, <2>2
<1>3. \/ pc'[q] = pc[q] \/ pc'[q] = "abandoned"
      \/ pc[q] = "idle" /\ pc'[q] \in {"prereqs", "rejected"}
  BY DEF OutsideStep, Admitted, Abandoned, Cancelled, CallTimerFired, RunTimerFired
<1>4. CASE pc'[q] = pc[q]
  BY <1>1, <1>2, <1>4 DEF HistoryOK
<1>5. CASE pc'[q] = "abandoned"
  <2>1. "abandoned" \notin BeforeLoop \cup FreshPCs \cup CallPCs
    BY DEF BeforeLoop, FreshPCs, CallPCs
  <2>2. QED
    BY <1>1, <1>5, <2>1, HistoryLeaves
<1>6. CASE pc[q] = "idle"
  <2>1. "idle" \in BeforeLoop
    BY DEF BeforeLoop
  <2>2. \A m \in messages'[q] : m.role # "calls"
    BY <1>1, <1>6, <2>1 DEF HistoryOK
  <2>3. QED
    BY <2>2 DEF HistoryOK
<1>7. QED
  BY <1>3, <1>4, <1>5, <1>6

LEMMA HistoryStep ==
    ASSUME TypeInv, TypeInv', ReportInv, HistoryInv, [Next]_vars
    PROVE  HistoryInv'
<1> SUFFICES ASSUME NEW q \in Runs PROVE HistoryOK(pc'[q], ctx'[q], messages'[q], runRow'[q])
  BY DEF HistoryInv
<1>1. TypeOK /\ PhaseOK(q) /\ HistoryOK(pc[q], ctx[q], messages[q], runRow[q])
  BY DEF TypeInv, ReportInv, HistoryInv
<1>2. ASSUME NEW r \in Runs, RunStep(r)
      PROVE  HistoryOK(pc'[q], ctx'[q], messages'[q], runRow'[q])
  <2>1. CASE q = r
    <3>1. CASE SetupStep(r) \/ DriveStep(r)
      BY <1>1, <2>1, <3>1, HistoryBefore
    <3>2. CASE ExitStep(r)
      BY <1>1, <2>1, <3>2, HistoryExit
    <3>3. CASE RoundStep(r)
      BY <1>1, <2>1, <3>3, HistoryModel, HistoryTools DEF RoundStep
    <3>4. QED
      BY <1>2, <3>1, <3>2, <3>3 DEF RunStep
  <2>2. CASE q # r
    <3>1. Untouched(q)
      BY <1>1, <1>2, <2>2, OthersUntouched
    <3>2. QED
      BY <1>1, <3>1 DEF Untouched, SameRows, SameRow, SameMessages
  <2>3. QED
    BY <2>1, <2>2
<1>3. QED
  BY <1>1, <1>2, OutsideShape, HistoryOutside

-----------------------------------------------------------------------------
(* A cancel accepted before the loop lands, one among the tool calls of a  *)
(* round keeps the run from completing                                     *)

(* The hypotheses under which every run settles: the reads and the insert  *)
(* between the row and the loop answer, the terminal write of the catch is *)
(* not lost, the session stays active, and the loop has a round.  Without  *)
(* any one of the first a run may drain with its row `running`; without a  *)
(* round it fails before it looks at the abort.                            *)
Settling == /\ {"createUser", "recheck"} \cap (LostWrites \cup LostAcks) = {}
            /\ "createRun" \notin LostAcks
            /\ "finalize" \notin LostWrites
            /\ ~MayUpdateSession
            /\ MaxIterations > 0

EarlyPCs == {"createUser", "recheck"}

(* A run cancelled that early carries the abort until the catch classifies *)
(* it, and a run that drained has settled its row.                         *)
EarlyOK(r) ==
    /\ cancelRequested[r] = "early" =>
        /\ abortReason[r] # "none"
        /\ \/ pc[r] \in EarlyPCs
           \/ pc[r] = "finalize" /\ ctx[r].cause \in {"cancel", "timeout"} /\ runRow[r] = "running"
           \/ runRow[r] \in {"cancelled", "timed_out"}
           \/ pc[r] = "abandoned"
    /\ pc[r] \in {"driveCancel", "done"} => runRow[r] \in Terminal \cup {"absent"}

(* A run cancelled among its tool calls carries the abort to the head of   *)
(* the loop, so it never calls the model again.                            *)
ToolPCs  == {"saveCalls", "createCall", "runTool", "recordCall", "toolMessage"}
AfterPCs == {"maxFail"} \cup ExitPCs \cup {"driveCancel", "done", "abandoned"}

ToolsOK(r) ==
    cancelRequested[r] = "tools" =>
        /\ abortReason[r] # "none"
        /\ pc[r] \in ToolPCs \cup AfterPCs
        /\ runRow[r] # "completed"

EarlyInv == /\ \A r \in Runs : EarlyOK(r) /\ ToolsOK(r)
            /\ \A s \in Sessions : sessionRow[s] = "active"

LEMMA AbortedCause ==
    ASSUME TypeOK, NEW r \in Runs, NEW c, abortReason[r] # "none"
    PROVE  ClassifyTerminal(r, c) \in {"cancel", "timeout"}
BY DEF ClassifyTerminal, TypeOK

LEMMA EarlyBefore ==
    ASSUME IInv, Settling, NEW r \in Runs, EarlyOK(r), PhaseOK(r), EarlyInv,
           SetupStep(r) \/ RecheckPrereqs(r)
    PROVE  EarlyOK(r)'
<1>0. TypeOK /\ RowInv
  BY DEF IInv, TypeInv
<1>1. WorldKept
  BY WorldKeptByRuns DEF RunStep, DriveStep
<1>2. cancelRequested'[r] = cancelRequested[r] /\ abortReason'[r] = abortReason[r]
  BY <1>1 DEF WorldKept
<1>3. CASE pc[r] \in {"prereqs", "createRun"}
  <2>1. runRow[r] = "absent" /\ cancelRequested[r] # "early"
    BY <1>0, <1>3 DEF RowInv, EarlyOK, EarlyPCs, Terminal
  <2>2. pc'[r] \in {"createRun", "createUser"} \/ (pc'[r] = "done" /\ runRow'[r] = "absent")
    BY <1>0, <1>3, <2>1, OwnSetup, OwnRecheck DEF Settling, SameRow
  <2>3. QED
    BY <1>2, <2>1, <2>2 DEF EarlyOK
<1>4. CASE pc[r] = "createUser"
  <2>1. pc'[r] = "recheck"
    BY <1>0, <1>4, OwnSetup, OwnRecheck DEF Settling
  <2>2. QED
    BY <1>2, <1>4, <2>1 DEF EarlyOK, EarlyPCs
<1>5. CASE RecheckPrereqs(r)
  <2>1. sessionRow[SessionOf[r]] = "active"
    BY DEF EarlyInv
  <2>2. pc[r] = "recheck" /\ SameRows(r) /\ AtLoopTop(r, NewCtx)
    BY <1>0, <1>5, <2>1, OwnRecheck DEF Settling
  <2>3. NewCtx.iterationCount < MaxIterations
    BY DEF NewCtx, Settling
  <2>4. runRow'[r] = "running"
    BY <2>2 DEF PhaseOK, RunningPCs, SameRows, SameRow
  <2>5. CASE ThrownFrom(r, NewCtx)
    <3>1. pc'[r] = "finalize" /\ ctx'[r].cause = ClassifyTerminal(r, NewCtx)
      BY <2>5 DEF ThrownFrom
    <3>2. QED
      BY <1>0, <1>2, <2>4, <3>1, AbortedCause DEF EarlyOK
  <2>6. CASE pc'[r] = "history" /\ ~Aborted(r)
    BY <1>2, <2>6 DEF EarlyOK, Aborted
  <2>7. QED
    <3>1. NewCtx.iterationCount \in Int
      BY DEF NewCtx
    <3>2. QED
      BY <2>2, <2>3, <2>5, <2>6, <3>1 DEF AtLoopTop, At
<1>6. QED
  BY <1>0, <1>3, <1>4, <1>5, OwnSetup

(* In the loop no early cancel is left unserved. *)
LEMMA NotEarly ==
    ASSUME NEW r \in Runs, EarlyOK(r), PhaseOK(r), pc[r] \in BodyPCs
    PROVE  cancelRequested[r] # "early" /\ runRow[r] = "running"
<1>1. runRow[r] = "running"
  BY DEF PhaseOK, RunningPCs
<1>2. pc[r] \notin EarlyPCs /\ pc[r] # "finalize" /\ pc[r] # "abandoned"
  BY DEF EarlyPCs, BodyPCs
<1>3. QED
  BY <1>1, <1>2 DEF EarlyOK

LEMMA EarlyRound ==
    ASSUME TypeInv, NEW r \in Runs, EarlyOK(r), PhaseOK(r), RoundStep(r)
    PROVE  EarlyOK(r)'
<1>1. WorldKept
  BY WorldKeptByRuns DEF RunStep, TypeInv
<1>2. cancelRequested'[r] = cancelRequested[r] /\ abortReason'[r] = abortReason[r]
  BY <1>1 DEF WorldKept
<1>3. pc[r] \in BodyPCs /\ pc'[r] \in BodyPCs \cup {"finalize"}
  BY RoundMoves
<1>4. pc'[r] \notin {"driveCancel", "done"}
  BY <1>3 DEF BodyPCs
<1>5. QED
  BY <1>2, <1>3, <1>4, NotEarly DEF EarlyOK

(* A run that reported its outcome settled its row. *)
LEMMA ReportedSettled ==
    ASSUME TypeOK, NEW r \in Runs, EventOK(r), event[r] # "none", "finalize" \notin LostWrites
    PROVE  runRow[r] \in Terminal
BY DEF TypeOK, EventOK, Events, Causes, CodeOf, StatusOf, Terminal

LEMMA EarlyExit ==
    ASSUME TypeInv, Settling, NEW r \in Runs, EarlyOK(r), PhaseOK(r), EventOK(r), ExitStep(r)
    PROVE  EarlyOK(r)'
<1>0. TypeOK /\ ctx[r].cause \in Causes
  BY DEF TypeInv, TypeOK, Ctx
<1>1. WorldKept
  BY WorldKeptByRuns DEF RunStep
<1>2. cancelRequested'[r] = cancelRequested[r] /\ abortReason'[r] = abortReason[r]
  BY <1>1 DEF WorldKept
<1>3. CASE FailMaxIterations(r) \/ Complete(r) \/ SaveText(r)
  <2>1. pc[r] \in BodyPCs
    BY <1>3 DEF FailMaxIterations, Complete, SaveText, BodyPCs
  <2>2. pc'[r] \in {"finalize", "closeCalls", "saveTrace", "complete"}
    BY <1>0, <1>3, OwnTerminalWrite, OwnSaveText DEF ThrownFrom, At, AtLoopFinally
  <2>3. QED
    BY <1>2, <2>1, <2>2, NotEarly DEF EarlyOK
<1>4. CASE FinalizeRun(r)
  <2>1. pc[r] = "finalize" /\ pc'[r] \in {"closeCalls", "saveTrace"}
    BY <1>0, <1>4, OwnFinalize DEF AtLoopFinally, At
  <2>2. runRow'[r] = IF runRow[r] = "running" THEN StatusOf(ctx[r].cause) ELSE runRow[r]
    BY <1>0, <1>4, OwnFinalize, OutcomeFacts DEF SettledAs, Settling
  <2>3. QED
    BY <1>2, <2>1, <2>2 DEF EarlyOK, EarlyPCs, StatusOf
<1>5. CASE CloseCalls(r)
  <2>1. pc[r] = "closeCalls" /\ pc'[r] = "saveTrace" /\ SameRow(r)
    BY <1>0, <1>5, OwnCloseCalls DEF At
  <2>2. QED
    BY <1>2, <2>1 DEF EarlyOK, EarlyPCs, SameRow
<1>6. CASE SaveTrace(r)
  <2>1. pc[r] = "saveTrace" /\ pc'[r] \in {"driveCancel", "done"} /\ SameRow(r)
    BY <1>0, <1>6, OwnSaveTrace DEF AtDriveFinally
  <2>2. runRow[r] \in Terminal
    BY <1>0, <2>1, ReportedSettled DEF PhaseOK, Settling
  <2>3. QED
    BY <1>2, <2>1, <2>2 DEF EarlyOK, EarlyPCs, SameRow
<1>7. QED
  BY <1>3, <1>4, <1>5, <1>6 DEF ExitStep

LEMMA EarlyDriveCancel ==
    ASSUME TypeOK, NEW r \in Runs, EarlyOK(r), DriveCancel(r)
    PROVE  EarlyOK(r)'
<1>1. WorldKept
  BY WorldKeptByRuns DEF RunStep, DriveStep
<1>2. cancelRequested'[r] = cancelRequested[r] /\ abortReason'[r] = abortReason[r]
  BY <1>1 DEF WorldKept
<1>3. pc[r] = "driveCancel" /\ pc'[r] = "done"
  BY OwnDriveCancel
<1>4. runRow[r] # "running"
  BY <1>3 DEF EarlyOK, Terminal
<1>5. runRow'[r] = runRow[r]
  BY <1>4, OwnDriveCancel DEF SettledAs
<1>6. QED
  BY <1>2, <1>3, <1>5 DEF EarlyOK, EarlyPCs

LEMMA ToolsRound ==
    ASSUME TypeInv, NEW r \in Runs, ToolsOK(r), RoundStep(r)
    PROVE  ToolsOK(r)'
<1>0. TypeOK
  BY DEF TypeInv
<1>1. WorldKept
  BY <1>0, WorldKeptByRuns DEF RunStep
<1>2. cancelRequested'[r] = cancelRequested[r] /\ abortReason'[r] = abortReason[r]
  BY <1>1 DEF WorldKept
<1>3. SameRow(r)
  BY RoundMoves
<1>4. ASSUME cancelRequested[r] = "tools" PROVE pc'[r] \in ToolPCs \cup AfterPCs
  <2>1. Aborted(r) /\ pc[r] \in ToolPCs \cup AfterPCs
    BY <1>4 DEF ToolsOK, Aborted
  <2>2. CASE LoadHistory(r) \/ ModelToken(r) \/ ModelLastChunk(r) \/ ModelThrows(r) \/ ModelEnds(r)
    BY <2>1, <2>2 DEF LoadHistory, ModelToken, ModelLastChunk, ModelThrows, ModelEnds,
                      ToolPCs, AfterPCs, ExitPCs
  <2>3. CASE SaveCalls(r)
    BY <1>0, <2>3, OwnSaveCalls DEF At, ThrownFrom, ToolPCs, AfterPCs, ExitPCs
  <2>4. CASE CreateCall(r)
    BY <2>4, OwnCreateCall DEF At, ThrownFrom, ToolPCs, AfterPCs, ExitPCs
  <2>5. CASE RunTool(r)
    BY <1>0, <2>5, OwnRunTool DEF At, ToolPCs
  <2>6. CASE RecordCall(r)
    BY <1>0, <2>6, OwnRecordCall DEF At, ThrownFrom, ToolPCs, AfterPCs, ExitPCs
  <2>7. CASE SaveToolMessage(r)
    BY <2>1, <2>7, OwnSaveToolMessage DEF At, ThrownFrom, AtLoopTop, ToolPCs, AfterPCs, ExitPCs
  <2>8. QED
    BY <2>2, <2>3, <2>4, <2>5, <2>6, <2>7 DEF RoundStep
<1>5. QED
  BY <1>2, <1>3, <1>4 DEF ToolsOK, SameRow

LEMMA ToolsExit ==
    ASSUME TypeInv, NEW r \in Runs, ToolsOK(r), ExitStep(r) \/ DriveCancel(r)
    PROVE  ToolsOK(r)'
<1>0. TypeOK /\ ctx[r].cause \in Causes
  BY DEF TypeInv, TypeOK, Ctx
<1>1. WorldKept
  BY <1>0, WorldKeptByRuns DEF RunStep, DriveStep
<1>2. cancelRequested'[r] = cancelRequested[r] /\ abortReason'[r] = abortReason[r]
  BY <1>1 DEF WorldKept
<1>3. ASSUME cancelRequested[r] = "tools"
      PROVE  pc'[r] \in AfterPCs /\ runRow'[r] # "completed"
  <2>1. pc[r] \in ToolPCs \cup AfterPCs /\ runRow[r] # "completed"
    BY <1>3 DEF ToolsOK
  <2>2. CASE FailMaxIterations(r) \/ Complete(r)
    <3>1. pc[r] # "complete"
      BY <2>1 DEF ToolPCs, AfterPCs, ExitPCs
    <3>2. QED
      BY <1>0, <2>1, <2>2, <3>1, OwnTerminalWrite
         DEF SettledAs, ThrownFrom, AtLoopFinally, At, AfterPCs, ExitPCs
  <2>3. CASE SaveText(r)
    BY <2>1, <2>3 DEF SaveText, ToolPCs, AfterPCs, ExitPCs
  <2>4. CASE FinalizeRun(r)
    <3>1. StatusOf(ctx[r].cause) # "completed"
      BY <1>0 DEF StatusOf, Causes
    <3>2. QED
      BY <1>0, <2>1, <2>4, <3>1, OwnFinalize DEF SettledAs, AtLoopFinally, At, AfterPCs, ExitPCs
  <2>5. CASE CloseCalls(r)
    BY <1>0, <2>1, <2>5, OwnCloseCalls DEF At, SameRow, AfterPCs, ExitPCs
  <2>6. CASE SaveTrace(r)
    BY <1>0, <2>1, <2>6, OwnSaveTrace DEF AtDriveFinally, SameRow, AfterPCs
  <2>7. CASE DriveCancel(r)
    BY <1>0, <2>1, <2>7, OwnDriveCancel DEF SettledAs, AfterPCs
  <2>8. QED
    BY <2>2, <2>3, <2>4, <2>5, <2>6, <2>7 DEF ExitStep
<1>4. QED
  BY <1>2, <1>3 DEF ToolsOK

LEMMA ToolsOwn ==
    ASSUME TypeInv, NEW r \in Runs, ToolsOK(r), RunStep(r)
    PROVE  ToolsOK(r)'
<1>1. CASE SetupStep(r) \/ RecheckPrereqs(r)
  <2>1. pc[r] \in SetupPCs \cup {"recheck"}
    BY <1>1 DEF SetupStep, ResolvePrereqs, CreateRun, CreateUserMessage, RecheckPrereqs, SetupPCs
  <2>2. cancelRequested[r] # "tools"
    BY <2>1 DEF ToolsOK, ToolPCs, AfterPCs, ExitPCs, SetupPCs
  <2>3. WorldKept
    BY WorldKeptByRuns DEF TypeInv
  <2>4. QED
    BY <2>2, <2>3 DEF ToolsOK, WorldKept
<1>2. QED
  BY <1>1, ToolsRound, ToolsExit DEF RunStep, DriveStep

LEMMA ToolsOutside ==
    ASSUME TypeOK, NEW q \in Runs, ToolsOK(q), OutsideStep(q), SameRows(q)
    PROVE  ToolsOK(q)'
<1>0. runRow'[q] = runRow[q]
  BY DEF SameRows, SameRow
<1>1. CASE pc'[q] = pc[q] /\ Kept(q) /\ KeptGhosts(q) /\ KeptCancel(q)
  BY <1>0, <1>1 DEF ToolsOK, Kept, KeptGhosts
<1>2. CASE Admitted(q)
  BY <1>0, <1>2 DEF ToolsOK, ToolPCs, AfterPCs, ExitPCs, Kept, KeptGhosts, Admitted
<1>3. CASE Abandoned(q)
  BY <1>0, <1>3 DEF ToolsOK, AfterPCs, Kept, KeptGhosts, Abandoned
<1>4. CASE Cancelled(q)
  <2>1. PhaseOf(pc[q]) = "tools" => pc[q] \in ToolPCs
    BY DEF PhaseOf, ToolPCs
  <2>2. QED
    BY <1>0, <1>4, <2>1 DEF ToolsOK, Cancelled
<1>5. CASE CallTimerFired(q)
  BY <1>0, <1>5 DEF ToolsOK, CallTimerFired
<1>6. CASE RunTimerFired(q)
  BY <1>0, <1>6 DEF ToolsOK, RunTimerFired
<1>7. QED
  BY <1>1, <1>2, <1>3, <1>4, <1>5, <1>6 DEF OutsideStep

LEMMA EarlyOutside ==
    ASSUME IInv, NEW q \in Runs, EarlyOK(q), OutsideStep(q), SameRows(q)
    PROVE  EarlyOK(q)'
<1>0. runRow'[q] = runRow[q] /\ RowInv /\ TypeOK
  BY DEF SameRows, SameRow, IInv, TypeInv
<1>1. CASE pc'[q] = pc[q] /\ Kept(q) /\ KeptGhosts(q) /\ KeptCancel(q)
  BY <1>0, <1>1 DEF EarlyOK, Kept, KeptGhosts
<1>2. CASE Admitted(q)
  BY <1>0, <1>2 DEF EarlyOK, EarlyPCs, Kept, KeptGhosts, Admitted
<1>3. CASE Abandoned(q)
  <2>1. EarlyPCs \cup {"finalize"} \subseteq InFlight
    BY DEF EarlyPCs, InFlight, SetupPCs, LoopPCs, BodyPCs, ExitPCs
  <2>2. QED
    BY <1>0, <1>3, <2>1 DEF EarlyOK, Kept, KeptGhosts, Abandoned
<1>4. CASE Cancelled(q)
  <2>1. runRow[q] = "running" /\ PhaseOf(pc[q]) = "early" => pc[q] \in EarlyPCs
    BY <1>0 DEF PhaseOf, EarlyPCs, SetupPCs, RowInv
  <2>2. QED
    BY <1>0, <1>4, <2>1 DEF EarlyOK, Cancelled
<1>5. CASE CallTimerFired(q)
  <2>1. ctx'[q].cause = ctx[q].cause
    BY <1>0, <1>5 DEF CallTimerFired, TypeOK, Ctx
  <2>2. QED
    BY <1>0, <1>5, <2>1 DEF EarlyOK, CallTimerFired
<1>6. CASE RunTimerFired(q)
  BY <1>0, <1>6 DEF EarlyOK, RunTimerFired
<1>7. QED
  BY <1>1, <1>2, <1>3, <1>4, <1>5, <1>6 DEF OutsideStep

LEMMA EarlyStep ==
    ASSUME IInv, Settling, ReportInv, EarlyInv, [Next]_vars
    PROVE  EarlyInv'
<1>0. TypeInv /\ TypeOK
  BY DEF IInv, TypeInv
<1>1. ASSUME NEW q \in Runs PROVE EarlyOK(q)' /\ ToolsOK(q)'
  <2>1. PhaseOK(q) /\ EventOK(q) /\ EarlyOK(q) /\ ToolsOK(q)
    BY DEF ReportInv, EarlyInv
  <2>2. ASSUME NEW r \in Runs, RunStep(r) PROVE EarlyOK(q)' /\ ToolsOK(q)'
    <3>1. CASE q = r
      <4>1. EarlyOK(q)'
        BY <1>0, <2>1, <2>2, <3>1, EarlyBefore, EarlyRound, EarlyExit, EarlyDriveCancel
           DEF RunStep, DriveStep
      <4>2. QED
        BY <1>0, <2>1, <2>2, <3>1, <4>1, ToolsOwn
    <3>2. CASE q # r
      <4>1. Untouched(q) /\ WorldKept
        BY <1>0, <2>2, <3>2, OthersUntouched, WorldKeptByRuns
      <4>2. QED
        BY <2>1, <4>1 DEF EarlyOK, ToolsOK, Untouched, WorldKept, SameRows, SameRow
    <3>3. QED
      BY <3>1, <3>2
  <2>3. QED
    BY <1>0, <2>1, <2>2, OutsideShape, EarlyOutside, ToolsOutside
<1>2. ASSUME NEW s \in Sessions PROVE sessionRow'[s] = "active"
  <2>1. sessionRow' = sessionRow
    <3>1. CASE \E r \in Runs : RunStep(r)
      BY <3>1, WorldKeptByRuns DEF WorldKept
    <3>2. CASE ~\E r \in Runs : RunStep(r)
      BY <3>2 DEF Next, StartRun, StartConflict, RequestCancel, CallDeadline, TotalDeadline,
                  UpdateSession, RestartProcess, Settling, dbVars, vars
    <3>3. QED
      BY <3>1, <3>2
  <2>2. QED
    BY <2>1 DEF EarlyInv
<1>3. QED
  BY <1>1, <1>2 DEF EarlyInv

-----------------------------------------------------------------------------
(* The records of a drained run agree *)

(* The hypotheses: the best-effort writes of the exits take effect, and no *)
(* insert of a tool call and no completion takes effect unanswered.        *)
Recording == /\ {"finalize", "closeCalls", "saveTrace"} \cap LostWrites = {}
             /\ {"createCall", "complete"} \cap LostAcks = {}

(* A `started` call is one the loop still knows as open, up to the write   *)
(* that closes it; the trace of a drained run tells the reported outcome.  *)
RecordOK(r) ==
    /\ \A c \in Calls : toolRow[r][c] = "started" =>
          /\ pc[r] \notin BeforeLoop \cup {"saveTrace", "driveCancel", "done"}
          /\ pc[r] \in LoopPCs => c \in ctx[r].openToolCalls
    /\ pc[r] \in {"driveCancel", "done"} /\ event[r] # "none" =>
          traceRow[r] = IF event[r] = "message_completed" THEN "ok" ELSE "error"

RecordInv == \A r \in Runs : RecordOK(r)

LEMMA LocalOpen ==
    ASSUME NEW c \in Ctx, NEW x, NEW y, NEW z
    PROVE  /\ \A d \in {[c EXCEPT !.text = x], [c EXCEPT !.fired = x], [c EXCEPT !.call = x],
                        [c EXCEPT !.iterationCount = x], [c EXCEPT !.batch = x, !.call = y],
                        [c EXCEPT !.text = x, !.call = y], [c EXCEPT !.status = x, !.fired = y],
                        [c EXCEPT !.deadlineHit = x, !.fired = y]} :
                 d.openToolCalls = c.openToolCalls
           /\ [c EXCEPT !.openToolCalls = x, !.fired = y, !.status = z].openToolCalls = x
           /\ [c EXCEPT !.openToolCalls = x, !.deadlineHit = y].openToolCalls = x
BY DEF Ctx

(* The run moves on within the loop and opens or closes calls.             *)
LEMMA RecordMoved ==
    ASSUME NEW r \in Runs, RecordOK(r), pc[r] \in LoopPCs,
           pc'[r] \in LoopPCs \ {"saveTrace"},
           \A c \in Calls : toolRow'[r][c] = "started" =>
              \/ c \in ctx'[r].openToolCalls
              \/ toolRow[r][c] = "started" /\ ctx[r].openToolCalls \subseteq ctx'[r].openToolCalls
    PROVE  RecordOK(r)'
<1>1. pc'[r] \notin BeforeLoop \cup {"saveTrace", "driveCancel", "done"}
  BY DEF LoopPCs, BodyPCs, ExitPCs, BeforeLoop
<1>2. QED
  BY <1>1 DEF RecordOK

LEMMA RecordSame ==
    ASSUME NEW r \in Runs, RecordOK(r), pc[r] \in LoopPCs, pc'[r] \in LoopPCs \ {"saveTrace"},
           SameCalls(r), ctx'[r].openToolCalls = ctx[r].openToolCalls
    PROVE  RecordOK(r)'
<1>1. \A c \in Calls : toolRow'[r][c] = "started" => toolRow[r][c] = "started"
  BY DEF SameCalls
<1>2. QED
  BY <1>1, RecordMoved

LEMMA RecordRound ==
    ASSUME TypeInv, Recording, NEW r \in Runs, RecordOK(r), RoundStep(r)
    PROVE  RecordOK(r)'
<1>0. TypeOK /\ ctx[r] \in Ctx
  BY DEF TypeInv, TypeOK
<1>1. pc[r] \in LoopPCs /\ pc'[r] \in LoopPCs \ {"saveTrace"}
  BY RoundMoves DEF LoopPCs, BodyPCs, ExitPCs
<1>2. CASE SameCalls(r) /\ ThrownFrom(r, ctx[r])
  BY <1>1, <1>2, RecordSame DEF ThrownFrom
<1>3. CASE LoadHistory(r) \/ ModelToken(r) \/ ModelLastChunk(r) \/ ModelThrows(r) \/ ModelEnds(r)
  <2>1. SameCalls(r)
    BY <1>0, <1>3, OwnModel DEF SameRows
  <2> DEFINE d == [ctx[r] EXCEPT !.deadlineHit = @ \/ CallTimedOut(r), !.fired = FALSE]
  <2>2. CASE ThrownFrom(r, d)
    <3>1. d.openToolCalls = ctx[r].openToolCalls
      BY <1>0, LocalOpen
    <3>2. QED
      BY <1>1, <2>1, <2>2, <3>1, RecordSame DEF ThrownFrom
  <2>3. ASSUME ~ThrownFrom(r, d), ~ThrownFrom(r, ctx[r])
        PROVE  ctx'[r].openToolCalls = ctx[r].openToolCalls
    <3>1. \/ ctx'[r] = [ctx[r] EXCEPT !.fired = FALSE]
          \/ ctx'[r] = [ctx[r] EXCEPT !.text = TRUE]
          \/ \E n \in 0 .. MaxCalls : ctx'[r] = [ctx[r] EXCEPT !.batch = n, !.call = 0]
      BY <1>0, <1>3, <2>3, OwnModel DEF At
    <3>2. CASE ctx'[r] = [ctx[r] EXCEPT !.fired = FALSE]
      BY <1>0, <3>2, LocalOpen
    <3>3. CASE ctx'[r] = [ctx[r] EXCEPT !.text = TRUE]
      BY <1>0, <3>3, LocalOpen
    <3>4. ASSUME NEW n \in 0 .. MaxCalls, ctx'[r] = [ctx[r] EXCEPT !.batch = n, !.call = 0]
          PROVE  ctx'[r].openToolCalls = ctx[r].openToolCalls
      BY <1>0, <3>4, LocalOpen
    <3>5. QED
      BY <3>1, <3>2, <3>3, <3>4
  <2>4. QED
    BY <1>1, <1>2, <2>1, <2>2, <2>3, RecordSame
<1>4. CASE SaveCalls(r)
  <2>1. SameCalls(r)
    BY <1>0, <1>4, OwnSaveCalls
  <2>2. CASE ~ThrownFrom(r, ctx[r])
    <3>1. ctx'[r] = [ctx[r] EXCEPT !.text = FALSE, !.call = 1]
      BY <1>0, <1>4, <2>2, OwnSaveCalls DEF At
    <3>2. ctx'[r].openToolCalls = ctx[r].openToolCalls
      BY <1>0, <3>1, LocalOpen
    <3>3. QED
      BY <1>1, <2>1, <3>2, RecordSame
  <2>3. QED
    BY <1>2, <2>1, <2>2
<1>5. CASE CreateCall(r)
  <2>1. CASE ThrownFrom(r, ctx[r]) /\ ("createCall" \notin LostAcks => SameCalls(r))
    BY <1>2, <2>1 DEF Recording
  <2>2. CASE ctx'[r] = [ctx[r] EXCEPT !.openToolCalls = @ \cup {CurrentCall(r)},
                                      !.fired = FALSE, !.status = "failed"]
    <3>1. ctx'[r].openToolCalls = ctx[r].openToolCalls \cup {CurrentCall(r)}
      BY <1>0, <2>2, LocalOpen
    <3>2. \A c \in Calls : c # CurrentCall(r) => toolRow'[r][c] = toolRow[r][c]
      BY <1>5, OwnCreateCall
    <3>3. QED
      BY <1>1, <3>1, <3>2, RecordMoved
  <2>3. QED
    BY <1>5, <2>1, <2>2, OwnCreateCall DEF At
<1>6. CASE RunTool(r)
  <2>1. PICK st \in {"completed", "failed"} :
           ctx'[r] = [ctx[r] EXCEPT !.status = st, !.fired = CallTimedOut(r)]
    BY <1>0, <1>6, OwnRunTool DEF At
  <2>2. SameCalls(r)
    BY <1>0, <1>6, OwnRunTool DEF SameRows
  <2>3. ctx'[r].openToolCalls = ctx[r].openToolCalls
    BY <1>0, <2>1, LocalOpen
  <2>4. QED
    BY <1>1, <2>2, <2>3, RecordSame
<1>7. CASE RecordCall(r)
  <2>1. \A c \in Calls : toolRow'[r][c] = "started" => toolRow[r][c] = "started"
    BY <1>0, <1>7, OwnRecordCall
  <2>2. CASE ThrownFrom(r, ctx[r])
    BY <1>1, <2>1, <2>2, RecordMoved DEF ThrownFrom
  <2>3. CASE ~ThrownFrom(r, ctx[r])
    <3>1. /\ ctx'[r] = [ctx[r] EXCEPT !.openToolCalls = @ \ {CurrentCall(r)},
                                      !.deadlineHit = @ \/ ctx[r].fired]
          /\ CurrentCall(r) \in Calls => toolRow'[r][CurrentCall(r)] # "started"
      BY <1>0, <1>7, <2>3, OwnRecordCall DEF At
    <3>2. ctx'[r].openToolCalls = ctx[r].openToolCalls \ {CurrentCall(r)}
      BY <1>0, <3>1, LocalOpen
    <3>3. \A c \in Calls : toolRow[r][c] = "started" => c \in ctx[r].openToolCalls
      BY <1>1 DEF RecordOK
    <3>4. QED
      BY <1>1, <2>1, <3>1, <3>2, <3>3, RecordMoved
  <2>4. QED
    BY <2>2, <2>3
<1>8. CASE SaveToolMessage(r)
  <2>1. SameCalls(r)
    BY <1>8, OwnSaveToolMessage
  <2> DEFINE d == [ctx[r] EXCEPT !.call = @ + 1]
             e == [ctx[r] EXCEPT !.iterationCount = @ + 1]
  <2>2. d.openToolCalls = ctx[r].openToolCalls /\ e.openToolCalls = ctx[r].openToolCalls
    BY <1>0, LocalOpen
  <2>3. ThrownFrom(r, ctx[r]) \/ ctx'[r] = d \/ ctx'[r] = e \/ ThrownFrom(r, e)
    BY <1>8, OwnSaveToolMessage DEF AtLoopTop, At
  <2> HIDE DEF d, e
  <2>4. QED
    BY <1>1, <2>1, <2>2, <2>3, RecordSame DEF ThrownFrom
<1>9. QED
  BY <1>3, <1>4, <1>5, <1>6, <1>7, <1>8 DEF RoundStep

(* Entering the loop's finally: with no open call nothing is `started`. *)
LEMMA RecordFinally ==
    ASSUME NEW r \in Runs, RecordOK(r), pc[r] \in LoopPCs, SameCalls(r), AtLoopFinally(r, ctx[r])
    PROVE  RecordOK(r)'
<1>1. CASE ctx[r].openToolCalls = {}
  <2>1. pc'[r] = "saveTrace"
    BY <1>1 DEF AtLoopFinally, At
  <2>2. \A c \in Calls : toolRow'[r][c] # "started"
    BY <1>1 DEF RecordOK, SameCalls
  <2>3. QED
    BY <2>1, <2>2 DEF RecordOK
<1>2. CASE ctx[r].openToolCalls # {}
  <2>1. pc'[r] = "closeCalls" /\ ctx'[r] = ctx[r] /\ "closeCalls" \in LoopPCs \ {"saveTrace"}
    BY <1>2 DEF AtLoopFinally, At, LoopPCs, ExitPCs
  <2>2. QED
    BY <2>1, RecordSame
<1>3. QED
  BY <1>1, <1>2

LEMMA RecordExit ==
    ASSUME TypeInv, Recording, NEW r \in Runs, RecordOK(r), PhaseOK(r), ExitStep(r)
    PROVE  RecordOK(r)'
<1>0. TypeOK
  BY DEF TypeInv
<1> USE DEF LoopPCs, BodyPCs, ExitPCs
<1>1. CASE FailMaxIterations(r) \/ Complete(r)
  <2>1. SameCalls(r) /\ pc[r] \in LoopPCs
    BY <1>0, <1>1, OwnTerminalWrite
  <2>2. ThrownFrom(r, ctx[r]) \/ AtLoopFinally(r, ctx[r])
    BY <1>0, <1>1, OwnTerminalWrite
  <2>3. QED
    BY <2>1, <2>2, RecordSame, RecordFinally DEF ThrownFrom
<1>2. CASE SaveText(r)
  <2>1. SameCalls(r) /\ pc[r] \in LoopPCs
    BY <1>0, <1>2, OwnSaveText
  <2>2. ThrownFrom(r, ctx[r]) \/ At(r, "complete", ctx[r])
    BY <1>0, <1>2, OwnSaveText
  <2>3. QED
    BY <2>1, <2>2, RecordSame DEF ThrownFrom, At
<1>3. CASE FinalizeRun(r)
  BY <1>0, <1>3, OwnFinalize, RecordFinally
<1>4. CASE CloseCalls(r)
  <2>1. pc[r] = "closeCalls" /\ pc'[r] = "saveTrace"
    BY <1>0, <1>4, OwnCloseCalls DEF At
  <2>2. \A c \in Calls : toolRow'[r][c] # "started"
    BY <1>0, <1>4, <2>1, OwnCloseCalls DEF RecordOK, Recording
  <2>3. QED
    BY <2>1, <2>2 DEF RecordOK
<1>5. CASE SaveTrace(r)
  <2>1. /\ pc[r] = "saveTrace" /\ SameCalls(r) /\ SameEvent(r)
        /\ traceRow'[r] = IF event[r] = "message_completed" THEN "ok" ELSE "error"
    BY <1>0, <1>5, OwnSaveTrace DEF Recording
  <2>2. \A c \in Calls : toolRow'[r][c] # "started"
    BY <2>1 DEF RecordOK, SameCalls
  <2>3. QED
    BY <2>1, <2>2 DEF RecordOK, SameEvent
<1>6. QED
  BY <1>1, <1>2, <1>3, <1>4, <1>5 DEF ExitStep

LEMMA RecordBefore ==
    ASSUME TypeOK, NEW r \in Runs, RecordOK(r), PhaseOK(r), SetupStep(r) \/ DriveStep(r)
    PROVE  RecordOK(r)'
<1>1. CASE DriveCancel(r)
  BY <1>1, OwnDriveCancel DEF RecordOK, SameCalls, SameTrace, SameEvent
<1>2. CASE SetupStep(r) \/ RecheckPrereqs(r)
  <2>1. pc[r] \in BeforeLoop
    BY <1>2, OwnSetup, OwnRecheck DEF BeforeLoop
  <2>2. SameCalls(r) /\ SameEvent(r)
    BY <1>2, OwnSetup, OwnRecheck DEF SameRows
  <2>3. \A c \in Calls : toolRow'[r][c] # "started"
    BY <2>1, <2>2 DEF RecordOK, SameCalls
  <2>4. event'[r] = "none"
    BY <2>1, <2>2 DEF PhaseOK, SameEvent
  <2>5. QED
    BY <2>3, <2>4 DEF RecordOK
<1>3. QED
  BY <1>1, <1>2 DEF DriveStep

LEMMA RecordOutside ==
    ASSUME TypeOK, NEW q \in Runs, RecordOK(q), OutsideStep(q), SameRows(q)
    PROVE  RecordOK(q)'
<1>1. toolRow'[q] = toolRow[q] /\ event'[q] = event[q] /\ traceRow'[q] = traceRow[q] /\ ctx[q] \in Ctx
  BY DEF SameRows, SameCalls, SameEvent, SameTrace, TypeOK
<1>2. ctx'[q].openToolCalls = ctx[q].openToolCalls
  <2>1. ctx'[q] = ctx[q] \/ ctx'[q] = [ctx[q] EXCEPT !.fired = TRUE]
    BY DEF OutsideStep, Kept, Admitted, Abandoned, Cancelled, CallTimerFired, RunTimerFired
  <2>2. CASE ctx'[q] = [ctx[q] EXCEPT !.fired = TRUE]
    BY <1>1, <2>2, LocalOpen
  <2>3. QED
    BY <2>1, <2>2
<1>3. \/ pc'[q] = pc[q] \/ pc'[q] = "abandoned"
      \/ pc[q] = "idle" /\ pc'[q] \in {"prereqs", "rejected"}
  BY DEF OutsideStep, Admitted, Abandoned, Cancelled, CallTimerFired, RunTimerFired
<1>4. QED
  BY <1>1, <1>2, <1>3 DEF RecordOK, BeforeLoop, LoopPCs, BodyPCs, ExitPCs

LEMMA RecordStep ==
    ASSUME TypeInv, Recording, ReportInv, RecordInv, [Next]_vars
    PROVE  RecordInv'
<1> SUFFICES ASSUME NEW q \in Runs PROVE RecordOK(q)'
  BY DEF RecordInv
<1>1. TypeOK /\ PhaseOK(q) /\ RecordOK(q)
  BY DEF TypeInv, ReportInv, RecordInv
<1>2. ASSUME NEW r \in Runs, RunStep(r) PROVE RecordOK(q)'
  <2>1. CASE q = r
    BY <1>1, <1>2, <2>1, RecordBefore, RecordRound, RecordExit DEF RunStep
  <2>2. CASE q # r
    <3>1. Untouched(q)
      BY <1>1, <1>2, <2>2, OthersUntouched
    <3>2. QED
      BY <1>1, <3>1 DEF RecordOK, Untouched, SameRows, SameCalls, SameEvent, SameTrace
  <2>3. QED
    BY <2>1, <2>2
<1>3. QED
  BY <1>1, <1>2, OutsideShape, RecordOutside

-----------------------------------------------------------------------------
(* The theorems about outcomes, reports, history and records *)

LEMMA OutcomeInit ==
    ASSUME Init
    PROVE  ReportInv /\ CauseInv /\ HistoryInv /\ EarlyInv /\ RecordInv
<1>1. ReportInv
  BY DEF Init, ReportInv, PhaseOK, EventOK, Causes, CodeOf, RunningPCs, BodyPCs
<1>2. CauseInv
  BY DEF Init, CauseInv, CauseOK, NewCtx
<1>3. HistoryInv
  BY DEF Init, HistoryInv, HistoryOK
<1>4. EarlyInv
  BY DEF Init, EarlyInv, EarlyOK, ToolsOK
<1>5. RecordInv
  BY DEF Init, RecordInv, RecordOK
<1>6. QED
  BY <1>1, <1>2, <1>3, <1>4, <1>5

(* The invariants that hold whatever fails. *)
OutcomeInv == IInv /\ ReportInv /\ CauseInv /\ HistoryInv

LEMMA OutcomeInvCorrect == Spec => []OutcomeInv
<1>1. Init => OutcomeInv
  BY OutcomeInit, TypeInit, LockInvInit DEF OutcomeInv, IInv
<1>2. OutcomeInv /\ [Next]_vars => OutcomeInv'
  <2> SUFFICES ASSUME OutcomeInv, [Next]_vars PROVE OutcomeInv'
    OBVIOUS
  <2>1. IInv /\ TypeInv /\ ReportInv /\ CauseInv /\ HistoryInv
    BY DEF OutcomeInv, IInv
  <2>2. IInv' /\ TypeInv'
    BY <2>1, TypeStep, LockInvStep, RowInvStep DEF IInv
  <2>3. ReportInv' /\ CauseInv' /\ HistoryInv'
    BY <2>1, <2>2, ReportStep, CauseStep, HistoryStep
  <2>4. QED
    BY <2>2, <2>3 DEF OutcomeInv
<1>3. QED
  BY <1>1, <1>2, PTL DEF Spec

(* Success is reported only for a `completed` row, and a failure code      *)
(* differs from the row only where a terminal write was lost or went       *)
(* unacknowledged, whatever else fails (agent-loop.ts, the exits of        *)
(* runAgentLoop).                                                          *)
THEOREM EventAgreesWithRowHolds == Spec => []EventAgreesWithRow
<1>1. OutcomeInv => EventAgreesWithRow
  BY DEF OutcomeInv, ReportInv, EventOK, EventAgreesWithRow
<1>2. QED
  BY <1>1, OutcomeInvCorrect, PTL

(* The model is never called again, and a run never completes, while a     *)
(* call its history names is unanswered: for any number of rounds and of   *)
(* calls in one, and whatever database calls fail (agent-loop.ts, the      *)
(* messages it persists in a round).                                       *)
THEOREM HistoryAnsweredHolds == Spec => []HistoryAnswered
<1>1. OutcomeInv => HistoryAnswered
  <2> SUFFICES ASSUME OutcomeInv, NEW r \in Runs, NEW c \in Calls, NEW m \in messages[r],
                      pc[r] \in {"history", "model", "streamEnd"} \/ runRow[r] = "completed",
                      m.role = "calls", m.round = c[1], c[2] <= m.call
               PROVE  ToolMessage(c[1], c[2]) \in messages[r]
    BY DEF HistoryAnswered, Unanswered
  <2>1. HistoryOK(pc[r], ctx[r], messages[r], runRow[r]) /\ m \in Message
    BY DEF OutcomeInv, HistoryInv, IInv, TypeInv, TypeOK
  <2>2. Answered(messages[r], m)
    BY <2>1 DEF HistoryOK, FreshPCs
  <2>3. c[2] \in 1 .. m.call
    BY <2>1 DEF Calls, Message
  <2>4. QED
    BY <2>2, <2>3 DEF Answered
<1>2. QED
  BY <1>1, OutcomeInvCorrect, PTL

(* A row says `cancelled` only if a cancel was accepted while it was       *)
(* `running`, and `timed_out` only if a deadline fired on it.              *)
CauseRecorded ==
    \A r \in Runs : /\ runRow[r] = "cancelled" => cancelRequested[r] # "none"
                    /\ runRow[r] = "timed_out" => r \in deadlineFired

(* No outcome without its cause, whatever fails and however cancels,       *)
(* deadlines and answers race (agent-loop.ts classifyTerminal and the      *)
(* catch; run-execution-service.ts drive).                                 *)
THEOREM CauseRecordedHolds == Spec => []CauseRecorded
<1>1. OutcomeInv => CauseRecorded
  BY DEF OutcomeInv, CauseInv, CauseOK, CauseRecorded
<1>2. QED
  BY <1>1, OutcomeInvCorrect, PTL

(* When the calls of Settling answer, more holds: a cancel accepted before *)
(* the loop first looks at the abort always lands as `cancelled` or        *)
(* `timed_out`, one accepted among the tool calls of a round keeps the run *)
(* from completing, and every drained run has settled its row.             *)
THEOREM OutcomeHasItsCauseHolds ==
    ASSUME Settling
    PROVE  Spec => []OutcomeHasItsCause
<1>1. Init => EarlyInv
  BY OutcomeInit
<1>2. OutcomeInv /\ EarlyInv /\ [Next]_vars => EarlyInv'
  BY EarlyStep DEF OutcomeInv
<1>3. OutcomeInv /\ EarlyInv => OutcomeHasItsCause
  <2> SUFFICES ASSUME OutcomeInv, EarlyInv, NEW r \in Runs
               PROVE  /\ runRow[r] = "cancelled" => cancelRequested[r] # "none"
                      /\ runRow[r] = "timed_out" => r \in deadlineFired
                      /\ pc[r] = "done" /\ cancelRequested[r] = "early"
                            => runRow[r] \in {"cancelled", "timed_out"}
                      /\ cancelRequested[r] = "tools" => runRow[r] # "completed"
                      /\ pc[r] = "done" /\ runRow[r] # "absent" => runRow[r] \in Terminal
    BY DEF OutcomeHasItsCause
  <2>1. CauseOK(r) /\ EarlyOK(r) /\ ToolsOK(r)
    BY DEF OutcomeInv, CauseInv, EarlyInv
  <2>2. QED
    BY <2>1 DEF CauseOK, EarlyOK, EarlyPCs, ToolsOK
<1>4. QED
  BY <1>1, <1>2, <1>3, OutcomeInvCorrect, PTL DEF Spec

(* When the best-effort writes of the exits take effect, the records of a  *)
(* drained run agree: its row is terminal, none of its tool calls dangles  *)
(* in `started`, and its trace tells the outcome of the row.               *)
THEOREM RecordsConsistentHolds ==
    ASSUME Recording
    PROVE  Spec => []RecordsConsistent
<1>1. Init => RecordInv
  BY OutcomeInit
<1>2. OutcomeInv /\ RecordInv /\ [Next]_vars => RecordInv'
  BY RecordStep DEF OutcomeInv, IInv
<1>3. OutcomeInv /\ RecordInv => RecordsConsistent
  <2> SUFFICES ASSUME OutcomeInv, RecordInv, NEW r \in Runs, pc[r] = "done", event[r] # "none"
               PROVE  /\ runRow[r] \in Terminal
                      /\ \A c \in Calls : toolRow[r][c] # "started"
                      /\ traceRow[r] = (IF runRow[r] = "completed" THEN "ok" ELSE "error")
    BY DEF RecordsConsistent
  <2>1. TypeOK /\ EventOK(r) /\ RecordOK(r)
    BY DEF OutcomeInv, IInv, TypeInv, ReportInv, RecordInv
  <2>2. runRow[r] \in Terminal
    BY <2>1, ReportedSettled DEF Recording
  <2>3. event[r] = "message_completed" <=> runRow[r] = "completed"
    BY <2>1 DEF TypeOK, EventOK, Events, Causes, CodeOf, StatusOf, Recording
  <2>4. QED
    BY <2>1, <2>2, <2>3 DEF RecordOK
<1>4. QED
  BY <1>1, <1>2, <1>3, OutcomeInvCorrect, PTL DEF Spec

=============================================================================
