----------------------------- MODULE ModelTurn -----------------------------
(***************************************************************************)
(* A session's rounds with its model: the context that is built from the   *)
(* persisted messages (context-builder.ts, memory/), what each provider's  *)
(* adapter sends of it and makes of the answer's stream (packages/models), *)
(* and what the loop keeps of the answer (loop.ts).                        *)
(*                                                                         *)
(* Ids and tool names are numbers.  A call's arguments are as many JSON    *)
(* fragments as the model streams.  The agent may get another model        *)
(* between two runs.  Cancellation is RunExecution's; here a signal is     *)
(* aborted by a deadline: the model call's or the provider's own.          *)
(***************************************************************************)
EXTENDS RunTrace

CONSTANTS Models,      \* what an agent's model string may say
          Sayings,     \* what a model may say in a round
          OldRows,     \* histories to start from
          Tools,       \* the agent's tools
          LastN,       \* memoryConfig.lastN
          MaxRuns,     \* bound: runs on the session
          MaxRounds    \* bound: model calls

NoId == 0

(* What a model says: so many tokens, and calls with so many fragments *)
Saying == [text : Nat, calls : Seq([name : Nat \ {NoId}, parts : Nat])]

(* A call as the loop keeps it *)
ArgsParsed == {"whole", "empty", "raw"}
KeptCall == [index : Nat \ {0}, swift : Nat, id : Nat, name : Nat \ {NoId}, args : ArgsParsed]

(* A message of the session; of the calls of older rows less is known.     *)
RowCall == KeptCall \cup [swift : Nat, id : Nat, name : Nat \ {NoId}]
Row == [role : {"user", "assistant", "tool"}, calls : Seq(RowCall), swift : Nat, id : Nat, name : Nat]

(* The calls before row i that have its id are all of one tool. *)
NamedAlike(rows, i, name) ==
    \A k \in 1 .. i - 1 : \A c \in DOMAIN rows[k].calls :
        rows[k].calls[c].id = rows[i].id => rows[k].calls[c].name = name

(* Row i is the result of a call of row j, the one as far from the first   *)
(* of them; it names its tool, or there is only one it can be.             *)
IsResult(rows, i, j) ==
    /\ i - j \in DOMAIN rows[j].calls
    /\ rows[j].calls[i - j].swift = rows[i].swift /\ rows[j].calls[i - j].id = rows[i].id
    /\ \/ rows[i].name = rows[j].calls[i - j].name
       \/ rows[i].name = NoId /\ NamedAlike(rows, i, rows[j].calls[i - j].name)
    /\ \A k \in j + 1 .. i : rows[k].role = "tool"

(* Call c of row j has its result, or its run stopped and another began. *)
IsSettled(rows, j, c) ==
    \/ j + c \in DOMAIN rows /\ rows[j + c].swift = rows[j].calls[c].swift
    \/ \E k \in j + 1 .. j + c : k \in DOMAIN rows /\ rows[k].role = "user"

(* The rows of a session between two runs *)
IsHistory(rows) ==
    /\ rows \in Seq(Row)
    /\ \A i \in DOMAIN rows : rows[i].role = "tool" =>
          rows[i].calls = <<>> /\ \E j \in 1 .. i - 1 : IsResult(rows, i, j)
    /\ \A j \in DOMAIN rows : \A c \in DOMAIN rows[j].calls :
          j + c \in DOMAIN rows => IsSettled(rows, j, c)

ASSUME ModelTurnAssumption ==
    /\ LastN \in Nat \ {0} /\ MaxRuns \in Nat /\ MaxRounds \in Nat
    /\ \A s \in Sayings : s \in Saying
    /\ \A rows \in OldRows : IsHistory(rows)

VARIABLES history,  \* the session's messages
          serving,   \* the running agent's model string and memory strategy
          turn,     \* the model call in progress
          rounds,   \* model calls so far
          runs,     \* runs so far
          usage,    \* lastUsage: the round it is of
          spans,    \* the spans of the run's trace
          trace,    \* what was written of them at the end of the run
          tally     \* history: what the run did, to compare its trace with

traceVars == <<spans, trace, tally>>
modelVars == <<history, serving, turn, rounds, runs, usage, traceVars>>

NoTurn == [pc |-> "idle", provider |-> "none", context |-> <<>>, said |-> [text |-> 0, calls |-> <<>>],
           text |-> 0, buffers |-> <<>>, chunks |-> <<>>, finishes |-> 0, late |-> FALSE, cut |-> FALSE]

-----------------------------------------------------------------------------
(* Choosing the provider *)

Aliases == [openai |-> "openai", gpt |-> "openai", anthropic |-> "anthropic", claude |-> "anthropic",
            google |-> "google", gemini |-> "google"]

(* parseModelString, of a string split at its first slash *)
ParseModelString(s) ==
    IF ~s.slash \/ s.provider = "" \/ ~s.model THEN "invalid"
    ELSE IF s.provider \in DOMAIN Aliases THEN Aliases[s.provider] ELSE s.provider

(* resolveConfig: given at registration, or a key in the environment *)
ResolveConfig(s, provider) ==
    \/ provider \in {"echo", "fixture"}
    \/ provider \in {"openai", "anthropic", "google"} /\ s.key

(* resolveForModel *)
ResolveForModel(s) ==
    LET provider == ParseModelString(s) IN
    IF provider # "invalid" /\ s.registered /\ ResolveConfig(s, provider) THEN provider ELSE "none"

-----------------------------------------------------------------------------
(* The context *)

(* LastNMemoryStrategy and SummaryMemoryStrategy *)
LastNTrim(rows) == IF Len(rows) <= LastN THEN rows ELSE SubSeq(rows, Len(rows) - LastN + 1, Len(rows))
Trim(rows) == IF serving.memory = "last_n" THEN LastNTrim(rows) ELSE rows

UserRow == [role |-> "user", calls |-> <<>>, swift |-> NoId, id |-> NoId, name |-> NoId]
TextRow == [UserRow EXCEPT !.role = "assistant"]
CallsRow(calls) == [UserRow EXCEPT !.role = "assistant", !.calls = calls]
ToolRow(call) == [role |-> "tool", calls |-> <<>>, swift |-> call.swift, id |-> call.id,
                  name |-> call.name]

Greatest(S) == CHOOSE n \in S : \A m \in S : m <= n

(* findToolName, for a row of before tool names were kept: of the last     *)
(* call with that id among the messages built so far                       *)
FindToolName(rows, i) ==
    LET same(j) == {c \in DOMAIN rows[j].calls : rows[j].calls[c].id = rows[i].id}
        found == {j \in 1 .. i - 1 : same(j) # {}}
        last == Greatest(found) IN
    IF found = {} THEN NoId ELSE rows[last].calls[Greatest(same(last))].name

(* Mutant: the result carries Swift Agent's own id. *)
MapToolMessageSwift(rows, i) ==
    [rows[i] EXCEPT !.id = rows[i].swift,
                    !.name = IF @ = NoId THEN FindToolName(rows, i) ELSE @]

(* mapToolMessage *)
MapToolMessage(rows, i) == [rows[i] EXCEPT !.name = IF @ = NoId THEN FindToolName(rows, i) ELSE @]

(* ContextBuilder.build *)
Build(rows) ==
    LET kept == Trim(rows) IN
    [i \in DOMAIN kept |-> IF kept[i].role = "tool" THEN MapToolMessage(kept, i) ELSE kept[i]]

(* What ties a result to its call on the wire: toOpenAIMessages and        *)
(* mapMessage of Anthropic's send the id, toGoogleMessages the name, or    *)
(* the id where there is none.                                             *)
OpenAIRef(x) == x.id
AnthropicRef(x) == x.id
GoogleRef(x) == IF x.name # NoId THEN x.name ELSE x.id
Ref(provider, x) ==
    CASE provider = "google" -> GoogleRef(x) [] provider = "anthropic" -> AnthropicRef(x)
      [] OTHER -> OpenAIRef(x)

-----------------------------------------------------------------------------
(* The stream *)

(* What JSON.parse makes of the fragments so far, of an object *)
Parsed(received, parts) ==
    IF received = parts THEN "whole" ELSE IF received = 0 THEN "empty" ELSE "raw"

Chunk(i, received) ==
    [index |-> i, swift |-> 1000 + 10 * rounds + i, id |-> turn.said.calls[i].id,
     name |-> turn.said.calls[i].name, args |-> Parsed(received, turn.said.calls[i].parts)]

Streaming(provider) == turn.pc = "stream" /\ turn.provider = provider
KeepRest == UNCHANGED <<history, serving, rounds, runs, traceVars>>
Is(t) == turn' = t /\ UNCHANGED usage /\ KeepRest

(* A terminal finish chunk; its usage is the round's, known or not. *)
Finish(t) == turn' = [t EXCEPT !.finishes = @ + 1] /\ usage' = rounds /\ KeepRest

Opened == DOMAIN turn.buffers
TextDone == turn.text = turn.said.text

(* A text delta, before the calls *)
Token ==
    /\ turn.pc = "stream" /\ turn.text < turn.said.text
    /\ ~turn.late
    /\ Is([turn EXCEPT !.text = @ + 1])

Receive(i) ==
    [turn EXCEPT !.buffers = [j \in Opened \cup {i} |->
        IF j \notin Opened THEN 0 ELSE IF j = i THEN turn.buffers[j] + 1 ELSE turn.buffers[j]]]

(* openai.ts: the deltas of the calls in any order, the first with id and  *)
(* name                                                                    *)
OpenAIDelta(i) ==
    /\ Streaming("openai") /\ TextDone
    /\ i \in DOMAIN turn.said.calls
    /\ i \in Opened => turn.buffers[i] < turn.said.calls[i].parts
    /\ Is(Receive(i))

Complete(i) == i \in Opened /\ turn.buffers[i] = turn.said.calls[i].parts
AllSaid == TextDone /\ \A i \in DOMAIN turn.said.calls : Complete(i)

(* The k-th of a set of indexes *)
Nth(S, k) == CHOOSE i \in S : Cardinality({j \in S : j <= i}) = k

Accumulated(i) == Chunk(i, turn.buffers[i])

(* Mutant: calls are yielded as the map has them, the last opened first. *)
OpenAIEndsUnsorted ==
    LET n == Cardinality(Opened) IN
    /\ Streaming("openai")
    /\ Finish([turn EXCEPT !.pc = "ended", !.cut = ~AllSaid,
                           !.chunks = [k \in 1 .. n |-> Accumulated(Nth(Opened, n + 1 - k))]])

(* The stream is over, as it should or because the peer closed it: the     *)
(* calls by their index, then finish                                       *)
OpenAIEnds ==
    /\ Streaming("openai")
    /\ Finish([turn EXCEPT !.pc = "ended", !.cut = ~AllSaid,
                           !.chunks = [k \in 1 .. Cardinality(Opened) |-> Accumulated(Nth(Opened, k))]])

(* anthropic.ts: one content block after the other *)
Given(i) == \E k \in DOMAIN turn.chunks : turn.chunks[k].index = i
BlockDelta(i) ==
    /\ Streaming("anthropic") /\ TextDone
    /\ i \in DOMAIN turn.said.calls /\ ~Given(i) /\ \A j \in 1 .. i - 1 : Given(j)
    /\ i \in Opened => turn.buffers[i] < turn.said.calls[i].parts
    /\ Is(Receive(i))

BlockStop(i) ==
    /\ Streaming("anthropic") /\ i \in Opened /\ Complete(i) /\ ~Given(i)
    /\ Is([turn EXCEPT !.chunks = Append(@, Accumulated(i))])

(* Mutant: the stop reason is taken for the end. *)
MessageDeltaSilent ==
    /\ Streaming("anthropic") /\ AllSaid /\ Len(turn.chunks) = Len(turn.said.calls)
    /\ turn.finishes = 0
    /\ Is([turn EXCEPT !.finishes = @ + 1])

(* message_delta is the finish chunk; *)
MessageDelta ==
    /\ Streaming("anthropic") /\ AllSaid /\ Len(turn.chunks) = Len(turn.said.calls)
    /\ turn.finishes = 0
    /\ Finish(turn)

(* the end itself yields nothing, and open blocks are dropped. *)
AnthropicEnds ==
    /\ Streaming("anthropic")
    /\ Is([turn EXCEPT !.pc = "ended", !.cut = turn.finishes = 0])

(* google.ts: calls come whole, under an id that is made up here. *)
GoogleCall ==
    LET i == Len(turn.chunks) + 1 IN
    /\ Streaming("google") /\ TextDone /\ ~turn.late /\ i \in DOMAIN turn.said.calls
    /\ Is([turn EXCEPT !.chunks = Append(@, [Chunk(i, turn.said.calls[i].parts) EXCEPT !.id = @ + 500])])

(* The loop over the stream ends with it, or at a chunk that comes after   *)
(* the signal was aborted: break, and finish as if it had ended.           *)
GoogleEnds ==
    /\ Streaming("google")
    /\ Finish([turn EXCEPT !.pc = "ended",
                           !.cut = ~TextDone \/ Len(turn.chunks) < Len(turn.said.calls)])

(* tool-fixture.ts and echo.ts: a signal is looked at between the chunks.  *)
LocalCall ==
    /\ Streaming("fixture") /\ TextDone /\ ~turn.late /\ turn.chunks = <<>> /\ turn.said.calls # <<>>
    /\ Is([turn EXCEPT !.chunks = <<Chunk(1, turn.said.calls[1].parts)>>])

LocalEnds ==
    /\ Streaming("fixture") \/ Streaming("echo")
    /\ TextDone /\ Len(turn.chunks) = Len(turn.said.calls)
    /\ Finish([turn EXCEPT !.pc = "ended"])

(* The deadline of the call, or mergeSignals' timeout, passes.  Where the  *)
(* signal is given to the SDK, its stream throws or was just over.         *)
DeadlinePasses ==
    /\ turn.pc = "stream" /\ ~turn.late /\ turn.provider \in {"google", "fixture", "echo"}
    /\ Is([turn EXCEPT !.late = TRUE])

EndLast == [spans EXCEPT ![Len(spans)] = EndSpan(@)]

(* The loop's finally writes the trace, if it can. *)
Finalize == trace' \in {<<>>, FinishTrace(spans')}

(* generate throws, on an abort or an error of the connection: so does the *)
(* run.  Google's is not given the signal.                                 *)
GenerateThrows ==
    /\ turn.pc = "stream"
    /\ turn' = NoTurn
    /\ spans' = EndLast
    /\ tally' = [tally EXCEPT !.threw = TRUE]
    /\ Finalize
    /\ UNCHANGED <<history, serving, rounds, runs, usage>>

-----------------------------------------------------------------------------
(* The loop *)

(* validateToolCall over buildToolIndex: a registered tool, and arguments  *)
(* that are an object *)
Valid(call) == call.name \in Tools /\ call.args # "raw"

(* A run begins with its message, and reads its agent anew. *)
StartRun(s, memory) ==
    /\ turn.pc = "idle" /\ runs < MaxRuns
    /\ runs' = runs + 1
    /\ history' = Append(history, UserRow)
    /\ serving' = [model |-> s, memory |-> memory]
    /\ usage' = NoId
    /\ turn' = [NoTurn EXCEPT !.pc = "ready"]
    /\ spans' = StartRunTrace /\ trace' = <<>>
    /\ tally' = [began |-> rounds, tools |-> 0, threw |-> FALSE, cut |-> FALSE]
    /\ UNCHANGED rounds

(* What a provider can say: the fixture calls its tool if no result is in  *)
(* the context, and echo calls none.                                       *)
CanSay(provider, context, said) ==
    CASE provider = "fixture" ->
           Len(said.calls) = IF \E i \in DOMAIN context : context[i].role = "tool" THEN 0 ELSE 1
      [] provider = "echo" -> said.calls = <<>>
      [] OTHER -> TRUE

(* Ids are the provider's and new, but for the fixture's constant one. *)
WithIds(provider, said) ==
    [text |-> said.text,
     calls |-> [i \in DOMAIN said.calls |->
        [name |-> said.calls[i].name, parts |-> said.calls[i].parts,
         id |-> IF provider = "fixture" THEN 7 ELSE 10 * (rounds + 1) + i]]]

CallModel(said) ==
    LET provider == ResolveForModel(serving.model)
        context == Build(history) IN
    /\ turn.pc = "ready" /\ rounds < MaxRounds
    /\ provider # "none" /\ CanSay(provider, context, said)
    /\ rounds' = rounds + 1
    /\ turn' = [NoTurn EXCEPT !.pc = "stream", !.provider = provider, !.context = context,
                              !.said = WithIds(provider, said)]
    /\ spans' = StartModelCall(spans)
    /\ UNCHANGED <<history, serving, runs, usage, trace, tally>>

(* The run stops before its next model call, also after a whole batch: on  *)
(* an abort, a history that cannot be read, a model nobody serves, the     *)
(* deadline of the last tool call, or with its rounds used up.             *)
RoundStops ==
    /\ turn.pc = "ready"
    /\ turn' = NoTurn
    /\ UNCHANGED spans /\ Finalize
    /\ UNCHANGED <<history, serving, rounds, runs, usage, tally>>

(* The stream is over: the span takes lastUsage. *)
StreamOver ==
    LET last == Len(spans) IN
    /\ turn.pc = "ended"
    /\ spans' = [spans EXCEPT ![last] = EndSpan(AddTokens(@, usage))]
    /\ tally' = [tally EXCEPT !.cut = @ \/ (turn.cut /\ turn.provider = "anthropic")]
    /\ UNCHANGED <<serving, rounds, runs, usage>>

(* The calls are saved, to be executed one by one. *)
CallsSaved ==
    /\ StreamOver
    /\ turn.chunks # <<>>
    /\ history' = Append(history, CallsRow(turn.chunks))
    /\ turn' = [turn EXCEPT !.pc = "tools", !.context = <<>>, !.buffers = <<>>]
    /\ UNCHANGED trace

(* No calls: the text, if there is any, is the answer and the run ends. *)
AnswerSaved ==
    /\ StreamOver
    /\ turn.chunks = <<>>
    /\ history' = IF turn.text > 0 THEN Append(history, TextRow) ELSE history
    /\ turn' = NoTurn
    /\ Finalize

(* The write of the calls, of the text or of the run's end fails. *)
SaveFails ==
    /\ StreamOver
    /\ UNCHANGED history
    /\ turn' = NoTurn
    /\ Finalize

(* How far the batch is *)
Answered ==
    LET batch == CHOOSE j \in DOMAIN history : /\ history[j].calls # <<>>
                                               /\ \A l \in j + 1 .. Len(history) : history[l].calls = <<>> IN
    Len(history) - batch

(* The next call is executed under a span or, not valid, rejected. *)
Executed(recorded) ==
    IF Valid(turn.chunks[Answered + 1])
    THEN /\ spans' = LET s == StartToolCall(spans) IN
                     IF recorded THEN [s EXCEPT ![Len(s)] = EndSpan(@)] ELSE s
         /\ tally' = [tally EXCEPT !.tools = @ + 1]
    ELSE UNCHANGED <<spans, tally>>

(* Its result is recorded and saved for the model. *)
SaveResult ==
    LET done == Answered IN
    /\ turn.pc = "tools"
    /\ Executed(TRUE)
    /\ history' = Append(history, ToolRow(turn.chunks[done + 1]))
    /\ turn' = IF done + 1 = Len(turn.chunks) THEN [NoTurn EXCEPT !.pc = "ready"] ELSE turn
    /\ UNCHANGED <<serving, rounds, runs, usage, trace>>

(* A write fails before a call, after its execution (its span stays open)  *)
(* or after its record; or a deadline ends the run in its batch.           *)
BatchStops ==
    /\ turn.pc = "tools"
    /\ turn' = NoTurn
    /\ \/ UNCHANGED <<spans, tally>>
       \/ \E recorded \in BOOLEAN : Executed(recorded)
    /\ Finalize
    /\ UNCHANGED <<history, serving, rounds, runs, usage>>

ModelInit ==
    /\ history \in OldRows
    /\ serving = [model |-> CHOOSE s \in Models : TRUE, memory |-> "last_n"]
    /\ turn = NoTurn
    /\ rounds = 0 /\ runs = 0 /\ usage = NoId
    /\ spans = <<>> /\ trace = <<>>
    /\ tally = [began |-> 0, tools |-> 0, threw |-> FALSE, cut |-> FALSE]

ModelNext ==
    \/ \E s \in Models, memory \in {"last_n", "summary"} : StartRun(s, memory)
    \/ \E said \in Sayings : CallModel(said)
    \/ RoundStops \/ Token \/ DeadlinePasses \/ GenerateThrows
    \/ \E i \in DOMAIN turn.said.calls : OpenAIDelta(i) \/ BlockDelta(i) \/ BlockStop(i)
    \/ OpenAIEnds \/ MessageDelta \/ AnthropicEnds \/ GoogleCall \/ GoogleEnds
    \/ LocalCall \/ LocalEnds
    \/ CallsSaved \/ AnswerSaved \/ SaveFails \/ SaveResult \/ BatchStops

-----------------------------------------------------------------------------
(* Properties *)

(* Whatever models a session has had, whichever rows are of an older       *)
(* release and wherever the memory window cuts, every tool result in a     *)
(* request is tied to its own call on the wire; a result without its call  *)
(* stands at the front of a window that cut between them; and a call goes  *)
(* unanswered only if its run stopped in the batch.                        *)
ContextCorrelates ==
    LET sent == turn.context
        wire(x) == Ref(turn.provider, x)
        calls(j) == sent[j].calls
        CutOff(i) == serving.memory = "last_n" /\ \A k \in 1 .. i : sent[k].role = "tool" IN
    turn.pc = "stream" =>
        /\ \A i \in DOMAIN sent : sent[i].role = "tool" =>
              \/ CutOff(i)
              \/ \E j \in 1 .. i - 1 :
                    /\ i - j \in DOMAIN calls(j)
                    /\ calls(j)[i - j].swift = sent[i].swift
                    /\ wire(calls(j)[i - j]) = wire(sent[i])
        /\ \A j \in DOMAIN sent : \A c \in DOMAIN calls(j) :
              \/ j + c \in DOMAIN sent /\ sent[j + c].swift = calls(j)[c].swift
              \/ \E k \in j + 1 .. j + c : k \in DOMAIN sent /\ sent[k].role = "user"

(* However the fragments of several calls interleave, end early or come    *)
(* after a deadline, the calls that are kept are calls the model made, in  *)
(* its order and under its ids; all of them, unless the stream was cut;    *)
(* and the arguments of one that passes validation are what the model      *)
(* said, unless it was cut before the first of them.                       *)
CallsAreWhole ==
    LET kept == turn.chunks
        said == turn.said.calls IN
    turn.pc \in {"ended", "tools"} =>
        /\ \A k \in DOMAIN kept :
              /\ kept[k].name = said[kept[k].index].name
              /\ turn.provider = "google" \/ kept[k].id = said[kept[k].index].id
              /\ Valid(kept[k]) => kept[k].args = "whole" \/ turn.cut
        /\ \A k, l \in DOMAIN kept : k < l => kept[k].index < kept[l].index
        /\ ~turn.cut => Len(kept) = Len(said) /\ turn.text = turn.said.text

(* The metrics of a run are of what it did, wherever it stopped: each      *)
(* model and tool call it began counts once, the time to the first token   *)
(* is known, and its tokens are those of its own rounds.  lastUsage        *)
(* outlives a round, so a round without a finish chunk records the tokens  *)
(* of the one before: only an Anthropic stream that was cut does.          *)
MetricsAreTheRuns ==
    LET metrics == DeriveRunMetrics(trace)
        paid == IF tally.threw THEN rounds - 1 ELSE rounds
        \* twice the sum of the numbers of the rounds
        tokens(from, to) == to * (to + 1) - from * (from + 1) IN
    /\ turn.finishes <= 1
    /\ trace # <<>> =>
          /\ metrics.modelCallCount = rounds - tally.began
          /\ metrics.toolCallCount = tally.tools
          /\ metrics.timeToFirstToken <=> rounds > tally.began
          /\ ~tally.cut => metrics.totalTokens = tokens(tally.began, paid)
=============================================================================
