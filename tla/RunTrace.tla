----------------------------- MODULE RunTrace -----------------------------
(***************************************************************************)
(* A run's trace (packages/observability): the spans that the loop opens   *)
(* and ends, the bounded records the tracer writes at the end of the run,  *)
(* and the metrics a later request derives from the records.  Times and    *)
(* outcomes are left out: of a span it matters whether it has ended.       *)
(***************************************************************************)
EXTENDS Integers, Sequences, FiniteSets, FiniteSetsExt

CONSTANT MetadataBudget      \* MAX_SPAN_METADATA_BYTES

ASSUME TraceAssumption == MetadataBudget \in Nat

(* Span: its metadata in the order of its keys, each with its size *)
Span(type, keys) ==
    [type |-> type, ended |-> FALSE,
     metadata |-> [i \in DOMAIN keys |-> [key |-> keys[i], value |-> 0, bytes |-> 1]]]

(* startRunTrace, startModelCall, startToolCall *)
StartRunTrace == <<Span("run_span", <<>>)>>
StartModelCall(s) == Append(s, Span("model_call_span", <<"modelName">>))
StartToolCall(s) == Append(s, Span("tool_call_span", <<"toolName", "callId">>))

(* addMetadata, of the tokens of a round; end *)
AddTokens(span, n) ==
    [span EXCEPT !.metadata = @ \o <<[key |-> "promptTokens", value |-> n, bytes |-> 1],
                                     [key |-> "completionTokens", value |-> n, bytes |-> 1]>>]
EndSpan(span) == [span EXCEPT !.ended = TRUE]

Whitelist == {"promptTokens", "completionTokens", "modelName", "toolName", "callId"}

(* What the values of the keys up to the i-th take of the budget *)
Bytes(metadata, i) ==
    MapThenSumSet(LAMBDA j : metadata[j].bytes, {j \in 1 .. i : metadata[j].key \notin Whitelist})

(* boundMetadata: whitelisted keys as they are; of the others the first    *)
(* that exceeds the budget and all after it lose their value.              *)
BoundMetadata(metadata) ==
    [i \in DOMAIN metadata |->
        IF metadata[i].key \in Whitelist \/ Bytes(metadata, i) <= MetadataBudget THEN metadata[i]
        ELSE [metadata[i] EXCEPT !.value = 0]]

(* toRecord with boundSpanRecord *)
ToRecord(span) == [span EXCEPT !.metadata = BoundMetadata(@)]

(* finish: the root ends, and every span is written in one transaction. *)
FinishTrace(s) == [i \in DOMAIN s |-> ToRecord(IF i = 1 THEN EndSpan(s[1]) ELSE s[i])]

(* deriveRunMetrics *)
SpansOf(records, type) == {i \in DOMAIN records : records[i].type = type}
ValueAt(metadata, key) ==
    IF \E i \in DOMAIN metadata : metadata[i].key = key
    THEN metadata[CHOOSE i \in DOMAIN metadata : metadata[i].key = key].value ELSE 0
TokensOf(record) ==
    ValueAt(record.metadata, "promptTokens") + ValueAt(record.metadata, "completionTokens")
TotalTokens(records) ==
    LET sum[i \in 0 .. Len(records)] == IF i = 0 THEN 0 ELSE sum[i - 1] + TokensOf(records[i]) IN
    sum[Len(records)]
DeriveRunMetrics(records) ==
    LET models == SpansOf(records, "model_call_span") IN
    [modelCallCount |-> Cardinality(models),
     toolCallCount |-> Cardinality(SpansOf(records, "tool_call_span")),
     timeToFirstToken |-> \E i \in models : records[i].ended /\ \A j \in models : i <= j,
     totalTokens |-> TotalTokens(records)]
=============================================================================
