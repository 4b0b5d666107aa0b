-------------------------- MODULE AgentRoundProofs --------------------------
(***************************************************************************)
(* Theorems about a round of the agent loop, for any models, answers,      *)
(* histories, runs and rounds, and for any tool calls, URLs, retries,      *)
(* cache size, losses, timeouts and a restart of the runner.               *)
(*                                                                         *)
(* The model half: CallsInv follows the calls of an answer from the        *)
(* fragments to the batch (Anthropic's blocks come one after the other,    *)
(* OpenAI's calls by their rank among those that were opened); HistoryInv  *)
(* has every stored result stand as far behind its message as its call     *)
(* stands in it, and leaves a call open only in the batch in progress or   *)
(* of a run that stopped; TraceInv counts the spans by the calls that      *)
(* began and gives the k-th model span the tokens of the k-th round.       *)
(*                                                                         *)
(* The tool half: every execution of a call beyond the first is paid for   *)
(* by an entry the cache let go of. Spent says so, with one unit to spare  *)
(* while the cache holds an entry of the call; the cache holds one at most *)
(* (Distinct). Backed ties every answer to the execution it is of.         *)
(***************************************************************************)
EXTENDS AgentRound, SequenceTheorems, FiniteSetTheorems, WellFoundedInduction, TLAPS

-----------------------------------------------------------------------------
(* The model half: the calls that are kept of an answer *)

TurnPCs == {"idle", "ready", "stream", "ended", "tools"}
SaidCall == [name : Nat \ {NoId}, parts : Nat, id : Nat]
Said == [text : Nat, calls : Seq(SaidCall)]
TurnFields == {"pc", "provider", "context", "said", "text", "buffers", "chunks", "finishes", "late",
               "cut"}

TurnType ==
    /\ rounds \in Nat
    /\ DOMAIN turn = TurnFields
    /\ turn.pc \in TurnPCs /\ turn.said \in Said /\ turn.text \in Nat /\ turn.finishes \in Nat
    /\ turn.chunks \in Seq(KeptCall) /\ turn.late \in BOOLEAN /\ turn.cut \in BOOLEAN

(* A chunk is of a call that the model made. *)
OfCall(x, said, provider) ==
    /\ x.index \in DOMAIN said.calls
    /\ x.name = said.calls[x.index].name
    /\ provider = "google" \/ x.id = said.calls[x.index].id

ChunksInv == \A k \in 1 .. Len(turn.chunks) : OfCall(turn.chunks[k], turn.said, turn.provider)

(* While it streams: no more fragments than there are, chunks whole and in *)
(* order.  Anthropic's blocks are opened one after the other, and its      *)
(* finish comes after all of them.                                         *)
StreamInv ==
    turn.pc = "stream" =>
        /\ Opened \subseteq DOMAIN turn.said.calls
        /\ \A i \in Opened : turn.buffers[i] \in 0 .. turn.said.calls[i].parts
        /\ turn.provider = "openai" => turn.chunks = <<>>
        /\ \A k \in 1 .. Len(turn.chunks) : turn.chunks[k].index = k /\ turn.chunks[k].args = "whole"
        /\ turn.provider = "anthropic" => Opened \subseteq 1 .. Len(turn.chunks) + 1
        /\ turn.provider = "anthropic" /\ turn.finishes > 0 =>
              Len(turn.chunks) = Len(turn.said.calls) /\ TextDone

EndedInv ==
    turn.pc \in {"ended", "tools"} =>
        /\ \A k, l \in 1 .. Len(turn.chunks) : k < l => turn.chunks[k].index < turn.chunks[l].index
        /\ \A k \in 1 .. Len(turn.chunks) : turn.chunks[k].args = "whole" \/ turn.cut
        /\ ~turn.cut => Len(turn.chunks) = Len(turn.said.calls) /\ TextDone

CallsInv == TurnType /\ ChunksInv /\ StreamInv /\ EndedInv

LEMMA CallSaid ==
    ASSUME TurnType, NEW i \in DOMAIN turn.said.calls
    PROVE  /\ turn.said.calls[i] \in SaidCall /\ i \in 1 .. Len(turn.said.calls) /\ i \in Nat \ {0}
           /\ Len(turn.said.calls) \in Nat /\ DOMAIN turn.said.calls = 1 .. Len(turn.said.calls)
<1>1. turn.said.calls \in Seq(SaidCall)
  BY DEF TurnType, Said
<1>2. QED BY <1>1

LEMMA ChunkIs ==
    ASSUME TurnType, NEW i \in DOMAIN turn.said.calls, NEW n \in Nat
    PROVE  /\ Chunk(i, n) \in KeptCall /\ Chunk(i, n).index = i
           /\ OfCall(Chunk(i, n), turn.said, turn.provider)
           /\ n = turn.said.calls[i].parts => Chunk(i, n).args = "whole"
<1>1. PICK c \in SaidCall : c = turn.said.calls[i]
  BY CallSaid
<1>2. i \in Nat \ {0} /\ rounds \in Nat
  BY CallSaid DEF TurnType
<1>3. 1000 + 10 * rounds + i \in Nat
  BY <1>2
<1>4. PICK s \in Nat : s = 1000 + 10 * rounds + i
  BY <1>3
<1>5. PICK a \in ArgsParsed : a = Parsed(n, turn.said.calls[i].parts) /\ (n = c.parts => a = "whole")
  BY <1>1 DEF Parsed, ArgsParsed
<1>6. Chunk(i, n) = [index |-> i, swift |-> s, id |-> c.id, name |-> c.name, args |-> a]
  BY <1>1, <1>4, <1>5 DEF Chunk
<1>7. c.id \in Nat /\ c.name \in Nat \ {NoId}
  BY <1>1 DEF SaidCall
<1> QED BY <1>1, <1>2, <1>5, <1>6, <1>7 DEF KeptCall, OfCall

(* What a step may do to the turn and keep all of it *)
SameSaid == turn'.said = turn.said /\ turn'.provider = turn.provider /\ rounds' = rounds
SameChunks == turn'.chunks = turn.chunks

LEMMA NoTurnKeeps ==
    ASSUME rounds \in Nat, rounds' = rounds, NEW pc \in {"idle", "ready"}, turn' = [NoTurn EXCEPT !.pc = pc]
    PROVE  CallsInv'
<1>1. /\ DOMAIN turn' = TurnFields /\ turn'.pc = pc /\ turn'.chunks = <<>> /\ turn'.late = FALSE
      /\ turn'.cut = FALSE /\ turn'.finishes = 0 /\ turn'.text = 0
      /\ turn'.said = [text |-> 0, calls |-> <<>>]
  BY DEF NoTurn, TurnFields
<1>2. turn'.said \in Said /\ turn'.chunks \in Seq(KeptCall)
  <2>1. <<>> \in Seq(SaidCall) /\ <<>> \in Seq(KeptCall)
    BY EmptySeq
  <2>2. [text |-> 0, calls |-> <<>>] \in Said
    BY <2>1 DEF Said
  <2>3. QED BY <1>1, <2>1, <2>2
<1>3. TurnType'
  <2>1. turn'.late \in BOOLEAN /\ turn'.cut \in BOOLEAN
    BY <1>1
  <2>2. turn'.pc \in TurnPCs /\ rounds' \in Nat /\ turn'.text \in Nat /\ turn'.finishes \in Nat
    BY <1>1 DEF TurnPCs
  <2>3. QED BY <1>1, <1>2, <2>1, <2>2 DEF TurnType
<1>4. ChunksInv' /\ StreamInv' /\ EndedInv'
  BY <1>1 DEF ChunksInv, StreamInv, EndedInv
<1> QED BY <1>3, <1>4 DEF CallsInv

LEMMA NoTurnIs == NoTurn = [NoTurn EXCEPT !.pc = "idle"]
BY DEF NoTurn

LEMMA TokenKeeps == ASSUME CallsInv, Token \/ DeadlinePasses PROVE CallsInv'
<1> USE DEF CallsInv
<1>1. /\ SameSaid /\ SameChunks /\ turn'.pc = turn.pc /\ turn'.buffers = turn.buffers
      /\ turn'.finishes = turn.finishes /\ turn'.cut = turn.cut /\ turn.pc = "stream"
      /\ turn'.text = turn.text \/ turn.text < turn.said.text
      /\ TurnType'
  <2>1. CASE Token
    BY <2>1 DEF Token, Is, KeepRest, TurnType, TurnFields, SameSaid, SameChunks
  <2>2. CASE DeadlinePasses
    <3>1. turn' = [turn EXCEPT !.late = TRUE] /\ rounds' = rounds /\ turn.pc = "stream"
      BY <2>2 DEF DeadlinePasses, Is, KeepRest
    <3>2. turn'.late \in BOOLEAN
      BY <3>1 DEF TurnType, TurnFields
    <3>3. QED
      BY <3>1, <3>2 DEF TurnType, TurnFields, SameSaid, SameChunks
  <2>3. QED BY <2>1, <2>2
<1>2. turn.text < turn.said.text => ~TextDone
  BY DEF TextDone, TurnType, Said
<1>3. ChunksInv' /\ StreamInv' /\ EndedInv'
  BY <1>1, <1>2 DEF ChunksInv, StreamInv, EndedInv, SameSaid, SameChunks, Opened, TextDone
<1> QED BY <1>1, <1>3

(* A delta of a call, that it opens or adds to *)
LEMMA DeltaKeeps ==
    ASSUME CallsInv, NEW i \in DOMAIN turn.said.calls, OpenAIDelta(i) \/ BlockDelta(i)
    PROVE  CallsInv'
<1> USE DEF CallsInv
<1> DEFINE b == [j \in Opened \cup {i} |->
                   IF j \notin Opened THEN 0 ELSE IF j = i THEN turn.buffers[j] + 1 ELSE turn.buffers[j]]
<1>1. /\ turn' = [turn EXCEPT !.buffers = b] /\ rounds' = rounds /\ turn.pc = "stream"
      /\ i \in Opened => turn.buffers[i] < turn.said.calls[i].parts
  BY DEF OpenAIDelta, BlockDelta, Receive, Is, KeepRest, Streaming
<1>2. /\ Opened \subseteq DOMAIN turn.said.calls
      /\ \A j \in Opened : turn.buffers[j] \in 0 .. turn.said.calls[j].parts
  BY <1>1 DEF StreamInv
<1>3. \A j \in DOMAIN turn.said.calls : turn.said.calls[j].parts \in Nat
  BY CallSaid DEF SaidCall
<1>4. /\ DOMAIN b = Opened \cup {i}
      /\ \A j \in Opened \cup {i} : b[j] \in 0 .. turn.said.calls[j].parts
  BY <1>1, <1>2, <1>3
<1> HIDE DEF b
<1>5. /\ SameSaid /\ SameChunks /\ turn'.pc = turn.pc /\ turn'.buffers = b
      /\ turn'.finishes = turn.finishes /\ turn'.cut = turn.cut /\ turn'.text = turn.text
      /\ TurnType'
  BY <1>1 DEF TurnType, TurnFields, SameSaid, SameChunks
<1>6. Opened' = Opened \cup {i}
  BY <1>4, <1>5 DEF Opened
<1>7. turn.provider = "anthropic" => i \in 1 .. Len(turn.chunks) + 1
  <2>1. SUFFICES ASSUME turn.provider = "anthropic" PROVE i \in 1 .. Len(turn.chunks) + 1
    OBVIOUS
  <2>2. BlockDelta(i)
    BY <2>1 DEF OpenAIDelta, Streaming
  <2>3. PICK n \in Nat : n = Len(turn.chunks)
    BY DEF TurnType
  <2>4. i \in Nat \ {0}
    BY CallSaid
  <2>5. CASE i > n + 1
    <3>1. n + 1 \in 1 .. i - 1
      BY <2>3, <2>4, <2>5
    <3>2. PICK k \in DOMAIN turn.chunks : turn.chunks[k].index = n + 1
      BY <2>2, <3>1 DEF BlockDelta, Given
    <3>3. k \in 1 .. n
      BY <2>3 DEF TurnType
    <3>4. turn.chunks[k].index = k
      BY <1>1, <2>3, <3>3 DEF StreamInv
    <3>5. QED BY <3>2, <3>3, <3>4
  <2>6. QED BY <2>3, <2>4, <2>5
<1>8. StreamInv'
  BY <1>1, <1>2, <1>4, <1>5, <1>6, <1>7 DEF StreamInv, SameSaid, SameChunks, TextDone
<1>9. ChunksInv' /\ EndedInv'
  BY <1>1, <1>5 DEF ChunksInv, EndedInv, SameSaid, SameChunks
<1> QED BY <1>5, <1>8, <1>9

(* One more whole chunk at the end *)
LEMMA ChunkKeeps ==
    ASSUME CallsInv, turn.pc = "stream", NEW x \in KeptCall, x.index = Len(turn.chunks) + 1,
           x.index \in DOMAIN turn.said.calls, turn.provider # "openai",
           OfCall(x, turn.said, turn.provider), x.args = "whole", rounds' = rounds,
           turn' = [turn EXCEPT !.chunks = Append(turn.chunks, x)]
    PROVE  CallsInv'
<1> USE DEF CallsInv
<1>1. PICK n \in Nat : n = Len(turn.chunks)
  BY DEF TurnType
<1>2. /\ Append(turn.chunks, x) \in Seq(KeptCall)
      /\ Len(Append(turn.chunks, x)) = n + 1 /\ Append(turn.chunks, x)[n + 1] = x
      /\ \A k \in 1 .. n : Append(turn.chunks, x)[k] = turn.chunks[k]
  BY <1>1, AppendProperties DEF TurnType
<1> DEFINE t == Append(turn.chunks, x)
<1>3. /\ t \in Seq(KeptCall) /\ Len(t) = n + 1 /\ \A k \in 1 .. n : t[k] = turn.chunks[k]
      /\ t[n + 1] = x /\ turn' = [turn EXCEPT !.chunks = t]
  BY <1>2
<1> HIDE DEF t
<1>4. /\ SameSaid /\ turn'.chunks = t /\ turn'.pc = turn.pc /\ turn'.buffers = turn.buffers
      /\ turn'.finishes = turn.finishes /\ turn'.cut = turn.cut /\ turn'.text = turn.text
      /\ TurnType'
  BY <1>3 DEF TurnType, TurnFields, SameSaid
<1>5. ASSUME NEW k \in 1 .. n + 1
      PROVE  OfCall(t[k], turn.said, turn.provider) /\ t[k].index = k /\ t[k].args = "whole"
  <2>1. CASE k = n + 1
    BY <1>1, <1>3, <2>1
  <2>2. CASE k \in 1 .. n
    BY <1>1, <1>3, <2>2 DEF ChunksInv, StreamInv
  <2>3. QED BY <2>1, <2>2
<1>6. ChunksInv'
  BY <1>3, <1>4, <1>5 DEF ChunksInv, SameSaid
<1>7. ~(turn.provider = "anthropic" /\ turn.finishes > 0)
  <2>1. x.index \in 1 .. Len(turn.said.calls) /\ Len(turn.said.calls) \in Nat
    BY CallSaid
  <2>2. QED BY <1>1, <2>1 DEF StreamInv
<1>8. turn.provider = "anthropic" => Opened \subseteq 1 .. n + 1 + 1
  BY <1>1 DEF StreamInv
<1>9. StreamInv'
  BY <1>3, <1>4, <1>5, <1>7, <1>8 DEF StreamInv, SameSaid, Opened
<1>10. EndedInv'
  BY <1>4 DEF EndedInv
<1> QED BY <1>4, <1>6, <1>9, <1>10

LEMMA BlockStopKeeps ==
    ASSUME CallsInv, NEW i \in DOMAIN turn.said.calls, BlockStop(i)
    PROVE  CallsInv'
<1> USE DEF CallsInv
<1>1. /\ turn.pc = "stream" /\ turn.provider = "anthropic" /\ i \in Opened /\ rounds' = rounds
      /\ turn.buffers[i] = turn.said.calls[i].parts /\ ~Given(i)
      /\ turn' = [turn EXCEPT !.chunks = Append(turn.chunks, Chunk(i, turn.buffers[i]))]
  BY DEF BlockStop, Streaming, Complete, Is, KeepRest, Accumulated
<1>2. PICK n \in Nat : n = Len(turn.chunks)
  BY DEF TurnType
<1>3. i \in 1 .. n + 1
  BY <1>1, <1>2 DEF StreamInv
<1>4. i \notin 1 .. n
  <2>1. SUFFICES ASSUME i \in 1 .. n PROVE FALSE
    OBVIOUS
  <2>2. turn.chunks[i].index = i /\ i \in DOMAIN turn.chunks
    BY <1>1, <1>2, <2>1 DEF StreamInv, TurnType
  <2>3. QED BY <1>1, <2>2 DEF Given
<1>5. i = n + 1
  BY <1>3, <1>4
<1>6. turn.buffers[i] \in Nat
  BY <1>1, CallSaid DEF SaidCall
<1> QED BY <1>1, <1>2, <1>5, <1>6, ChunkIs, ChunkKeeps

LEMMA GoogleCallKeeps == ASSUME CallsInv, GoogleCall PROVE CallsInv'
<1> USE DEF CallsInv
<1> DEFINE i == Len(turn.chunks) + 1
           c == Chunk(i, turn.said.calls[i].parts)
           x == [c EXCEPT !.id = @ + 500]
<1>1. /\ turn.pc = "stream" /\ turn.provider = "google" /\ i \in DOMAIN turn.said.calls
      /\ rounds' = rounds /\ turn' = [turn EXCEPT !.chunks = Append(turn.chunks, x)]
  BY DEF GoogleCall, Streaming, Is, KeepRest
<1>2. turn.said.calls[i].parts \in Nat
  BY <1>1, CallSaid DEF SaidCall
<1>3. c \in KeptCall /\ c.index = i /\ OfCall(c, turn.said, turn.provider) /\ c.args = "whole"
  BY <1>1, <1>2, ChunkIs
<1> HIDE DEF c
<1>4. x \in KeptCall /\ x.index = i /\ x.args = "whole" /\ x.name = c.name
  BY <1>3 DEF KeptCall
<1>5. OfCall(x, turn.said, turn.provider)
  BY <1>1, <1>3, <1>4 DEF OfCall
<1> HIDE DEF x
<1> QED BY <1>1, <1>4, <1>5, ChunkKeeps

LEMMA LocalCallKeeps == ASSUME CallsInv, LocalCall PROVE CallsInv'
<1> USE DEF CallsInv
<1> DEFINE x == Chunk(1, turn.said.calls[1].parts)
<1>1. /\ turn.pc = "stream" /\ turn.provider = "fixture" /\ turn.chunks = <<>>
      /\ turn.said.calls # <<>> /\ rounds' = rounds /\ turn' = [turn EXCEPT !.chunks = <<x>>]
  BY DEF LocalCall, Streaming, Is, KeepRest
<1>2. 1 \in DOMAIN turn.said.calls
  BY <1>1 DEF TurnType, Said
<1>3. turn.said.calls[1].parts \in Nat
  BY <1>2, CallSaid DEF SaidCall
<1>4. x \in KeptCall /\ x.index = 1 /\ OfCall(x, turn.said, turn.provider) /\ x.args = "whole"
  BY <1>2, <1>3, ChunkIs
<1> HIDE DEF x
<1>5. Append(turn.chunks, x) = <<x>> /\ Len(turn.chunks) = 0
  BY <1>1
<1> QED BY <1>1, <1>2, <1>4, <1>5, ChunkKeeps

(* The stream is over: what a provider that gave its chunks one by one has *)
(* given, and whether that is all.                                         *)
LEMMA EndKeeps ==
    ASSUME CallsInv, turn.pc = "stream", turn.provider # "openai", rounds' = rounds,
           NEW cut \in BOOLEAN, NEW n \in Nat,
           turn' = [turn EXCEPT !.pc = "ended", !.cut = cut, !.finishes = n],
           ~cut => Len(turn.chunks) = Len(turn.said.calls) /\ TextDone
    PROVE  CallsInv'
<1> USE DEF CallsInv
<1>1. /\ SameSaid /\ SameChunks /\ turn'.pc = "ended" /\ turn'.cut = cut /\ turn'.text = turn.text
      /\ turn'.late = turn.late /\ DOMAIN turn' = TurnFields /\ turn'.finishes = n
  BY DEF TurnType, TurnFields, SameSaid, SameChunks
<1>2. turn'.pc \in TurnPCs
  BY <1>1 DEF TurnPCs
<1>3. TurnType'
  BY <1>1, <1>2 DEF TurnType, SameSaid, SameChunks
<1>4. ChunksInv' /\ StreamInv'
  BY <1>1 DEF ChunksInv, StreamInv, SameSaid, SameChunks
<1>5. EndedInv'
  <2>1. Len(turn.chunks) \in Nat
    BY DEF TurnType
  <2>2. \A k \in 1 .. Len(turn.chunks) : turn.chunks[k].index = k /\ turn.chunks[k].args = "whole"
    BY DEF StreamInv
  <2>3. \A k, l \in 1 .. Len(turn.chunks) : k < l => turn.chunks[k].index < turn.chunks[l].index
    BY <2>1, <2>2
  <2>4. QED BY <1>1, <2>2, <2>3 DEF EndedInv, SameSaid, SameChunks, TextDone
<1> QED BY <1>3, <1>4, <1>5

LEMMA MessageDeltaKeeps == ASSUME CallsInv, MessageDelta PROVE CallsInv'
<1> USE DEF CallsInv
<1>1. /\ turn.pc = "stream" /\ turn.provider = "anthropic" /\ rounds' = rounds /\ TextDone
      /\ Len(turn.chunks) = Len(turn.said.calls) /\ turn' = [turn EXCEPT !.finishes = @ + 1]
  BY DEF MessageDelta, Streaming, Finish, KeepRest, AllSaid
<1>2. /\ SameSaid /\ SameChunks /\ turn'.pc = "stream" /\ turn'.text = turn.text
      /\ turn'.buffers = turn.buffers /\ TurnType'
  BY <1>1 DEF TurnType, TurnFields, SameSaid, SameChunks
<1>3. ChunksInv' /\ EndedInv'
  BY <1>2 DEF ChunksInv, EndedInv, SameSaid, SameChunks
<1>4. StreamInv'
  BY <1>1, <1>2 DEF StreamInv, SameSaid, SameChunks, Opened, TextDone
<1> QED BY <1>2, <1>3, <1>4

LEMMA EndsKeep == ASSUME CallsInv, AnthropicEnds \/ GoogleEnds \/ LocalEnds PROVE CallsInv'
<1> USE DEF CallsInv
<1>1. turn.finishes \in Nat /\ turn.finishes + 1 \in Nat /\ DOMAIN turn = TurnFields
  BY DEF TurnType
<1>2. CASE AnthropicEnds
  <2> DEFINE cut == turn.finishes = 0
  <2>1. /\ turn.pc = "stream" /\ turn.provider = "anthropic" /\ rounds' = rounds
        /\ turn' = [turn EXCEPT !.pc = "ended", !.cut = cut]
    BY <1>2 DEF AnthropicEnds, Streaming, Is, KeepRest
  <2>2. cut \in BOOLEAN
    OBVIOUS
  <2>3. ~cut => Len(turn.chunks) = Len(turn.said.calls) /\ TextDone
    BY <1>1, <2>1 DEF StreamInv
  <2> HIDE DEF cut
  <2>4. turn' = [turn EXCEPT !.pc = "ended", !.cut = cut, !.finishes = turn.finishes]
    BY <1>1, <2>1 DEF TurnFields
  <2>5. QED BY <1>1, <2>1, <2>2, <2>3, <2>4, EndKeeps
<1>3. CASE GoogleEnds
  <2> DEFINE cut == ~TextDone \/ Len(turn.chunks) < Len(turn.said.calls)
  <2>1. /\ turn.pc = "stream" /\ turn.provider = "google" /\ rounds' = rounds
        /\ turn' = [[turn EXCEPT !.pc = "ended", !.cut = cut] EXCEPT !.finishes = @ + 1]
    BY <1>3 DEF GoogleEnds, Streaming, Finish, KeepRest
  <2>2. cut \in BOOLEAN
    OBVIOUS
  <2>3. ~cut => Len(turn.chunks) = Len(turn.said.calls) /\ TextDone
    <3>1. PICK n \in Nat : n = Len(turn.chunks)
      BY DEF TurnType
    <3>2. PICK m \in Nat : m = Len(turn.said.calls)
      BY DEF TurnType, Said
    <3>3. n <= m
      <4>1. CASE n = 0
        BY <3>2, <4>1
      <4>2. CASE n # 0
        <5>1. n \in DOMAIN turn.said.calls
          <6>1. OfCall(turn.chunks[n], turn.said, turn.provider) /\ turn.chunks[n].index = n
            BY <2>1, <3>1, <4>2 DEF ChunksInv, StreamInv
          <6>2. QED BY <6>1 DEF OfCall
        <5>2. QED BY <3>2, <5>1, CallSaid
      <4>3. QED BY <4>1, <4>2
    <3>4. QED BY <3>1, <3>2, <3>3
  <2> HIDE DEF cut
  <2>4. turn' = [turn EXCEPT !.pc = "ended", !.cut = cut, !.finishes = turn.finishes + 1]
    BY <1>1, <2>1 DEF TurnFields
  <2>5. QED BY <1>1, <2>1, <2>2, <2>3, <2>4, EndKeeps
<1>4. CASE LocalEnds
  <2>1. /\ turn.pc = "stream" /\ turn.provider # "openai" /\ rounds' = rounds
        /\ TextDone /\ Len(turn.chunks) = Len(turn.said.calls)
        /\ turn' = [[turn EXCEPT !.pc = "ended"] EXCEPT !.finishes = @ + 1]
    BY <1>4 DEF LocalEnds, Streaming, Finish, KeepRest
  <2>2. turn' = [turn EXCEPT !.pc = "ended", !.cut = turn.cut, !.finishes = turn.finishes + 1]
    BY <1>1, <2>1 DEF TurnFields
  <2>3. turn.cut \in BOOLEAN
    BY DEF TurnType
  <2>4. QED BY <1>1, <2>1, <2>2, <2>3, EndKeeps
<1> QED BY <1>2, <1>3, <1>4

-----------------------------------------------------------------------------
Less == {p \in Nat \X Nat : p[1] < p[2]}

LEMMA LeastNumber ==
    ASSUME NEW T, T \subseteq Nat, T # {}
    PROVE  \E x \in T : \A y \in T : x <= y
<1>1. IsWellFoundedOn(Less, Nat)
  BY NatLessThanWellFounded DEF OpToRel, Less
<1>2. PICK x \in T : \A y \in T : ~(<<y, x>> \in Less)
  BY <1>1, WFMin
<1>3. \A y \in T : ~(y < x)
  BY <1>2 DEF Less
<1> QED BY <1>3

(* Every number up to its size is the rank of an element, and elements of  *)
(* a higher rank are greater.                                              *)
UpTo(S, m) == {j \in S : j <= m}

LEMMA InUpTo == ASSUME NEW S, NEW m, NEW j PROVE j \in UpTo(S, m) <=> j \in S /\ j <= m
BY DEF UpTo

LEMMA UpToSize ==
    ASSUME NEW n \in Nat, NEW S \in SUBSET (1 .. n)
    PROVE  /\ IsFiniteSet(S) /\ Cardinality(S) \in Nat
           /\ \A m : IsFiniteSet(UpTo(S, m)) /\ Cardinality(UpTo(S, m)) \in Nat
<1>1. IsFiniteSet(1 .. n)
  BY FS_Interval
<1>2. IsFiniteSet(S)
  BY <1>1, FS_Subset
<1>3. ASSUME NEW m PROVE IsFiniteSet(UpTo(S, m))
  <2>1. UpTo(S, m) \in SUBSET S
    BY DEF UpTo
  <2>2. QED BY <1>2, <2>1, FS_Subset
<1> QED BY <1>2, <1>3, FS_CardinalityType

LEMMA RankExists ==
    ASSUME NEW n \in Nat, NEW S \in SUBSET (1 .. n), NEW k \in 1 .. Cardinality(S)
    PROVE  \E i \in S : Cardinality(UpTo(S, i)) = k
<1> DEFINE T == {m \in 0 .. n : Cardinality(UpTo(S, m)) >= k}
<1>0. Cardinality(S) \in Nat /\ k \in Nat /\ k >= 1 /\ k <= Cardinality(S)
  <2>1. PICK c \in Nat : c = Cardinality(S)
    BY UpToSize
  <2>2. k \in 1 .. c
    BY <2>1
  <2>3. QED BY <2>1, <2>2
<1>i. ASSUME NEW j \in S PROVE j \in Int /\ 1 <= j /\ j <= n
  OBVIOUS
<1>1. UpTo(S, n) = S /\ UpTo(S, 0) = {}
  <2>1. ASSUME NEW j \in S PROVE j <= n /\ ~(j <= 0)
    BY <1>i
  <2>2. \A j : (j \in UpTo(S, n) <=> j \in S) /\ j \notin UpTo(S, 0)
    BY <2>1, InUpTo
  <2>3. QED BY ONLY <2>2
<1>2. T \subseteq Nat /\ n \in T
  BY <1>0, <1>1
<1>3. PICK m \in T : \A y \in T : m <= y
  <2> HIDE DEF T
  <2>1. QED BY <1>2, LeastNumber
<1>4. m \in 0 .. n /\ Cardinality(UpTo(S, m)) >= k
  BY <1>3
<1>5. m # 0
  BY <1>0, <1>1, <1>4, FS_EmptySet
<1>6. m - 1 \in 0 .. n /\ ~(m <= m - 1)
  BY <1>4, <1>5
<1>7. ~(Cardinality(UpTo(S, m - 1)) >= k)
  BY <1>3, <1>6
<1>8. CASE m \in S
  <2>1. UpTo(S, m) = UpTo(S, m - 1) \cup {m} /\ m \notin UpTo(S, m - 1)
    <3>1. ASSUME NEW j \in S PROVE j <= m <=> (j <= m - 1 \/ j = m)
      BY <1>i, <1>4
    <3>2. m <= m /\ ~(m <= m - 1)
      BY <1>4
    <3>3. ASSUME NEW j PROVE j \in UpTo(S, m) <=> j \in UpTo(S, m - 1) \cup {m}
      <4>1. CASE j \in S
        BY <3>1, <4>1, InUpTo
      <4>2. CASE j \notin S
        BY <1>8, <4>2, InUpTo
      <4>3. QED BY <4>1, <4>2
    <3>4. m \notin UpTo(S, m - 1)
      BY <3>2, InUpTo
    <3>5. UpTo(S, m) = UpTo(S, m - 1) \cup {m}
      BY ONLY <3>3
    <3>6. QED BY <3>4, <3>5
  <2>2. Cardinality(UpTo(S, m)) = Cardinality(UpTo(S, m - 1)) + 1
    BY <2>1, UpToSize, FS_AddElement
  <2>3. Cardinality(UpTo(S, m)) = k
    <3>1. PICK c \in Nat : c = Cardinality(UpTo(S, m - 1))
      BY UpToSize
    <3>2. QED BY <1>0, <1>4, <1>7, <2>2, <3>1
  <2>4. QED BY <1>8, <2>3
<1>9. CASE m \notin S
  <2>1. UpTo(S, m) = UpTo(S, m - 1)
    <3>1. ASSUME NEW j \in S PROVE j <= m <=> j <= m - 1
      <4>1. j # m
        BY <1>9
      <4>2. QED BY <1>i, <1>4, <4>1
    <3>2. ASSUME NEW j PROVE j \in UpTo(S, m) <=> j \in UpTo(S, m - 1)
      BY <3>1, InUpTo
    <3>3. QED BY ONLY <3>2
  <2>2. QED BY <1>4, <1>7, <2>1
<1> QED BY <1>8, <1>9

LEMMA NthIs ==
    ASSUME NEW n \in Nat, NEW S \in SUBSET (1 .. n)
    PROVE  /\ \A k \in 1 .. Cardinality(S) : Nth(S, k) \in S
           /\ \A k, l \in 1 .. Cardinality(S) : k < l => Nth(S, k) < Nth(S, l)
<1>1. ASSUME NEW k \in 1 .. Cardinality(S)
      PROVE  Nth(S, k) \in S /\ Cardinality(UpTo(S, Nth(S, k))) = k
  <2>1. Nth(S, k) = CHOOSE i \in S : Cardinality(UpTo(S, i)) = k
    BY DEF Nth, UpTo
  <2>2. QED BY <2>1, RankExists
<1>2. ASSUME NEW k \in 1 .. Cardinality(S), NEW l \in 1 .. Cardinality(S), k < l
      PROVE  Nth(S, k) < Nth(S, l)
  <2>2. PICK a \in 1 .. n : a = Nth(S, k)
    BY <1>1
  <2>3. PICK b \in 1 .. n : b = Nth(S, l)
    BY <1>1
  <2>1. SUFFICES ASSUME b <= a PROVE FALSE
    BY <2>2, <2>3
  <2>4. UpTo(S, b) \in SUBSET UpTo(S, a)
    <3>1. ASSUME NEW j \in S, j <= b PROVE j <= a
      <4>1. j \in Int /\ a \in Int /\ b \in Int
        OBVIOUS
      <4>2. QED BY <2>1, <3>1, <4>1
    <3>2. QED BY <3>1, InUpTo
  <2>5. Cardinality(UpTo(S, b)) <= Cardinality(UpTo(S, a))
    BY <2>4, UpToSize, FS_Subset
  <2>6. l <= k
    BY <1>1, <2>2, <2>3, <2>5
  <2>7. Cardinality(S) \in Nat
    BY UpToSize
  <2>8. QED BY <1>2, <2>6, <2>7
<1> QED BY <1>1, <1>2

LEMMA OpenAIEndsKeeps == ASSUME CallsInv, OpenAIEnds PROVE CallsInv'
<1> USE DEF CallsInv
<1> DEFINE n == Len(turn.said.calls)
           N == Cardinality(Opened)
           t == [k \in 1 .. N |-> Accumulated(Nth(Opened, k))]
           cut == ~AllSaid
<1>1. /\ turn.pc = "stream" /\ turn.provider = "openai" /\ rounds' = rounds
      /\ turn' = [[turn EXCEPT !.pc = "ended", !.cut = cut, !.chunks = t] EXCEPT !.finishes = @ + 1]
  BY DEF OpenAIEnds, Streaming, Finish, KeepRest
<1>2. n \in Nat /\ DOMAIN turn.said.calls = 1 .. n
  BY DEF TurnType, Said
<1>3. Opened \in SUBSET (1 .. n)
  BY <1>1, <1>2 DEF StreamInv
<1>4. /\ N \in Nat /\ \A k \in 1 .. N : Nth(Opened, k) \in Opened
      /\ \A k, l \in 1 .. N : k < l => Nth(Opened, k) < Nth(Opened, l)
  BY <1>2, <1>3, NthIs, UpToSize
<1>5. ASSUME NEW k \in 1 .. N
      PROVE  /\ t[k] \in KeptCall /\ t[k].index = Nth(Opened, k)
             /\ OfCall(t[k], turn.said, turn.provider)
             /\ t[k].args = "whole" \/ cut
  <2>1. PICK i \in Opened : i = Nth(Opened, k)
    BY <1>4
  <2>2. turn.buffers[i] \in Nat /\ i \in DOMAIN turn.said.calls
    BY <1>1, CallSaid DEF StreamInv, SaidCall
  <2>3. t[k] = Chunk(i, turn.buffers[i])
    BY <2>1 DEF Accumulated
  <2>4. ~cut => turn.buffers[i] = turn.said.calls[i].parts
    BY <2>2 DEF AllSaid, Complete
  <2>5. QED BY <2>1, <2>2, <2>3, <2>4, ChunkIs
<1>6. t \in Seq(KeptCall) /\ Len(t) = N
  BY <1>4, <1>5
<1>7. ~cut => N = n /\ TextDone
  <2>1. SUFFICES ASSUME ~cut PROVE N = n
    BY DEF AllSaid
  <2>2. Opened = 1 .. n
    BY <1>2, <1>3, <2>1 DEF AllSaid, Complete
  <2>3. QED BY <1>2, <2>2, FS_Interval
<1>8. cut \in BOOLEAN
  OBVIOUS
<1> HIDE DEF t, cut, N, n
<1>9. /\ SameSaid /\ turn'.chunks = t /\ turn'.pc = "ended" /\ turn'.cut = cut
      /\ turn'.text = turn.text /\ turn'.late = turn.late /\ DOMAIN turn' = TurnFields
      /\ turn'.finishes = turn.finishes + 1
  BY <1>1 DEF TurnType, TurnFields, SameSaid
<1>10. TurnType'
  <2>1. turn'.pc \in TurnPCs
    BY <1>9 DEF TurnPCs
  <2>2. QED BY <1>6, <1>8, <1>9, <2>1 DEF TurnType, SameSaid
<1>11. ChunksInv' /\ StreamInv'
  BY <1>5, <1>6, <1>9 DEF ChunksInv, StreamInv, SameSaid
<1>12. \A k, l \in 1 .. Len(t) : k < l => t[k].index < t[l].index
  BY <1>4, <1>5, <1>6
<1>13. Len(turn'.said.calls) = n
  BY <1>9 DEF SameSaid, n
<1>14. EndedInv'
  BY <1>5, <1>6, <1>7, <1>9, <1>12, <1>13 DEF EndedInv, SameSaid, TextDone
<1> QED BY <1>10, <1>11, <1>14

LEMMA CallModelKeeps == ASSUME CallsInv, NEW said \in Sayings, CallModel(said) PROVE CallsInv'
<1> USE DEF CallsInv
<1>1. PICK provider, context :
        /\ turn' = [NoTurn EXCEPT !.pc = "stream", !.provider = provider, !.context = context,
                                  !.said = WithIds(provider, said)]
        /\ rounds' = rounds + 1
  BY DEF CallModel
<1>2. said \in Saying
  BY ModelTurnAssumption
<1>3. PICK s \in Seq([name : Nat \ {NoId}, parts : Nat]) : s = said.calls
  BY <1>2 DEF Saying
<1> DEFINE id(i) == IF provider = "fixture" THEN 7 ELSE 10 * (rounds + 1) + i
           calls == [i \in DOMAIN s |-> [name |-> s[i].name, parts |-> s[i].parts, id |-> id(i)]]
<1>4. WithIds(provider, said) = [text |-> said.text, calls |-> calls]
  BY <1>3 DEF WithIds
<1>5. ASSUME NEW i \in DOMAIN s PROVE calls[i] \in SaidCall
  <2>1. s[i] \in [name : Nat \ {NoId}, parts : Nat]
    <3>1. i \in 1 .. Len(s)
      BY <1>3
    <3>2. QED BY <1>3, <3>1, ElementOfSeq
  <2>2. i \in Nat /\ rounds \in Nat
    BY <1>3 DEF TurnType
  <2>3. id(i) \in Nat
    BY <2>2
  <2> HIDE DEF id
  <2>4. QED BY <2>1, <2>3 DEF SaidCall
<1>6. calls \in Seq(SaidCall)
  <2>1. PICK n \in Nat : DOMAIN s = 1 .. n
    BY <1>3
  <2>2. \A i \in 1 .. n : calls[i] \in SaidCall
    BY <1>5, <2>1
  <2>3. calls = [i \in 1 .. n |-> calls[i]]
    BY <2>1
  <2> HIDE DEF calls
  <2>4. QED BY <2>2, <2>3
<1> HIDE DEF calls
<1>7. WithIds(provider, said) \in Said
  BY <1>2, <1>4, <1>6 DEF Said, Saying
<1>8. /\ DOMAIN turn' = TurnFields /\ turn'.pc = "stream" /\ turn'.chunks = <<>> /\ turn'.late = FALSE
      /\ turn'.cut = FALSE /\ turn'.finishes = 0 /\ turn'.text = 0 /\ turn'.buffers = <<>>
      /\ turn'.said = WithIds(provider, said)
  BY <1>1 DEF NoTurn, TurnFields
<1>9. TurnType'
  <2>1. turn'.late \in BOOLEAN /\ turn'.cut \in BOOLEAN
    BY <1>8
  <2>2. /\ turn'.pc \in TurnPCs /\ rounds' \in Nat /\ turn'.text \in Nat /\ turn'.finishes \in Nat
    BY <1>1, <1>8 DEF TurnPCs, TurnType
  <2>3. turn'.chunks \in Seq(KeptCall)
    BY <1>8, EmptySeq
  <2>4. QED BY <1>7, <1>8, <2>1, <2>2, <2>3 DEF TurnType
<1>10. Opened' = {} /\ Len(turn'.chunks) = 0
  BY <1>8 DEF Opened
<1>11. ChunksInv' /\ StreamInv' /\ EndedInv'
  BY <1>8, <1>10 DEF ChunksInv, StreamInv, EndedInv
<1> QED BY <1>9, <1>11

LEMMA TurnEndsKeeps == ASSUME CallsInv, CallsSaved \/ AnswerSaved \/ SaveFails PROVE CallsInv'
<1> USE DEF CallsInv
<1>1. rounds' = rounds /\ rounds \in Nat /\ turn.pc = "ended"
  BY DEF CallsSaved, AnswerSaved, SaveFails, StreamOver, TurnType
<1>2. CASE turn' = NoTurn
  BY <1>1, <1>2, NoTurnKeeps, NoTurnIs
<1>3. CASE turn' = [turn EXCEPT !.pc = "tools", !.context = <<>>, !.buffers = <<>>]
  <2>1. /\ SameSaid /\ SameChunks /\ turn'.pc = "tools" /\ turn'.cut = turn.cut
        /\ turn'.text = turn.text /\ turn'.late = turn.late /\ turn'.finishes = turn.finishes
        /\ DOMAIN turn' = TurnFields
    BY <1>1, <1>3 DEF TurnType, TurnFields, SameSaid, SameChunks
  <2>2. turn'.pc \in TurnPCs
    BY <2>1 DEF TurnPCs
  <2>3. TurnType'
    BY <2>1, <2>2 DEF TurnType, SameSaid, SameChunks
  <2>4. ChunksInv' /\ StreamInv' /\ EndedInv'
    BY <1>1, <2>1 DEF ChunksInv, StreamInv, EndedInv, SameSaid, SameChunks, TextDone
  <2>5. QED BY <2>3, <2>4
<1> QED BY <1>2, <1>3 DEF CallsSaved, AnswerSaved, SaveFails

LEMMA CallsStep == CallsInv /\ [ModelNext]_modelVars => CallsInv'
<1> SUFFICES ASSUME CallsInv, [ModelNext]_modelVars PROVE CallsInv'
  OBVIOUS
<1>1. rounds \in Nat
  BY DEF CallsInv, TurnType
<1>2. ASSUME NEW pc \in {"idle", "ready"}, turn' = [NoTurn EXCEPT !.pc = pc], rounds' = rounds
      PROVE  CallsInv'
  BY <1>1, <1>2, NoTurnKeeps
<1>3. ASSUME turn' = NoTurn, rounds' = rounds PROVE CallsInv'
  BY <1>2, <1>3, NoTurnIs
<1>4. ASSUME turn' = turn, rounds' = rounds PROVE CallsInv'
  BY <1>4 DEF CallsInv, TurnType, ChunksInv, StreamInv, EndedInv, Opened, TextDone
<1>5. ASSUME NEW s \in Models, NEW memory \in {"last_n", "summary"}, StartRun(s, memory) PROVE CallsInv'
  BY <1>2, <1>5 DEF StartRun
<1>6. CASE RoundStops \/ GenerateThrows \/ BatchStops
  BY <1>3, <1>6 DEF RoundStops, GenerateThrows, BatchStops
<1>7. CASE SaveResult
  BY <1>2, <1>4, <1>7 DEF SaveResult
<1>8. CASE UNCHANGED modelVars
  BY <1>4, <1>8 DEF modelVars
<1> QED BY <1>5, <1>6, <1>7, <1>8, TokenKeeps, DeltaKeeps, BlockStopKeeps, GoogleCallKeeps,
           LocalCallKeeps, MessageDeltaKeeps, EndsKeep, OpenAIEndsKeeps, CallModelKeeps,
           TurnEndsKeeps DEF ModelNext

LEMMA CallsInit == ModelInit => CallsInv
<1> SUFFICES ASSUME ModelInit PROVE CallsInv
  OBVIOUS
<1>1. rounds = 0 /\ turn = NoTurn
  BY DEF ModelInit
<1>2. /\ DOMAIN turn = TurnFields /\ turn.pc = "idle" /\ turn.chunks = <<>> /\ turn.late = FALSE
      /\ turn.cut = FALSE /\ turn.finishes = 0 /\ turn.text = 0
      /\ turn.said = [text |-> 0, calls |-> <<>>]
  BY <1>1 DEF NoTurn, TurnFields
<1>3. <<>> \in Seq(SaidCall) /\ <<>> \in Seq(KeptCall)
  BY EmptySeq
<1>4. turn.said \in Said
  BY <1>2, <1>3 DEF Said
<1>5. TurnType
  <2>1. turn.late \in BOOLEAN /\ turn.cut \in BOOLEAN
    BY <1>2
  <2>2. turn.pc \in TurnPCs /\ rounds \in Nat /\ turn.text \in Nat /\ turn.finishes \in Nat
    BY <1>1, <1>2 DEF TurnPCs
  <2>3. QED BY <1>2, <1>3, <1>4, <2>1, <2>2 DEF TurnType
<1>6. ChunksInv /\ StreamInv /\ EndedInv
  BY <1>2 DEF ChunksInv, StreamInv, EndedInv
<1> QED BY <1>5, <1>6 DEF CallsInv

-----------------------------------------------------------------------------
(* The model half: the context that is built of the history *)

ResultsInv(rows) ==
    \A i \in 1 .. Len(rows) : rows[i].role = "tool" =>
        rows[i].calls = <<>> /\ \E j \in 1 .. i - 1 : IsResult(rows, i, j)

(* A call without its result: the last one with calls, while its batch is  *)
(* executed, or of a run that has stopped in it.                           *)
IsOpen(rows, j, c, pc) ==
    /\ j + c > Len(rows) /\ pc \in {"idle", "tools"}
    /\ pc = "tools" => \A l \in j + 1 .. Len(rows) : rows[l].calls = <<>>

SettledInv(rows, pc) ==
    \A j \in 1 .. Len(rows) : \A c \in DOMAIN rows[j].calls :
        IsSettled(rows, j, c) \/ IsOpen(rows, j, c, pc)

(* The batch in progress: its calls are the kept ones, and what follows is *)
(* their results.                                                          *)
IsBatch(b, rows, chunks) ==
    /\ rows[b].calls = chunks /\ Len(rows) - b < Len(chunks)
    /\ \A k \in b + 1 .. Len(rows) : rows[k].role = "tool"

BatchInv == turn.pc = "tools" => \E b \in 1 .. Len(history) : IsBatch(b, history, turn.chunks)

HistoryInv ==
    /\ history \in Seq(Row)
    /\ ResultsInv(history) /\ SettledInv(history, turn.pc) /\ BatchInv
    /\ ContextCorrelates

(* Rows that are there keep what they are when another is appended. *)
LEMMA Appended ==
    ASSUME NEW rows \in Seq(Row), NEW r \in Row
    PROVE  /\ Append(rows, r) \in Seq(Row) /\ Len(Append(rows, r)) = Len(rows) + 1
           /\ Len(rows) \in Nat
           /\ DOMAIN rows = 1 .. Len(rows) /\ DOMAIN Append(rows, r) = 1 .. Len(rows) + 1
           /\ \A i \in 1 .. Len(rows) : Append(rows, r)[i] = rows[i]
           /\ Append(rows, r)[Len(rows) + 1] = r
BY AppendProperties

(* The name a result carries, or the calls it may be found by *)
NameIs(rows, i, name) ==
    rows[i].name = name \/ (rows[i].name = NoId /\ NamedAlike(rows, i, name))

LEMMA ResultIs ==
    ASSUME NEW rows, NEW i, NEW j
    PROVE  IsResult(rows, i, j) <=>
              /\ i - j \in DOMAIN rows[j].calls
              /\ rows[j].calls[i - j].swift = rows[i].swift /\ rows[j].calls[i - j].id = rows[i].id
              /\ NameIs(rows, i, rows[j].calls[i - j].name)
              /\ \A k \in j + 1 .. i : rows[k].role = "tool"
BY Zenon DEF IsResult, NameIs

LEMMA ResultStays ==
    ASSUME NEW rows \in Seq(Row), NEW n \in Nat, n = Len(rows), NEW more,
           \A k \in 1 .. n : more[k] = rows[k],
           NEW i \in 1 .. n, NEW j \in 1 .. i - 1, IsResult(rows, i, j)
    PROVE  IsResult(more, i, j)
<1>1. j \in 1 .. n /\ \A k \in 1 .. i : k \in 1 .. n
  OBVIOUS
<1>2. more[i] = rows[i] /\ more[j] = rows[j]
  BY <1>1
<1>3. \A k \in 1 .. i - 1 : more[k] = rows[k]
  BY <1>1
<1>4. \A k \in j + 1 .. i : more[k] = rows[k]
  BY <1>1
<1>5. ASSUME NEW name, NamedAlike(rows, i, name) PROVE NamedAlike(more, i, name)
  BY <1>2, <1>3, <1>5 DEF NamedAlike
<1>6. /\ i - j \in DOMAIN more[j].calls
      /\ more[j].calls[i - j].swift = more[i].swift /\ more[j].calls[i - j].id = more[i].id
      /\ \A k \in j + 1 .. i : more[k].role = "tool"
  BY <1>2, <1>4 DEF IsResult
<1>7. NameIs(rows, i, rows[j].calls[i - j].name)
  BY ResultIs, Zenon
<1>8. ASSUME NEW name, NameIs(rows, i, name) PROVE NameIs(more, i, name)
  BY <1>2, <1>5, <1>8, Zenon DEF NameIs
<1>9. NameIs(more, i, more[j].calls[i - j].name)
  BY <1>2, <1>7, <1>8, Zenon
<1> QED BY <1>6, <1>9, ResultIs, Zenon

LEMMA SettledStays ==
    ASSUME NEW rows \in Seq(Row), NEW r \in Row, NEW j \in 1 .. Len(rows),
           NEW c \in DOMAIN rows[j].calls, IsSettled(rows, j, c)
    PROVE  IsSettled(Append(rows, r), j, c)
<1> DEFINE more == Append(rows, r)
<1>1. PICK n \in Nat : /\ n = Len(rows) /\ DOMAIN rows = 1 .. n /\ DOMAIN more = 1 .. n + 1
                       /\ \A i \in 1 .. n : more[i] = rows[i]
  BY Appended
<1> HIDE DEF more
<1>2. j \in 1 .. n /\ more[j] = rows[j]
  BY <1>1
<1>3. CASE j + c \in DOMAIN rows /\ rows[j + c].swift = rows[j].calls[c].swift
  <2>1. j + c \in 1 .. n
    BY <1>1, <1>3
  <2>2. j + c \in 1 .. n + 1 /\ more[j + c] = rows[j + c]
    BY <1>1, <2>1
  <2>3. QED BY <1>1, <1>2, <1>3, <2>2 DEF IsSettled
<1>4. CASE \E k \in j + 1 .. j + c : k \in DOMAIN rows /\ rows[k].role = "user"
  <2>1. PICK k \in j + 1 .. j + c : k \in DOMAIN rows /\ rows[k].role = "user"
    BY <1>4
  <2>2. k \in 1 .. n
    BY <1>1, <2>1
  <2>3. k \in 1 .. n + 1 /\ more[k] = rows[k]
    BY <1>1, <2>2
  <2>4. QED BY <1>1, <2>1, <2>3 DEF IsSettled
<1> QED BY <1>3, <1>4 DEF IsSettled

LEMMA ResultsStay ==
    ASSUME NEW rows \in Seq(Row), NEW r \in Row, ResultsInv(rows),
           r.role = "tool" => r.calls = <<>>
              /\ \E j \in 1 .. Len(rows) : IsResult(Append(rows, r), Len(rows) + 1, j)
    PROVE  ResultsInv(Append(rows, r))
<1> DEFINE more == Append(rows, r)
<1>1. PICK n \in Nat : /\ n = Len(rows) /\ Len(more) = n + 1 /\ more[n + 1] = r
                       /\ \A i \in 1 .. n : more[i] = rows[i]
  BY Appended
<1>2. r.role = "tool" => r.calls = <<>> /\ \E j \in 1 .. n : IsResult(more, n + 1, j)
  BY <1>1
<1> HIDE DEF more
<1>3. ASSUME NEW i \in 1 .. n + 1, more[i].role = "tool"
      PROVE  more[i].calls = <<>> /\ \E j \in 1 .. i - 1 : IsResult(more, i, j)
  <2>1. CASE i = n + 1
    <3>1. \A j \in 1 .. n : j \in 1 .. (n + 1) - 1
      OBVIOUS
    <3>2. QED BY <1>1, <1>2, <1>3, <2>1, <3>1
  <2>2. CASE i \in 1 .. n
    <3>1. rows[i].role = "tool" /\ more[i] = rows[i]
      BY <1>1, <1>3, <2>2
    <3>2. PICK j \in 1 .. i - 1 : IsResult(rows, i, j)
      BY <1>1, <2>2, <3>1 DEF ResultsInv
    <3>3. rows[i].calls = <<>>
      BY <1>1, <2>2, <3>1 DEF ResultsInv
    <3>4. IsResult(more, i, j)
      BY <1>1, <2>2, <3>2, ResultStays
    <3>5. QED BY <3>1, <3>3, <3>4
  <2>3. QED BY <2>1, <2>2
<1>4. ResultsInv(more)
  BY <1>1, <1>3 DEF ResultsInv
<1> QED BY <1>4 DEF more

(* The memory window is a suffix. *)
LEMMA TrimIs ==
    ASSUME history \in Seq(Row)
    PROVE  \E off \in 0 .. Len(history) :
              /\ Trim(history) \in Seq(Row) /\ Len(Trim(history)) = Len(history) - off
              /\ \A i \in 1 .. Len(history) - off : Trim(history)[i] = history[off + i]
              /\ off > 0 => serving.memory = "last_n"
<1>1. PICK n \in Nat : n = Len(history)
  OBVIOUS
<1>2. CASE Trim(history) = history
  <2>1. 0 \in 0 .. n /\ n - 0 = n /\ \A i \in 1 .. n : 0 + i = i
    OBVIOUS
  <2>2. QED BY <1>1, <1>2, <2>1
<1>3. CASE serving.memory = "last_n" /\ ~(n <= LastN)
  <2>1. LastN \in Nat \ {0}
    BY ModelTurnAssumption
  <2>2. PICK off \in 0 .. n : off = n - LastN
    BY <1>3, <2>1
  <2>3. Trim(history) = SubSeq(history, off + 1, n)
    BY <1>1, <1>3, <2>2 DEF Trim, LastNTrim
  <2>4. /\ SubSeq(history, off + 1, n) \in Seq(Row) /\ Len(SubSeq(history, off + 1, n)) = n - off
        /\ \A i \in 1 .. n - off : SubSeq(history, off + 1, n)[i] = history[off + i]
    BY <1>1, <2>2
  <2>5. QED BY <1>1, <1>3, <2>3, <2>4
<1> QED BY <1>1, <1>2, <1>3 DEF Trim, LastNTrim

LEMMA GreatestIn ==
    ASSUME NEW n \in Nat, NEW S \in SUBSET (1 .. n), S # {}
    PROVE  Greatest(S) \in S
<1> DEFINE T == {k \in 0 .. n : n - k \in S}
<1>1. T \subseteq Nat
  OBVIOUS
<1>2. T # {}
  <2>1. PICK x \in S : TRUE
    OBVIOUS
  <2>2. n - x \in 0 .. n /\ n - (n - x) = x
    OBVIOUS
  <2>3. n - x \in T
    BY <2>1, <2>2
  <2>4. QED BY <2>3
<1>3. PICK k \in T : \A y \in T : k <= y
  <2> HIDE DEF T
  <2>1. QED BY <1>1, <1>2, LeastNumber
<1>4. k \in 0 .. n /\ n - k \in S
  OBVIOUS
<1>5. ASSUME NEW m \in S PROVE m <= n - k
  <2>1. m \in 1 .. n
    OBVIOUS
  <2>2. n - m \in 0 .. n /\ n - (n - m) = m
    BY <2>1
  <2>3. n - m \in T
    BY <2>2
  <2>4. k <= n - m
    BY <1>3, <2>3
  <2>5. QED BY <1>4, <2>1, <2>4
<1> QED BY <1>4, <1>5 DEF Greatest

(* findToolName finds the name that all calls of that id have. *)
LEMMA FoundName ==
    ASSUME NEW rows \in Seq(Row), NEW i \in 1 .. Len(rows), NEW j \in 1 .. i - 1,
           NEW c \in DOMAIN rows[j].calls, rows[j].calls[c].id = rows[i].id, NEW name,
           NamedAlike(rows, i, name)
    PROVE  FindToolName(rows, i) = name
<1> DEFINE same(k) == {d \in DOMAIN rows[k].calls : rows[k].calls[d].id = rows[i].id}
           found == {k \in 1 .. i - 1 : same(k) # {}}
           last == Greatest(found)
<1>1. FindToolName(rows, i) = IF found = {} THEN NoId ELSE rows[last].calls[Greatest(same(last))].name
  BY DEF FindToolName
<1>2. c \in same(j)
  OBVIOUS
<1>3. j \in found
  BY <1>2
<1>4. i - 1 \in Nat /\ found \in SUBSET (1 .. i - 1) /\ found # {}
  BY <1>3
<1>5. last \in found
  <2> HIDE DEF found
  <2>1. QED BY <1>4, GreatestIn
<1>6. last \in 1 .. i - 1 /\ same(last) # {}
  BY <1>5
<1>7. rows[last] \in Row
  BY <1>6, ElementOfSeq
<1>8. PICK n \in Nat : DOMAIN rows[last].calls = 1 .. n
  <2>1. PICK s \in Seq(RowCall) : s = rows[last].calls
    BY <1>7 DEF Row
  <2>2. DOMAIN s = 1 .. Len(s) /\ Len(s) \in Nat
    BY <2>1
  <2>3. QED BY <2>1, <2>2
<1>9. same(last) \in SUBSET (1 .. n)
  BY <1>8
<1>10. Greatest(same(last)) \in same(last)
  <2> HIDE DEF same
  <2>1. QED BY <1>6, <1>9, GreatestIn
<1>11. rows[last].calls[Greatest(same(last))].name = name
  BY <1>6, <1>10 DEF NamedAlike
<1> QED BY <1>1, <1>4, <1>11

(* What is built of a row *)
BuiltRow(x, y) ==
    /\ x.role = y.role /\ x.calls = y.calls /\ x.swift = y.swift /\ x.id = y.id

LEMMA BuildIs ==
    ASSUME history \in Seq(Row)
    PROVE  /\ DOMAIN Build(history) = 1 .. Len(Trim(history))
           /\ \A i \in 1 .. Len(Trim(history)) :
                 /\ BuiltRow(Build(history)[i], Trim(history)[i])
                 /\ Build(history)[i].name =
                      IF Trim(history)[i].role = "tool" /\ Trim(history)[i].name = NoId
                      THEN FindToolName(Trim(history), i) ELSE Trim(history)[i].name
<1> DEFINE kept == Trim(history)
<1>1. kept \in Seq(Row)
  BY TrimIs
<1>2. DOMAIN kept = 1 .. Len(kept)
  BY <1>1
<1>3. Build(history) = [i \in DOMAIN kept |-> IF kept[i].role = "tool" THEN MapToolMessage(kept, i) ELSE kept[i]]
  BY DEF Build
<1> HIDE DEF kept
<1>4. ASSUME NEW i \in 1 .. Len(kept)
      PROVE  /\ BuiltRow(Build(history)[i], kept[i])
             /\ Build(history)[i].name = IF kept[i].role = "tool" /\ kept[i].name = NoId
                                        THEN FindToolName(kept, i) ELSE kept[i].name
  <2>1. PICK r \in Row : r = kept[i]
    BY <1>1, ElementOfSeq
  <2>2. CASE r.role = "tool"
    <3>1. Build(history)[i] = [r EXCEPT !.name = IF r.name = NoId THEN FindToolName(kept, i) ELSE r.name]
      BY <1>2, <1>3, <2>1, <2>2 DEF MapToolMessage
    <3>2. QED BY <2>1, <2>2, <3>1 DEF Row, BuiltRow
  <2>3. CASE r.role # "tool"
    BY <1>2, <1>3, <2>1, <2>3 DEF BuiltRow
  <2>4. QED BY <2>2, <2>3
<1>5. DOMAIN Build(history) = 1 .. Len(kept)
  BY <1>2, <1>3
<1> QED BY <1>4, <1>5 DEF kept

(* A call of a row is named. *)
LEMMA CallNamed ==
    ASSUME NEW rows \in Seq(Row), NEW j \in 1 .. Len(rows), NEW c \in DOMAIN rows[j].calls
    PROVE  rows[j].calls[c].name # NoId /\ c \in Nat \ {0}
<1>1. rows[j] \in Row
  BY ElementOfSeq
<1>2. PICK s \in Seq(RowCall) : s = rows[j].calls
  BY <1>1 DEF Row
<1>3. c \in 1 .. Len(s) /\ s[c] \in RowCall
  BY <1>2, ElementOfSeq
<1> QED BY <1>2, <1>3 DEF RowCall, KeptCall

(* A result in the window: its call is there too, or the window begins     *)
(* among the results of its batch.                                         *)
LEMMA ResultsCorrelate ==
    ASSUME history \in Seq(Row), ResultsInv(history), NEW provider,
           NEW i \in DOMAIN Build(history), Build(history)[i].role = "tool"
    PROVE  \/ serving.memory = "last_n" /\ \A k \in 1 .. i : Build(history)[k].role = "tool"
           \/ \E j \in 1 .. i - 1 :
                 /\ i - j \in DOMAIN Build(history)[j].calls
                 /\ Build(history)[j].calls[i - j].swift = Build(history)[i].swift
                 /\ Ref(provider, Build(history)[j].calls[i - j]) = Ref(provider, Build(history)[i])
<1> DEFINE kept == Trim(history)
           sent == Build(history)
<1>1. PICK n \in Nat : n = Len(history)
  OBVIOUS
<1>2. PICK off \in 0 .. n :
         /\ kept \in Seq(Row) /\ Len(kept) = n - off
         /\ \A k \in 1 .. n - off : kept[k] = history[off + k]
         /\ off > 0 => serving.memory = "last_n"
  BY <1>1, TrimIs
<1>3. /\ DOMAIN sent = 1 .. n - off
      /\ \A k \in 1 .. n - off :
            /\ BuiltRow(sent[k], kept[k])
            /\ sent[k].name = IF kept[k].role = "tool" /\ kept[k].name = NoId
                              THEN FindToolName(kept, k) ELSE kept[k].name
  BY <1>2, BuildIs
<1> SUFFICES \/ serving.memory = "last_n" /\ \A k \in 1 .. i : sent[k].role = "tool"
             \/ \E j \in 1 .. i - 1 :
                   /\ i - j \in DOMAIN sent[j].calls
                   /\ sent[j].calls[i - j].swift = sent[i].swift
                   /\ Ref(provider, sent[j].calls[i - j]) = Ref(provider, sent[i])
  OBVIOUS
<1>4. i \in DOMAIN sent /\ sent[i].role = "tool"
  OBVIOUS
<1> HIDE DEF kept, sent
<1>5. i \in 1 .. n - off /\ off + i \in 1 .. n
  BY <1>3, <1>4
<1>6. kept[i].role = "tool" /\ kept[i] = history[off + i]
  BY <1>2, <1>3, <1>4, <1>5 DEF BuiltRow
<1>7. PICK h \in 1 .. (off + i) - 1 : IsResult(history, off + i, h)
  <2>1. off + i \in 1 .. Len(history) /\ history[off + i].role = "tool"
    BY <1>1, <1>5, <1>6
  <2>2. QED BY <2>1, Zenon DEF ResultsInv
<1>8. CASE h <= off
  <2>1. off > 0
    BY <1>7, <1>8
  <2>2. ASSUME NEW k \in 1 .. i PROVE sent[k].role = "tool"
    <3>1. k \in 1 .. n - off /\ off + k \in h + 1 .. off + i
      BY <1>5, <1>7, <1>8
    <3>2. history[off + k].role = "tool"
      BY <1>7, <3>1 DEF IsResult
    <3>3. QED BY <1>2, <1>3, <3>1, <3>2 DEF BuiltRow
  <2>3. QED BY <1>2, <2>1, <2>2
<1>9. CASE h > off
  <2>1. PICK j \in 1 .. i - 1 : h = off + j
    <3>1. h - off \in 1 .. i - 1 /\ h = off + (h - off)
      BY <1>5, <1>7, <1>9
    <3>2. QED BY <3>1
  <2>2. j \in 1 .. n - off /\ (off + i) - h = i - j
    BY <1>5, <2>1
  <2>3. kept[j] = history[h]
    BY <1>2, <2>1, <2>2
  <2>4. /\ i - j \in DOMAIN kept[j].calls /\ kept[j].calls[i - j].swift = kept[i].swift
        /\ kept[j].calls[i - j].id = kept[i].id
        /\ NameIs(history, off + i, kept[j].calls[i - j].name)
    <3>1. /\ (off + i) - h \in DOMAIN history[h].calls
          /\ history[h].calls[(off + i) - h].swift = history[off + i].swift
          /\ history[h].calls[(off + i) - h].id = history[off + i].id
          /\ NameIs(history, off + i, history[h].calls[(off + i) - h].name)
      BY ONLY <1>7, ResultIs, Zenon
    <3>2. QED BY <1>6, <2>2, <2>3, <3>1, Zenon
  <2> DEFINE made == kept[j].calls[i - j]
  <2>5. made.name # NoId
    BY <1>2, <2>2, <2>4, CallNamed
  <2>6. sent[i].name = made.name
    <3>1. CASE kept[i].name = made.name
      BY <1>3, <1>5, <2>5, <3>1
    <3>2. CASE kept[i].name # made.name
      <4>1. NamedAlike(kept, i, made.name)
        <5>1. SUFFICES ASSUME NEW k \in 1 .. i - 1, NEW d \in DOMAIN kept[k].calls,
                              kept[k].calls[d].id = kept[i].id
                       PROVE  kept[k].calls[d].name = made.name
          BY DEF NamedAlike
        <5>2. k \in 1 .. n - off /\ off + k \in 1 .. (off + i) - 1
          BY <1>5
        <5>3. kept[k] = history[off + k]
          BY <1>2, <5>2
        <5>4. NamedAlike(history, off + i, made.name)
          BY <1>6, <2>4, <3>2, Zenon DEF NameIs
        <5>5. \A l \in 1 .. (off + i) - 1 : \A e \in DOMAIN history[l].calls :
                 history[l].calls[e].id = history[off + i].id => history[l].calls[e].name = made.name
          BY <5>4, Zenon DEF NamedAlike
        <5>6. d \in DOMAIN history[off + k].calls /\ history[off + k].calls[d].id = history[off + i].id
          BY <1>6, <5>1, <5>3, Zenon
        <5>7. history[off + k].calls[d].name = made.name
          BY ONLY <5>2, <5>5, <5>6, Zenon
        <5>8. QED BY <5>3, <5>7, Zenon
      <4>2. i \in 1 .. Len(kept) /\ j \in 1 .. i - 1 /\ kept \in Seq(Row)
        BY <1>2, <1>5
      <4>3. FindToolName(kept, i) = made.name
        <5> DEFINE c == i - j
                   name == made.name
        <5>1. /\ c \in DOMAIN kept[j].calls /\ kept[j].calls[c].id = kept[i].id
              /\ NamedAlike(kept, i, name)
          BY <2>4, <4>1
        <5> HIDE DEF c, name, made
        <5>2. FindToolName(kept, i) = name
          BY ONLY <4>2, <5>1, FoundName
        <5>3. QED BY <5>2 DEF name
      <4>4. kept[i].name = NoId
        BY <1>6, <2>4, <3>2, Zenon DEF NameIs
      <4>5. QED BY <1>3, <1>5, <1>6, <4>3, <4>4
    <3>3. QED BY <3>1, <3>2
  <2>7. /\ sent[j].calls = kept[j].calls /\ sent[i].swift = kept[i].swift /\ sent[i].id = kept[i].id
    BY <1>3, <1>5, <2>2 DEF BuiltRow
  <2>8. /\ sent[j].calls[i - j].id = sent[i].id /\ sent[j].calls[i - j].name = sent[i].name
    BY <2>4, <2>6, <2>7
  <2>9. Ref(provider, sent[j].calls[i - j]) = Ref(provider, sent[i])
    BY <2>8 DEF Ref, GoogleRef, AnthropicRef, OpenAIRef
  <2>10. QED BY <2>4, <2>7, <2>9
<1> QED BY <1>1, <1>7, <1>8, <1>9

(* A call in the window has its result there, or its run stopped. *)
LEMMA CallsAnswered ==
    ASSUME history \in Seq(Row),
           \A h \in 1 .. Len(history) : \A d \in DOMAIN history[h].calls : IsSettled(history, h, d),
           NEW j \in DOMAIN Build(history), NEW c \in DOMAIN Build(history)[j].calls
    PROVE  IsSettled(Build(history), j, c)
<1> DEFINE kept == Trim(history)
           sent == Build(history)
<1>1. PICK n \in Nat : n = Len(history) /\ DOMAIN history = 1 .. n
  OBVIOUS
<1>2. PICK off \in 0 .. n :
         /\ kept \in Seq(Row) /\ Len(kept) = n - off
         /\ \A k \in 1 .. n - off : kept[k] = history[off + k]
  BY <1>1, TrimIs
<1>3. /\ DOMAIN sent = 1 .. n - off
      /\ \A k \in 1 .. n - off : BuiltRow(sent[k], kept[k])
  BY <1>2, BuildIs
<1> SUFFICES IsSettled(sent, j, c)
  OBVIOUS
<1>4. j \in DOMAIN sent /\ c \in DOMAIN sent[j].calls
  OBVIOUS
<1> HIDE DEF kept, sent
<1>5. \A k \in 1 .. n - off : BuiltRow(sent[k], history[off + k])
  BY <1>2, <1>3
<1>6. j \in 1 .. n - off /\ off + j \in 1 .. n /\ sent[j].calls = history[off + j].calls
  BY <1>3, <1>4, <1>5 DEF BuiltRow
<1>7. c \in DOMAIN history[off + j].calls
  BY <1>4, <1>6
<1>8. c \in Nat \ {0}
  BY <1>1, <1>6, <1>7, CallNamed
<1>9. IsSettled(history, off + j, c)
  BY <1>1, <1>6, <1>7
<1>10. CASE off + j + c \in DOMAIN history
             /\ history[off + j + c].swift = history[off + j].calls[c].swift
  <2>1. j + c \in 1 .. n - off /\ off + (j + c) = off + j + c
    BY <1>1, <1>6, <1>8, <1>10
  <2>2. sent[j + c].swift = history[off + j + c].swift
    BY <1>5, <2>1 DEF BuiltRow
  <2>3. QED BY <1>3, <1>6, <1>10, <2>1, <2>2 DEF IsSettled
<1>11. CASE \E k \in off + j + 1 .. off + j + c : k \in DOMAIN history /\ history[k].role = "user"
  <2>1. PICK k \in off + j + 1 .. off + j + c : k \in DOMAIN history /\ history[k].role = "user"
    BY <1>11
  <2>2. PICK l \in j + 1 .. j + c : l \in 1 .. n - off /\ off + l = k
    <3>1. k - off \in j + 1 .. j + c /\ k - off \in 1 .. n - off /\ off + (k - off) = k
      BY <1>1, <1>6, <1>8, <2>1
    <3>2. QED BY <3>1
  <2>3. sent[l].role = "user"
    BY <1>5, <2>1, <2>2 DEF BuiltRow
  <2>4. QED BY <1>3, <2>2, <2>3 DEF IsSettled
<1> QED BY <1>9, <1>10, <1>11 DEF IsSettled

-----------------------------------------------------------------------------
(* The steps *)

LEMMA RowsAre ==
    /\ UserRow \in Row /\ UserRow.role = "user" /\ UserRow.calls = <<>>
    /\ TextRow \in Row /\ TextRow.role = "assistant" /\ TextRow.calls = <<>>
    /\ \A calls \in Seq(KeptCall) : /\ CallsRow(calls) \in Row /\ CallsRow(calls).role = "assistant"
                                    /\ CallsRow(calls).calls = calls
    /\ \A x \in KeptCall : /\ ToolRow(x) \in Row /\ ToolRow(x).role = "tool" /\ ToolRow(x).calls = <<>>
                           /\ ToolRow(x).swift = x.swift /\ ToolRow(x).id = x.id /\ ToolRow(x).name = x.name
<1>1. <<>> \in Seq(RowCall) /\ NoId \in Nat
  BY EmptySeq DEF NoId
<1>2. UserRow \in Row /\ UserRow.role = "user" /\ UserRow.calls = <<>>
  BY <1>1 DEF UserRow, Row
<1>3. TextRow \in Row /\ TextRow.role = "assistant" /\ TextRow.calls = <<>>
  BY <1>1 DEF TextRow, UserRow, Row
<1>4. ASSUME NEW calls \in Seq(KeptCall)
      PROVE  CallsRow(calls) \in Row /\ CallsRow(calls).role = "assistant" /\ CallsRow(calls).calls = calls
  <2>1. calls \in Seq(RowCall)
    <3>1. \A i \in 1 .. Len(calls) : calls[i] \in RowCall
      BY ElementOfSeq DEF RowCall
    <3>2. QED BY <3>1
  <2>2. QED BY <1>1, <2>1 DEF CallsRow, UserRow, Row
<1>5. ASSUME NEW x \in KeptCall
      PROVE  /\ ToolRow(x) \in Row /\ ToolRow(x).role = "tool" /\ ToolRow(x).calls = <<>>
             /\ ToolRow(x).swift = x.swift /\ ToolRow(x).id = x.id /\ ToolRow(x).name = x.name
  <2>1. x.swift \in Nat /\ x.id \in Nat /\ x.name \in Nat
    BY DEF KeptCall
  <2>2. QED BY <1>1, <2>1 DEF ToolRow, Row
<1> QED BY <1>2, <1>3, <1>4, <1>5

(* The history stays, and the call of the model goes on or the run ends. *)
LEMMA SameHistory ==
    ASSUME HistoryInv, history' = history, serving' = serving,
           \/ turn'.pc = "idle"
           \/ /\ turn.pc = "stream" /\ turn'.pc \in {"stream", "ended"}
              /\ turn'.context = turn.context /\ turn'.provider = turn.provider
           \/ turn' = turn
    PROVE  HistoryInv'
<1> USE DEF HistoryInv
<1>1. history' \in Seq(Row) /\ ResultsInv(history')
  OBVIOUS
<1>2. SettledInv(history', turn'.pc)
  BY DEF SettledInv, IsOpen
<1>3. BatchInv'
  BY DEF BatchInv
<1>4. ContextCorrelates'
  BY DEF ContextCorrelates
<1> QED BY <1>1, <1>2, <1>3, <1>4

(* A row is appended that belongs there. *)
LEMMA Grown ==
    ASSUME HistoryInv, NEW r \in Row, history' = Append(history, r),
           r.role = "tool" => r.calls = <<>>
              /\ \E j \in 1 .. Len(history) : IsResult(Append(history, r), Len(history) + 1, j),
           turn'.pc # "stream"
    PROVE  history' \in Seq(Row) /\ ResultsInv(history') /\ ContextCorrelates'
<1>1. history' \in Seq(Row)
  BY Appended DEF HistoryInv
<1>2. ResultsInv(history')
  BY ResultsStay DEF HistoryInv
<1>3. ContextCorrelates'
  BY DEF ContextCorrelates
<1> QED BY <1>1, <1>2, <1>3

LEMMA StartRunKeepsHistory ==
    ASSUME HistoryInv, NEW s, NEW memory, StartRun(s, memory)
    PROVE  HistoryInv'
<1> USE DEF HistoryInv
<1>1. turn.pc = "idle" /\ turn'.pc = "ready" /\ history' = Append(history, UserRow)
  BY DEF StartRun, NoTurn
<1>2. history' \in Seq(Row) /\ ResultsInv(history') /\ ContextCorrelates'
  BY <1>1, RowsAre, Grown
<1>3. PICK n \in Nat : /\ n = Len(history) /\ DOMAIN history' = 1 .. n + 1 /\ Len(history') = n + 1
                       /\ history'[n + 1] = UserRow /\ \A i \in 1 .. n : history'[i] = history[i]
  BY <1>1, RowsAre, Appended
<1>4. ASSUME NEW j \in 1 .. n + 1, NEW c \in DOMAIN history'[j].calls
      PROVE  IsSettled(history', j, c)
  <2>1. CASE j = n + 1
    BY <1>3, <2>1, RowsAre
  <2>2. CASE j \in 1 .. n
    <3>1. c \in DOMAIN history[j].calls
      BY <1>3, <2>2
    <3>2. c \in Nat \ {0}
      BY <1>3, <2>2, <3>1, CallNamed
    <3>3. CASE IsSettled(history, j, c)
      BY <1>1, <1>3, <2>2, <3>1, <3>3, RowsAre, SettledStays
    <3>4. CASE j + c > n
      <4>1. n + 1 \in j + 1 .. j + c
        BY <2>2, <3>2, <3>4
      <4>2. n + 1 \in DOMAIN history' /\ history'[n + 1].role = "user"
        BY <1>3, RowsAre
      <4>3. QED BY <4>1, <4>2 DEF IsSettled
    <3>5. QED BY <1>3, <2>2, <3>1, <3>3, <3>4 DEF SettledInv, IsOpen
  <2>3. QED BY <2>1, <2>2
<1>5. SettledInv(history', turn'.pc)
  BY <1>3, <1>4 DEF SettledInv
<1>6. BatchInv'
  BY <1>1 DEF BatchInv
<1> QED BY <1>2, <1>5, <1>6

LEMMA CallModelKeepsHistory ==
    ASSUME HistoryInv, NEW said, CallModel(said)
    PROVE  HistoryInv'
<1> USE DEF HistoryInv
<1> DEFINE provider == ResolveForModel(serving.model)
<1>1. /\ turn.pc = "ready" /\ history' = history /\ serving' = serving /\ turn'.pc = "stream"
      /\ turn'.context = Build(history) /\ turn'.provider = provider
  BY DEF CallModel, NoTurn
<1>2. \A h \in 1 .. Len(history) : \A d \in DOMAIN history[h].calls : IsSettled(history, h, d)
  BY <1>1 DEF SettledInv, IsOpen
<1>3. SettledInv(history', turn'.pc) /\ BatchInv'
  BY <1>1, <1>2 DEF SettledInv, BatchInv
<1> HIDE DEF provider
<1> DEFINE sent == Build(history)
<1>4. ASSUME NEW i \in DOMAIN sent, sent[i].role = "tool"
      PROVE  \/ serving.memory = "last_n" /\ \A k \in 1 .. i : sent[k].role = "tool"
             \/ \E j \in 1 .. i - 1 :
                   /\ i - j \in DOMAIN sent[j].calls
                   /\ sent[j].calls[i - j].swift = sent[i].swift
                   /\ Ref(provider, sent[j].calls[i - j]) = Ref(provider, sent[i])
  BY <1>4, ResultsCorrelate
<1>5. ASSUME NEW j \in DOMAIN sent, NEW c \in DOMAIN sent[j].calls
      PROVE  \/ j + c \in DOMAIN sent /\ sent[j + c].swift = sent[j].calls[c].swift
             \/ \E k \in j + 1 .. j + c : k \in DOMAIN sent /\ sent[k].role = "user"
  <2>1. IsSettled(sent, j, c)
    BY <1>2, CallsAnswered
  <2>2. QED BY <2>1 DEF IsSettled
<1> HIDE DEF sent
<1>6. turn'.context = sent /\ turn'.provider = provider /\ serving' = serving
  BY <1>1 DEF sent
<1>7. ContextCorrelates'
  BY <1>4, <1>5, <1>6 DEF ContextCorrelates
<1> QED BY <1>1, <1>3, <1>7

LEMMA RowKeepsHistory ==
    ASSUME CallsInv, HistoryInv,
           CallsSaved \/ (AnswerSaved /\ history' = Append(history, TextRow))
    PROVE  HistoryInv'
<1> USE DEF HistoryInv
<1> DEFINE r == IF turn.chunks = <<>> THEN TextRow ELSE CallsRow(turn.chunks)
<1>1. turn.pc = "ended" /\ history' = Append(history, r)
  BY DEF CallsSaved, AnswerSaved, StreamOver
<1>2. turn.chunks \in Seq(KeptCall) /\ DOMAIN turn = TurnFields
  BY DEF CallsInv, TurnType
<1>3. r \in Row /\ r.role = "assistant" /\ r.calls = turn.chunks
  BY <1>2, RowsAre
<1>4. \/ turn'.pc = "idle" /\ turn.chunks = <<>>
      \/ turn'.pc = "tools" /\ turn'.chunks = turn.chunks /\ turn.chunks # <<>>
  <2>1. CASE turn.chunks = <<>> /\ turn' = NoTurn
    BY <2>1 DEF NoTurn
  <2>2. CASE /\ turn.chunks # <<>>
             /\ turn' = [turn EXCEPT !.pc = "tools", !.context = <<>>, !.buffers = <<>>]
    BY <1>2, <2>2 DEF TurnFields
  <2>3. QED BY <2>1, <2>2 DEF CallsSaved, AnswerSaved
<1> HIDE DEF r
<1>5. history' \in Seq(Row) /\ ResultsInv(history') /\ ContextCorrelates'
  BY <1>1, <1>3, <1>4, Grown
<1>6. PICK n \in Nat : /\ n = Len(history) /\ DOMAIN history' = 1 .. n + 1 /\ Len(history') = n + 1
                       /\ history'[n + 1] = r /\ \A i \in 1 .. n : history'[i] = history[i]
  BY <1>1, <1>3, Appended
<1>7. ASSUME NEW j \in 1 .. n + 1, NEW c \in DOMAIN history'[j].calls
      PROVE  IsSettled(history', j, c) \/ IsOpen(history', j, c, turn'.pc)
  <2>1. CASE j = n + 1
    <3>1. c \in Nat \ {0} /\ turn.chunks # <<>>
      BY <1>2, <1>3, <1>6, <2>1
    <3>2. j + c > n + 1 /\ j + 1 .. n + 1 = {}
      BY <2>1, <3>1
    <3>3. QED BY <1>4, <1>6, <3>1, <3>2 DEF IsOpen
  <2>2. CASE j \in 1 .. n
    <3>1. c \in DOMAIN history[j].calls
      BY <1>6, <2>2
    <3>2. IsSettled(history, j, c)
      BY <1>1, <1>6, <2>2, <3>1 DEF SettledInv, IsOpen
    <3>3. QED BY <1>1, <1>3, <1>6, <2>2, <3>1, <3>2, SettledStays
  <2>3. QED BY <2>1, <2>2
<1>8. SettledInv(history', turn'.pc)
  BY <1>6, <1>7 DEF SettledInv
<1>9. BatchInv'
  <2>1. SUFFICES ASSUME turn'.pc = "tools" PROVE IsBatch(n + 1, history', turn'.chunks)
    BY <1>6 DEF BatchInv
  <2>2. turn'.chunks = turn.chunks /\ turn.chunks # <<>>
    BY <1>4, <2>1
  <2>3. Len(turn.chunks) > 0
    BY <1>2, <2>2
  <2>4. (n + 1) - (n + 1) = 0 /\ n + 1 + 1 .. n + 1 = {}
    OBVIOUS
  <2>5. QED BY <1>3, <1>6, <2>2, <2>3, <2>4 DEF IsBatch
<1> QED BY <1>5, <1>8, <1>9

(* Answered counts the results after the last row with calls. *)
LEMMA AnsweredIs ==
    ASSUME CallsInv, HistoryInv, NEW b \in 1 .. Len(history), IsBatch(b, history, turn.chunks)
    PROVE  Answered = Len(history) - b
<1>1. PICK n \in Nat : n = Len(history) /\ DOMAIN history = 1 .. n
  BY DEF HistoryInv
<1>2. history[b].calls # <<>>
  <2>1. turn.chunks \in Seq(KeptCall) /\ n - b >= 0 /\ n - b \in Int
    BY <1>1 DEF CallsInv, TurnType
  <2>2. n - b < Len(turn.chunks)
    BY <1>1 DEF IsBatch
  <2>3. Len(turn.chunks) # 0
    BY <2>1, <2>2
  <2>4. QED BY <2>3 DEF IsBatch
<1>3. \A k \in b + 1 .. n : history[k].calls = <<>>
  <2>1. SUFFICES ASSUME NEW k \in b + 1 .. n PROVE history[k].calls = <<>>
    OBVIOUS
  <2>2. k \in 1 .. n /\ history[k].role = "tool"
    BY <1>1 DEF IsBatch
  <2>3. QED BY <1>1, <2>2 DEF HistoryInv, ResultsInv
<1> DEFINE Final(j) == history[j].calls # <<>> /\ \A l \in j + 1 .. n : history[l].calls = <<>>
<1>4. b \in 1 .. n /\ Final(b)
  BY <1>1, <1>2, <1>3
<1>5. ASSUME NEW j \in 1 .. n, Final(j) PROVE j = b
  <2>1. ~(j < b)
    <3>1. SUFFICES ASSUME j < b PROVE FALSE
      OBVIOUS
    <3>2. b \in j + 1 .. n
      BY <1>4, <3>1
    <3>3. QED BY <1>4, <1>5, <3>2
  <2>2. ~(b < j)
    <3>1. SUFFICES ASSUME b < j PROVE FALSE
      OBVIOUS
    <3>2. j \in b + 1 .. n
      BY <1>4, <3>1
    <3>3. QED BY <1>4, <1>5, <3>2
  <2>3. QED BY <1>4, <2>1, <2>2
<1>6. Answered = n - (CHOOSE j \in 1 .. n : Final(j))
  BY <1>1 DEF Answered
<1> HIDE DEF Final
<1>7. (CHOOSE j \in 1 .. n : Final(j)) = b
  BY <1>4, <1>5
<1> QED BY <1>1, <1>6, <1>7

LEMMA SaveResultKeepsHistory ==
    ASSUME CallsInv, HistoryInv, SaveResult
    PROVE  HistoryInv'
<1> USE DEF HistoryInv
<1>1. turn.pc = "tools" /\ history' = Append(history, ToolRow(turn.chunks[Answered + 1]))
  BY DEF SaveResult
<1>2. PICK b \in 1 .. Len(history) : IsBatch(b, history, turn.chunks)
  BY <1>1 DEF BatchInv
<1>3. PICK n \in Nat : n = Len(history)
  OBVIOUS
<1>4. b \in 1 .. n
  BY <1>3
<1>5. PICK d \in Nat : d = n - b /\ Answered = d
  <2>1. n - b \in Nat
    BY <1>4
  <2>2. QED BY <1>2, <1>3, <2>1, AnsweredIs
<1>6. turn.chunks \in Seq(KeptCall) /\ Len(turn.chunks) \in Nat
  BY DEF CallsInv, TurnType
<1>7. d + 1 \in 1 .. Len(turn.chunks)
  BY <1>2, <1>3, <1>5, <1>6 DEF IsBatch
<1>8. PICK x \in KeptCall : x = turn.chunks[d + 1]
  BY <1>6, <1>7, ElementOfSeq
<1> DEFINE r == ToolRow(x)
<1>9. /\ r \in Row /\ r.role = "tool" /\ r.calls = <<>> /\ r.swift = x.swift /\ r.id = x.id
      /\ r.name = x.name
  BY RowsAre
<1>10. history' = Append(history, r)
  BY <1>1, <1>5, <1>8
<1> HIDE DEF r
<1>11. /\ DOMAIN history' = 1 .. n + 1 /\ Len(history') = n + 1
       /\ history'[n + 1] = r /\ \A i \in 1 .. n : history'[i] = history[i]
  BY <1>3, <1>9, <1>10, Appended
<1>12. history'[b].calls = turn.chunks /\ DOMAIN turn.chunks = 1 .. Len(turn.chunks)
  BY <1>2, <1>4, <1>6, <1>11 DEF IsBatch
<1>13. n + 1 - b = d + 1 /\ b + (d + 1) = n + 1
  BY <1>4, <1>5
<1>14. ASSUME NEW k \in b + 1 .. n + 1 PROVE history'[k].role = "tool" /\ history'[k].calls = <<>>
  <2>1. CASE k = n + 1
    BY <1>9, <1>11, <2>1
  <2>2. CASE k # n + 1
    <3>1. k \in b + 1 .. n /\ k \in 1 .. n
      BY <1>4, <2>2
    <3>2. history[k].role = "tool"
      BY <1>2, <1>3, <3>1 DEF IsBatch
    <3>3. QED BY <1>3, <1>11, <3>1, <3>2 DEF ResultsInv
  <2>3. QED BY <2>1, <2>2
<1>15. IsResult(history', n + 1, b)
  <2>1. d + 1 \in DOMAIN history'[b].calls /\ history'[b].calls[d + 1] = x
    BY <1>7, <1>8, <1>12
  <2>2. QED BY <1>9, <1>11, <1>13, <1>14, <2>1 DEF IsResult
<1>16. turn'.pc # "stream" /\ (turn'.pc = "tools" => d + 1 # Len(turn.chunks) /\ turn'.chunks = turn.chunks)
       /\ (d + 1 # Len(turn.chunks) => turn'.pc = "tools" /\ turn' = turn)
  BY <1>1, <1>5 DEF SaveResult, NoTurn
<1>17. history' \in Seq(Row) /\ ResultsInv(history') /\ ContextCorrelates'
  BY <1>3, <1>4, <1>9, <1>10, <1>15, <1>16, Grown
<1>18. ASSUME NEW j \in 1 .. n + 1, NEW c \in DOMAIN history'[j].calls
       PROVE  IsSettled(history', j, c) \/ IsOpen(history', j, c, turn'.pc)
  <2>1. j \in 1 .. n
    BY <1>9, <1>11
  <2>2. c \in DOMAIN history[j].calls
    BY <1>11, <2>1
  <2>3. CASE IsSettled(history, j, c)
    BY <1>3, <1>9, <1>10, <2>1, <2>2, <2>3, SettledStays
  <2>4. CASE IsOpen(history, j, c, turn.pc)
    <3>1. j + c > n /\ \A l \in j + 1 .. n : history[l].calls = <<>>
      BY <1>1, <1>3, <2>4 DEF IsOpen
    <3>2. ~(j < b)
      <4>1. SUFFICES ASSUME j < b PROVE FALSE
        OBVIOUS
      <4>2. b \in j + 1 .. n
        BY <1>4, <2>1, <4>1
      <4>3. turn.chunks = <<>>
        BY <1>2, <3>1, <4>2 DEF IsBatch
      <4>4. QED BY <1>7, <4>3
    <3>3. ~(b < j)
      <4>1. SUFFICES ASSUME b < j PROVE FALSE
        OBVIOUS
      <4>2. j \in b + 1 .. n + 1
        BY <1>4, <2>1, <4>1
      <4>3. QED BY <1>14, <4>2
    <3>4. j = b
      BY <1>4, <2>1, <3>2, <3>3
    <3>5. c \in 1 .. Len(turn.chunks)
      BY <1>12, <3>4
    <3>6. CASE c = d + 1
      <4>1. j + c = n + 1 /\ history'[j].calls[c] = x
        BY <1>8, <1>12, <1>13, <3>4, <3>6
      <4>2. QED BY <1>9, <1>11, <4>1 DEF IsSettled
    <3>7. CASE c # d + 1
      <4>1. c > d + 1
        BY <1>4, <1>5, <1>6, <3>1, <3>4, <3>5, <3>7
      <4>2. d + 1 # Len(turn.chunks)
        BY <1>6, <3>5, <4>1
      <4>3. j + c > n + 1
        BY <1>4, <1>5, <1>6, <3>4, <3>5, <4>1
      <4>4. QED BY <1>11, <1>14, <1>16, <3>4, <4>2, <4>3 DEF IsOpen
    <3>8. QED BY <3>6, <3>7
  <2>5. QED BY <1>3, <2>1, <2>2, <2>3, <2>4 DEF SettledInv
<1>19. SettledInv(history', turn'.pc)
  BY <1>11, <1>18 DEF SettledInv
<1>20. BatchInv'
  <2>1. SUFFICES ASSUME turn'.pc = "tools" PROVE IsBatch(b, history', turn'.chunks)
    BY <1>4, <1>11 DEF BatchInv
  <2>2. d + 1 # Len(turn.chunks) /\ turn'.chunks = turn.chunks
    BY <1>16, <2>1
  <2>3. d + 1 < Len(turn.chunks)
    BY <1>6, <1>7, <2>2
  <2>4. QED BY <1>11, <1>12, <1>13, <1>14, <2>2, <2>3 DEF IsBatch
<1> QED BY <1>17, <1>19, <1>20

LEMMA HistoryStep == CallsInv /\ HistoryInv /\ [ModelNext]_modelVars => HistoryInv'
<1> SUFFICES ASSUME CallsInv, HistoryInv, [ModelNext]_modelVars PROVE HistoryInv'
  OBVIOUS
<1>1. DOMAIN turn = TurnFields
  BY DEF CallsInv, TurnType
<1>2. ASSUME turn' = NoTurn, history' = history, serving' = serving PROVE HistoryInv'
  <2>1. turn'.pc = "idle"
    BY <1>2 DEF NoTurn
  <2>2. QED BY <1>2, <2>1, SameHistory
<1>3. ASSUME turn.pc = "stream", turn'.pc \in {"stream", "ended"}, turn'.context = turn.context,
             turn'.provider = turn.provider, history' = history, serving' = serving
      PROVE  HistoryInv'
  BY <1>3, SameHistory
<1>4. CASE RoundStops \/ GenerateThrows \/ BatchStops
  BY <1>2, <1>4 DEF RoundStops, GenerateThrows, BatchStops
<1>11. CASE SaveFails \/ (AnswerSaved /\ history' = history)
  BY <1>2, <1>11 DEF SaveFails, AnswerSaved, StreamOver
<1>12. CASE CallsSaved \/ (AnswerSaved /\ history' # history)
  BY <1>12, RowKeepsHistory DEF AnswerSaved
<1>5. CASE Token \/ DeadlinePasses
  BY <1>1, <1>3, <1>5 DEF Token, DeadlinePasses, Is, KeepRest, TurnFields
<1>6. ASSUME NEW i \in DOMAIN turn.said.calls, OpenAIDelta(i) \/ BlockDelta(i) \/ BlockStop(i)
      PROVE  HistoryInv'
  BY <1>1, <1>3, <1>6 DEF OpenAIDelta, BlockDelta, BlockStop, Receive, Streaming, Is, KeepRest, TurnFields
<1>7. CASE GoogleCall \/ LocalCall
  BY <1>1, <1>3, <1>7 DEF GoogleCall, LocalCall, Streaming, Is, KeepRest, TurnFields
<1>8. CASE OpenAIEnds \/ MessageDelta
  BY <1>1, <1>3, <1>8 DEF OpenAIEnds, MessageDelta, Finish, Streaming, Is, KeepRest, TurnFields
<1>9. CASE AnthropicEnds \/ GoogleEnds \/ LocalEnds
  BY <1>1, <1>3, <1>9 DEF AnthropicEnds, GoogleEnds, LocalEnds, Finish, Streaming, Is, KeepRest, TurnFields
<1>10. CASE UNCHANGED modelVars
  BY <1>10, SameHistory DEF modelVars
<1> QED BY <1>4, <1>5, <1>6, <1>7, <1>8, <1>9, <1>10, <1>11, <1>12, StartRunKeepsHistory,
           CallModelKeepsHistory, SaveResultKeepsHistory DEF ModelNext

LEMMA HistoryInit == ModelInit => HistoryInv
<1> SUFFICES ASSUME ModelInit PROVE HistoryInv
  OBVIOUS
<1>1. IsHistory(history)
  BY ModelTurnAssumption DEF ModelInit
<1>2. turn.pc = "idle"
  BY DEF ModelInit, NoTurn
<1>3. PICK n \in Nat : n = Len(history) /\ DOMAIN history = 1 .. n
  BY <1>1 DEF IsHistory
<1>4. history \in Seq(Row) /\ ResultsInv(history)
  BY <1>1, <1>3 DEF IsHistory, ResultsInv
<1>5. SettledInv(history, turn.pc)
  <2>1. SUFFICES ASSUME NEW j \in 1 .. n, NEW c \in DOMAIN history[j].calls
                 PROVE  IsSettled(history, j, c) \/ IsOpen(history, j, c, "idle")
    BY <1>2, <1>3 DEF SettledInv
  <2>2. CASE j + c \in DOMAIN history
    BY <1>1, <1>3, <2>2 DEF IsHistory
  <2>3. CASE j + c \notin DOMAIN history
    <3>1. c \in Nat \ {0}
      BY <1>3, <1>4, CallNamed
    <3>2. j + c > n
      BY <1>3, <2>3, <3>1
    <3>3. QED BY <1>3, <3>2 DEF IsOpen
  <2>4. QED BY <2>2, <2>3
<1>6. BatchInv /\ ContextCorrelates
  BY <1>2 DEF BatchInv, ContextCorrelates
<1> QED BY <1>4, <1>5, <1>6 DEF HistoryInv

-----------------------------------------------------------------------------
(* The model half: the metrics that are derived of the trace *)

ModelSpans(s) == SpansOf(s, "model_call_span")
ToolSpans(s) == SpansOf(s, "tool_call_span")
Rank(s, i) == Cardinality(UpTo(ModelSpans(s), i))
FreshSpan == Span("model_call_span", <<"modelName">>)

MetadataEntry == [key : Whitelist, value : Nat, bytes : Nat]
SpanRecord == [type : {"run_span", "model_call_span", "tool_call_span"}, ended : BOOLEAN,
               metadata : Seq(MetadataEntry)]

(* The tokens of the rounds b + 1 to b + k *)
Paid(b, k) == (b + k) * (b + k + 1) - b * (b + 1)

LEMMA PaidNext ==
    ASSUME NEW b \in Nat, NEW k \in Nat
    PROVE  Paid(b, k) \in Int /\ Paid(b, 0) = 0 /\ Paid(b, k + 1) = Paid(b, k) + 2 * (b + k + 1)
<1>1. PICK x \in Nat : x = b + k
  OBVIOUS
<1>2. x * (x + 1) \in Int /\ b * (b + 1) \in Int /\ (x + 1) * (x + 2) = x * (x + 1) + 2 * (x + 1)
  OBVIOUS
<1>3. (b + (k + 1)) = x + 1 /\ (b + (k + 1)) + 1 = x + 2
  BY <1>1
<1>4. Paid(b, k + 1) = (x + 1) * (x + 2) - b * (b + 1)
  BY <1>3 DEF Paid
<1>5. Paid(b, k) = x * (x + 1) - b * (b + 1)
  BY <1>1 DEF Paid
<1>6. b + 0 = b /\ (b + 0) * ((b + 0) + 1) = b * (b + 1)
  OBVIOUS
<1>7. Paid(b, 0) = 0
  BY <1>2, <1>6 DEF Paid
<1> QED BY <1>1, <1>2, <1>4, <1>5, <1>7

LEMMA RankEnds ==
    ASSUME NEW n \in Nat, NEW S \in SUBSET (1 .. n)
    PROVE  Cardinality(UpTo(S, 0)) = 0 /\ Cardinality(UpTo(S, n)) = Cardinality(S)
<1>1. ASSUME NEW j \in S PROVE j <= n /\ ~(j <= 0)
  OBVIOUS
<1>2. \A j : (j \in UpTo(S, n) <=> j \in S) /\ j \notin UpTo(S, 0)
  BY <1>1, InUpTo
<1>3. UpTo(S, n) = S /\ UpTo(S, 0) = {}
  BY ONLY <1>2
<1> QED BY <1>3, FS_EmptySet

LEMMA RankNext ==
    ASSUME NEW n \in Nat, NEW S \in SUBSET (1 .. n), NEW i \in 1 .. n
    PROVE  Cardinality(UpTo(S, i)) =
              IF i \in S THEN Cardinality(UpTo(S, i - 1)) + 1 ELSE Cardinality(UpTo(S, i - 1))
<1>1. ASSUME NEW j \in S PROVE j \in Int /\ 1 <= j /\ j <= n
  OBVIOUS
<1>2. IsFiniteSet(UpTo(S, i - 1))
  BY UpToSize
<1>3. CASE i \in S
  <2>1. ASSUME NEW j \in S PROVE j <= i <=> (j <= i - 1 \/ j = i)
    BY <1>1
  <2>2. i <= i /\ ~(i <= i - 1)
    OBVIOUS
  <2>3. ASSUME NEW j PROVE j \in UpTo(S, i) <=> j \in UpTo(S, i - 1) \cup {i}
    <3>1. CASE j \in S
      BY <2>1, <3>1, InUpTo
    <3>2. CASE j \notin S
      BY <1>3, <3>2, InUpTo
    <3>3. QED BY <3>1, <3>2
  <2>4. i \notin UpTo(S, i - 1)
    BY <2>2, InUpTo
  <2>5. UpTo(S, i) = UpTo(S, i - 1) \cup {i}
    BY ONLY <2>3
  <2>6. Cardinality(UpTo(S, i)) = Cardinality(UpTo(S, i - 1)) + 1
    BY <1>2, <2>4, <2>5, FS_AddElement
  <2>7. QED BY <1>3, <2>6
<1>4. CASE i \notin S
  <2>1. ASSUME NEW j \in S PROVE j <= i <=> j <= i - 1
    <3>1. j # i
      BY <1>4
    <3>2. QED BY <1>1, <3>1
  <2>2. ASSUME NEW j PROVE j \in UpTo(S, i) <=> j \in UpTo(S, i - 1)
    BY <2>1, InUpTo
  <2>3. UpTo(S, i) = UpTo(S, i - 1)
    BY ONLY <2>2
  <2>4. QED BY <1>4, <2>3
<1> QED BY <1>3, <1>4

(* Below a member the rank is less. *)
LEMMA RankLess ==
    ASSUME NEW n \in Nat, NEW S \in SUBSET (1 .. n), NEW i \in 1 .. n, NEW j \in S, i < j
    PROVE  Cardinality(UpTo(S, i)) < Cardinality(UpTo(S, j))
<1>1. ASSUME NEW k \in S PROVE k \in Int /\ (k <= i => k <= j /\ k # j)
  <2>1. k \in Int /\ j \in Int
    OBVIOUS
  <2>2. QED BY <2>1
<1>2. UpTo(S, i) \in SUBSET (UpTo(S, j) \ {j})
  <2>1. ASSUME NEW k \in UpTo(S, i) PROVE k \in UpTo(S, j) \ {j}
    BY <1>1, InUpTo
  <2>2. QED BY <2>1
<1>3. IsFiniteSet(UpTo(S, j)) /\ j \in UpTo(S, j)
  <2>1. j <= j
    OBVIOUS
  <2>2. j \in UpTo(S, j)
    BY <2>1, InUpTo
  <2>3. QED BY <2>2, UpToSize
<1>4. /\ IsFiniteSet(UpTo(S, j) \ {j})
      /\ Cardinality(UpTo(S, j) \ {j}) = Cardinality(UpTo(S, j)) - 1
  BY <1>3, FS_RemoveElement
<1>5. Cardinality(UpTo(S, i)) <= Cardinality(UpTo(S, j) \ {j})
  BY <1>2, <1>4, FS_Subset
<1>6. PICK a \in Nat, c \in Nat : a = Cardinality(UpTo(S, i)) /\ c = Cardinality(UpTo(S, j))
  BY UpToSize
<1> QED BY <1>4, <1>5, <1>6

(* Any function that satisfies the recursion is the sum. *)
LEMMA SumIs ==
    ASSUME NEW n \in Nat, NEW f, NEW g, NEW t, f[0] = g[0],
           \A i \in 1 .. n : f[i] = f[i - 1] + t[i] /\ g[i] = g[i - 1] + t[i]
    PROVE  f[n] = g[n]
<1> DEFINE T == {m \in 0 .. n : f[m] # g[m]}
<1>1. SUFFICES ASSUME T # {} PROVE FALSE
  OBVIOUS
<1>2. T \subseteq Nat
  OBVIOUS
<1>3. PICK m \in T : \A y \in T : m <= y
  <2> HIDE DEF T
  <2>1. QED BY <1>1, <1>2, LeastNumber
<1>4. m \in 0 .. n /\ f[m] # g[m]
  BY <1>3
<1>5. m \in 1 .. n /\ m - 1 \in 0 .. n /\ ~(m <= m - 1)
  BY <1>4
<1>6. f[m - 1] = g[m - 1]
  BY <1>3, <1>5
<1>7. f[m] = f[m - 1] + t[m] /\ g[m] = g[m - 1] + t[m]
  BY <1>5
<1> QED BY <1>4, <1>6, <1>7

(* The tokens are those of the first p model spans, one round each. *)
LEMMA TotalIs ==
    ASSUME NEW n \in Nat, NEW records, Len(records) = n, NEW S \in SUBSET (1 .. n),
           NEW b \in Nat, NEW p \in Nat, p <= Cardinality(S),
           \A i \in 1 .. n : TokensOf(records[i]) =
              IF i \in S /\ Cardinality(UpTo(S, i)) <= p THEN 2 * (b + Cardinality(UpTo(S, i))) ELSE 0
    PROVE  TotalTokens(records) = Paid(b, p)
<1> DEFINE Low(k) == IF k <= p THEN k ELSE p
           rank == [i \in 0 .. n |-> Cardinality(UpTo(S, i))]
           t == [i \in 1 .. n |-> TokensOf(records[i])]
           g == [i \in 0 .. n |-> Paid(b, Low(rank[i]))]
           Sums(f) == f = [i \in 0 .. Len(records) |->
                              IF i = 0 THEN 0 ELSE f[i - 1] + TokensOf(records[i])]
<1>1. rank \in [0 .. n -> Nat] /\ rank[0] = 0 /\ rank[n] = Cardinality(S)
  <2>1. \A i \in 0 .. n : Cardinality(UpTo(S, i)) \in Nat
    BY UpToSize
  <2>2. Cardinality(UpTo(S, 0)) = 0 /\ Cardinality(UpTo(S, n)) = Cardinality(S)
    BY RankEnds
  <2>3. QED BY <2>1, <2>2
<1>2. ASSUME NEW i \in 1 .. n
      PROVE  /\ i - 1 \in 0 .. n /\ i \in 0 .. n
             /\ rank[i] = IF i \in S THEN rank[i - 1] + 1 ELSE rank[i - 1]
             /\ t[i] = IF i \in S /\ rank[i] <= p THEN 2 * (b + rank[i]) ELSE 0
  BY RankNext
<1> HIDE DEF rank, t
<1>3. ASSUME NEW k \in Nat PROVE Low(k) \in Nat
  OBVIOUS
<1>4. g[0] = 0 /\ g[n] = Paid(b, p)
  <2>1. Low(0) = 0
    OBVIOUS
  <2>2. Low(rank[n]) = p
    BY <1>1
  <2>3. g[0] = Paid(b, 0) /\ g[n] = Paid(b, p)
    BY <1>1, <2>1, <2>2
  <2>4. Paid(b, 0) = 0
    BY PaidNext
  <2>5. QED BY <2>3, <2>4
<1>5. ASSUME NEW i \in 1 .. n PROVE g[i] = g[i - 1] + t[i]
  <2>1. PICK k \in Nat : k = rank[i - 1]
    BY <1>1, <1>2
  <2>2. Paid(b, k) \in Int /\ Paid(b, p) \in Int
    BY PaidNext
  <2>3. g[i] = Paid(b, Low(rank[i])) /\ g[i - 1] = Paid(b, Low(k))
    BY <1>2, <2>1
  <2>4. CASE i \notin S
    BY <1>2, <2>1, <2>2, <2>3, <2>4
  <2>5. CASE i \in S /\ k + 1 <= p
    <3>1. Low(k) = k /\ Low(k + 1) = k + 1 /\ rank[i] = k + 1 /\ t[i] = 2 * (b + (k + 1))
      BY <1>2, <2>1, <2>5
    <3>2. Paid(b, k + 1) = Paid(b, k) + 2 * (b + k + 1)
      BY PaidNext
    <3>3. QED BY <2>3, <3>1, <3>2
  <2>6. CASE i \in S /\ ~(k + 1 <= p)
    <3>1. Low(k) = p /\ Low(k + 1) = p /\ rank[i] = k + 1 /\ t[i] = 0
      BY <1>2, <2>1, <2>6
    <3>2. QED BY <2>2, <2>3, <3>1
  <2>7. QED BY <2>4, <2>5, <2>6
<1>6. DOMAIN g = 0 .. n /\ g = [i \in 0 .. n |-> g[i]]
  OBVIOUS
<1> HIDE DEF g
<1>7. \A i \in 1 .. n : t[i] = TokensOf(records[i])
  BY DEF t
<1>8. Sums(g)
  <2>1. ASSUME NEW i \in 0 .. n PROVE g[i] = IF i = 0 THEN 0 ELSE g[i - 1] + TokensOf(records[i])
    <3>1. CASE i = 0
      BY <1>4, <3>1
    <3>2. CASE i # 0
      <4>1. i \in 1 .. n
        BY <3>2
      <4>2. QED BY <1>5, <1>7, <3>2, <4>1
    <3>3. QED BY <3>1, <3>2
  <2>2. g = [i \in 0 .. n |-> IF i = 0 THEN 0 ELSE g[i - 1] + TokensOf(records[i])]
    BY <1>6, <2>1
  <2>3. QED BY <2>2
<1>9. TotalTokens(records) = (CHOOSE f : Sums(f))[Len(records)]
  BY Zenon DEF TotalTokens
<1>10. PICK f : Sums(f) /\ f = (CHOOSE h : Sums(h))
  <2> HIDE DEF Sums
  <2>1. QED BY <1>8
<1>11. f[0] = 0 /\ \A i \in 1 .. n : f[i] = f[i - 1] + t[i]
  <2>1. f = [i \in 0 .. n |-> IF i = 0 THEN 0 ELSE f[i - 1] + TokensOf(records[i])]
    BY <1>10
  <2>2. ASSUME NEW i \in 1 .. n PROVE f[i] = f[i - 1] + t[i]
    <3>1. i # 0 /\ i \in 0 .. n
      OBVIOUS
    <3>2. f[i] = f[i - 1] + TokensOf(records[i])
      BY <2>1, <3>1
    <3>3. QED BY <1>7, <3>2
  <2>3. f[0] = 0
    BY <2>1
  <2>4. QED BY <2>2, <2>3
<1>12. f[n] = g[n]
  <2>1. \A i \in 1 .. n : f[i] = f[i - 1] + t[i] /\ g[i] = g[i - 1] + t[i]
    BY <1>5, <1>11
  <2>2. f[0] = g[0] /\ n \in Nat
    BY <1>4, <1>11
  <2>3. PICK h, w : h = g /\ w = t
    OBVIOUS
  <2>4. f[0] = h[0] /\ \A i \in 1 .. n : f[i] = f[i - 1] + w[i] /\ h[i] = h[i - 1] + w[i]
    BY ONLY <2>1, <2>2, <2>3
  <2>5. f[n] = h[n]
    BY ONLY n \in Nat, <2>4, SumIs
  <2>6. QED BY <2>3, <2>5
<1> QED BY <1>4, <1>9, <1>10, <1>12

LEMMA Joined == ASSUME NEW p, NEW q, NEW r PROVE <<p>> \o <<q, r>> = <<p, q, r>>
<1> DEFINE S == {p, q, r}
<1>1. <<p>> \in Seq(S) /\ <<q, r>> \in Seq(S) /\ <<p, q, r>> \in Seq(S)
  OBVIOUS
<1>2. <<p>> \o <<q, r>> \in Seq(S) /\ Len(<<p>> \o <<q, r>>) = 3
  BY <1>1
<1>3. \A i \in 1 .. 3 : (<<p>> \o <<q, r>>)[i] = <<p, q, r>>[i]
  BY <1>1
<1>4. Len(<<p, q, r>>) = 3
  OBVIOUS
<1> QED BY <1>1, <1>2, <1>3, <1>4, SeqEqual

LEMMA SpanIs ==
    ASSUME NEW type \in {"run_span", "model_call_span", "tool_call_span"}, NEW keys,
           keys \in Seq(Whitelist \ {"promptTokens", "completionTokens"})
    PROVE  /\ Span(type, keys) \in SpanRecord /\ Span(type, keys).type = type
           /\ ~Span(type, keys).ended /\ TokensOf(Span(type, keys)) = 0
<1> DEFINE m == [i \in DOMAIN keys |-> [key |-> keys[i], value |-> 0, bytes |-> 1]]
<1>1. m \in Seq(MetadataEntry) /\ \A i \in DOMAIN m : m[i].key \notin {"promptTokens", "completionTokens"}
  <2>1. PICK n \in Nat : n = Len(keys) /\ DOMAIN keys = 1 .. n
    OBVIOUS
  <2>2. ASSUME NEW i \in 1 .. n PROVE keys[i] \in Whitelist \ {"promptTokens", "completionTokens"}
    BY <2>1
  <2>3. ASSUME NEW i \in 1 .. n PROVE m[i] \in MetadataEntry /\ m[i].key = keys[i]
    BY <2>1, <2>2 DEF MetadataEntry
  <2>4. m = [i \in 1 .. n |-> m[i]] /\ DOMAIN m = 1 .. n
    BY <2>1
  <2> HIDE DEF m
  <2>5. m \in Seq(MetadataEntry)
    BY <2>3, <2>4
  <2>6. QED BY <2>2, <2>3, <2>4, <2>5
<1>2. Span(type, keys) = [type |-> type, ended |-> FALSE, metadata |-> m]
  BY DEF Span
<1> HIDE DEF m
<1>3. ValueAt(m, "promptTokens") = 0 /\ ValueAt(m, "completionTokens") = 0
  BY <1>1 DEF ValueAt
<1>4. Span(type, keys).metadata = m
  BY <1>2
<1>5. TokensOf(Span(type, keys)) = 0
  BY <1>3, <1>4 DEF TokensOf
<1> QED BY <1>1, <1>2, <1>5 DEF SpanRecord

LEMMA EndedIs ==
    ASSUME NEW x \in SpanRecord
    PROVE  /\ EndSpan(x) \in SpanRecord /\ EndSpan(x).type = x.type /\ EndSpan(x).ended
           /\ TokensOf(EndSpan(x)) = TokensOf(x)
BY DEF EndSpan, SpanRecord, TokensOf

LEMMA RecordIs ==
    ASSUME NEW x \in SpanRecord
    PROVE  ToRecord(x) = x
<1>1. x.metadata \in Seq(MetadataEntry)
  BY DEF SpanRecord
<1>2. PICK n \in Nat : DOMAIN x.metadata = 1 .. n
  BY <1>1
<1>3. ASSUME NEW i \in 1 .. n PROVE x.metadata[i].key \in Whitelist
  <2>1. x.metadata[i] \in MetadataEntry
    BY <1>1, <1>2
  <2>2. QED BY <2>1 DEF MetadataEntry
<1>4. x.metadata = [i \in 1 .. n |-> x.metadata[i]]
  BY <1>1, <1>2
<1>5. BoundMetadata(x.metadata) = x.metadata
  BY <1>2, <1>3, <1>4 DEF BoundMetadata
<1>6. x = [type |-> x.type, ended |-> x.ended, metadata |-> x.metadata]
  BY DEF SpanRecord
<1> QED BY <1>5, <1>6 DEF ToRecord

LEMMA FreshIs ==
    /\ FreshSpan \in SpanRecord /\ FreshSpan.type = "model_call_span"
    /\ ~FreshSpan.ended /\ TokensOf(FreshSpan) = 0
    /\ FreshSpan.metadata = <<[key |-> "modelName", value |-> 0, bytes |-> 1]>>
<1>1. <<"modelName">> \in Seq(Whitelist \ {"promptTokens", "completionTokens"})
  BY DEF Whitelist
<1>2. FreshSpan.metadata = <<[key |-> "modelName", value |-> 0, bytes |-> 1]>>
  BY DEF FreshSpan, Span
<1> QED BY <1>1, <1>2, SpanIs DEF FreshSpan

(* A span takes the tokens of its round once. *)
LEMMA PaidIs ==
    ASSUME NEW u \in Nat
    PROVE  /\ EndSpan(AddTokens(FreshSpan, u)) \in SpanRecord
           /\ EndSpan(AddTokens(FreshSpan, u)).type = "model_call_span"
           /\ EndSpan(AddTokens(FreshSpan, u)).ended
           /\ TokensOf(EndSpan(AddTokens(FreshSpan, u))) = 2 * u
<1> DEFINE e(k, v) == [key |-> k, value |-> v, bytes |-> 1]
           two == <<e("promptTokens", u), e("completionTokens", u)>>
           m == <<e("modelName", 0), e("promptTokens", u), e("completionTokens", u)>>
           x == AddTokens(FreshSpan, u)
<1>1. FreshSpan.metadata \o two = m
  <2>1. FreshSpan.metadata = <<e("modelName", 0)>>
    BY FreshIs
  <2>2. <<e("modelName", 0)>> \o <<e("promptTokens", u), e("completionTokens", u)>> = m
    BY Joined, Zenon
  <2>3. QED BY <2>1, <2>2, Zenon
<1>2. m \in Seq(MetadataEntry)
  BY DEF MetadataEntry, Whitelist
<1>3. ValueAt(m, "promptTokens") = u
  <2>1. DOMAIN m = 1 .. 3 /\ \A i \in 1 .. 3 : m[i].key = "promptTokens" <=> i = 2
    OBVIOUS
  <2>2. m[2].value = u
    OBVIOUS
  <2> HIDE DEF m
  <2>3. (CHOOSE i \in DOMAIN m : m[i].key = "promptTokens") = 2
    BY <2>1
  <2>4. QED BY <2>1, <2>2, <2>3 DEF ValueAt
<1>4. ValueAt(m, "completionTokens") = u
  <2>1. DOMAIN m = 1 .. 3 /\ \A i \in 1 .. 3 : m[i].key = "completionTokens" <=> i = 3
    OBVIOUS
  <2>2. m[3].value = u
    OBVIOUS
  <2> HIDE DEF m
  <2>3. (CHOOSE i \in DOMAIN m : m[i].key = "completionTokens") = 3
    BY <2>1
  <2>4. QED BY <2>1, <2>2, <2>3 DEF ValueAt
<1>5. x = [FreshSpan EXCEPT !.metadata = m]
  BY <1>1, Zenon DEF AddTokens
<1> HIDE DEF m, x
<1>6. x \in SpanRecord /\ x.type = "model_call_span" /\ x.metadata = m
  BY <1>2, <1>5, FreshIs DEF SpanRecord
<1>7. TokensOf(x) = u + u
  BY <1>3, <1>4, <1>6 DEF TokensOf
<1>8. EndSpan(x) \in SpanRecord /\ EndSpan(x).type = "model_call_span" /\ EndSpan(x).ended
      /\ TokensOf(EndSpan(x)) = 2 * u
  BY <1>6, <1>7, EndedIs
<1> QED BY <1>8 DEF x

(* The spans of a run that has made r - b model calls and t tool calls; in *)
(* a model call the last span is the one of the call.                      *)
SpansOk(s, b, r, t, calling) ==
    /\ s \in Seq(SpanRecord) /\ b \in Nat /\ r \in Nat /\ t \in Nat /\ b <= r
    /\ Cardinality(ModelSpans(s)) = r - b /\ Cardinality(ToolSpans(s)) = t
    /\ \A i \in ModelSpans(s) : s[i].ended \/ (calling /\ i = Len(s))
    /\ calling => b < r /\ s # <<>> /\ s[Len(s)] = FreshSpan

(* The first p of the model calls have the tokens of their rounds. *)
PaysOk(s, b, p) ==
    \A i \in 1 .. Len(s) : TokensOf(s[i]) =
        IF i \in ModelSpans(s) /\ Rank(s, i) <= p THEN 2 * (b + Rank(s, i)) ELSE 0

LEMMA SpansAre ==
    ASSUME NEW s, s \in Seq(SpanRecord)
    PROVE  /\ Len(s) \in Nat /\ DOMAIN s = 1 .. Len(s)
           /\ \A i \in 1 .. Len(s) : s[i] \in SpanRecord
           /\ \A type : SpansOf(s, type) \in SUBSET (1 .. Len(s))
           /\ \A type, i : i \in SpansOf(s, type) <=> i \in 1 .. Len(s) /\ s[i].type = type
           /\ \A type : Cardinality(SpansOf(s, type)) \in Nat /\ IsFiniteSet(SpansOf(s, type))
           /\ \A i : Rank(s, i) \in Nat
<1>1. Len(s) \in Nat /\ DOMAIN s = 1 .. Len(s)
  OBVIOUS
<1>2. \A i \in 1 .. Len(s) : s[i] \in SpanRecord
  BY <1>1
<1>3. \A type, i : i \in SpansOf(s, type) <=> i \in 1 .. Len(s) /\ s[i].type = type
  BY <1>1 DEF SpansOf
<1>4. \A type : SpansOf(s, type) \in SUBSET (1 .. Len(s))
  BY <1>3
<1>5. ASSUME NEW type PROVE Cardinality(SpansOf(s, type)) \in Nat /\ IsFiniteSet(SpansOf(s, type))
  BY <1>1, <1>4, UpToSize
<1>6. \A i : Rank(s, i) \in Nat
  BY <1>1, <1>4, UpToSize DEF Rank, ModelSpans
<1> QED BY <1>1, <1>2, <1>3, <1>4, <1>5, <1>6

(* Another span: what was there keeps its rank. *)
LEMMA SpanAdded ==
    ASSUME NEW s, s \in Seq(SpanRecord), NEW x \in SpanRecord, NEW n \in Nat, n = Len(s)
    PROVE  /\ Append(s, x) \in Seq(SpanRecord) /\ Len(Append(s, x)) = n + 1
           /\ \A i \in 1 .. n : Append(s, x)[i] = s[i]
           /\ Append(s, x)[n + 1] = x
           /\ \A type : SpansOf(Append(s, x), type) =
                 IF x.type = type THEN SpansOf(s, type) \cup {n + 1} ELSE SpansOf(s, type)
           /\ \A type : Cardinality(SpansOf(Append(s, x), type)) =
                 Cardinality(SpansOf(s, type)) + (IF x.type = type THEN 1 ELSE 0)
           /\ \A i \in 1 .. n : Rank(Append(s, x), i) = Rank(s, i)
           /\ Rank(Append(s, x), n + 1) = Cardinality(ModelSpans(Append(s, x)))
<1> DEFINE more == Append(s, x)
<1>1. /\ more \in Seq(SpanRecord) /\ Len(more) = n + 1 /\ more[n + 1] = x
      /\ \A i \in 1 .. n : more[i] = s[i]
  BY AppendProperties
<1> SUFFICES /\ \A type : SpansOf(more, type) =
                  IF x.type = type THEN SpansOf(s, type) \cup {n + 1} ELSE SpansOf(s, type)
             /\ \A type : Cardinality(SpansOf(more, type)) =
                  Cardinality(SpansOf(s, type)) + (IF x.type = type THEN 1 ELSE 0)
             /\ \A i \in 1 .. n : Rank(more, i) = Rank(s, i)
             /\ Rank(more, n + 1) = Cardinality(ModelSpans(more))
  BY <1>1
<1> HIDE DEF more
<1>2. ASSUME NEW i PROVE i \in 1 .. n + 1 <=> (i \in 1 .. n \/ i = n + 1)
  OBVIOUS
<1>3. ASSUME NEW type
      PROVE  SpansOf(more, type) = IF x.type = type THEN SpansOf(s, type) \cup {n + 1} ELSE SpansOf(s, type)
  <2>1. \A i : i \in SpansOf(more, type) <=> i \in 1 .. n + 1 /\ more[i].type = type
    BY <1>1, SpansAre
  <2>2. \A i : i \in SpansOf(s, type) <=> i \in 1 .. n /\ s[i].type = type
    BY SpansAre
  <2>3. ASSUME NEW i
        PROVE  i \in SpansOf(more, type) <=>
                  i \in (IF x.type = type THEN SpansOf(s, type) \cup {n + 1} ELSE SpansOf(s, type))
    <3>1. CASE i \in 1 .. n
      <4>1. i # n + 1
        BY <3>1
      <4>2. QED BY <1>1, <1>2, <2>1, <2>2, <3>1, <4>1
    <3>2. CASE i \notin 1 .. n
      BY <1>1, <1>2, <2>1, <2>2, <3>2
    <3>3. QED BY <3>1, <3>2
  <2>4. QED BY ONLY <2>3
<1>4. ASSUME NEW type
      PROVE  Cardinality(SpansOf(more, type)) =
                Cardinality(SpansOf(s, type)) + (IF x.type = type THEN 1 ELSE 0)
  <2>1. n + 1 \notin SpansOf(s, type) /\ IsFiniteSet(SpansOf(s, type))
        /\ Cardinality(SpansOf(s, type)) \in Nat
    <3>1. n + 1 \notin 1 .. n
      OBVIOUS
    <3>2. QED BY <3>1, SpansAre
  <2>2. QED BY <1>3, <2>1, FS_AddElement
<1>5. ASSUME NEW i \in 1 .. n PROVE Rank(more, i) = Rank(s, i)
  <2>1. ~(n + 1 <= i)
    OBVIOUS
  <2>2. ASSUME NEW j PROVE j \in UpTo(ModelSpans(more), i) <=> j \in UpTo(ModelSpans(s), i)
    BY <1>3, <2>1, InUpTo DEF ModelSpans
  <2>3. UpTo(ModelSpans(more), i) = UpTo(ModelSpans(s), i)
    BY ONLY <2>2
  <2>4. QED BY <2>3 DEF Rank
<1>6. Rank(more, n + 1) = Cardinality(ModelSpans(more))
  <2>1. n + 1 \in Nat /\ ModelSpans(more) \in SUBSET (1 .. n + 1)
    BY <1>1, SpansAre DEF ModelSpans
  <2>2. QED BY <2>1, RankEnds DEF Rank
<1> QED BY <1>3, <1>4, <1>5, <1>6

(* The last span changes and keeps its type. *)
LEMMA SpanChanged ==
    ASSUME NEW s, s \in Seq(SpanRecord), NEW n \in Nat, n = Len(s), n > 0,
           NEW x, x.type = s[n].type, NEW new, new \in Seq(SpanRecord), Len(new) = n,
           \A i \in 1 .. n : new[i] = IF i = n THEN x ELSE s[i]
    PROVE  /\ \A type : SpansOf(new, type) = SpansOf(s, type)
           /\ \A i : Rank(new, i) = Rank(s, i)
<1>1. /\ new \in Seq(SpanRecord) /\ Len(new) = n
      /\ \A i \in 1 .. n : new[i] = IF i = n THEN x ELSE s[i]
  OBVIOUS
<1>2. ASSUME NEW type PROVE SpansOf(new, type) = SpansOf(s, type)
  <2>1. ASSUME NEW i PROVE i \in SpansOf(new, type) <=> i \in SpansOf(s, type)
    <3>1. i \in SpansOf(new, type) <=> i \in 1 .. n /\ new[i].type = type
      BY ONLY <1>1, SpansAre
    <3>2. i \in SpansOf(s, type) <=> i \in 1 .. n /\ s[i].type = type
      BY SpansAre
    <3>3. QED BY <1>1, <3>1, <3>2
  <2>2. QED BY ONLY <2>1
<1>3. ASSUME NEW i PROVE Rank(new, i) = Rank(s, i)
  BY <1>2 DEF Rank, ModelSpans
<1> QED BY <1>2, <1>3

(* A run begins. *)
LEMMA TraceBegins ==
    ASSUME NEW b \in Nat
    PROVE  SpansOk(StartRunTrace, b, b, 0, FALSE) /\ PaysOk(StartRunTrace, b, 0)
<1> DEFINE root == Span("run_span", <<>>)
           s == <<root>>
<1>1. root \in SpanRecord /\ root.type = "run_span" /\ TokensOf(root) = 0
  <2>1. <<>> \in Seq(Whitelist \ {"promptTokens", "completionTokens"})
    BY EmptySeq
  <2>2. QED BY <2>1, SpanIs
<1> HIDE DEF root
<1>2. s \in Seq(SpanRecord) /\ Len(s) = 1 /\ s[1] = root
  BY <1>1
<1>3. StartRunTrace = s
  BY DEF StartRunTrace, root
<1> HIDE DEF s
<1>4. ModelSpans(s) = {} /\ ToolSpans(s) = {}
  <2>1. \A i : i \notin ModelSpans(s) /\ i \notin ToolSpans(s)
    <3>1. \A i \in 1 .. 1 : i = 1
      OBVIOUS
    <3>2. QED BY <1>1, <1>2, <3>1, SpansAre DEF ModelSpans, ToolSpans
  <2>2. QED BY ONLY <2>1
<1>5. SpansOk(s, b, b, 0, FALSE)
  BY <1>2, <1>4, FS_EmptySet DEF SpansOk
<1>6. PaysOk(s, b, 0)
  <2>1. \A i \in 1 .. 1 : i = 1
    OBVIOUS
  <2>2. QED BY <1>1, <1>2, <1>4, <2>1 DEF PaysOk
<1> QED BY <1>3, <1>5, <1>6

(* The model is called. *)
LEMMA TraceCalls ==
    ASSUME NEW s, NEW b, NEW r, NEW t, SpansOk(s, b, r, t, FALSE)
    PROVE  /\ SpansOk(StartModelCall(s), b, r + 1, t, TRUE)
           /\ PaysOk(s, b, r - b) => PaysOk(StartModelCall(s), b, r - b)
<1> DEFINE more == Append(s, FreshSpan)
<1>1. PICK n \in Nat : n = Len(s)
  BY SpansAre DEF SpansOk
<1>2. /\ s \in Seq(SpanRecord) /\ b \in Nat /\ r \in Nat /\ t \in Nat /\ b <= r
      /\ Cardinality(ModelSpans(s)) = r - b /\ Cardinality(ToolSpans(s)) = t
      /\ \A i \in ModelSpans(s) : s[i].ended
  BY DEF SpansOk
<1>3. /\ more \in Seq(SpanRecord) /\ Len(more) = n + 1
      /\ \A i \in 1 .. n : more[i] = s[i]
      /\ more[n + 1] = FreshSpan
      /\ ModelSpans(more) = ModelSpans(s) \cup {n + 1} /\ ToolSpans(more) = ToolSpans(s)
      /\ Cardinality(ModelSpans(more)) = Cardinality(ModelSpans(s)) + 1
      /\ \A i \in 1 .. n : Rank(more, i) = Rank(s, i)
      /\ Rank(more, n + 1) = Cardinality(ModelSpans(more))
  BY <1>1, <1>2, SpanAdded, FreshIs DEF ModelSpans, ToolSpans
<1>4. \A i \in ModelSpans(s) : i \in 1 .. n
  BY <1>1, <1>2, SpansAre DEF ModelSpans
<1>5. StartModelCall(s) = more
  BY DEF StartModelCall, FreshSpan
<1> HIDE DEF more
<1>6. SpansOk(more, b, r + 1, t, TRUE)
  <2>1. ASSUME NEW i \in ModelSpans(more) PROVE more[i].ended \/ i = Len(more)
    BY <1>2, <1>3, <1>4
  <2>2. more # <<>>
    BY <1>3
  <2>3. QED BY <1>2, <1>3, <2>1, <2>2 DEF SpansOk
<1>7. ASSUME PaysOk(s, b, r - b) PROVE PaysOk(more, b, r - b)
  <2>1. ASSUME NEW i \in 1 .. n
        PROVE  TokensOf(more[i]) =
                  IF i \in ModelSpans(more) /\ Rank(more, i) <= r - b THEN 2 * (b + Rank(more, i)) ELSE 0
    <3>1. i # n + 1
      OBVIOUS
    <3>2. i \in ModelSpans(more) <=> i \in ModelSpans(s)
      BY <1>3, <3>1
    <3>3. TokensOf(s[i]) = IF i \in ModelSpans(s) /\ Rank(s, i) <= r - b THEN 2 * (b + Rank(s, i)) ELSE 0
      BY <1>1, <1>7 DEF PaysOk
    <3>4. QED BY <1>3, <3>2, <3>3
  <2>2. ~(Rank(more, n + 1) <= r - b) /\ TokensOf(more[n + 1]) = 0
    BY <1>2, <1>3, FreshIs
  <2>3. \A i \in 1 .. n + 1 : i \in 1 .. n \/ i = n + 1
    OBVIOUS
  <2>4. QED BY <1>3, <2>1, <2>2, <2>3 DEF PaysOk
<1> QED BY <1>5, <1>6, <1>7

(* A tool is called. *)
LEMMA TraceTools ==
    ASSUME NEW s, NEW b, NEW r, NEW t, SpansOk(s, b, r, t, FALSE), NEW p,
           NEW x \in SpanRecord, x.type = "tool_call_span", TokensOf(x) = 0
    PROVE  /\ SpansOk(Append(s, x), b, r, t + 1, FALSE)
           /\ PaysOk(s, b, p) => PaysOk(Append(s, x), b, p)
<1> DEFINE more == Append(s, x)
<1>1. PICK n \in Nat : n = Len(s)
  BY SpansAre DEF SpansOk
<1>2. /\ s \in Seq(SpanRecord) /\ b \in Nat /\ r \in Nat /\ t \in Nat /\ b <= r
      /\ Cardinality(ModelSpans(s)) = r - b /\ Cardinality(ToolSpans(s)) = t
      /\ \A i \in ModelSpans(s) : s[i].ended
  BY DEF SpansOk
<1>3. /\ more \in Seq(SpanRecord) /\ Len(more) = n + 1
      /\ \A i \in 1 .. n : more[i] = s[i]
      /\ more[n + 1] = x
      /\ ModelSpans(more) = ModelSpans(s)
      /\ Cardinality(ToolSpans(more)) = Cardinality(ToolSpans(s)) + 1
      /\ \A i \in 1 .. n : Rank(more, i) = Rank(s, i)
  BY <1>1, <1>2, SpanAdded DEF ModelSpans, ToolSpans
<1>4. \A i \in ModelSpans(s) : i \in 1 .. n
  BY <1>1, <1>2, SpansAre DEF ModelSpans
<1> HIDE DEF more
<1>5. SpansOk(more, b, r, t + 1, FALSE)
  <2>1. ASSUME NEW i \in ModelSpans(more) PROVE more[i].ended
    BY <1>2, <1>3, <1>4
  <2>2. QED BY <1>2, <1>3, <2>1 DEF SpansOk
<1>6. ASSUME PaysOk(s, b, p) PROVE PaysOk(more, b, p)
  <2>1. ASSUME NEW i \in 1 .. n
        PROVE  TokensOf(more[i]) =
                  IF i \in ModelSpans(more) /\ Rank(more, i) <= p THEN 2 * (b + Rank(more, i)) ELSE 0
    <3>1. TokensOf(s[i]) = IF i \in ModelSpans(s) /\ Rank(s, i) <= p THEN 2 * (b + Rank(s, i)) ELSE 0
      BY <1>1, <1>6 DEF PaysOk
    <3>2. QED BY <1>3, <3>1
  <2>2. n + 1 \notin ModelSpans(more) /\ TokensOf(more[n + 1]) = 0
    <3>1. n + 1 \notin 1 .. n
      OBVIOUS
    <3>2. QED BY <1>3, <1>4, <3>1
  <2>3. \A i \in 1 .. n + 1 : i \in 1 .. n \/ i = n + 1
    OBVIOUS
  <2>4. QED BY <1>3, <2>1, <2>2, <2>3 DEF PaysOk
<1> QED BY <1>5, <1>6 DEF more

(* The call of the model is over, paid for or not. *)
LEMMA TraceEnds ==
    ASSUME NEW s, NEW b, NEW r, NEW t, SpansOk(s, b, r, t, TRUE), NEW n, n = Len(s),
           NEW x \in SpanRecord, x.type = "model_call_span", x.ended
    PROVE  /\ n \in Nat /\ n > 0 /\ s[n] = FreshSpan
           /\ SpansOk([s EXCEPT ![n] = x], b, r, t, FALSE)
           /\ PaysOk(s, b, r - b - 1) =>
                 /\ TokensOf(x) = 0 => PaysOk([s EXCEPT ![n] = x], b, r - b - 1)
                 /\ TokensOf(x) = 2 * r => PaysOk([s EXCEPT ![n] = x], b, r - b)
<1> DEFINE new == [s EXCEPT ![n] = x]
<1>1. /\ s \in Seq(SpanRecord) /\ b \in Nat /\ r \in Nat /\ t \in Nat /\ b < r
      /\ Cardinality(ModelSpans(s)) = r - b /\ Cardinality(ToolSpans(s)) = t
      /\ \A i \in ModelSpans(s) : s[i].ended \/ i = n
      /\ s # <<>> /\ s[n] = FreshSpan
  BY DEF SpansOk
<1>2. n \in Nat /\ n > 0 /\ n \in 1 .. n
  BY <1>1
<1>3. /\ new \in Seq(SpanRecord) /\ Len(new) = n
      /\ \A i \in 1 .. n : new[i] = IF i = n THEN x ELSE s[i]
      /\ ModelSpans(new) = ModelSpans(s) /\ ToolSpans(new) = ToolSpans(s)
      /\ \A i : Rank(new, i) = Rank(s, i)
  <2>1. x.type = s[n].type
    BY <1>1, FreshIs
  <2>2. /\ new \in Seq(SpanRecord) /\ Len(new) = n
        /\ \A i \in 1 .. n : new[i] = IF i = n THEN x ELSE s[i]
    BY <1>1, <1>2, ExceptSeq
  <2> HIDE DEF new
  <2>3. s \in Seq(SpanRecord) /\ n = Len(s)
    BY <1>1
  <2>4. /\ \A type : SpansOf(new, type) = SpansOf(s, type)
        /\ \A i : Rank(new, i) = Rank(s, i)
    BY ONLY <1>2, <2>1, <2>2, <2>3, SpanChanged
  <2>5. QED BY <2>2, <2>4 DEF ModelSpans, ToolSpans
<1>4. n \in ModelSpans(s) /\ ModelSpans(s) \in SUBSET (1 .. n) /\ \A i : Rank(s, i) \in Nat
  BY <1>1, <1>2, FreshIs, SpansAre DEF ModelSpans
<1>5. Rank(s, n) = r - b
  BY <1>1, <1>2, <1>4, RankEnds DEF Rank
<1>6. ASSUME NEW i \in 1 .. n, i # n PROVE Rank(s, i) < r - b
  <2>1. i < n
    BY <1>2, <1>6
  <2>2. QED BY <1>2, <1>4, <1>5, <2>1, RankLess DEF Rank
<1> HIDE DEF new
<1>7. SpansOk(new, b, r, t, FALSE)
  <2>1. ASSUME NEW i \in ModelSpans(new) PROVE new[i].ended
    <3>1. i \in 1 .. n
      BY <1>3, <1>4
    <3>2. QED BY <1>1, <1>3, <3>1
  <2>2. QED BY <1>1, <1>3, <2>1 DEF SpansOk
<1>8. ASSUME PaysOk(s, b, r - b - 1)
      PROVE  /\ TokensOf(x) = 0 => PaysOk(new, b, r - b - 1)
             /\ TokensOf(x) = 2 * r => PaysOk(new, b, r - b)
  <2>1. ASSUME NEW i \in 1 .. n, i # n
        PROVE  /\ Rank(new, i) <= r - b - 1 /\ Rank(new, i) <= r - b
               /\ TokensOf(new[i]) = IF i \in ModelSpans(new) THEN 2 * (b + Rank(new, i)) ELSE 0
    <3>1. Rank(s, i) <= r - b - 1 /\ Rank(s, i) <= r - b
      BY <1>1, <1>4, <1>6, <2>1
    <3>2. TokensOf(s[i]) = IF i \in ModelSpans(s) THEN 2 * (b + Rank(s, i)) ELSE 0
      BY <1>8, <3>1 DEF PaysOk
    <3>3. QED BY <1>3, <2>1, <3>1, <3>2
  <2>2. /\ new[n] = x /\ n \in ModelSpans(new) /\ Rank(new, n) = r - b
        /\ ~(r - b <= r - b - 1) /\ r - b <= r - b /\ 2 * (b + (r - b)) = 2 * r
    BY <1>1, <1>2, <1>3, <1>4, <1>5
  <2>3. QED BY <1>3, <2>1, <2>2 DEF PaysOk
<1> QED BY <1>1, <1>2, <1>7, <1>8 DEF new

(* What is derived of the records *)
LEMMA MetricsAre ==
    ASSUME NEW s, NEW b, NEW r, NEW t, SpansOk(s, b, r, t, FALSE), NEW p \in Nat, p <= r - b
    PROVE  LET metrics == DeriveRunMetrics(FinishTrace(s)) IN
           /\ metrics.modelCallCount = r - b /\ metrics.toolCallCount = t
           /\ metrics.timeToFirstToken <=> r > b
           /\ PaysOk(s, b, p) => metrics.totalTokens = Paid(b, p)
<1> DEFINE records == FinishTrace(s)
           models == ModelSpans(s)
<1>1. /\ s \in Seq(SpanRecord) /\ b \in Nat /\ r \in Nat /\ t \in Nat /\ b <= r
      /\ Cardinality(models) = r - b /\ Cardinality(ToolSpans(s)) = t
      /\ \A i \in models : s[i].ended
  BY DEF SpansOk
<1>2. PICK n \in Nat : n = Len(s) /\ DOMAIN s = 1 .. n /\ \A i \in 1 .. n : s[i] \in SpanRecord
  BY <1>1, SpansAre
<1>3. ASSUME NEW i \in 1 .. n
      PROVE  /\ records[i] \in SpanRecord /\ records[i].type = s[i].type
             /\ TokensOf(records[i]) = TokensOf(s[i])
             /\ s[i].ended => records[i].ended
  <2>1. records[i] = ToRecord(IF i = 1 THEN EndSpan(s[1]) ELSE s[i])
    BY <1>2 DEF FinishTrace
  <2>2. CASE i = 1
    BY <1>2, <2>1, <2>2, RecordIs, EndedIs
  <2>3. CASE i # 1
    BY <1>2, <2>1, <2>3, RecordIs
  <2>4. QED BY <2>2, <2>3
<1>4. records = [i \in 1 .. n |-> records[i]] /\ DOMAIN records = 1 .. n
  BY <1>2 DEF FinishTrace
<1> HIDE DEF records
<1>5. Len(records) = n
  BY <1>3, <1>4
<1>6. ASSUME NEW type PROVE SpansOf(records, type) = SpansOf(s, type)
  <2>1. ASSUME NEW i PROVE i \in SpansOf(records, type) <=> i \in SpansOf(s, type)
    BY <1>2, <1>3, <1>4 DEF SpansOf
  <2>2. QED BY ONLY <2>1
<1>7. models \in SUBSET (1 .. n) /\ IsFiniteSet(models)
  BY <1>1, <1>2, SpansAre DEF ModelSpans
<1> HIDE DEF models
<1>8. (\E i \in models : records[i].ended /\ \A j \in models : i <= j) <=> r > b
  <2>1. models = {} <=> Cardinality(models) = 0
    BY <1>7, FS_EmptySet
  <2>2. ASSUME models # {} PROVE \E i \in models : records[i].ended /\ \A j \in models : i <= j
    <3>1. models \subseteq Nat
      BY <1>7
    <3>2. PICK i \in models : \A j \in models : i <= j
      BY <2>2, <3>1, LeastNumber
    <3>3. i \in 1 .. n
      BY <1>7
    <3>4. QED BY <1>1, <1>3, <3>2, <3>3
  <2>3. models # {} <=> r > b
    BY <1>1, <2>1
  <2>4. QED BY <2>2, <2>3
<1>9. ASSUME PaysOk(s, b, p) PROVE TotalTokens(records) = Paid(b, p)
  <2>1. ASSUME NEW i \in 1 .. n
        PROVE  TokensOf(records[i]) =
                  IF i \in models /\ Cardinality(UpTo(models, i)) <= p
                  THEN 2 * (b + Cardinality(UpTo(models, i))) ELSE 0
    BY <1>2, <1>3, <1>9 DEF PaysOk, Rank, models
  <2>2. p <= Cardinality(models)
    BY <1>1
  <2>3. \A i \in 1 .. n : TokensOf(records[i]) =
           IF i \in models /\ Cardinality(UpTo(models, i)) <= p
           THEN 2 * (b + Cardinality(UpTo(models, i))) ELSE 0
    BY <2>1
  <2>4. b \in Nat /\ n \in Nat /\ p \in Nat
    BY <1>1
  <2>5. QED BY ONLY <1>5, <1>7, <2>2, <2>3, <2>4, TotalIs
<1>10. DeriveRunMetrics(records) =
         [modelCallCount |-> Cardinality(models), toolCallCount |-> Cardinality(ToolSpans(s)),
          timeToFirstToken |-> \E i \in models : records[i].ended /\ \A j \in models : i <= j,
          totalTokens |-> TotalTokens(records)]
  <2>1. SpansOf(records, "model_call_span") = models /\ SpansOf(records, "tool_call_span") = ToolSpans(s)
    BY <1>6 DEF models, ModelSpans, ToolSpans
  <2>2. QED BY <2>1, Zenon DEF DeriveRunMetrics
<1>11. /\ DeriveRunMetrics(records).modelCallCount = r - b
       /\ DeriveRunMetrics(records).toolCallCount = t
       /\ DeriveRunMetrics(records).totalTokens = TotalTokens(records)
  BY <1>1, <1>10
<1>12. DeriveRunMetrics(records).timeToFirstToken <=> r > b
  <2> DEFINE known == \E i \in models : records[i].ended /\ \A j \in models : i <= j
  <2>1. DeriveRunMetrics(records).timeToFirstToken = known
    BY <1>10
  <2>2. QED BY <1>8, <2>1, Zenon
<1> QED BY <1>9, <1>11, <1>12 DEF records

Calling == turn.pc \in {"stream", "ended"}
Owing == Calling \/ tally.threw
PaidRounds == IF Owing THEN rounds - tally.began - 1 ELSE rounds - tally.began

(* One finish chunk a call, and lastUsage is of its round *)
UsageInv ==
    /\ usage \in Nat /\ turn.finishes <= 1
    /\ turn.pc = "stream" => /\ turn.provider # "anthropic" => turn.finishes = 0
                             /\ turn.finishes > 0 => usage = rounds
    /\ turn.pc = "ended" => usage = rounds \/ (turn.cut /\ turn.provider = "anthropic")

TallyType == [began : Nat, tools : Nat, threw : BOOLEAN, cut : BOOLEAN]

SpansInv ==
    /\ tally \in TallyType
    /\ SpansOk(spans, tally.began, rounds, tally.tools, Calling)
    /\ Owing => tally.began < rounds
    /\ ~tally.cut => PaysOk(spans, tally.began, PaidRounds)
    /\ turn.pc # "idle" => trace = <<>> /\ ~tally.threw
    /\ trace # <<>> => trace = FinishTrace(spans)

TraceInv == UsageInv /\ SpansInv

LEMMA TraceInvMetrics == ASSUME TraceInv PROVE MetricsAreTheRuns
<1>1. turn.finishes <= 1
  BY DEF TraceInv, UsageInv
<1>2. SUFFICES ASSUME trace # <<>>
      PROVE  /\ DeriveRunMetrics(trace).modelCallCount = rounds - tally.began
             /\ DeriveRunMetrics(trace).toolCallCount = tally.tools
             /\ DeriveRunMetrics(trace).timeToFirstToken <=> rounds > tally.began
             /\ ~tally.cut => DeriveRunMetrics(trace).totalTokens =
                   LET to == IF tally.threw THEN rounds - 1 ELSE rounds IN
                   to * (to + 1) - tally.began * (tally.began + 1)
  BY <1>1, Zenon DEF MetricsAreTheRuns
<1>3. turn.pc = "idle" /\ trace = FinishTrace(spans)
  BY <1>2 DEF TraceInv, SpansInv
<1>4. Calling = FALSE /\ (Owing <=> tally.threw)
  BY <1>3 DEF Calling, Owing
<1>5. PICK b \in Nat, r \in Nat : b = tally.began /\ r = rounds /\ b <= r /\ (Owing => b < r)
  BY DEF TraceInv, SpansInv, SpansOk
<1>6. PICK p \in Nat : p = PaidRounds /\ p <= r - b
  BY <1>5 DEF PaidRounds
<1>7. SpansOk(spans, b, r, tally.tools, FALSE) /\ (~tally.cut => PaysOk(spans, b, p))
  BY <1>4, <1>5, <1>6 DEF TraceInv, SpansInv
<1>8. /\ DeriveRunMetrics(FinishTrace(spans)).modelCallCount = r - b
      /\ DeriveRunMetrics(FinishTrace(spans)).toolCallCount = tally.tools
      /\ DeriveRunMetrics(FinishTrace(spans)).timeToFirstToken <=> r > b
      /\ ~tally.cut => DeriveRunMetrics(FinishTrace(spans)).totalTokens = Paid(b, p)
  BY <1>6, <1>7, MetricsAre, Zenon
<1>9. b + p = IF tally.threw THEN rounds - 1 ELSE rounds
  BY <1>4, <1>5, <1>6 DEF PaidRounds
<1> QED BY <1>3, <1>5, <1>8, <1>9 DEF Paid

LEMMA TraceInit == ModelInit => TraceInv
<1> SUFFICES ASSUME ModelInit PROVE TraceInv
  OBVIOUS
<1>1. /\ turn.pc = "idle" /\ turn.finishes = 0 /\ rounds = 0 /\ usage = 0 /\ spans = <<>> /\ trace = <<>>
      /\ tally = [began |-> 0, tools |-> 0, threw |-> FALSE, cut |-> FALSE]
  BY DEF ModelInit, NoTurn, NoId
<1>2. ModelSpans(spans) = {} /\ ToolSpans(spans) = {} /\ spans \in Seq(SpanRecord) /\ Len(spans) = 0
  BY <1>1, EmptySeq DEF ModelSpans, ToolSpans, SpansOf
<1>3. SpansOk(spans, 0, 0, 0, FALSE)
  BY <1>2, FS_EmptySet DEF SpansOk
<1>4. \A p : PaysOk(spans, 0, p)
  BY <1>2 DEF PaysOk
<1>5. Calling = FALSE /\ ~Owing
  BY <1>1 DEF Calling, Owing
<1>6. UsageInv
  BY <1>1 DEF UsageInv
<1>7. /\ tally \in TallyType /\ tally.began = 0 /\ tally.tools = 0
  BY <1>1 DEF TallyType
<1>8. SpansInv
  BY <1>1, <1>3, <1>4, <1>5, <1>7 DEF SpansInv
<1> QED BY <1>6, <1>8 DEF TraceInv

(* While a call streams, its trace stands still. *)
LEMMA StreamKeepsSpans ==
    ASSUME SpansInv, turn.pc = "stream", turn'.pc \in {"stream", "ended"},
           UNCHANGED <<rounds, spans, trace, tally>>
    PROVE  SpansInv'
<1>1. Calling = TRUE /\ Calling' = TRUE /\ Owing /\ Owing'
  BY DEF Calling, Owing
<1>2. PaidRounds' = PaidRounds
  BY <1>1 DEF PaidRounds
<1> QED BY <1>1, <1>2 DEF SpansInv

LEMMA StreamKeepsTrace ==
    ASSUME TurnType, TraceInv,
           \/ Token \/ DeadlinePasses \/ GoogleCall \/ LocalCall
           \/ \E i \in DOMAIN turn.said.calls : OpenAIDelta(i) \/ BlockDelta(i) \/ BlockStop(i)
    PROVE  TraceInv'
<1>1. /\ turn.pc = "stream" /\ UNCHANGED <<usage, rounds, spans, trace, tally>>
      /\ turn'.pc = turn.pc /\ turn'.finishes = turn.finishes /\ turn'.provider = turn.provider
  BY DEF TurnType, TurnFields, Token, DeadlinePasses, GoogleCall, LocalCall, OpenAIDelta, BlockDelta,
         BlockStop, Is, Receive, KeepRest, traceVars, Streaming
<1>2. UsageInv'
  BY <1>1 DEF TraceInv, UsageInv
<1>3. SpansInv'
  BY <1>1, StreamKeepsSpans DEF TraceInv
<1> QED BY <1>2, <1>3 DEF TraceInv

LEMMA FinishKeepsTrace ==
    ASSUME TurnType, TraceInv, MessageDelta \/ AnthropicEnds \/ OpenAIEnds \/ GoogleEnds \/ LocalEnds
    PROVE  TraceInv'
<1>1. turn.pc = "stream" /\ rounds \in Nat /\ turn.finishes \in Nat
  BY DEF TurnType, MessageDelta, AnthropicEnds, OpenAIEnds, GoogleEnds, LocalEnds, Streaming
<1>2. UNCHANGED <<rounds, spans, trace, tally>>
  BY DEF MessageDelta, AnthropicEnds, OpenAIEnds, GoogleEnds, LocalEnds, Is, Finish, KeepRest, traceVars
<1>3. CASE AnthropicEnds
  <2>1. /\ usage' = usage /\ turn'.pc = "ended" /\ turn'.finishes = turn.finishes
        /\ turn'.provider = "anthropic" /\ (turn.finishes = 0 => turn'.cut)
    BY <1>3 DEF TurnType, TurnFields, AnthropicEnds, Is, Streaming
  <2>2. UsageInv'
    <3>1. usage' \in Nat /\ turn'.finishes <= 1 /\ (turn.finishes > 0 => usage' = rounds')
      BY <1>1, <1>2, <2>1 DEF TraceInv, UsageInv
    <3>2. CASE turn.finishes = 0
      BY <2>1, <3>1, <3>2 DEF UsageInv
    <3>3. CASE turn.finishes > 0
      BY <2>1, <3>1, <3>3 DEF UsageInv
    <3>4. QED BY <1>1, <3>2, <3>3
  <2>3. QED BY <1>1, <1>2, <2>1, <2>2, StreamKeepsSpans DEF TraceInv
<1>4. CASE MessageDelta \/ OpenAIEnds \/ GoogleEnds \/ LocalEnds
  <2>1. usage' = rounds /\ turn'.finishes = turn.finishes + 1
    BY <1>4 DEF TurnType, TurnFields, MessageDelta, OpenAIEnds, GoogleEnds, LocalEnds, Finish
  <2>2. turn'.pc = "ended" \/ (turn'.pc = "stream" /\ turn'.provider = "anthropic")
    BY <1>4 DEF TurnType, TurnFields, MessageDelta, OpenAIEnds, GoogleEnds, LocalEnds, Finish, Streaming
  <2>3. turn.finishes = 0
    BY <1>1, <1>4 DEF TraceInv, UsageInv, MessageDelta, OpenAIEnds, GoogleEnds, LocalEnds, Streaming
  <2>4. UsageInv'
    BY <1>1, <1>2, <2>1, <2>2, <2>3 DEF UsageInv
  <2>5. QED BY <1>1, <1>2, <2>2, <2>4, StreamKeepsSpans DEF TraceInv
<1> QED BY <1>3, <1>4

(* What is to show of a step to a state that is in no model call *)
LEMMA Between ==
    ASSUME usage' \in Nat, turn'.finishes <= 1, turn'.pc \in {"idle", "ready", "tools"},
           tally' \in TallyType, SpansOk(spans', tally'.began, rounds', tally'.tools, FALSE),
           tally'.threw => tally'.began < rounds' /\ turn'.pc = "idle",
           ~tally'.cut => PaysOk(spans', tally'.began,
                IF tally'.threw THEN rounds' - tally'.began - 1 ELSE rounds' - tally'.began),
           trace' = <<>> \/ (turn'.pc = "idle" /\ trace' = FinishTrace(spans'))
    PROVE  TraceInv'
<1>1. UsageInv'
  BY DEF UsageInv
<1>2. Calling' = FALSE /\ (Owing' <=> tally'.threw)
  BY DEF Calling, Owing
<1>3. PaidRounds' = IF tally'.threw THEN rounds' - tally'.began - 1 ELSE rounds' - tally'.began
  BY <1>2 DEF PaidRounds
<1>4. SpansInv'
  BY <1>2, <1>3 DEF SpansInv
<1> QED BY <1>1, <1>4 DEF TraceInv

LEMMA StartRunKeepsTrace ==
    ASSUME TurnType, TraceInv, NEW m \in Models, NEW memory, StartRun(m, memory)
    PROVE  TraceInv'
<1>1. /\ rounds \in Nat /\ rounds' = rounds /\ usage' = 0 /\ turn'.pc = "ready" /\ turn'.finishes = 0
      /\ tally' = [began |-> rounds, tools |-> 0, threw |-> FALSE, cut |-> FALSE]
      /\ spans' = StartRunTrace /\ trace' = <<>>
  BY DEF TurnType, StartRun, NoTurn, NoId
<1>2. /\ tally' \in TallyType /\ tally'.began = rounds /\ tally'.tools = 0 /\ ~tally'.threw
  BY <1>1 DEF TallyType
<1>3. SpansOk(spans', rounds, rounds, 0, FALSE) /\ PaysOk(spans', rounds, rounds - rounds)
  <2>1. rounds - rounds = 0
    BY <1>1
  <2>2. QED BY <1>1, <2>1, TraceBegins
<1> QED BY <1>1, <1>2, <1>3, Between

LEMMA CallModelKeepsTrace ==
    ASSUME TraceInv, NEW said, CallModel(said)
    PROVE  TraceInv'
<1>1. /\ turn.pc = "ready" /\ rounds' = rounds + 1 /\ spans' = StartModelCall(spans)
      /\ usage' = usage /\ trace' = trace /\ tally' = tally
      /\ turn'.pc = "stream" /\ turn'.finishes = 0
  BY DEF CallModel, NoTurn
<1>2. Calling = FALSE /\ ~Owing /\ Calling' = TRUE /\ Owing'
  BY <1>1 DEF TraceInv, SpansInv, Calling, Owing
<1>3. PICK b \in Nat, r \in Nat, t \in Nat : /\ b = tally.began /\ r = rounds /\ t = tally.tools /\ b <= r
                                            /\ tally \in TallyType
  BY DEF TraceInv, SpansInv, SpansOk
<1>4. SpansOk(spans, b, r, t, FALSE) /\ (~tally.cut => PaysOk(spans, b, r - b))
  BY <1>2, <1>3 DEF TraceInv, SpansInv, PaidRounds
<1>5. SpansOk(spans', b, r + 1, t, TRUE) /\ (~tally.cut => PaysOk(spans', b, r - b))
  BY <1>1, <1>4, TraceCalls
<1>6. UsageInv'
  BY <1>1 DEF TraceInv, UsageInv
<1>7. PaidRounds' = r - b
  BY <1>1, <1>2, <1>3 DEF PaidRounds
<1>8. tally'.began = b /\ tally'.tools = t /\ rounds' = r + 1 /\ tally'.began < rounds' /\ tally' \in TallyType
  BY <1>1, <1>3
<1>9. trace' = <<>> /\ ~tally'.threw
  BY <1>1 DEF TraceInv, SpansInv
<1>10. SpansInv'
  BY <1>1, <1>2, <1>5, <1>7, <1>8, <1>9 DEF SpansInv
<1> QED BY <1>6, <1>10 DEF TraceInv

LEMMA ResolveKeepsTrace ==
    ASSUME TraceInv, RoundStops
    PROVE  TraceInv'
<1>1. /\ turn.pc = "ready" /\ turn'.pc = "idle" /\ turn'.finishes = 0
      /\ UNCHANGED <<rounds, usage, tally, spans>> /\ trace' \in {<<>>, FinishTrace(spans')}
  BY DEF RoundStops, Finalize, NoTurn
<1>2. Calling = FALSE /\ ~Owing /\ ~tally.threw
  BY <1>1 DEF TraceInv, SpansInv, Calling, Owing
<1>3. /\ usage \in Nat /\ tally \in TallyType
      /\ SpansOk(spans, tally.began, rounds, tally.tools, FALSE)
      /\ ~tally.cut => PaysOk(spans, tally.began, rounds - tally.began)
  BY <1>2 DEF TraceInv, UsageInv, SpansInv, PaidRounds
<1> QED BY <1>1, <1>2, <1>3, Between

(* The state in a model call, and the span of it *)
LEMMA InCall ==
    ASSUME TraceInv, Calling
    PROVE  /\ usage \in Nat /\ tally \in TallyType /\ ~tally.threw /\ tally.began < rounds
           /\ SpansOk(spans, tally.began, rounds, tally.tools, TRUE)
           /\ spans[Len(spans)] = FreshSpan /\ spans \in Seq(SpanRecord) /\ Len(spans) \in 1 .. Len(spans)
           /\ ~tally.cut => PaysOk(spans, tally.began, rounds - tally.began - 1)
<1>1. Calling = TRUE /\ Owing /\ turn.pc # "idle"
  BY DEF Calling, Owing
<1>2. /\ usage \in Nat /\ tally \in TallyType /\ ~tally.threw /\ tally.began < rounds
      /\ SpansOk(spans, tally.began, rounds, tally.tools, TRUE)
      /\ ~tally.cut => PaysOk(spans, tally.began, rounds - tally.began - 1)
  BY <1>1 DEF TraceInv, UsageInv, SpansInv, PaidRounds
<1>3. spans[Len(spans)] = FreshSpan /\ spans \in Seq(SpanRecord) /\ spans # <<>>
  BY <1>2 DEF SpansOk
<1>4. Len(spans) \in 1 .. Len(spans)
  BY <1>3
<1> QED BY <1>2, <1>3, <1>4

LEMMA ThrowKeepsTrace ==
    ASSUME TraceInv, GenerateThrows
    PROVE  TraceInv'
<1> DEFINE n == Len(spans)
           x == EndSpan(FreshSpan)
<1>1. /\ turn.pc = "stream" /\ turn'.pc = "idle" /\ turn'.finishes = 0
      /\ UNCHANGED <<rounds, usage>> /\ trace' \in {<<>>, FinishTrace(spans')}
  BY DEF GenerateThrows, Finalize, NoTurn
<1>2. Calling
  BY <1>1 DEF Calling
<1>3. /\ tally' = [tally EXCEPT !.threw = TRUE] /\ spans' = [spans EXCEPT ![n] = EndSpan(spans[n])]
  BY DEF GenerateThrows, EndLast
<1>4. /\ tally' \in TallyType /\ tally'.began = tally.began /\ tally'.tools = tally.tools
      /\ tally'.threw /\ tally'.cut = tally.cut
  BY <1>2, <1>3, InCall DEF TallyType
<1>5. spans' = [spans EXCEPT ![n] = x]
  BY <1>2, <1>3, InCall
<1>6. x \in SpanRecord /\ x.type = "model_call_span" /\ x.ended /\ TokensOf(x) = 0
  BY FreshIs, EndedIs
<1> HIDE DEF x
<1>7. /\ SpansOk(spans', tally.began, rounds, tally.tools, FALSE)
      /\ ~tally.cut => PaysOk(spans', tally.began, rounds - tally.began - 1)
  <2>1. /\ SpansOk([spans EXCEPT ![n] = x], tally.began, rounds, tally.tools, FALSE)
        /\ ~tally.cut => PaysOk([spans EXCEPT ![n] = x], tally.began, rounds - tally.began - 1)
    BY <1>2, <1>6, InCall, TraceEnds, Zenon
  <2>2. QED BY <1>5, <2>1, Zenon
<1>8. usage' \in Nat /\ tally.began < rounds
  BY <1>1, <1>2, InCall
<1> QED BY <1>1, <1>4, <1>7, <1>8, Between

LEMMA TurnEndsKeepsTrace ==
    ASSUME TurnType, TraceInv, CallsSaved \/ AnswerSaved \/ SaveFails
    PROVE  TraceInv'
<1> DEFINE n == Len(spans)
           x == EndSpan(AddTokens(FreshSpan, usage))
           dropped == turn.cut /\ turn.provider = "anthropic"
<1>1. /\ turn.pc = "ended" /\ UNCHANGED <<rounds, usage>>
      /\ tally' = [tally EXCEPT !.cut = tally.cut \/ dropped]
      /\ spans' = [spans EXCEPT ![n] = EndSpan(AddTokens(spans[n], usage))]
  BY DEF CallsSaved, AnswerSaved, SaveFails, StreamOver
<1>2. \/ turn'.pc = "idle" /\ turn'.finishes = 0 /\ trace' \in {<<>>, FinishTrace(spans')}
      \/ turn'.pc = "tools" /\ turn'.finishes = turn.finishes /\ trace' = trace
  <2>1. CASE AnswerSaved \/ SaveFails
    <3>1. turn' = NoTurn /\ trace' \in {<<>>, FinishTrace(spans')}
      BY <2>1 DEF AnswerSaved, SaveFails, Finalize
    <3>2. turn'.pc = "idle" /\ turn'.finishes = 0
      BY <3>1 DEF NoTurn
    <3>3. QED BY <3>1, <3>2
  <2>2. CASE CallsSaved
    <3>1. turn' = [turn EXCEPT !.pc = "tools", !.context = <<>>, !.buffers = <<>>] /\ trace' = trace
      BY <2>2 DEF CallsSaved
    <3>2. turn'.pc = "tools" /\ turn'.finishes = turn.finishes
      BY <3>1 DEF TurnType, TurnFields
    <3>3. QED BY <3>1, <3>2
  <2>3. QED BY <2>1, <2>2
<1>3. turn.finishes <= 1 /\ trace = <<>> /\ (usage = rounds \/ dropped)
  BY <1>1 DEF TraceInv, UsageInv, SpansInv
<1>4. Calling
  BY <1>1 DEF Calling
<1> HIDE DEF dropped
<1>5. /\ tally' \in TallyType /\ tally'.began = tally.began /\ tally'.tools = tally.tools
      /\ ~tally'.threw /\ (~tally'.cut => ~tally.cut /\ ~dropped)
  <2>1. tally.cut \/ dropped \in BOOLEAN
    BY <1>4, InCall DEF TallyType, dropped
  <2>2. QED BY <1>1, <1>4, <2>1, InCall DEF TallyType
<1>6. spans' = [spans EXCEPT ![n] = x]
  BY <1>1, <1>4, InCall
<1>7. x \in SpanRecord /\ x.type = "model_call_span" /\ x.ended /\ TokensOf(x) = 2 * usage
  BY <1>4, InCall, PaidIs
<1> HIDE DEF x
<1>8. SpansOk(spans', tally.began, rounds, tally.tools, FALSE)
  <2>1. SpansOk([spans EXCEPT ![n] = x], tally.began, rounds, tally.tools, FALSE)
    BY <1>4, <1>7, InCall, TraceEnds, Zenon
  <2>2. QED BY <1>6, <2>1, Zenon
<1>9. ASSUME ~tally'.cut PROVE PaysOk(spans', tally.began, rounds - tally.began)
  <2>1. TokensOf(x) = 2 * rounds /\ ~tally.cut
    BY <1>3, <1>5, <1>7, <1>9
  <2>2. PaysOk([spans EXCEPT ![n] = x], tally.began, rounds - tally.began)
    BY <1>4, <1>7, <2>1, InCall, TraceEnds, Zenon
  <2>3. QED BY <1>6, <2>2, Zenon
<1>10. usage' \in Nat /\ turn'.finishes <= 1 /\ turn'.pc \in {"idle", "tools"}
       /\ (trace' = <<>> \/ (turn'.pc = "idle" /\ trace' = FinishTrace(spans')))
  BY <1>1, <1>2, <1>3, <1>4, InCall
<1> QED BY <1>1, <1>5, <1>8, <1>9, <1>10, Between

LEMMA ToolSpanIs ==
    ASSUME NEW s, s \in Seq(SpanRecord), NEW more, NEW recorded \in BOOLEAN,
           more = LET t == StartToolCall(s) IN
                  IF recorded THEN [t EXCEPT ![Len(t)] = EndSpan(t[Len(t)])] ELSE t
    PROVE  \E x \in SpanRecord : /\ x.type = "tool_call_span" /\ TokensOf(x) = 0 /\ more = Append(s, x)
<1> DEFINE x == Span("tool_call_span", <<"toolName", "callId">>)
           y == EndSpan(x)
           t == StartToolCall(s)
<1>1. x \in SpanRecord /\ x.type = "tool_call_span" /\ TokensOf(x) = 0
  <2>1. <<"toolName", "callId">> \in Seq(Whitelist \ {"promptTokens", "completionTokens"})
    BY DEF Whitelist
  <2>2. QED BY <2>1, SpanIs
<1>2. t = Append(s, x)
  BY DEF StartToolCall
<1> HIDE DEF x
<1>3. y \in SpanRecord /\ y.type = "tool_call_span" /\ TokensOf(y) = 0
  BY <1>1, EndedIs
<1>4. CASE recorded
  <2>1. PICK n \in Nat : n = Len(s)
    OBVIOUS
  <2>2. /\ t \in Seq(SpanRecord) /\ Len(t) = n + 1 /\ t[n + 1] = x /\ \A i \in 1 .. n : t[i] = s[i]
    BY <1>1, <1>2, <2>1, AppendProperties
  <2>3. more = [t EXCEPT ![n + 1] = y]
    BY <1>4, <2>2
  <2> HIDE DEF t, y
  <2>4. /\ more \in Seq(SpanRecord) /\ Len(more) = n + 1
        /\ \A i \in 1 .. n + 1 : more[i] = IF i = n + 1 THEN y ELSE t[i]
    <3>1. n + 1 \in 1 .. Len(t)
      BY <2>2
    <3>2. PICK u, at, v : u = t /\ at = n + 1 /\ v = y
      OBVIOUS
    <3>3. u \in Seq(SpanRecord) /\ at \in 1 .. Len(u) /\ v \in SpanRecord
      BY <1>3, <2>2, <3>1, <3>2
    <3>4. /\ [u EXCEPT ![at] = v] \in Seq(SpanRecord) /\ Len([u EXCEPT ![at] = v]) = Len(u)
          /\ \A i \in 1 .. Len(u) : [u EXCEPT ![at] = v][i] = IF i = at THEN v ELSE u[i]
      BY ONLY <3>3, ExceptSeq
    <3>5. more = [u EXCEPT ![at] = v]
      BY <2>3, <3>2, Zenon
    <3>6. /\ more \in Seq(SpanRecord) /\ Len(more) = Len(u)
          /\ \A i \in 1 .. Len(u) : more[i] = IF i = at THEN v ELSE u[i]
      BY <3>4, <3>5, Zenon
    <3>7. QED BY ONLY <2>2, <3>2, <3>6
  <2>5. /\ Append(s, y) \in Seq(SpanRecord) /\ Len(Append(s, y)) = n + 1 /\ Append(s, y)[n + 1] = y
        /\ \A i \in 1 .. n : Append(s, y)[i] = s[i]
    BY <1>3, <2>1, AppendProperties
  <2>6. PICK z : z = Append(s, y)
    OBVIOUS
  <2>7. ASSUME NEW i \in 1 .. n + 1 PROVE more[i] = z[i]
    <3>1. CASE i = n + 1
      BY <2>4, <2>5, <2>6, <3>1
    <3>2. CASE i # n + 1
      <4>1. i \in 1 .. n
        BY <3>2
      <4>2. QED BY <2>2, <2>4, <2>5, <2>6, <3>2, <4>1
    <3>3. QED BY <3>1, <3>2
  <2>8. z \in Seq(SpanRecord) /\ Len(z) = n + 1
    BY <2>5, <2>6
  <2>9. \A i \in 1 .. Len(more) : more[i] = z[i]
    BY <2>4, <2>7
  <2>10. Len(more) = Len(z) /\ more \in Seq(SpanRecord)
    BY <2>4, <2>8
  <2>11. more = z
    BY ONLY <2>8, <2>9, <2>10, SeqEqual
  <2>12. QED BY <1>3, <2>6, <2>11
<1>5. CASE ~recorded
  BY <1>1, <1>2, <1>5
<1> QED BY <1>4, <1>5

(* A tool call that is executed has its span, recorded or not. *)
LEMMA ExecutedKeeps ==
    ASSUME TraceInv, turn.pc = "tools", rounds' = rounds,
           UNCHANGED <<spans, tally>> \/ \E recorded \in BOOLEAN : Executed(recorded)
    PROVE  /\ tally' \in TallyType /\ ~tally'.threw /\ usage \in Nat /\ turn.finishes <= 1 /\ trace = <<>>
           /\ SpansOk(spans', tally'.began, rounds', tally'.tools, FALSE)
           /\ ~tally'.cut => PaysOk(spans', tally'.began, rounds' - tally'.began)
<1>1. Calling = FALSE /\ ~Owing /\ ~tally.threw /\ trace = <<>>
  BY DEF TraceInv, SpansInv, Calling, Owing
<1>2. /\ tally \in TallyType /\ usage \in Nat /\ turn.finishes <= 1
      /\ SpansOk(spans, tally.began, rounds, tally.tools, FALSE)
      /\ ~tally.cut => PaysOk(spans, tally.began, rounds - tally.began)
  BY <1>1 DEF TraceInv, UsageInv, SpansInv, PaidRounds
<1>3. CASE UNCHANGED <<spans, tally>>
  BY <1>1, <1>2, <1>3
<1>4. ASSUME NEW recorded \in BOOLEAN, Executed(recorded), ~UNCHANGED <<spans, tally>>
      PROVE  /\ tally' \in TallyType /\ ~tally'.threw
             /\ SpansOk(spans', tally'.began, rounds', tally'.tools, FALSE)
             /\ ~tally'.cut => PaysOk(spans', tally'.began, rounds' - tally'.began)
  <2>1. /\ spans' = LET t == StartToolCall(spans) IN
                     IF recorded THEN [t EXCEPT ![Len(t)] = EndSpan(t[Len(t)])] ELSE t
        /\ tally' = [tally EXCEPT !.tools = tally.tools + 1]
    BY <1>4 DEF Executed
  <2>2. spans \in Seq(SpanRecord)
    BY <1>2 DEF SpansOk
  <2>3. PICK x \in SpanRecord :
           x.type = "tool_call_span" /\ TokensOf(x) = 0 /\ spans' = Append(spans, x)
    BY <2>1, <2>2, ToolSpanIs, Zenon
  <2>4. /\ SpansOk(spans', tally.began, rounds, tally.tools + 1, FALSE)
        /\ ~tally.cut => PaysOk(spans', tally.began, rounds - tally.began)
    BY <1>2, <2>3, TraceTools
  <2>5. /\ tally' \in TallyType /\ tally'.began = tally.began /\ tally'.tools = tally.tools + 1
        /\ tally'.threw = tally.threw /\ tally'.cut = tally.cut
    BY <1>2, <2>1 DEF TallyType
  <2>6. QED BY <1>1, <2>4, <2>5
<1> QED BY <1>1, <1>2, <1>3, <1>4

LEMMA BatchKeepsTrace ==
    ASSUME TurnType, TraceInv, SaveResult \/ BatchStops
    PROVE  TraceInv'
<1>1. /\ turn.pc = "tools" /\ UNCHANGED <<rounds, usage>>
      /\ UNCHANGED <<spans, tally>> \/ \E recorded \in BOOLEAN : Executed(recorded)
  BY DEF SaveResult, BatchStops
<1>2. \/ turn'.pc = "idle" /\ turn'.finishes = 0 /\ trace' \in {<<>>, FinishTrace(spans')}
      \/ turn'.pc \in {"ready", "tools"} /\ turn'.finishes \in {0, turn.finishes} /\ trace' = trace
  <2>1. CASE BatchStops
    BY <2>1 DEF BatchStops, Finalize, NoTurn
  <2>2. CASE SaveResult
    <3>1. (turn' = turn \/ turn' = [NoTurn EXCEPT !.pc = "ready"]) /\ trace' = trace
      BY <2>2 DEF SaveResult
    <3>2. QED BY <1>1, <3>1 DEF NoTurn
  <2>3. QED BY <2>1, <2>2
<1>3. /\ tally' \in TallyType /\ ~tally'.threw /\ usage \in Nat /\ turn.finishes <= 1 /\ trace = <<>>
      /\ SpansOk(spans', tally'.began, rounds', tally'.tools, FALSE)
      /\ ~tally'.cut => PaysOk(spans', tally'.began, rounds' - tally'.began)
  BY <1>1, ExecutedKeeps
<1>4. /\ usage' \in Nat /\ turn'.finishes <= 1 /\ turn'.pc \in {"idle", "ready", "tools"}
      /\ trace' = <<>> \/ (turn'.pc = "idle" /\ trace' = FinishTrace(spans'))
  BY <1>1, <1>2, <1>3
<1> QED BY <1>3, <1>4, Between

LEMMA TraceStep == CallsInv /\ TraceInv /\ [ModelNext]_modelVars => TraceInv'
<1> SUFFICES ASSUME TurnType, TraceInv, [ModelNext]_modelVars PROVE TraceInv'
  BY DEF CallsInv
<1>1. CASE UNCHANGED modelVars
  BY <1>1 DEF modelVars, traceVars, TraceInv, UsageInv, SpansInv, Calling, Owing, PaidRounds
<1> QED BY <1>1, StreamKeepsTrace, FinishKeepsTrace, StartRunKeepsTrace, CallModelKeepsTrace,
           ResolveKeepsTrace, ThrowKeepsTrace, TurnEndsKeepsTrace, BatchKeepsTrace DEF ModelNext

-----------------------------------------------------------------------------
(* The theorems of the model half *)

LEMMA ModelSteps == [Next]_vars => [ModelNext]_modelVars
BY DEF Next, vars

LEMMA ModelInvHolds == FairSpec => [](CallsInv /\ HistoryInv /\ TraceInv)
<1>1. Init => CallsInv /\ HistoryInv /\ TraceInv
  BY CallsInit, HistoryInit, TraceInit DEF Init
<1>2. CallsInv /\ HistoryInv /\ TraceInv /\ [Next]_vars => (CallsInv /\ HistoryInv /\ TraceInv)'
  BY CallsStep, HistoryStep, TraceStep, ModelSteps
<1>3. QED
  BY <1>1, <1>2, PTL DEF FairSpec

(* Whatever a provider streams, however the fragments of several calls     *)
(* interleave and wherever the stream is cut, the calls the loop executes  *)
(* are calls the model made, in its order, none twice and under its ids;   *)
(* the arguments that pass validation are what the model said unless it    *)
(* was cut; and without a cut no call is missing (streamChat of the        *)
(* providers in packages/models).                                          *)
THEOREM CallsAreWholeHolds == FairSpec => []CallsAreWhole
<1>1. ASSUME CallsInv PROVE CallsAreWhole
  <2>1. DOMAIN turn.chunks = 1 .. Len(turn.chunks)
    BY <1>1 DEF CallsInv, TurnType
  <2>2. SUFFICES ASSUME turn.pc \in {"ended", "tools"}
        PROVE  /\ \A k \in DOMAIN turn.chunks :
                     /\ turn.chunks[k].name = turn.said.calls[turn.chunks[k].index].name
                     /\ \/ turn.provider = "google"
                        \/ turn.chunks[k].id = turn.said.calls[turn.chunks[k].index].id
                     /\ turn.chunks[k].args = "whole" \/ turn.cut
               /\ \A k, l \in DOMAIN turn.chunks :
                     k < l => turn.chunks[k].index < turn.chunks[l].index
               /\ ~turn.cut => /\ Len(turn.chunks) = Len(turn.said.calls)
                              /\ turn.text = turn.said.text
    BY Zenon DEF CallsAreWhole
  <2>3. ASSUME NEW k \in 1 .. Len(turn.chunks)
        PROVE  /\ turn.chunks[k].name = turn.said.calls[turn.chunks[k].index].name
               /\ \/ turn.provider = "google"
                  \/ turn.chunks[k].id = turn.said.calls[turn.chunks[k].index].id
               /\ turn.chunks[k].args = "whole" \/ turn.cut
    BY <1>1, <2>2 DEF CallsInv, ChunksInv, OfCall, EndedInv
  <2>4. /\ \A k, l \in 1 .. Len(turn.chunks) :
              k < l => turn.chunks[k].index < turn.chunks[l].index
        /\ ~turn.cut => /\ Len(turn.chunks) = Len(turn.said.calls)
                       /\ turn.text = turn.said.text
    BY <1>1, <2>2 DEF CallsInv, EndedInv, TextDone
  <2>5. QED
    BY <2>1, <2>3, <2>4
<1>2. QED
  BY <1>1, ModelInvHolds, PTL

(* However long the session, whatever an older release stored in it, and   *)
(* after any number of runs that stopped in a batch: each tool message the *)
(* context builder sends stands where the provider finds the call it is    *)
(* of, or at the front of a window that last_n cut, and each call sent is  *)
(* answered unless its run stopped.                                        *)
THEOREM ContextCorrelatesHolds == FairSpec => []ContextCorrelates
<1>1. HistoryInv => ContextCorrelates
  BY DEF HistoryInv
<1>2. QED
  BY <1>1, ModelInvHolds, PTL

(* For any number of runs, rounds and tools, any answers and wherever a    *)
(* run stops: the metrics that deriveRunMetrics computes from what finish  *)
(* wrote are those of the run. Each model call and each tool call counts   *)
(* once, the time to the first token is known as soon as there was a model *)
(* call, and the tokens are the sum over the run's own rounds, each once,  *)
(* unless an Anthropic stream was cut.                                     *)
THEOREM MetricsAreTheRunsHolds == FairSpec => []MetricsAreTheRuns
<1>1. TraceInv => MetricsAreTheRuns
  BY TraceInvMetrics
<1>2. QED
  BY <1>1, ModelInvHolds, PTL

-----------------------------------------------------------------------------
(* The tool half *)

Executors == Urls \cup {None, "local", "refused", "noop"}
Pcs == {"new", "local", "prepare", "send", "waiting", "delay", "done"}
Results == {"none", "refused", "ok", "error", "aborted"}
CallRecords ==
    [pc : Pcs, via : Executors, meant : Urls \cup {None}, attempt : Nat, result : Results]
Outcomes == {"running", "ok", "failed", "killed"}
Places == {"none", "sent", "waiting", "replied"}
Replies == {"none", "broken", "error"} \cup Outcomes
Requests == [at : Places, run : Nat, reply : Replies]
Entries == [key : Calls \cup {None}, run : Nat, old : BOOLEAN]

ToolType ==
    /\ agent \in [url : Urls \cup {None}, tools : BOOLEAN, local : BOOLEAN]
    /\ memo \in [Urls \cup {"local"} -> Executors]
    /\ call \in [Calls -> CallRecords]
    /\ aborted \in SUBSET Calls
    /\ request \in [Calls -> [Attempts -> Requests]]
    /\ cache \in Seq(Entries)
    /\ handler \in [Calls -> Seq(Outcomes)]
    /\ forgotten \in [Calls -> Nat]

USE ToolCallsAssumption

-----------------------------------------------------------------------------
(* What holds of the cache *)

Has(s, k) == \E i \in 1 .. Len(s) : s[i].key = k
Distinct(s) == \A i, j \in 1 .. Len(s) : s[i].key = s[j].key /\ s[i].key \in Calls => i = j

(* Every element of s is one of t. *)
Within(s, t) == \A i \in 1 .. Len(s) : \E j \in 1 .. Len(t) : s[i] = t[j]

(* What the executions of a call cost: one unit each, the first on credit  *)
(* for as long as the cache holds an entry.                                *)
Spent ==
    \A c \in Calls : /\ Len(handler[c]) <= 1 + forgotten[c]
                     /\ ~Has(cache, c) => Len(handler[c]) <= forgotten[c]

(* An entry is of an execution of its call. *)
EntriesRun ==
    \A i \in 1 .. Len(cache) : \A c \in Calls :
        cache[i].key = c => cache[i].run \in 1 .. Len(handler[c])

CacheInv == Distinct(cache) /\ Spent /\ EntriesRun

(* A request waits for an execution of its call, and an answer is how one  *)
(* of them ended.                                                          *)
Ended == {"ok", "failed"}
EndedAs(c, outcome) == \E n \in 1 .. Len(handler[c]) : handler[c][n] = outcome
Backed ==
    \A c \in Calls : \A a \in Attempts :
        /\ request[c][a].at = "waiting" => request[c][a].run \in 1 .. Len(handler[c])
        /\ request[c][a].reply \in Ended => EndedAs(c, request[c][a].reply)

(* An executor that is over the network does not execute locally, its      *)
(* attempts are numbered, and only the end has a result.                   *)
CallInv ==
    \A c \in Calls :
        /\ call[c].pc = "local" => call[c].via \notin Urls
        /\ call[c].pc \in {"send", "waiting"} => call[c].attempt \in Attempts
        /\ call[c].pc = "delay" => call[c].attempt \in 1 .. MaxRetries
        /\ call[c].pc # "done" => call[c].result # "ok"
        /\ call[c].result = "ok" /\ call[c].via \in Urls => EndedAs(c, "ok")

ToolInv == ToolType /\ CacheInv /\ Backed /\ CallInv

LEMMA RemoveIndex ==
    ASSUME NEW s \in Seq(Entries), NEW i \in 1 .. Len(s)
    PROVE  /\ RemoveAt(s, i) \in Seq(Entries) /\ Len(RemoveAt(s, i)) = Len(s) - 1
           /\ \A j \in 1 .. Len(s) - 1 : RemoveAt(s, i)[j] = s[IF j < i THEN j ELSE j + 1]
<1>1. Len(s) \in Nat \ {0}
  OBVIOUS
<1> DEFINE a == SubSeq(s, 1, i - 1)
           b == SubSeq(s, i + 1, Len(s))
<1>2. /\ a \in Seq(Entries) /\ Len(a) = i - 1 /\ \A j \in 1 .. i - 1 : a[j] = s[j]
  BY <1>1
<1>3. /\ b \in Seq(Entries) /\ Len(b) = Len(s) - i /\ \A j \in 1 .. Len(s) - i : b[j] = s[i + j]
  BY <1>1
<1> HIDE DEF a, b
<1>4. /\ a \o b \in Seq(Entries) /\ Len(a \o b) = Len(a) + Len(b)
      /\ \A j \in 1 .. Len(a) + Len(b) : (a \o b)[j] = IF j <= Len(a) THEN a[j] ELSE b[j - Len(a)]
  BY <1>2, <1>3, ConcatProperties
<1>5. RemoveAt(s, i) = a \o b
  BY DEF RemoveAt, a, b
<1>6. ASSUME NEW j \in 1 .. Len(s) - 1
      PROVE  (a \o b)[j] = s[IF j < i THEN j ELSE j + 1]
  <2>1. CASE j < i
    BY <1>1, <1>2, <1>3, <1>4, <2>1
  <2>2. CASE ~(j < i)
    <3>1. j - (i - 1) \in 1 .. Len(s) - i /\ i + (j - (i - 1)) = j + 1 /\ ~(j <= i - 1)
      BY <1>1, <2>2
    <3>2. (a \o b)[j] = b[j - (i - 1)]
      BY <1>1, <1>2, <1>3, <1>4, <3>1
    <3>3. b[j - (i - 1)] = s[i + (j - (i - 1))]
      BY <1>3, <3>1
    <3>4. QED
      BY <2>2, <3>1, <3>2, <3>3
  <2>3. QED
    BY <2>1, <2>2
<1>7. Len(a \o b) = Len(s) - 1
  BY <1>1, <1>2, <1>3, <1>4
<1>8. QED
  BY <1>4, <1>5, <1>6, <1>7

LEMMA WithoutEntry ==
    ASSUME ToolType, Distinct(cache), NEW c \in Calls
    PROVE  /\ Without(c) \in Seq(Entries) /\ Distinct(Without(c)) /\ Within(Without(c), cache)
           /\ ~Has(Without(c), c)
           /\ \A k \in Calls \ {c} : Has(cache, k) => Has(Without(c), k)
<1>1. cache \in Seq(Entries) /\ Len(cache) \in Nat
  BY DEF ToolType
<1>2. CASE Entry(c) = {}
  <2>1. Without(c) = cache
    BY <1>2 DEF Without
  <2>2. ~Has(cache, c)
    BY <1>2 DEF Entry, Has
  <2>3. QED
    BY <1>1, <2>1, <2>2 DEF Within
<1>3. CASE Entry(c) # {}
  <2>1. PICK i \in 1 .. Len(cache) : cache[i].key = c /\ Without(c) = RemoveAt(cache, i)
    BY <1>3 DEF Entry, Without
  <2> DEFINE s == RemoveAt(cache, i)
             Old(j) == IF j < i THEN j ELSE j + 1
  <2>2. /\ s \in Seq(Entries) /\ Len(s) = Len(cache) - 1
        /\ \A j \in 1 .. Len(s) : s[j] = cache[Old(j)]
    BY <1>1, RemoveIndex
  <2>3. \A j \in 1 .. Len(s) : Old(j) \in 1 .. Len(cache) /\ Old(j) # i
    BY <1>1, <2>2
  <2>4. \A j, k \in 1 .. Len(s) : Old(j) = Old(k) => j = k
    BY <1>1, <2>2
  <2>5. \A k \in 1 .. Len(cache) : k # i => \E j \in 1 .. Len(s) : Old(j) = k
    <3>1. SUFFICES ASSUME NEW k \in 1 .. Len(cache), k # i PROVE \E j \in 1 .. Len(s) : Old(j) = k
      OBVIOUS
    <3>2. CASE k < i
      BY <1>1, <2>2, <3>1, <3>2
    <3>3. CASE k > i
      <4>1. k - 1 \in 1 .. Len(s) /\ Old(k - 1) = k
        BY <1>1, <2>2, <3>1, <3>3
      <4>2. QED
        BY <4>1
    <3>4. QED
      BY <3>1, <3>2, <3>3
  <2> HIDE DEF s, Old
  <2>6. Distinct(s)
    BY <2>2, <2>3, <2>4 DEF Distinct
  <2>7. ~Has(s, c)
    BY <2>1, <2>2, <2>3 DEF Has, Distinct
  <2>8. ASSUME NEW k \in Calls \ {c}, Has(cache, k) PROVE Has(s, k)
    <3>1. PICK m \in 1 .. Len(cache) : cache[m].key = k
      BY <2>8 DEF Has
    <3>2. PICK j \in 1 .. Len(s) : Old(j) = m
      BY <2>1, <2>5, <3>1
    <3>3. QED
      BY <2>2, <3>1, <3>2 DEF Has
  <2>9. Within(s, cache)
    BY <2>2, <2>3 DEF Within
  <2>10. QED
    BY <2>1, <2>2, <2>6, <2>7, <2>8, <2>9 DEF s
<1>4. QED
  BY <1>2, <1>3

LEMMA AppendEntry ==
    ASSUME NEW s \in Seq(Entries), NEW e \in Entries, Distinct(s), e.key \in Calls => ~Has(s, e.key)
    PROVE  /\ Append(s, e) \in Seq(Entries) /\ Distinct(Append(s, e)) /\ Append(s, e) # <<>>
           /\ \A k : Has(Append(s, e), k) <=> Has(s, k) \/ e.key = k
           /\ \A i \in 1 .. Len(Append(s, e)) :
                 Append(s, e)[i] = e \/ \E j \in 1 .. Len(s) : Append(s, e)[i] = s[j]
<1> DEFINE t == Append(s, e)
<1>1. /\ t \in Seq(Entries) /\ Len(s) \in Nat /\ Len(t) = Len(s) + 1 /\ t[Len(s) + 1] = e /\ t # <<>>
      /\ \A i \in 1 .. Len(s) : t[i] = s[i]
  OBVIOUS
<1> HIDE DEF t
<1>2. \A i \in 1 .. Len(t) : i \in 1 .. Len(s) \/ i = Len(s) + 1
  BY <1>1
<1>3. Distinct(t)
  BY <1>1, <1>2 DEF Distinct, Has
<1>4. ASSUME NEW k PROVE Has(t, k) <=> Has(s, k) \/ e.key = k
  <2>1. ASSUME Has(t, k) PROVE Has(s, k) \/ e.key = k
    BY <1>1, <1>2, <2>1 DEF Has
  <2>2. 1 .. Len(s) \subseteq 1 .. Len(t) /\ Len(s) + 1 \in 1 .. Len(t)
    BY <1>1
  <2>3. ASSUME Has(s, k) \/ e.key = k PROVE Has(t, k)
    BY <1>1, <2>2, <2>3 DEF Has
  <2>4. QED
    BY <2>1, <2>3
<1>5. QED
  BY <1>1, <1>2, <1>3, <1>4 DEF t

LEMMA EvictEntry ==
    ASSUME NEW s \in Seq(Entries), s # <<>>, Distinct(s)
    PROVE  /\ Evicted(s) \in Seq(Entries) /\ Distinct(Evicted(s)) /\ Within(Evicted(s), s)
           /\ \A k : Has(s, k) => Has(Evicted(s), k) \/ (Len(s) > MaxEntries /\ s[1].key = k)
<1>1. Len(s) \in Nat \ {0}
  OBVIOUS
<1>2. CASE Len(s) > MaxEntries
  <2> DEFINE t == Tail(s)
  <2>1. Evicted(s) = t
    BY <1>2 DEF Evicted
  <2>2. t \in Seq(Entries) /\ Len(t) = Len(s) - 1 /\ \A i \in 1 .. Len(t) : t[i] = s[i + 1]
    BY <1>1
  <2> HIDE DEF t
  <2>3. \A i \in 1 .. Len(t) : i + 1 \in 1 .. Len(s) /\ i \in Nat
    BY <1>1, <2>2
  <2>4. Distinct(t)
    <3>1. SUFFICES ASSUME NEW i \in 1 .. Len(t), NEW j \in 1 .. Len(t),
                          t[i].key = t[j].key, t[i].key \in Calls
                   PROVE  i = j
      BY DEF Distinct
    <3>2. i + 1 = j + 1
      BY <2>2, <2>3, <3>1 DEF Distinct
    <3>3. QED
      BY <2>3, <3>2
  <2>5. Within(t, s)
    BY <2>2, <2>3 DEF Within
  <2>6. ASSUME NEW k, Has(s, k), s[1].key # k PROVE Has(t, k)
    <3>1. PICK i \in 1 .. Len(s) : s[i].key = k /\ i # 1
      BY <2>6 DEF Has
    <3>2. i - 1 \in 1 .. Len(t) /\ t[i - 1] = s[i]
      BY <1>1, <2>2, <3>1
    <3>3. QED
      BY <3>1, <3>2 DEF Has
  <2>7. QED
    BY <1>2, <2>1, <2>2, <2>4, <2>5, <2>6
<1>3. CASE ~(Len(s) > MaxEntries)
  BY <1>3 DEF Evicted, Within
<1>4. QED
  BY <1>2, <1>3

-----------------------------------------------------------------------------
(* Types *)

(* Resolving memoises an executor. *)
LEMMA ResolvedType ==
    ASSUME ToolType
    PROVE  Resolved \in Executors /\ Memoised \in [Urls \cup {"local"} -> Executors]
<1>1. CacheKey \in Urls \cup {"local"} /\ NewExecutor \in Executors
  BY DEF ToolType, CacheKey, NewExecutor, Executors
<1>2. Resolved \in Executors
  BY <1>1 DEF ToolType, Resolved
<1>3. QED
  BY <1>1, <1>2 DEF ToolType, Memoised

(* What the updates of a call's record leave: other calls are untouched. *)
Updates(f, g, c, pc, via, attempt, result) ==
    /\ g \in [Calls -> CallRecords]
    /\ \A k \in Calls \ {c} : g[k] = f[k]
    /\ g[c].pc = pc /\ g[c].via = via /\ g[c].attempt = attempt /\ g[c].result = result

(* The ways a step of an executor changes its call *)
Moves(c, pc) == Updates(call, call', c, pc, call[c].via, call[c].attempt, call[c].result)
Ends(c, result) == Updates(call, call', c, "done", call[c].via, call[c].attempt, result)
Starts(c) ==
    \E executor \in Executors :
       Updates(call, call', c, IF executor \in Urls THEN "prepare" ELSE "local", executor,
               call[c].attempt, call[c].result)
Tries(c, n) == Updates(call, call', c, "send", call[c].via, n, call[c].result)

LEMMA MovesCall ==
    ASSUME ToolType, NEW c \in Calls, NEW pc \in Pcs, call' = [call EXCEPT ![c].pc = pc]
    PROVE  Moves(c, pc)
<1>1. call \in [Calls -> CallRecords]
  BY DEF ToolType
<1>2. call' \in [Calls -> CallRecords]
  BY <1>1 DEF CallRecords
<1>3. \A k \in Calls \ {c} : call'[k] = call[k]
  BY <1>1
<1>4. call'[c] = [call[c] EXCEPT !.pc = pc]
  BY <1>1
<1>5. QED
  BY <1>1, <1>2, <1>3, <1>4 DEF Updates, Moves, CallRecords

LEMMA EndsCall ==
    ASSUME ToolType, NEW c \in Calls, NEW result \in Results, call' = Done(c, result)
    PROVE  Ends(c, result)
<1>1. "done" \in Pcs
  BY DEF Pcs
<1>2. call \in [Calls -> CallRecords]
  BY DEF ToolType
<1>3. call' \in [Calls -> CallRecords]
  BY <1>1, <1>2 DEF CallRecords, Done
<1>4. \A k \in Calls \ {c} : call'[k] = call[k]
  BY <1>2 DEF Done
<1>5. call'[c] = [call[c] EXCEPT !.pc = "done", !.result = result]
  BY <1>2 DEF Done
<1>6. QED
  BY <1>2, <1>3, <1>4, <1>5 DEF Updates, Ends, CallRecords

LEMMA TriesCall ==
    ASSUME ToolType, NEW c \in Calls, NEW n \in Nat,
           call' = [call EXCEPT ![c].pc = "send", ![c].attempt = n]
    PROVE  Tries(c, n)
<1>1. "send" \in Pcs
  BY DEF Pcs
<1>2. call \in [Calls -> CallRecords]
  BY DEF ToolType
<1>3. call' \in [Calls -> CallRecords]
  BY <1>1, <1>2 DEF CallRecords
<1>4. \A k \in Calls \ {c} : call'[k] = call[k]
  BY <1>2
<1>5. call'[c] = [call[c] EXCEPT !.pc = "send", !.attempt = n]
  BY <1>2
<1>6. QED
  BY <1>2, <1>3, <1>4, <1>5 DEF Updates, Tries, CallRecords

LEMMA StartsCall ==
    ASSUME ToolType, NEW c \in Calls, NEW pc \in Pcs, NEW via \in Executors,
           pc = IF via \in Urls THEN "prepare" ELSE "local",
           call' = [call EXCEPT ![c].pc = pc, ![c].via = via, ![c].meant = agent.url]
    PROVE  Starts(c)
<1>1. call \in [Calls -> CallRecords]
  BY DEF ToolType
<1>2. PICK url \in Urls \cup {None} : url = agent.url
  BY DEF ToolType
<1>3. \A k \in Calls \ {c} : call'[k] = call[k]
  BY <1>1
<1>4. call'[c] = [call[c] EXCEPT !.pc = pc, !.via = via, !.meant = url]
  BY <1>1, <1>2
<1>5. call'[c] \in CallRecords
  <2>1. PICK r \in CallRecords : r = call[c]
    BY <1>1
  <2>2. [r EXCEPT !.pc = pc, !.via = via, !.meant = url] \in CallRecords
    BY DEF CallRecords
  <2>3. QED
    BY <1>4, <2>1, <2>2
<1>6. call' \in [Calls -> CallRecords]
  <2>1. \A k \in Calls : call'[k] \in CallRecords
    BY <1>1, <1>3, <1>5
  <2>2. call' = [k \in Calls |-> call'[k]]
    BY <1>1
  <2>3. QED
    BY <2>1, <2>2
<1>7. Updates(call, call', c, pc, via, call[c].attempt, call[c].result)
  BY <1>1, <1>3, <1>4, <1>6 DEF Updates, CallRecords
<1>8. QED
  BY <1>7 DEF Starts

LEMMA ExecutorShape ==
    ASSUME ToolType, NEW c \in Calls, ExecutorStep(c)
    PROVE  \/ call[c].pc = "new" /\ (Starts(c) \/ Ends(c, "refused"))
           \/ \E result \in Results : /\ call[c].pc # "done" /\ Ends(c, result)
                                      /\ result = "ok" => call[c].pc = "local"
           \/ call[c].pc = "prepare" /\ Tries(c, 1)
           \/ call[c].pc = "send" /\ Moves(c, "waiting")
           \/ /\ call[c].pc = "waiting" /\ request[c][call[c].attempt].reply = "ok"
              /\ Ends(c, "ok")
           \/ call[c].pc = "waiting" /\ call[c].attempt < 1 + MaxRetries /\ Moves(c, "delay")
           \/ call[c].pc = "delay" /\ Tries(c, call[c].attempt + 1)
<1>1. call \in [Calls -> CallRecords] /\ call[c].attempt \in Nat
  BY DEF ToolType, CallRecords
<1> USE DEF Pcs, Results
<1>2. ASSUME Begin(c) PROVE call[c].pc = "new" /\ (Starts(c) \/ Ends(c, "refused"))
  <2>1. Resolved \in Executors
    BY ResolvedType
  <2>2. CASE Resolved = "refused"
    BY <1>2, <2>2, EndsCall DEF Begin
  <2>3. CASE Resolved # "refused"
    <3>1. PICK pc \in Pcs : pc = IF Resolved \in Urls THEN "prepare" ELSE "local"
      OBVIOUS
    <3>2. call' = [call EXCEPT ![c].pc = pc, ![c].via = Resolved, ![c].meant = agent.url]
      BY <1>2, <2>3, <3>1 DEF Begin
    <3>3. QED
      BY <1>2, <2>1, <3>1, <3>2, StartsCall DEF Begin
  <2>4. QED
    BY <2>2, <2>3
<1>3. ASSUME NEW outcome \in {"ok", "error", "aborted"}, LocalExecute(c, outcome)
      PROVE  call[c].pc = "local" /\ Ends(c, outcome)
  BY <1>3, EndsCall DEF LocalExecute
<1>4. ASSUME NEW fine \in BOOLEAN, Prepare(c, fine)
      PROVE  /\ call[c].pc = "prepare"
             /\ Tries(c, 1) \/ \E result \in Results : Ends(c, result) /\ result # "ok"
  <2>1. CASE fine
    BY <1>4, <2>1, TriesCall DEF Prepare
  <2>2. CASE ~fine
    BY <1>4, <2>2, EndsCall DEF Prepare
  <2>3. QED
    BY <2>1, <2>2
<1>5. ASSUME SendAttempt(c)
      PROVE  call[c].pc = "send" /\ (Moves(c, "waiting") \/ Ends(c, "aborted"))
  BY <1>5, MovesCall, EndsCall DEF SendAttempt
<1>6. ASSUME call' = AfterFailure(c)
      PROVE  (call[c].attempt < 1 + MaxRetries /\ Moves(c, "delay")) \/ Ends(c, "error")
  BY <1>6, MovesCall, EndsCall DEF AfterFailure
<1>7. ASSUME ReplyArrives(c)
      PROVE  /\ call[c].pc = "waiting"
             /\ \/ call[c].attempt < 1 + MaxRetries /\ Moves(c, "delay")
                \/ Ends(c, "error")
                \/ request[c][call[c].attempt].reply = "ok" /\ Ends(c, "ok")
  BY <1>6, <1>7, EndsCall DEF ReplyArrives, Interpret
<1>8. ASSUME AttemptTimesOut(c) \/ AbortSeen(c)
      PROVE  /\ call[c].pc = "waiting"
             /\ \/ call[c].attempt < 1 + MaxRetries /\ Moves(c, "delay")
                \/ Ends(c, "error") \/ Ends(c, "aborted")
  BY <1>6, <1>8, EndsCall DEF AttemptTimesOut, AbortSeen
<1>9. ASSUME DelayEnds(c)
      PROVE  call[c].pc = "delay" /\ (Tries(c, call[c].attempt + 1) \/ Ends(c, "aborted"))
  <2>1. CASE c \in aborted
    BY <1>9, <2>1, EndsCall DEF DelayEnds
  <2>2. CASE c \notin aborted
    <3>1. PICK n \in Nat : n = call[c].attempt + 1
      BY <1>1
    <3>2. call' = [call EXCEPT ![c].pc = "send", ![c].attempt = n]
      BY <1>1, <1>9, <2>2, <3>1 DEF DelayEnds
    <3>3. QED
      BY <1>9, <3>1, <3>2, TriesCall DEF DelayEnds
  <2>3. QED
    BY <2>1, <2>2
<1>10. QED
  BY <1>2, <1>3, <1>4, <1>5, <1>7, <1>8, <1>9 DEF ExecutorStep

-----------------------------------------------------------------------------
(* Requests and executions *)

(* A request waits for an execution of its call or is none the wiser, and  *)
(* an answer is an older one or how an execution has ended.                *)
RequestShape ==
    /\ request' \in [Calls -> [Attempts -> Requests]]
    /\ \A k \in Calls : \A b \in Attempts :
          /\ request'[k][b].at = "waiting" =>
                \/ request[k][b].at = "waiting" /\ request'[k][b].run = request[k][b].run
                \/ request'[k][b].run \in 1 .. Len(handler'[k])
          /\ request'[k][b].reply \in Ended =>
                request'[k][b].reply = request[k][b].reply \/ EndedAs(k, request'[k][b].reply)

LEMMA Rerequested ==
    ASSUME NEW q \in Requests, NEW at \in Places, NEW run \in Nat, NEW reply \in Replies
    PROVE  /\ [q EXCEPT !.at = at] \in Requests
           /\ [q EXCEPT !.at = at, !.reply = reply] \in Requests
           /\ [q EXCEPT !.at = at, !.run = run] \in Requests
BY DEF Requests

LEMMA RequestsStay == ASSUME ToolType, request' = request PROVE RequestShape
BY DEF ToolType, RequestShape

LEMMA RequestUpdate ==
    ASSUME ToolType, NEW c \in Calls, NEW a \in Attempts, NEW r \in Requests,
           request' = [request EXCEPT ![c][a] = r],
           r.at = "waiting" => r.run \in 1 .. Len(handler'[c]),
           r.reply \in Ended => r.reply = request[c][a].reply \/ EndedAs(c, r.reply)
    PROVE  RequestShape
<1>1. request \in [Calls -> [Attempts -> Requests]]
  BY DEF ToolType
<1>2. request' \in [Calls -> [Attempts -> Requests]]
  BY <1>1
<1>3. request'[c][a] = r
  BY <1>1
<1>4. \A k \in Calls : \A b \in Attempts : (k = c /\ b = a) \/ request'[k][b] = request[k][b]
  BY <1>1
<1>5. QED
  BY <1>2, <1>3, <1>4 DEF RequestShape

LEMMA SentRequest ==
    ASSUME ToolType, NEW c \in Calls, NEW n, request' = [request EXCEPT ![c][n].at = "sent"]
    PROVE  RequestShape
<1>1. CASE n \in Attempts
  <2>1. PICK r \in Requests : r = [request[c][n] EXCEPT !.at = "sent"]
    <3>1. request[c][n] \in Requests /\ "sent" \in Places
      BY <1>1 DEF ToolType, Places
    <3>2. QED
      BY <3>1, Rerequested DEF Requests
  <2>2. request' = [request EXCEPT ![c][n] = r]
    BY <2>1, Zenon
  <2>3. r.at = "sent" /\ r.reply = request[c][n].reply
    BY <1>1, <2>1 DEF ToolType, Requests
  <2>4. QED
    BY <1>1, <2>2, <2>3, RequestUpdate
<1>2. CASE n \notin Attempts
  <2>1. request' = request
    BY <1>2 DEF ToolType
  <2>2. QED
    BY <2>1, RequestsStay
<1>3. QED
  BY <1>1, <1>2

LEMMA NetworkShape ==
    ASSUME ToolType, Backed, NEW c \in Calls, NEW a \in Attempts,
           ConnectionFails(c, a) \/ RunnerRefuses(c, a) \/ RunnerReplies(c, a)
    PROVE  RequestShape
<1>1. ASSUME ConnectionFails(c, a) PROVE RequestShape
  <2>1. PICK r \in Requests : r = [NoRequest EXCEPT !.at = "replied", !.reply = "broken"]
    BY DEF Requests, NoRequest, Places, Replies
  <2>2. request' = [request EXCEPT ![c][a] = r]
    BY <1>1, <2>1, Zenon DEF ConnectionFails
  <2>3. r.at = "replied" /\ r.reply = "broken"
    BY <2>1 DEF NoRequest
  <2>4. QED
    BY <2>2, <2>3, RequestUpdate DEF Ended
<1>2. ASSUME RunnerRefuses(c, a) PROVE RequestShape
  <2>1. PICK r \in Requests : r = [request[c][a] EXCEPT !.at = "replied", !.reply = "error"]
    <3>1. request[c][a] \in Requests /\ "replied" \in Places /\ "error" \in Replies
      BY DEF ToolType, Places, Replies
    <3>2. QED
      BY <3>1, Rerequested
  <2>2. request' = [request EXCEPT ![c][a] = r]
    BY <1>2, <2>1, ZenonT(30) DEF RunnerRefuses
  <2>3. r.at = "replied" /\ r.reply = "error"
    BY <2>1 DEF ToolType, Requests
  <2>4. QED
    BY <2>2, <2>3, RequestUpdate DEF Ended
<1>3. ASSUME RunnerReplies(c, a) PROVE RequestShape
  <2>1. PICK n \in 1 .. Len(handler[c]) : n = request[c][a].run
    BY <1>3 DEF RunnerReplies, Backed
  <2>2. PICK reply \in Outcomes : reply = handler[c][n]
    BY DEF ToolType
  <2>3. PICK r \in Requests : r = [request[c][a] EXCEPT !.at = "replied", !.reply = reply]
    <3>1. request[c][a] \in Requests /\ "replied" \in Places /\ reply \in Replies
      BY DEF ToolType, Replies, Places
    <3>2. QED
      BY <3>1, Rerequested
  <2>4. request' = [request EXCEPT ![c][a] = r]
    BY <1>3, <2>1, <2>2, <2>3, ZenonT(30) DEF RunnerReplies
  <2>5. r.at = "replied" /\ r.reply = reply
    BY <2>3 DEF ToolType, Requests
  <2>6. EndedAs(c, reply)
    BY <2>2 DEF EndedAs
  <2>7. QED
    BY <2>4, <2>5, <2>6, RequestUpdate
<1>4. QED
  BY <1>1, <1>2, <1>3

(* Executions are never taken back, nor is how they ended. *)
HandlersGrow ==
    /\ handler' \in [Calls -> Seq(Outcomes)]
    /\ \A k \in Calls :
          /\ Len(handler[k]) <= Len(handler'[k])
          /\ \A n \in 1 .. Len(handler[k]) :
                handler[k][n] # "running" => handler'[k][n] = handler[k][n]

LEMMA HandlersStay == ASSUME ToolType, handler' = handler PROVE HandlersGrow
BY DEF ToolType, HandlersGrow

LEMMA EndedStays ==
    ASSUME ToolType, HandlersGrow, NEW c \in Calls, NEW outcome \in Ended, EndedAs(c, outcome)
    PROVE  EndedAs(c, outcome)'
<1>1. PICK n \in 1 .. Len(handler[c]) : handler[c][n] = outcome
  BY DEF EndedAs
<1>2. n \in 1 .. Len(handler'[c])
  BY DEF HandlersGrow, ToolType
<1>3. handler'[c][n] = outcome
  BY <1>1 DEF HandlersGrow, Ended
<1>4. QED
  BY <1>2, <1>3 DEF EndedAs

LEMMA BackedStays == ASSUME ToolType, Backed, RequestShape, HandlersGrow PROVE Backed'
<1>1. SUFFICES ASSUME NEW c \in Calls, NEW a \in Attempts
               PROVE  /\ request'[c][a].at = "waiting" => request'[c][a].run \in 1 .. Len(handler'[c])
                      /\ request'[c][a].reply \in Ended => EndedAs(c, request[c][a].reply)'
  BY DEF Backed
<1>2. ASSUME request'[c][a].at = "waiting" PROVE request'[c][a].run \in 1 .. Len(handler'[c])
  <2>1. CASE request[c][a].at = "waiting" /\ request'[c][a].run = request[c][a].run
    <3>1. request'[c][a].run \in 1 .. Len(handler[c])
      BY <2>1 DEF Backed
    <3>2. Len(handler[c]) <= Len(handler'[c]) /\ Len(handler[c]) \in Nat /\ Len(handler'[c]) \in Nat
      BY DEF HandlersGrow, ToolType
    <3>3. QED
      BY <3>1, <3>2
  <2>2. QED
    BY <1>2, <2>1 DEF RequestShape
<1>3. ASSUME request'[c][a].reply \in Ended PROVE EndedAs(c, request[c][a].reply)'
  <2>1. PICK reply \in Ended : reply = request'[c][a].reply
    BY <1>3
  <2>2. EndedAs(c, reply)
    BY <1>3, <2>1 DEF RequestShape, Backed
  <2>3. EndedAs(c, reply)'
    BY <2>2, EndedStays
  <2>4. QED
    BY <2>1, <2>3 DEF EndedAs
<1>4. QED
  BY <1>2, <1>3

(* Entries keep their execution, whether they stay or are moved. *)
LEMMA EntriesStay ==
    ASSUME ToolType, EntriesRun, HandlersGrow,
           \A i \in 1 .. Len(cache') : cache'[i].key \in Calls =>
              \/ \E j \in 1 .. Len(cache) : /\ cache'[i].key = cache[j].key
                                            /\ cache'[i].run = cache[j].run
              \/ cache'[i].run \in 1 .. Len(handler'[cache'[i].key])
    PROVE  EntriesRun'
<1>1. SUFFICES ASSUME NEW i \in 1 .. Len(cache'), NEW c \in Calls, cache'[i].key = c
               PROVE  cache'[i].run \in 1 .. Len(handler'[c])
  BY DEF EntriesRun
<1>2. CASE \E j \in 1 .. Len(cache) : cache[j].key = c /\ cache'[i].run = cache[j].run
  <2>1. cache'[i].run \in 1 .. Len(handler[c])
    BY <1>2 DEF EntriesRun
  <2>2. Len(handler[c]) <= Len(handler'[c]) /\ Len(handler[c]) \in Nat /\ Len(handler'[c]) \in Nat
    BY DEF HandlersGrow, ToolType
  <2>3. QED
    BY <2>1, <2>2
<1>3. QED
  BY <1>1, <1>2

LEMMA SpentStays ==
    ASSUME ToolType, Spent, handler' = handler, forgotten' = forgotten,
           \A k \in Calls : Has(cache, k) => Has(cache', k)
    PROVE  Spent'
BY DEF Spent

-----------------------------------------------------------------------------
(* The runner *)

RunnerKeeps ==
    /\ RequestShape /\ HandlersGrow /\ CacheInv'
    /\ cache' \in Seq(Entries) /\ forgotten' \in [Calls -> Nat]

(* A request joins the entry of its call. *)
LEMMA JoinKeeps ==
    ASSUME ToolType, CacheInv, NEW c \in Calls, NEW a \in Attempts, NEW i \in Entry(c),
           cache' = Append(Without(c), cache[i]),
           request' = [request EXCEPT ![c][a].at = "waiting", ![c][a].run = cache[i].run],
           UNCHANGED <<handler, forgotten, restarted>>
    PROVE  RunnerKeeps
<1>1. i \in 1 .. Len(cache) /\ cache[i].key = c /\ cache[i] \in Entries
  BY DEF Entry, ToolType
<1>2. PICK e \in Entries : e = cache[i] /\ e.key = c /\ e.run \in Nat
  BY <1>1 DEF Entries
<1>3. e.run \in 1 .. Len(handler[c])
  BY <1>1, <1>2 DEF CacheInv, EntriesRun
<1>4. RequestShape
  <2>1. PICK r \in Requests : r = [request[c][a] EXCEPT !.at = "waiting", !.run = e.run]
    <3>1. request[c][a] \in Requests /\ "waiting" \in Places
      BY DEF ToolType, Places
    <3>2. QED
      BY <1>2, <3>1, Rerequested DEF Requests
  <2>2. request' = [request EXCEPT ![c][a].at = "waiting", ![c][a].run = e.run]
    BY <1>2, Zenon
  <2>3. [request EXCEPT ![c][a].at = "waiting", ![c][a].run = e.run]
          = [request EXCEPT ![c][a] = [request[c][a] EXCEPT !.at = "waiting", !.run = e.run]]
    BY ONLY ZenonT(30)
  <2>4. request' = [request EXCEPT ![c][a] = r]
    BY ONLY <2>1, <2>2, <2>3, ZenonT(30)
  <2>5. r.run = e.run /\ r.reply = request[c][a].reply
    BY <2>1 DEF ToolType, Requests
  <2>6. QED
    BY <1>3, <2>4, <2>5, RequestUpdate
<1>5. HandlersGrow
  BY HandlersStay
<1> DEFINE s == Without(c)
<1>6. /\ s \in Seq(Entries) /\ Distinct(s) /\ Within(s, cache) /\ ~Has(s, c)
      /\ \A k \in Calls \ {c} : Has(cache, k) => Has(s, k)
  BY WithoutEntry DEF CacheInv
<1> HIDE DEF s
<1>7. cache' = Append(s, e)
  BY <1>2 DEF s
<1>8. /\ cache' \in Seq(Entries) /\ Distinct(cache')
      /\ \A k : Has(cache', k) <=> Has(s, k) \/ e.key = k
      /\ \A n \in 1 .. Len(cache') : cache'[n] = e \/ \E j \in 1 .. Len(s) : cache'[n] = s[j]
  BY <1>2, <1>6, <1>7, AppendEntry
<1>9. Spent'
  <2>1. \A k \in Calls : Has(cache, k) => Has(cache', k)
    BY <1>2, <1>6, <1>8
  <2>2. QED
    BY <2>1, SpentStays DEF CacheInv
<1>10. EntriesRun'
  <2>1. \A n \in 1 .. Len(cache') : \E j \in 1 .. Len(cache) : cache'[n] = cache[j]
    <3>1. ASSUME NEW n \in 1 .. Len(cache') PROVE \E j \in 1 .. Len(cache) : cache'[n] = cache[j]
      <4>1. CASE cache'[n] = e
        BY <1>1, <1>2, <4>1
      <4>2. CASE \E j \in 1 .. Len(s) : cache'[n] = s[j]
        BY <1>6, <4>2 DEF Within
      <4>3. QED
        BY <1>8, <4>1, <4>2
    <3>2. QED
      BY <3>1
  <2>2. QED
    BY <1>5, <2>1, EntriesStay DEF CacheInv
<1>11. QED
  BY <1>4, <1>5, <1>8, <1>9, <1>10 DEF RunnerKeeps, CacheInv, ToolType

(* A request starts the handler under a new entry. *)
LEMMA ExecuteKeeps ==
    ASSUME ToolType, CacheInv, NEW c \in Calls, NEW a \in Attempts, NEW grown,
           grown = Append(Without(c), [key |-> c, run |-> Len(handler[c]) + 1, old |-> FALSE]),
           handler' = [handler EXCEPT ![c] = Append(@, "running")],
           request' = [request EXCEPT ![c][a].at = "waiting", ![c][a].run = Len(handler[c]) + 1],
           cache' = Evicted(grown),
           forgotten' = [k \in Calls |->
              forgotten[k] + (IF k = c /\ Entry(c) # {} THEN 1 ELSE 0)
                + (IF Len(grown) > MaxEntries /\ grown[1].key = k THEN 1 ELSE 0)]
    PROVE  RunnerKeeps
<1>1. PICK n \in Nat : n = Len(handler[c]) + 1
  BY DEF ToolType
<1>2. HandlersGrow /\ Len(handler'[c]) = n /\ \A k \in Calls \ {c} : handler'[k] = handler[k]
  <2>1. handler \in [Calls -> Seq(Outcomes)] /\ "running" \in Outcomes
    BY DEF ToolType, Outcomes
  <2>2. /\ handler' \in [Calls -> Seq(Outcomes)] /\ handler'[c] = Append(handler[c], "running")
        /\ \A k \in Calls \ {c} : handler'[k] = handler[k]
    BY <2>1
  <2>3. \A m \in 1 .. Len(handler[c]) : handler'[c][m] = handler[c][m]
    BY <2>1, <2>2
  <2>4. QED
    BY <1>1, <2>1, <2>2, <2>3 DEF HandlersGrow
<1>3. RequestShape
  <2>1. PICK r \in Requests : r = [request[c][a] EXCEPT !.at = "waiting", !.run = n]
    <3>1. request[c][a] \in Requests /\ "waiting" \in Places
      BY DEF ToolType, Places
    <3>2. QED
      BY <3>1, Rerequested DEF Requests
  <2>2. request' = [request EXCEPT ![c][a].at = "waiting", ![c][a].run = n]
    BY <1>1, Zenon
  <2>3. [request EXCEPT ![c][a].at = "waiting", ![c][a].run = n]
          = [request EXCEPT ![c][a] = [request[c][a] EXCEPT !.at = "waiting", !.run = n]]
    BY ONLY ZenonT(30)
  <2>4. request' = [request EXCEPT ![c][a] = r]
    BY ONLY <2>1, <2>2, <2>3, ZenonT(30)
  <2>5. r.run = n /\ r.reply = request[c][a].reply
    BY <2>1 DEF ToolType, Requests
  <2>6. n \in 1 .. Len(handler'[c])
    BY <1>1, <1>2 DEF ToolType
  <2>7. QED
    BY <2>4, <2>5, <2>6, RequestUpdate
<1>4. PICK e \in Entries : e = [key |-> c, run |-> n, old |-> FALSE]
  BY DEF Entries
<1> DEFINE s == Without(c)
<1>5. /\ s \in Seq(Entries) /\ Distinct(s) /\ Within(s, cache) /\ ~Has(s, c)
      /\ \A k \in Calls \ {c} : Has(cache, k) => Has(s, k)
  BY WithoutEntry DEF CacheInv
<1> HIDE DEF s
<1>6. grown = Append(s, e) /\ e.key = c /\ e.run = n
  BY <1>1, <1>4 DEF s
<1>7. /\ grown \in Seq(Entries) /\ Distinct(grown) /\ grown # <<>>
      /\ \A k : Has(grown, k) <=> Has(s, k) \/ e.key = k
      /\ \A m \in 1 .. Len(grown) : grown[m] = e \/ \E j \in 1 .. Len(s) : grown[m] = s[j]
  <2>1. e.key \in Calls => ~Has(s, e.key)
    BY <1>5, <1>6
  <2>2. QED
    BY ONLY <1>5, <1>6, <2>1, AppendEntry
<1>8. /\ cache' \in Seq(Entries) /\ Distinct(cache') /\ Within(cache', grown)
      /\ \A k : Has(grown, k) => Has(cache', k) \/ (Len(grown) > MaxEntries /\ grown[1].key = k)
  BY <1>7, EvictEntry
<1>9. EntriesRun'
  <2>1. \A m \in 1 .. Len(cache') : cache'[m] = e \/ \E j \in 1 .. Len(cache) : cache'[m] = cache[j]
    <3>1. ASSUME NEW m \in 1 .. Len(cache')
          PROVE  cache'[m] = e \/ \E j \in 1 .. Len(cache) : cache'[m] = cache[j]
      <4>1. PICK l \in 1 .. Len(grown) : cache'[m] = grown[l]
        BY <1>8 DEF Within
      <4>2. CASE \E j \in 1 .. Len(s) : grown[l] = s[j]
        BY <1>5, <4>1, <4>2 DEF Within
      <4>3. QED
        BY <1>7, <4>1, <4>2
    <3>2. QED
      BY <3>1
  <2>2. n \in 1 .. Len(handler'[c])
    BY <1>1, <1>2 DEF ToolType
  <2>3. QED
    BY <1>2, <1>6, <2>1, <2>2, EntriesStay DEF CacheInv
<1> DEFINE expired(k) == IF k = c /\ Entry(c) # {} THEN 1 ELSE 0
           evicted(k) == IF Len(grown) > MaxEntries /\ grown[1].key = k THEN 1 ELSE 0
<1>10. \A k \in Calls : expired(k) \in {0, 1} /\ evicted(k) \in {0, 1}
  OBVIOUS
<1>11. forgotten' = [k \in Calls |-> forgotten[k] + expired(k) + evicted(k)]
  OBVIOUS
<1> HIDE DEF expired, evicted
<1>12. forgotten' \in [Calls -> Nat]
  BY <1>10, <1>11 DEF ToolType
<1>13. Spent'
  <2>1. ASSUME NEW k \in Calls
        PROVE  /\ Len(handler'[k]) <= 1 + forgotten'[k]
               /\ ~Has(cache', k) => Len(handler'[k]) <= forgotten'[k]
    <3>1. /\ forgotten[k] \in Nat /\ forgotten'[k] \in Nat /\ Len(handler[k]) \in Nat
          /\ forgotten'[k] = forgotten[k] + expired(k) + evicted(k)
          /\ expired(k) \in {0, 1} /\ evicted(k) \in {0, 1}
      <4>1. forgotten[k] \in Nat /\ forgotten'[k] \in Nat /\ Len(handler[k]) \in Nat
        BY ONLY <1>12, ToolType DEF ToolType
      <4>2. forgotten'[k] = forgotten[k] + expired(k) + evicted(k)
        BY ONLY <1>11
      <4>3. QED
        BY ONLY <1>10, <4>1, <4>2
    <3>2. /\ Len(handler[k]) <= 1 + forgotten[k]
          /\ ~Has(cache, k) => Len(handler[k]) <= forgotten[k]
      BY DEF CacheInv, Spent
    <3>3. CASE k = c
      <4>1. Entry(c) = {} <=> ~Has(cache, c)
        BY DEF Entry, Has
      <4>2. Len(handler'[k]) = Len(handler[k]) + 1
        BY <1>1, <1>2, <3>3
      <4>3. Has(cache', k) \/ (Len(grown) > MaxEntries /\ grown[1].key = k)
        BY <1>6, <1>7, <1>8, <3>3
      <4>4. expired(k) = IF Has(cache, k) THEN 1 ELSE 0
        BY <3>3, <4>1 DEF expired
      <4>5. ~Has(cache', k) => evicted(k) = 1
        BY <4>3 DEF evicted
      <4>6. QED
        BY ONLY <3>1, <3>2, <4>2, <4>4, <4>5
    <3>4. CASE k # c
      <4>1. handler'[k] = handler[k]
        BY <1>2, <3>4
      <4>2. Has(cache, k) => Has(cache', k) \/ (Len(grown) > MaxEntries /\ grown[1].key = k)
        BY <1>5, <1>7, <1>8, <3>4
      <4>3. ~Has(cache', k) => ~Has(cache, k) \/ evicted(k) = 1
        BY <4>2 DEF evicted
      <4>4. QED
        BY ONLY <3>1, <3>2, <4>1, <4>3
    <3>5. QED
      BY <3>3, <3>4
  <2>2. QED
    BY <2>1 DEF Spent
<1>14. QED
  BY <1>2, <1>3, <1>8, <1>9, <1>12, <1>13 DEF RunnerKeeps, CacheInv

LEMMA HandlerEndsKeeps ==
    ASSUME ToolType, CacheInv, NEW c \in Calls, NEW n \in Nat, NEW outcome \in Ended,
           HandlerEnds(c, n, outcome)
    PROVE  RunnerKeeps
<1>1. /\ n \in 1 .. Len(handler[c]) /\ handler[c][n] = "running"
      /\ handler' = [handler EXCEPT ![c][n] = outcome]
      /\ UNCHANGED <<cache, forgotten, request>>
  BY DEF HandlerEnds
<1>2. handler \in [Calls -> Seq(Outcomes)] /\ outcome \in Outcomes
  BY DEF ToolType, Ended, Outcomes
<1>3. /\ handler' \in [Calls -> Seq(Outcomes)] /\ \A k \in Calls \ {c} : handler'[k] = handler[k]
      /\ handler'[c] = [handler[c] EXCEPT ![n] = outcome]
  BY <1>1, <1>2
<1>4. \A k \in Calls : Len(handler'[k]) = Len(handler[k])
  <2>1. PICK h \in Seq(Outcomes) : h = handler[c]
    BY <1>2
  <2>2. Len([h EXCEPT ![n] = outcome]) = Len(h)
    BY <1>2
  <2>3. Len(handler'[c]) = Len(handler[c])
    BY <1>3, <2>1, <2>2
  <2>4. QED
    BY ONLY <1>3, <2>3
<1>5. HandlersGrow
  <2>1. \A m \in 1 .. Len(handler[c]) : m # n => handler'[c][m] = handler[c][m]
    BY <1>2, <1>3
  <2>2. \A k \in Calls : Len(handler[k]) \in Nat
    BY <1>2
  <2>3. QED
    BY ONLY <1>1, <1>3, <1>4, <2>1, <2>2 DEF HandlersGrow
<1>6. Spent'
  BY <1>1, <1>4 DEF CacheInv, Spent
<1>7. EntriesRun'
  BY <1>1, <1>4 DEF CacheInv, EntriesRun
<1>8. QED
  BY <1>1, <1>5, <1>6, <1>7, RequestsStay DEF RunnerKeeps, CacheInv, ToolType

LEMMA ExpireKeeps ==
    ASSUME ToolType, CacheInv, NEW i \in Nat, Expire(i)
    PROVE  RunnerKeeps
<1>1. /\ i \in 1 .. Len(cache) /\ cache' = [cache EXCEPT ![i].old = TRUE]
      /\ UNCHANGED <<request, handler, forgotten>>
  BY DEF Expire
<1>2. PICK e \in Entries : e = cache[i]
  BY <1>1 DEF ToolType
<1>3. PICK g \in Entries : g = [e EXCEPT !.old = TRUE] /\ g.key = e.key /\ g.run = e.run
  <2>1. [e EXCEPT !.old = TRUE] \in Entries
    BY DEF Entries
  <2>2. [e EXCEPT !.old = TRUE].key = e.key /\ [e EXCEPT !.old = TRUE].run = e.run
    BY DEF Entries
  <2>3. QED
    BY <2>1, <2>2
<1>4. cache' = [cache EXCEPT ![i] = g]
  BY <1>1, <1>2, <1>3
<1>5. /\ cache' \in Seq(Entries) /\ Len(cache') = Len(cache) /\ Len(cache) \in Nat
      /\ cache'[i] = g /\ \A j \in 1 .. Len(cache) : j # i => cache'[j] = cache[j]
  <2>1. cache \in Seq(Entries) /\ Len(cache) \in Nat /\ i \in 1 .. Len(cache)
    BY <1>1 DEF ToolType
  <2>2. cache' \in Seq(Entries) /\ Len(cache') = Len(cache)
    BY ONLY <1>4, <2>1
  <2>3. QED
    BY ONLY <1>4, <2>1, <2>2
<1>6. \A j \in 1 .. Len(cache) : cache'[j].key = cache[j].key /\ cache'[j].run = cache[j].run
  BY <1>2, <1>3, <1>5
<1>7. \A k \in Calls : Has(cache', k) <=> Has(cache, k)
  BY <1>5, <1>6 DEF Has
<1>8. Distinct(cache')
  BY <1>5, <1>6 DEF CacheInv, Distinct
<1>9. EntriesRun'
  BY <1>1, <1>5, <1>6, HandlersStay, EntriesStay DEF CacheInv
<1>10. QED
  BY <1>1, <1>5, <1>7, <1>8, <1>9, RequestsStay, HandlersStay, SpentStays
  DEF RunnerKeeps, CacheInv, ToolType

LEMMA OtherCallKeeps ==
    ASSUME ToolType, CacheInv, OtherCall PROVE RunnerKeeps
<1>1. PICK e \in Entries : e = [key |-> None, run |-> 0, old |-> FALSE]
  BY DEF Entries
<1>2. PICK grown : grown = Append(cache, e)
  OBVIOUS
<1>3. /\ cache' = Evicted(grown) /\ UNCHANGED <<request, handler>>
      /\ forgotten' = [c \in Calls |->
            forgotten[c] + (IF Len(grown) > MaxEntries /\ grown[1].key = c THEN 1 ELSE 0)]
  BY <1>1, <1>2 DEF OtherCall
<1>4. /\ grown \in Seq(Entries) /\ Distinct(grown) /\ grown # <<>>
      /\ \A k : Has(grown, k) <=> Has(cache, k) \/ e.key = k
      /\ \A m \in 1 .. Len(grown) : grown[m] = e \/ \E j \in 1 .. Len(cache) : grown[m] = cache[j]
  <2>1. cache \in Seq(Entries) /\ Distinct(cache) /\ e.key \notin Calls
    BY <1>1 DEF ToolType, CacheInv, ToolCallsAssumption
  <2>2. QED
    BY ONLY <1>2, <2>1, AppendEntry
<1>5. /\ cache' \in Seq(Entries) /\ Distinct(cache') /\ Within(cache', grown)
      /\ \A k : Has(grown, k) => Has(cache', k) \/ (Len(grown) > MaxEntries /\ grown[1].key = k)
  BY ONLY <1>3, <1>4, EvictEntry
<1>6. EntriesRun'
  <2>1. ASSUME NEW m \in 1 .. Len(cache'), cache'[m].key \in Calls
        PROVE  \E j \in 1 .. Len(cache) : cache'[m] = cache[j]
    <3>1. PICK l \in 1 .. Len(grown) : cache'[m] = grown[l]
      BY <1>5 DEF Within
    <3>2. grown[l] # e
      BY <1>1, <2>1, <3>1 DEF ToolCallsAssumption
    <3>3. QED
      BY <1>4, <3>1, <3>2
  <2>2. QED
    BY <1>3, <2>1, HandlersStay, EntriesStay DEF CacheInv
<1> DEFINE evicted(k) == IF Len(grown) > MaxEntries /\ grown[1].key = k THEN 1 ELSE 0
<1>7. \A k \in Calls : evicted(k) \in {0, 1}
  OBVIOUS
<1>8. \A k \in Calls : ~Has(cache', k) => ~Has(cache, k) \/ evicted(k) = 1
  BY <1>4, <1>5
<1>9. forgotten' = [k \in Calls |-> forgotten[k] + evicted(k)]
  BY <1>3
<1> HIDE DEF evicted
<1>10. forgotten' \in [Calls -> Nat]
  <2>1. \A k \in Calls : forgotten[k] + evicted(k) \in Nat
    <3>1. \A k \in Calls : forgotten[k] \in Nat
      BY DEF ToolType
    <3>2. QED
      BY ONLY <1>7, <3>1
  <2>2. QED
    BY ONLY <1>9, <2>1
<1>11. Spent'
  <2>1. ASSUME NEW k \in Calls
        PROVE  /\ Len(handler'[k]) <= 1 + forgotten'[k]
               /\ ~Has(cache', k) => Len(handler'[k]) <= forgotten'[k]
    <3>1. forgotten[k] \in Nat /\ Len(handler[k]) \in Nat /\ handler'[k] = handler[k]
      BY <1>3 DEF ToolType
    <3>2. forgotten'[k] = forgotten[k] + evicted(k)
      BY ONLY <1>9
    <3>3. /\ Len(handler[k]) <= 1 + forgotten[k]
          /\ ~Has(cache, k) => Len(handler[k]) <= forgotten[k]
      BY DEF CacheInv, Spent
    <3>4. QED
      BY ONLY <1>7, <1>8, <3>1, <3>2, <3>3
  <2>2. QED
    BY <2>1 DEF Spent
<1>12. QED
  BY <1>3, <1>5, <1>6, <1>10, <1>11, RequestsStay, HandlersStay DEF RunnerKeeps, CacheInv

LEMMA RestartKeeps ==
    ASSUME ToolType, CacheInv, RunnerRestarts PROVE RunnerKeeps
<1>1. /\ cache' = <<>>
      /\ forgotten' = [c \in Calls |-> forgotten[c] + (IF Entry(c) # {} THEN 1 ELSE 0)]
      /\ handler' = [c \in Calls |-> [n \in 1 .. Len(handler[c]) |->
                       IF handler[c][n] = "running" THEN "killed" ELSE handler[c][n]]]
      /\ request' = [c \in Calls |-> [a \in Attempts |->
                       IF request[c][a].at # "waiting" THEN request[c][a]
                       ELSE [NoRequest EXCEPT !.at = "replied", !.reply = "broken"]]]
  BY DEF RunnerRestarts
<1>2. /\ handler \in [Calls -> Seq(Outcomes)] /\ request \in [Calls -> [Attempts -> Requests]]
      /\ forgotten \in [Calls -> Nat]
  BY DEF ToolType
<1>3. ASSUME NEW k \in Calls
      PROVE  /\ handler'[k] \in Seq(Outcomes) /\ Len(handler'[k]) = Len(handler[k])
             /\ Len(handler[k]) \in Nat
             /\ \A n \in 1 .. Len(handler[k]) :
                   handler[k][n] # "running" => handler'[k][n] = handler[k][n]
  <2>1. /\ handler'[k] = [n \in 1 .. Len(handler[k]) |->
                            IF handler[k][n] = "running" THEN "killed" ELSE handler[k][n]]
        /\ handler[k] \in Seq(Outcomes) /\ Len(handler[k]) \in Nat
    BY <1>1, <1>2
  <2>2. \A n \in 1 .. Len(handler[k]) : handler'[k][n] \in Outcomes
    BY <2>1 DEF Outcomes
  <2>3. QED
    BY ONLY <2>1, <2>2
<1>4. HandlersGrow
  <2>1. handler' \in [Calls -> Seq(Outcomes)]
    BY ONLY <1>1, <1>3
  <2>2. QED
    BY ONLY <1>3, <2>1 DEF HandlersGrow
<1>5. RequestShape
  <2>1. PICK r \in Requests : /\ r = [NoRequest EXCEPT !.at = "replied", !.reply = "broken"]
                              /\ r.at = "replied" /\ r.reply = "broken"
    <3>1. [NoRequest EXCEPT !.at = "replied", !.reply = "broken"] \in Requests
      BY DEF Requests, NoRequest, Places, Replies
    <3>2. QED
      BY <3>1 DEF NoRequest
  <2>2. request' = [c \in Calls |-> [a \in Attempts |->
                      IF request[c][a].at # "waiting" THEN request[c][a] ELSE r]]
    BY <1>1, <2>1
  <2>3. \A k \in Calls : \A b \in Attempts : request'[k][b] = request[k][b] \/ request'[k][b] = r
    BY ONLY <1>2, <2>2
  <2>4. request' \in [Calls -> [Attempts -> Requests]]
    BY ONLY <1>2, <2>1, <2>2
  <2>5. QED
    BY ONLY <2>1, <2>3, <2>4 DEF RequestShape, Ended
<1>6. Distinct(cache') /\ EntriesRun' /\ cache' \in Seq(Entries)
  BY <1>1 DEF Distinct, EntriesRun
<1> DEFINE dropped(k) == IF Entry(k) # {} THEN 1 ELSE 0
<1>7. \A k \in Calls : dropped(k) \in {0, 1} /\ (Has(cache, k) => dropped(k) = 1)
  BY DEF Entry, Has
<1>8. forgotten' = [k \in Calls |-> forgotten[k] + dropped(k)]
  BY <1>1
<1> HIDE DEF dropped
<1>9. forgotten' \in [Calls -> Nat]
  <2>1. \A k \in Calls : forgotten[k] + dropped(k) \in Nat
    BY ONLY <1>2, <1>7
  <2>2. QED
    BY ONLY <1>8, <2>1
<1>10. Spent'
  <2>1. ASSUME NEW k \in Calls PROVE Len(handler'[k]) <= forgotten'[k]
    <3>1. forgotten[k] \in Nat /\ Len(handler[k]) \in Nat /\ Len(handler'[k]) = Len(handler[k])
      BY <1>2, <1>3
    <3>2. forgotten'[k] = forgotten[k] + dropped(k)
      BY ONLY <1>8
    <3>3. /\ Len(handler[k]) <= 1 + forgotten[k]
          /\ ~Has(cache, k) => Len(handler[k]) <= forgotten[k]
      BY DEF CacheInv, Spent
    <3>4. QED
      BY ONLY <1>7, <3>1, <3>2, <3>3
  <2>2. \A k \in Calls : forgotten'[k] \in Nat /\ Len(handler'[k]) \in Nat
    BY ONLY <1>3, <1>9
  <2>3. QED
    BY ONLY <2>1, <2>2 DEF Spent
<1>11. QED
  BY <1>4, <1>5, <1>6, <1>9, <1>10 DEF RunnerKeeps, CacheInv

-----------------------------------------------------------------------------
(* The executors *)

(* The runner is left alone. *)
LEMMA RunnerIdle ==
    ASSUME ToolType, CacheInv, UNCHANGED runnerVars, RequestShape
    PROVE  RunnerKeeps
<1>1. UNCHANGED <<cache, handler, forgotten>>
  BY DEF runnerVars
<1>2. Distinct(cache)' /\ Spent' /\ EntriesRun'
  BY <1>1 DEF CacheInv, Distinct, Spent, EntriesRun, Has
<1>3. QED
  BY <1>1, <1>2, HandlersStay DEF RunnerKeeps, CacheInv, ToolType

LEMMA CallsStay ==
    ASSUME ToolType, CallInv, HandlersGrow, call' = call
    PROVE  CallInv'
<1>1. \A c \in Calls : EndedAs(c, "ok") => EndedAs(c, "ok")'
  BY EndedStays DEF Ended
<1>2. QED
  BY <1>1 DEF CallInv

(* A step of the executor of c leaves the other calls as they are. *)
LEMMA CallStep ==
    ASSUME ToolType, CallInv, Backed, UNCHANGED handler, NEW c \in Calls, ExecutorStep(c)
    PROVE  CallInv' /\ call' \in [Calls -> CallRecords]
<1>1. \A k \in Calls : EndedAs(k, "ok")' <=> EndedAs(k, "ok")
  BY DEF EndedAs
<1> DEFINE Good(r, k) ==
             /\ r.pc = "local" => r.via \notin Urls
             /\ r.pc \in {"send", "waiting"} => r.attempt \in Attempts
             /\ r.pc = "delay" => r.attempt \in 1 .. MaxRetries
             /\ r.pc # "done" => r.result # "ok"
             /\ r.result = "ok" /\ r.via \in Urls => EndedAs(k, "ok")
<1>2. Good(call[c], c) /\ \A k \in Calls : Good(call[k], k)
  BY DEF CallInv
<1>3. call[c].attempt \in Nat /\ call[c] \in CallRecords
  BY DEF ToolType, CallRecords
<1> DEFINE Lands == /\ call' \in [Calls -> CallRecords] /\ Good(call'[c], c)
                    /\ \A k \in Calls \ {c} : call'[k] = call[k]
<1>4. Lands
  <2>1. ASSUME call[c].pc = "new", Starts(c)
        PROVE  Lands
    <3>1. PICK executor \in Executors :
             Updates(call, call', c, IF executor \in Urls THEN "prepare" ELSE "local", executor,
                     call[c].attempt, call[c].result)
      BY <2>1 DEF Starts
    <3>2. QED
      BY <1>2, <2>1, <3>1 DEF Updates
  <2>2. ASSUME NEW result \in Results, call[c].pc # "done", Ends(c, result),
               result = "ok" => \/ call[c].pc = "local"
                                \/ call[c].pc = "waiting" /\ request[c][call[c].attempt].reply = "ok"
        PROVE  Lands
    <3>1. ASSUME result = "ok", call[c].via \in Urls PROVE EndedAs(c, "ok")
      <4>1. call[c].pc = "waiting" /\ request[c][call[c].attempt].reply = "ok"
        BY <1>2, <2>2, <3>1
      <4>2. call[c].attempt \in Attempts
        BY <1>2, <4>1
      <4>3. QED
        BY <4>1, <4>2 DEF Backed, Ended
    <3>2. QED
      BY <1>2, <2>2, <3>1 DEF Ends, Updates
  <2>3. ASSUME NEW n \in Attempts, call[c].pc # "done", Tries(c, n)
        PROVE  Lands
    BY <1>2, <2>3 DEF Tries, Updates
  <2>4. ASSUME call[c].pc = "send", Moves(c, "waiting")
        PROVE  Lands
    BY <1>2, <2>4 DEF Moves, Updates
  <2>5. ASSUME call[c].pc = "waiting", call[c].attempt < 1 + MaxRetries, Moves(c, "delay")
        PROVE  Lands
    <3>1. call[c].attempt \in 1 .. MaxRetries
      BY <1>2, <1>3, <2>5 DEF Attempts
    <3>2. QED
      BY <1>2, <2>5, <3>1 DEF Moves, Updates
  <2>6. 1 \in Attempts /\ (call[c].pc = "delay" => call[c].attempt + 1 \in Attempts)
    BY <1>2, <1>3 DEF Attempts, ToolCallsAssumption
  <2>7. QED
    BY <2>1, <2>2, <2>3, <2>4, <2>5, <2>6, ExecutorShape DEF Results
<1>5. \A k \in Calls : Good(call'[k], k)
  BY <1>2, <1>4
<1> HIDE DEF Good
<1>6. CallInv'
  BY <1>1, <1>5 DEF CallInv, Good
<1>7. QED
  BY <1>4, <1>6

-----------------------------------------------------------------------------
(* The invariant *)

(* Every step either belongs to an executor or to the rest; each part of   *)
(* the invariant is kept by the part of the step that touches it.          *)
LEMMA ToolStep ==
    ASSUME ToolInv, ToolNext
    PROVE  /\ RunnerKeeps /\ CallInv' /\ call' \in [Calls -> CallRecords]
           /\ agent' \in [url : Urls \cup {None}, tools : BOOLEAN, local : BOOLEAN]
           /\ memo' \in [Urls \cup {"local"} -> Executors]
<1> DEFINE Kept == /\ RunnerKeeps /\ CallInv' /\ call' \in [Calls -> CallRecords]
                   /\ agent' \in [url : Urls \cup {None}, tools : BOOLEAN, local : BOOLEAN]
                   /\ memo' \in [Urls \cup {"local"} -> Executors]
<1>1. /\ ToolType /\ CacheInv /\ Backed /\ CallInv
      /\ call \in [Calls -> CallRecords] /\ memo \in [Urls \cup {"local"} -> Executors]
      /\ agent \in [url : Urls \cup {None}, tools : BOOLEAN, local : BOOLEAN]
  BY DEF ToolInv, ToolType
<1>2. ASSUME RunnerKeeps, UNCHANGED <<agent, memo, call>> PROVE Kept
  <2>1. HandlersGrow
    BY <1>2 DEF RunnerKeeps
  <2>2. CallInv'
    BY <1>1, <1>2, <2>1, CallsStay
  <2>3. QED
    BY <1>1, <1>2, <2>2
<1>3. ASSUME UNCHANGED <<request, runnerVars>> PROVE RunnerKeeps /\ HandlersGrow
  <2>1. UNCHANGED <<request, handler>>
    BY <1>3 DEF runnerVars
  <2>2. QED
    BY <1>1, <1>3, <2>1, RunnerIdle, RequestsStay, HandlersStay
<1>4. ASSUME Register \/ OtherRun PROVE Kept
  <2>1. UNCHANGED <<call, request, runnerVars>>
    BY <1>4 DEF Register, OtherRun
  <2>2. CallInv' /\ RunnerKeeps
    BY <1>1, <1>3, <2>1, CallsStay
  <2>3. /\ agent' \in [url : Urls \cup {None}, tools : BOOLEAN, local : BOOLEAN]
        /\ memo' \in [Urls \cup {"local"} -> Executors]
    BY <1>1, <1>4, ResolvedType DEF Register, OtherRun
  <2>4. QED
    BY <1>1, <2>1, <2>2, <2>3
<1>5. ASSUME NEW c \in Calls, ExecutorStep(c) PROVE Kept
  <2>1. UNCHANGED <<agent, runnerVars>>
    BY <1>5 DEF ExecutorStep, Begin, LocalExecute, Prepare, SendAttempt, ReplyArrives,
                AttemptTimesOut, AbortSeen, DelayEnds
  <2>2. memo' = memo \/ memo' = Memoised
    BY <1>5 DEF ExecutorStep, Begin, LocalExecute, Prepare, SendAttempt, ReplyArrives,
                AttemptTimesOut, AbortSeen, DelayEnds
  <2>3. request' = request \/ request' = [request EXCEPT ![c][call[c].attempt].at = "sent"]
    BY <1>5 DEF ExecutorStep, Begin, LocalExecute, Prepare, SendAttempt, ReplyArrives,
                AttemptTimesOut, AbortSeen, DelayEnds
  <2>4. RequestShape
    BY <1>1, <2>3, RequestsStay, SentRequest
  <2>5. RunnerKeeps
    BY <1>1, <2>1, <2>4, RunnerIdle
  <2>6. handler' = handler
    BY <2>1 DEF runnerVars
  <2>7. CallInv' /\ call' \in [Calls -> CallRecords]
    BY <1>1, <1>5, <2>6, CallStep
  <2>8. memo' \in [Urls \cup {"local"} -> Executors]
    BY <1>1, <2>2, ResolvedType
  <2>9. QED
    BY <1>1, <2>1, <2>5, <2>7, <2>8
<1>6. ASSUME NEW c \in Calls, Abort(c) PROVE Kept
  BY <1>2, <1>3, <1>6 DEF Abort
<1>7. ASSUME NEW c \in Calls, NEW a \in Attempts,
             ConnectionFails(c, a) \/ RunnerRefuses(c, a) \/ RunnerReplies(c, a)
      PROVE  Kept
  <2>1. UNCHANGED <<agent, memo, call, runnerVars>>
    BY <1>7 DEF ConnectionFails, RunnerRefuses, RunnerReplies
  <2>2. QED
    BY <1>1, <1>2, <1>7, <2>1, NetworkShape, RunnerIdle
<1>8. ASSUME NEW c \in Calls, NEW a \in Attempts, RunnerHandles(c, a) PROVE Kept
  <2>1. UNCHANGED <<agent, memo, call>> /\ CacheRun(c, a)
    BY <1>8 DEF RunnerHandles
  <2>2. ASSUME NEW i \in Entry(c), cache' = Append(Without(c), cache[i]),
               request' = [request EXCEPT ![c][a].at = "waiting", ![c][a].run = cache[i].run],
               UNCHANGED <<handler, forgotten, restarted>>
        PROVE  RunnerKeeps
    BY <1>1, <2>2, JoinKeeps
  <2>3. PICK grown :
           grown = Append(Without(c), [key |-> c, run |-> Len(handler[c]) + 1, old |-> FALSE])
    OBVIOUS
  <2>4. ASSUME handler' = [handler EXCEPT ![c] = Append(@, "running")],
               request' = [request EXCEPT ![c][a].at = "waiting", ![c][a].run = Len(handler[c]) + 1],
               cache' = Evicted(grown),
               forgotten' = [k \in Calls |->
                  forgotten[k] + (IF k = c /\ Entry(c) # {} THEN 1 ELSE 0)
                    + (IF Len(grown) > MaxEntries /\ grown[1].key = k THEN 1 ELSE 0)]
        PROVE  RunnerKeeps
    BY <1>1, <2>3, <2>4, ExecuteKeeps
  <2>5. RunnerKeeps
    BY <2>1, <2>2, <2>3, <2>4 DEF CacheRun
  <2>6. QED
    BY <1>2, <2>1, <2>5
<1>9. ASSUME NEW c \in Calls, NEW n \in 1 .. MaxExecutions, NEW outcome \in {"ok", "failed"},
             HandlerEnds(c, n, outcome)
      PROVE  Kept
  <2>1. n \in Nat /\ outcome \in Ended
    BY DEF ToolCallsAssumption, Ended
  <2>2. UNCHANGED <<agent, memo, call>>
    BY <1>9 DEF HandlerEnds
  <2>3. QED
    BY <1>1, <1>2, <1>9, <2>1, <2>2, HandlerEndsKeeps
<1>10. ASSUME NEW i \in 1 .. MaxEntries, Expire(i) PROVE Kept
  <2>1. i \in Nat
    BY DEF ToolCallsAssumption
  <2>2. UNCHANGED <<agent, memo, call>>
    BY <1>10 DEF Expire
  <2>3. QED
    BY <1>1, <1>2, <1>10, <2>1, <2>2, ExpireKeeps
<1>11. ASSUME OtherCall PROVE Kept
  BY <1>1, <1>2, <1>11, OtherCallKeeps DEF OtherCall
<1>12. ASSUME RunnerRestarts PROVE Kept
  BY <1>1, <1>2, <1>12, RestartKeeps DEF RunnerRestarts
<1> HIDE DEF Kept
<1>13. ASSUME NEW c \in Calls, NEW a \in Attempts,
              \/ ConnectionFails(c, a) \/ RunnerRefuses(c, a)
              \/ RunnerHandles(c, a) \/ RunnerReplies(c, a)
       PROVE  Kept
  BY <1>7, <1>8, <1>13
<1>14. Kept
  BY <1>4, <1>5, <1>6, <1>9, <1>10, <1>11, <1>12, <1>13 DEF ToolNext
<1>15. QED
  BY <1>14 DEF Kept

(* Only Abort adds to the aborted calls. *)
LEMMA AbortedStep == ToolNext => aborted' = aborted \/ \E c \in Calls : aborted' = aborted \cup {c}
BY DEF ToolNext, ExecutorStep, Register, OtherRun, OtherCall, Begin, LocalExecute, Prepare,
       SendAttempt, ReplyArrives, AttemptTimesOut, AbortSeen, DelayEnds, Abort, ConnectionFails,
       RunnerRefuses, RunnerHandles, RunnerReplies, HandlerEnds, Expire, RunnerRestarts

LEMMA ToolInvStep == ToolInv /\ [ToolNext]_toolVars => ToolInv'
<1>1. ASSUME ToolInv, ToolNext PROVE ToolInv'
  <2>1. ToolType'
    BY <1>1, ToolStep, AbortedStep DEF ToolInv, ToolType, RunnerKeeps, RequestShape, HandlersGrow
  <2>2. Backed'
    BY <1>1, ToolStep, BackedStays DEF ToolInv, RunnerKeeps
  <2>3. QED
    BY <1>1, <2>1, <2>2, ToolStep DEF ToolInv, RunnerKeeps
<1>2. ASSUME ToolInv, UNCHANGED toolVars PROVE ToolInv'
  BY <1>2 DEF ToolInv, ToolType, CacheInv, Distinct, Spent, EntriesRun, Has, Backed, EndedAs,
              CallInv, toolVars, runnerVars
<1>3. QED
  BY <1>1, <1>2

LEMMA ToolInvInit == ToolInit => ToolInv
<1> SUFFICES ASSUME ToolInit PROVE ToolInv
  OBVIOUS
<1>1. ToolType
  BY DEF ToolInit, ToolType, CallRecords, Pcs, Results, Requests, Places, Replies, NoRequest,
         Executors
<1>2. CacheInv
  BY DEF ToolInit, CacheInv, Distinct, Spent, EntriesRun
<1>3. Backed /\ CallInv
  BY DEF ToolInit, Backed, CallInv, NoRequest, Ended
<1>4. QED
  BY <1>1, <1>2, <1>3 DEF ToolInv

(* A round takes steps of the tool half only when it is of that half. *)
LEMMA RoundSteps == [Next]_vars => [ToolNext]_toolVars
BY DEF Next, vars

LEMMA ToolInvHolds == FairSpec => []ToolInv
<1>1. Init => ToolInv
  BY ToolInvInit DEF Init
<1>2. ToolInv /\ [Next]_vars => ToolInv'
  BY RoundSteps, ToolInvStep
<1>3. QED
  BY <1>1, <1>2, PTL DEF FairSpec

-----------------------------------------------------------------------------
(* Theorems *)

(* IdempotencyCache.run: a call executes again only for an entry that the  *)
(* cache let go of, whatever the number of retries, lost replies, calls    *)
(* and restarts.                                                           *)
THEOREM OncePerEntryHolds == FairSpec => []OncePerEntry
<1>1. ToolInv => OncePerEntry
  BY DEF ToolInv, CacheInv, Spent, OncePerEntry
<1>2. QED
  BY <1>1, ToolInvHolds, PTL

(* RemoteToolExecutor.execute returns ok only for an execution of this     *)
(* call that ended well; while the cache kept the call's entry, every      *)
(* attempt that was answered was given the same outcome.                   *)
THEOREM ResultIsTheCallsHolds == FairSpec => []ResultIsTheCalls
<1>1. ToolInv => ResultIsTheCalls
  <2>1. SUFFICES ASSUME ToolInv PROVE ResultIsTheCalls
    OBVIOUS
  <2>2. ASSUME NEW c \in Calls, call[c].result = "ok", call[c].via \in Urls
        PROVE  \E n \in 1 .. Len(handler[c]) : handler[c][n] = "ok"
    BY <2>1, <2>2 DEF ToolInv, CallInv, EndedAs
  <2>3. ASSUME NEW c \in Calls, forgotten[c] = 0, NEW a \in Attempts, NEW b \in Attempts,
               request[c][a].reply \in {"ok", "failed"}, request[c][b].reply \in {"ok", "failed"}
        PROVE  request[c][a].reply = request[c][b].reply
    <3>1. PICK m \in 1 .. Len(handler[c]) : handler[c][m] = request[c][a].reply
      BY <2>1, <2>3 DEF ToolInv, Backed, Ended, EndedAs
    <3>2. PICK n \in 1 .. Len(handler[c]) : handler[c][n] = request[c][b].reply
      BY <2>1, <2>3 DEF ToolInv, Backed, Ended, EndedAs
    <3>3. Len(handler[c]) \in Nat /\ Len(handler[c]) <= 1
      BY <2>1, <2>3 DEF ToolInv, ToolType, CacheInv, Spent
    <3>4. m = n
      BY <3>3
    <3>5. QED
      BY <3>1, <3>2, <3>4
  <2>4. QED
    BY <2>2, <2>3 DEF ResultIsTheCalls
<1>2. QED
  BY <1>1, ToolInvHolds, PTL

(* Once the caller's signal is aborted, RemoteToolExecutor sends nothing   *)
(* more for the call.                                                      *)
THEOREM AbortStopsAttemptsHolds == FairSpec => AbortStopsAttempts
<1> DEFINE Stops == \A c \in aborted : \A a \in Attempts :
                       request[c][a].at = "none" => request'[c][a].at = "none"
<1>1. ASSUME ToolInv, ToolNext PROVE Stops
  <2>1. request \in [Calls -> [Attempts -> Requests]] /\ aborted \subseteq Calls
    BY <1>1 DEF ToolInv, ToolType
  <2>2. ASSUME NEW c \in Calls, NEW n, c \notin aborted \/ request[c][n].at # "none",
               \A k \in Calls : \A b \in Attempts :
                  (k = c /\ b = n) \/ request'[k][b] = request[k][b]
        PROVE  Stops
    BY <2>1, <2>2
  <2>3. ASSUME NEW c \in Calls, SendAttempt(c) PROVE Stops
    <3>1. CASE c \in aborted
      BY <2>3, <3>1 DEF SendAttempt
    <3>2. CASE c \notin aborted
      <4>1. PICK n : n = call[c].attempt
        OBVIOUS
      <4>2. request' = [request EXCEPT ![c][n].at = "sent"]
        BY <2>3, <3>2, <4>1 DEF SendAttempt
      <4>3. \A k \in Calls : \A b \in Attempts :
               (k = c /\ b = n) \/ request'[k][b] = request[k][b]
        BY <2>1, <4>2
      <4>4. QED
        BY <2>2, <3>2, <4>3
    <3>3. QED
      BY <3>1, <3>2
  <2>4. ASSUME NEW c \in Calls, NEW a \in Attempts,
               \/ ConnectionFails(c, a) \/ RunnerRefuses(c, a)
               \/ RunnerHandles(c, a) \/ RunnerReplies(c, a)
        PROVE  Stops
    <3>1. request[c][a].at # "none"
      BY <2>4 DEF ConnectionFails, RunnerRefuses, RunnerHandles, RunnerReplies
    <3>2. \A k \in Calls : \A b \in Attempts :
             (k = c /\ b = a) \/ request'[k][b] = request[k][b]
      BY <2>1, <2>4 DEF ConnectionFails, RunnerRefuses, RunnerHandles, RunnerReplies, CacheRun
    <3>3. QED
      BY <2>2, <3>1, <3>2
  <2>5. ASSUME RunnerRestarts PROVE Stops
    BY <2>1, <2>5 DEF RunnerRestarts
  <2>6. ASSUME request' = request PROVE Stops
    BY <2>6
  <2> HIDE DEF Stops
  <2>7. ASSUME NEW c \in Calls, ExecutorStep(c) PROVE Stops
    <3>1. SendAttempt(c) \/ request' = request
      BY <2>7 DEF ExecutorStep, Begin, LocalExecute, Prepare, ReplyArrives, AttemptTimesOut,
                  AbortSeen, DelayEnds
    <3>2. QED
      BY <2>3, <2>6, <3>1
  <2>8. ASSUME \/ Register \/ OtherRun \/ OtherCall
               \/ \E c \in Calls : Abort(c)
               \/ \E c \in Calls : \E n \in 1 .. MaxExecutions, outcome \in {"ok", "failed"} :
                     HandlerEnds(c, n, outcome)
               \/ \E i \in 1 .. MaxEntries : Expire(i)
        PROVE  Stops
    <3>1. request' = request
      BY <2>8 DEF Register, OtherRun, OtherCall, Abort, HandlerEnds, Expire
    <3>2. QED
      BY <2>6, <3>1
  <2>9. QED
    BY <1>1, <2>4, <2>5, <2>7, <2>8 DEF ToolNext
<1>2. ToolInv /\ [Next]_vars => [Stops]_toolVars
  BY <1>1, RoundSteps
<1>3. QED
  BY <1>2, ToolInvHolds, PTL DEF FairSpec, AbortStopsAttempts

=============================================================================
