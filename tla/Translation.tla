------------------------------ MODULE Translation ------------------------------
(***************************************************************************)
(* Translation between the dialects of four providers.  A caller speaks one     *)
(* dialect throughout a conversation; any of its requests may be served in          *)
(* another one: the request is read into a canonical form and written again in       *)
(* the served dialect, or it is refused; the answer comes back the same way and          *)
(* the caller keeps it in its history, so what one translation lets through, a later one    *)
(* has to read.  The other kind of behaviour is one translated stream.                        *)
(*                                                                                              *)
(* A text is a sequence of atoms, a call id is a function name with a number (number 0 is      *)
(* an id minted from the name, <<>> no id).  A native message has the roles and parts that its  *)
(* dialect has, in one shape; the settings that are read one way everywhere (caps, stop           *)
(* sequences, forbidden and unrecognized keys, provider tools) are one field, "outside".            *)
(***************************************************************************)
EXTENDS Naturals, Sequences, SequencesExt

CONSTANTS
  Dialect,        \* those spoken here, of "openai", "anthropic", "google" and "bedrock"
  Function,       \* names of the caller's tools, strings
  MaxTurns,       \* turns the caller takes in a conversation
  MaxChunks       \* chunks of a stream

VARIABLES
  caller,         \* the dialect of the conversation, or of the stream's reader
  served,         \* the dialect that serves the last request, or the stream
  command,        \* is there a constructor for Bedrock's command?
  phase,          \* "writing", "sent", "refused", "answered" or "streaming", "cut", "left", "ended"
  history,        \* the caller's messages, in its dialect
  settings,       \* of the request in flight, in the caller's dialect
  sent,           \* what the served provider got, or why it got nothing
  answer,         \* what the provider answered, and
  received,       \*   what the caller was given for it
  source,         \* chunks the stream's provider sent
  queued,         \* translated chunks that the reader has not taken
  heard           \* chunks that the reader took

vars == <<caller, served, command, phase, history, settings, sent, answer, received,
          source, queued, heard>>

-----------------------------------------------------------------------------
(* Parts, messages, settings. *)

NoId == <<>>
Text(t) == [is |-> "text", text |-> t]
Image(from) == [is |-> "image", from |-> from]        \* data, https, http, handle
Use(id, f) == [is |-> "use", id |-> id, name |-> f]
Result(id, f) == [is |-> "result", id |-> id, name |-> f]
Other == [is |-> "other"]                             \* a document, audio, ...

Message(role, parts) == [role |-> role, parts |-> parts]
Only(kind, parts) == SelectSeq(parts, LAMBDA p : p.is = kind)
But(kind, parts) == SelectSeq(parts, LAMBDA p : p.is # kind)
Has(kind, parts) == \E i \in DOMAIN parts : parts[i].is = kind
Joined(parts) == FlattenSeq([i \in DOMAIN Only("text", parts) |-> Only("text", parts)[i].text])
Concat(f) == FlattenSeq(f)                            \* f: a sequence of sequences

(* A string content is the one text that it is, or nothing when it is empty. *)
StringContent(t) == IF t = <<>> THEN <<>> ELSE <<Text(t)>>

Plain == [system |-> "none", choice |-> "none_given", parallel |-> TRUE, disable |-> FALSE,
          tools |-> TRUE, stream |-> FALSE, outside |-> FALSE]

-----------------------------------------------------------------------------
(* Reading a request into the canonical form. *)

PartsOf(msgs) == Concat([i \in DOMAIN msgs |-> msgs[i].parts])
AnyPart(msgs, Refused(_)) == \E i \in DOMAIN PartsOf(msgs) : Refused(PartsOf(msgs)[i])
MapParts(m, Op(_)) == [m EXCEPT !.parts = [i \in DOMAIN @ |-> Op(@[i])]]

(* Every result answers an earlier call, every call is answered later, and no turn calls  *)
(* one function twice.                                                                        *)
ExchangeStep(s, p) ==
  CASE p.is = "use"    -> [s EXCEPT !.pending = @ \cup {p.id}]
    [] p.is = "result" -> [pending |-> s.pending \ {p.id}, orphan |-> s.orphan \/ p.id \notin s.pending]
    [] OTHER           -> s

CallsTwice(m) ==
  \E i, j \in DOMAIN m.parts :
    /\ i # j /\ m.parts[i].is = "use" /\ m.parts[j].is = "use"
    /\ m.parts[i].name = m.parts[j].name

ExchangeBroken(msgs) ==
  LET end == FoldLeft(ExchangeStep, [pending |-> {}, orphan |-> FALSE],
                      Concat([i \in DOMAIN msgs |-> msgs[i].parts]))
  IN  end.orphan \/ end.pending # {} \/ \E i \in DOMAIN msgs : CallsTwice(msgs[i])

(* Outside the subset whatever the dialect: a forbidden or unrecognized key, more than one *)
(* candidate, a temperature above one, five stop sequences, a provider's own tool, no cap.   *)
Outside(s) == s.outside

(* A request is read in this order; the first that is not in the canonical subset refuses *)
(* it.  A system prompt is one text.                                                         *)
Read(unread, msgs, s) ==
  CASE Outside(s)           -> [refused |-> "settings"]
    [] unread               -> [refused |-> "content"]
    [] ExchangeBroken(msgs) -> [refused |-> "exchange"]
    [] s.system = "blocks"  -> [refused |-> "settings"]
    [] OTHER                -> [refused |-> "no", messages |-> msgs, settings |-> s]

(* Bytes or an https link; another link or a provider's handle is refused. *)
LinkRefused(p) == p = Other \/ (p.is = "image" /\ p.from \in {"http", "handle"})
(* Where an image is always bytes. *)
HandleRefused(p) == p = Other \/ (p.is = "image" /\ p.from # "data")

(* A tool message is a turn of the user's. *)
OpenAIToCanonical(msgs, s) ==
  Read(AnyPart(msgs, LinkRefused),
       [i \in DOMAIN msgs |-> IF msgs[i].role = "tool" THEN [msgs[i] EXCEPT !.role = "user"] ELSE msgs[i]],
       s)

(* One call at a time is read as a key of its own: disable_parallel_tool_use, inside the *)
(* tool choice, is not read.                                                                *)
AnthropicToCanonical(msgs, s) == Read(AnyPart(msgs, LinkRefused), msgs, [s EXCEPT !.disable = FALSE])

(* A call without an id gets one from its name, and so does its result; a picture in a    *)
(* model's turn is the provider's own.                                                      *)
MintCallId(f) == <<f, 0>>
Identified(p) == IF p.is \in {"use", "result"} /\ p.id = NoId THEN [p EXCEPT !.id = MintCallId(p.name)] ELSE p
Nameless(p) == IF p.is = "result" THEN Result(p.id, "") ELSE p
GoogleToCanonical(msgs, s) ==
  Read(AnyPart(msgs, HandleRefused) \/ \E i \in DOMAIN msgs : msgs[i].role = "assistant" /\ Has("image", msgs[i].parts),
       [i \in DOMAIN msgs |-> MapParts(MapParts(msgs[i], Identified), Nameless)],
       [s EXCEPT !.parallel = TRUE])

(* A system prompt is blocks, whose texts are joined. *)
BedrockToCanonical(msgs, s) ==
  Read(AnyPart(msgs, HandleRefused), msgs,
       [s EXCEPT !.parallel = TRUE, !.system = IF @ = "blocks" THEN "text" ELSE @])

ToCanonical(d, msgs, s) ==
  CASE d = "openai"    -> OpenAIToCanonical(msgs, s)
    [] d = "anthropic" -> AnthropicToCanonical(msgs, s)
    [] d = "google"    -> GoogleToCanonical(msgs, s)
    [] d = "bedrock"   -> BedrockToCanonical(msgs, s)

-----------------------------------------------------------------------------
(* Writing the canonical form in the served dialect.  What a dialect cannot say is refused. *)

Written(unsaid, msgs, s) ==
  IF unsaid THEN [refused |-> "render"] ELSE [refused |-> "no", messages |-> msgs, settings |-> s]

Mixed(msgs) ==
  \E i \in DOMAIN msgs : msgs[i].role = "user" /\ Has("result", msgs[i].parts) /\ But("result", msgs[i].parts) # <<>>
Link(p) == p = Image("https")

(* OpenAI has a message for each result, one string without a picture, and in an           *)
(* assistant's turn one string, then the calls; and no results beside other content.         *)
RenderOpenAIUserContent(parts) ==
  IF Has("image", parts) THEN parts ELSE StringContent(Joined(parts))
OpenAIMessages(m) ==
  IF m.role = "assistant"
  THEN <<Message("assistant", StringContent(Joined(m.parts)) \o Only("use", m.parts))>>
  ELSE IF Has("result", m.parts)
  THEN [i \in DOMAIN Only("result", m.parts) |-> Message("tool", <<Only("result", m.parts)[i]>>)]
  ELSE <<Message("user", RenderOpenAIUserContent(m.parts))>>
CanonicalToOpenAI(c) ==
  Written(Mixed(c.messages),
          Concat([i \in DOMAIN c.messages |-> OpenAIMessages(c.messages[i])]), c.settings)

(* Anthropic and Bedrock leave out empty texts, and turns that are empty then. *)
RenderBlocks(m) ==
  LET blocks == SelectSeq(m.parts, LAMBDA p : p # Text(<<>>))
  IN  IF blocks = <<>> THEN <<>> ELSE <<Message(m.role, blocks)>>
Blocks(msgs) == Concat([i \in DOMAIN msgs |-> RenderBlocks(msgs[i])])

(* Anthropic says "one call at a time" inside the tool choice, unless that forbids calls. *)
CanonicalToAnthropic(c) ==
  Written(FALSE, Blocks(c.messages),
          IF c.settings.parallel THEN c.settings
          ELSE [c.settings EXCEPT !.parallel = TRUE, !.disable = c.settings.choice # "none",
                                  !.choice = IF @ = "none_given" THEN "auto" ELSE @])

(* Google's results carry the name of their call, taken from the last turn that made a  *)
(* call of that id; it has no links and cannot say "one call at a time".                  *)
NameById(msgs, i, id) ==
  LET same == SelectSeq(Only("use", PartsOf(SubSeq(msgs, 1, i))), LAMBDA u : u.id = id)
  IN  IF same = <<>> THEN "unnamed" ELSE Last(same).name
CanonicalToGoogle(c) ==
  LET msgs == c.messages
      named(i, p) == IF p.is = "result" THEN Result(p.id, NameById(msgs, i, p.id)) ELSE p
  IN  Written(~c.settings.parallel \/ Mixed(msgs) \/ AnyPart(msgs, Link),
              [i \in DOMAIN msgs |-> MapParts(msgs[i], LAMBDA p : named(i, p))], c.settings)

(* Bedrock cannot say "no call" either, and needs a command to be made. *)
CanonicalToBedrock(c) ==
  Written(~c.settings.parallel \/ c.settings.choice = "none" \/ AnyPart(c.messages, Link),
          Blocks(c.messages), c.settings)

FromCanonical(d, c) ==
  CASE d = "openai"    -> CanonicalToOpenAI(c)
    [] d = "anthropic" -> CanonicalToAnthropic(c)
    [] d = "google"    -> CanonicalToGoogle(c)
    [] d = "bedrock"   -> IF command THEN CanonicalToBedrock(c) ELSE [refused |-> "render"]

(* A hop within the dialect passes the caller's request on; another one translates it,   *)
(* and refuses to stream where tools are declared.                                          *)
PrepareHop(d, msgs, s) ==
  LET c == ToCanonical(caller, msgs, s)
  IN  IF d = caller THEN [refused |-> "no", messages |-> msgs, settings |-> s]
      ELSE IF c.refused # "no" THEN c
      ELSE IF s.stream /\ s.tools THEN [refused |-> "tool_stream"]
      ELSE FromCanonical(d, c)

-----------------------------------------------------------------------------
(* Answers. *)

FinishToCanonical ==
  [openai    |-> [stop |-> "stop", length |-> "length", tool_calls |-> "tool_use",
                  content_filter |-> "content_filter"],
   anthropic |-> [end_turn |-> "stop", stop_sequence |-> "stop", pause_turn |-> "stop",
                  max_tokens |-> "length", tool_use |-> "tool_use", refusal |-> "content_filter"],
   google    |-> [STOP |-> "stop", MAX_TOKENS |-> "length", SAFETY |-> "content_filter",
                  RECITATION |-> "content_filter", PROHIBITED_CONTENT |-> "content_filter",
                  BLOCKLIST |-> "content_filter"],
   bedrock   |-> [end_turn |-> "stop", stop_sequence |-> "stop", max_tokens |-> "length",
                  model_context_window_exceeded |-> "length", tool_use |-> "tool_use",
                  guardrail_intervened |-> "content_filter", content_filtered |-> "content_filter"]]

CanonicalToFinish ==
  [openai    |-> [stop |-> "stop", length |-> "length", tool_use |-> "tool_calls",
                  content_filter |-> "content_filter"],
   anthropic |-> [stop |-> "end_turn", length |-> "max_tokens", tool_use |-> "tool_use",
                  content_filter |-> "refusal"],
   google    |-> [stop |-> "STOP", length |-> "MAX_TOKENS", tool_use |-> "STOP",
                  content_filter |-> "SAFETY"],
   bedrock   |-> [stop |-> "end_turn", length |-> "max_tokens", tool_use |-> "tool_use",
                  content_filter |-> "content_filtered"]]

NormalizeFinishReason(d, raw) ==
  IF raw \in DOMAIN FinishToCanonical[d] THEN FinishToCanonical[d][raw] ELSE "null"

DenormalizeFinishReason(d, finish) ==
  IF finish = "null" THEN "null" ELSE CanonicalToFinish[d][finish]

(* An answer is its text, if it has any, its calls, and why it ended. *)
ResponseToCanonical(d, a) ==
  [text   |-> IF Has("text", a.parts) THEN <<Text(Joined(a.parts))>> ELSE <<>>,
   calls  |-> Only("use", a.parts),
   finish |-> NormalizeFinishReason(d, a.finish)]

(* Google's calls may have no id, and end a turn like anything else. *)
GoogleResponseToCanonical(a) ==
  LET r == ResponseToCanonical("google", a)
  IN  [r EXCEPT !.calls = [i \in DOMAIN @ |-> Identified(@[i])],
                !.finish = IF @ = "stop" /\ Has("use", a.parts) THEN "tool_use" ELSE @]

Canonical(d, a) == IF d = "google" THEN GoogleResponseToCanonical(a) ELSE ResponseToCanonical(d, a)

CanonicalToResponse(d, r) ==
  [parts |-> r.text \o r.calls, finish |-> DenormalizeFinishReason(d, r.finish)]

(* A plausible bug: a call without an id gets its own only where requests are read. *)
NormalizeResponseUnminted(d, requested, a) ==
  IF d = requested THEN a
  ELSE CanonicalToResponse(requested, [Canonical(d, a) EXCEPT !.calls = Only("use", a.parts)])

NormalizeResponse(d, requested, a) ==
  IF d = requested THEN a ELSE CanonicalToResponse(requested, Canonical(d, a))

-----------------------------------------------------------------------------
(* Streams. *)

(* A delta is a text or an end that has a canonical form; a chunk with a piece of a call, *)
(* or of a picture where the dialect has them, is refused.                                    *)
TextDeltas(texts) == [i \in DOMAIN texts |-> [text |-> <<texts[i]>>, finish |-> "null"]]
EndDelta(d, raw) ==
  IF NormalizeFinishReason(d, raw) = "null" THEN <<>>
  ELSE <<[text |-> <<>>, finish |-> NormalizeFinishReason(d, raw)]>>
NonEmpty(parts) == SelectSeq(Only("text", parts), LAMBDA p : p.text # <<>>)

OpenAIChunkToDeltas(chunk) ==
  [refused |-> Has("use", chunk.parts),
   deltas  |-> TextDeltas(NonEmpty(chunk.parts)) \o EndDelta("openai", chunk.finish)]

(* One event is one text, empty or not, or one end; what is neither says nothing. *)
AnthropicChunkToDeltas(chunk) ==
  [refused |-> Has("use", chunk.parts),
   deltas  |-> TextDeltas(Only("text", chunk.parts)) \o EndDelta("anthropic", chunk.finish)]

GoogleChunkToDeltas(chunk) ==
  [refused |-> Has("use", chunk.parts) \/ Has("image", chunk.parts),
   deltas  |-> TextDeltas(NonEmpty(chunk.parts)) \o EndDelta("google", chunk.finish)]

BedrockChunkToDeltas(chunk) ==
  [refused |-> Has("use", chunk.parts) \/ Has("image", chunk.parts),
   deltas  |-> TextDeltas(Only("text", chunk.parts)) \o EndDelta("bedrock", chunk.finish)]

ChunkToDeltas(d, chunk) ==
  CASE d = "openai"    -> OpenAIChunkToDeltas(chunk)
    [] d = "anthropic" -> AnthropicChunkToDeltas(chunk)
    [] d = "google"    -> GoogleChunkToDeltas(chunk)
    [] d = "bedrock"   -> BedrockChunkToDeltas(chunk)

DeltaToChunk(d, delta) ==
  [parts  |-> delta.text,
   finish |-> IF delta.text # <<>> THEN "" ELSE DenormalizeFinishReason(d, delta.finish)]

TranslateStreamChunk(d, requested, chunk) ==
  LET deltas == ChunkToDeltas(d, chunk).deltas
  IN  [i \in DOMAIN deltas |-> DeltaToChunk(requested, deltas[i])]
-----------------------------------------------------------------------------
(* Conversations.  Ids are fresh in each turn; Google may leave them out, and a Google     *)
(* caller keeps what it got.                                                                 *)

Calls(d, n) ==
  {<<<<f, n>>, f>> : f \in Function} \cup (IF d = "google" THEN {<<NoId, f>> : f \in Function} ELSE {})
TwoCalls(d, n) == {two \in Calls(d, n) \X Calls(d, n) : two[1][2] # two[2][2]}
Nothing == [refused |-> "nothing"]
NoAnswer == [parts |-> <<>>, finish |-> ""]

(* The results that the caller owes for its last answer, in its dialect. *)
Owed ==
  IF history = <<>> THEN <<>>
  ELSE LET uses == Only("use", Last(history).parts)
       IN  [i \in DOMAIN uses |-> Result(uses[i].id, IF caller = "google" THEN uses[i].name ELSE "")]

Said == {<<Text(<<"a">>)>>} \cup
        {<<Text(<<"a">>), Image(from)>> :
           from \in {"data", "handle"} \cup (IF caller \in {"openai", "anthropic"} THEN {"https"} ELSE {})}

(* A caller answers all the calls it owes (OpenAI's in a message each), alone or, where  *)
(* its dialect has one turn for both, with a text; or it forgets them.                      *)
UserTurns ==
  {<<Message("user", s)>> : s \in Said} \cup
  (IF Owed = <<>> THEN {}
   ELSE IF caller = "openai" THEN {[i \in DOMAIN Owed |-> Message("tool", <<Owed[i]>>)]}
   ELSE {<<Message("user", Owed)>>, <<Message("user", Owed \o <<Text(<<"b">>)>>)>>})

ToolChoices(d) == {"auto", "required", "force"} \cup (IF d = "bedrock" THEN {} ELSE {"none"})

Settings(d) ==
  {Plain} \cup {[Plain EXCEPT !.choice = c] : c \in ToolChoices(d)}
  \cup {[Plain EXCEPT !.outside = TRUE], [Plain EXCEPT !.stream = TRUE],
        [Plain EXCEPT !.stream = TRUE, !.tools = FALSE],
        [Plain EXCEPT !.system = "text"], [Plain EXCEPT !.system = "blocks"]}
  \cup (IF d \in {"openai", "anthropic"}
        THEN {[Plain EXCEPT !.parallel = FALSE, !.choice = c] : c \in {"none_given", "none", "force"}} ELSE {})
  \cup (IF d = "anthropic" THEN {[Plain EXCEPT !.disable = TRUE, !.choice = "auto"]} ELSE {})

(* The caller's next turn, and the provider that the failover chain has come to.  A       *)
(* refusal ends the chain.                                                                  *)
Ask ==
  /\ phase \in {"writing", "answered"}
  /\ Len(SelectSeq(history, LAMBDA m : m.role = "assistant")) < MaxTurns
  /\ \E turn \in UserTurns, s \in Settings(caller), d \in Dialect :
       LET msgs == history \o turn
           hop  == PrepareHop(d, msgs, s)
       IN  /\ history' = msgs /\ settings' = s /\ served' = d /\ sent' = hop
           /\ phase' = IF hop.refused = "no" THEN "sent" ELSE "refused"
  /\ answer' = NoAnswer /\ received' = NoAnswer
  /\ UNCHANGED <<caller, command, source, queued, heard>>

(* What a provider may answer to what it was sent. *)
AnswerParts(d, n) ==
  {<<>>, <<Text(<<>>)>>, <<Text(<<"a">>), Text(<<"b">>)>>}
  \cup (IF ~sent.settings.tools \/ sent.settings.choice = "none" THEN {}
        ELSE {<<Text(<<"a">>), Use(c[1], c[2])>> : c \in Calls(d, n)}
             \cup {<<Use(two[1][1], two[1][2]), Text(<<"b">>), Use(two[2][1], two[2][2])>> :
                     two \in TwoCalls(d, n)})

Finishes(d, parts) ==
  IF Has("use", parts)
  THEN {raw \in DOMAIN FinishToCanonical[d] : Canonical(d, [parts |-> parts, finish |-> raw]).finish = "tool_use"}
  ELSE {raw \in DOMAIN FinishToCanonical[d] : FinishToCanonical[d][raw] # "tool_use"} \cup {"OTHER"}

Kept(a) ==
  Message("assistant",
          IF caller = "openai" THEN SelectSeq(a.parts, LAMBDA p : p # Text(<<>>)) ELSE a.parts)

(* The provider answers, and the caller keeps what it is given. *)
Answer ==
  /\ phase = "sent" /\ phase' = "answered"
  /\ \E parts \in AnswerParts(served, Len(history)) :
       \E finish \in Finishes(served, parts) :
         answer' = [parts |-> parts, finish |-> finish]
  /\ received' = NormalizeResponse(served, caller, answer')
  /\ history' = Append(history, Kept(received'))
  /\ settings' = Plain /\ sent' = Nothing               \* no request is in flight
  /\ UNCHANGED <<caller, served, command, source, queued, heard>>

-----------------------------------------------------------------------------
(* Streams: the reader asks for a chunk, what is translated is handed out first. *)

(* OpenAI sends one text with or without an end, Google any, the others an event each. *)
Pieces == {<<>>, <<Text(<<"a">>)>>, <<Text(<<>>)>>, <<Use(NoId, "f")>>, <<Image("data")>>}
ChunkParts(d) ==
  CASE d = "google" -> Pieces \cup {<<Text(<<"a">>), Text(<<"b">>)>>}
    [] d = "openai" -> Pieces \ {<<Image("data")>>}
    [] OTHER        -> Pieces
Chunks(d) ==
  {c \in [parts : ChunkParts(d), finish : {"", "OTHER"} \cup
            {raw \in DOMAIN FinishToCanonical[d] : FinishToCanonical[d][raw] # "tool_use"}] :
     d \in {"anthropic", "bedrock"} => (c.parts = <<>> \/ c.finish = "")}

(* push, on an empty cursor. *)
Pull ==
  /\ phase = "streaming" /\ queued = <<>> /\ Len(source) < MaxChunks
  /\ \E c \in Chunks(served) :
       /\ source' = Append(source, c)
       /\ IF ChunkToDeltas(served, c).refused THEN phase' = "cut" /\ queued' = queued
          ELSE phase' = phase /\ queued' = TranslateStreamChunk(served, caller, c)
  /\ UNCHANGED <<caller, served, command, history, settings, sent, answer, received, heard>>

(* take *)
Take ==
  /\ phase = "streaming" /\ queued # <<>>
  /\ heard' = Append(heard, Head(queued)) /\ queued' = Tail(queued)
  /\ UNCHANGED <<caller, served, command, phase, history, settings, sent, answer, received, source>>

(* The reader leaves, and what it has not taken is forgotten. *)
Leave ==
  /\ phase = "streaming"
  /\ phase' = "left" /\ queued' = <<>>
  /\ UNCHANGED <<caller, served, command, history, settings, sent, answer, received, source, heard>>

Init ==
  /\ caller \in Dialect /\ served \in Dialect /\ command \in BOOLEAN
  /\ phase \in {"writing", "streaming"}
  /\ phase = "writing" => served = caller
  /\ phase = "streaming" => served # caller /\ command
  /\ settings = Plain /\ sent = Nothing
  /\ history = <<>> /\ answer = NoAnswer /\ received = NoAnswer
  /\ source = <<>> /\ queued = <<>> /\ heard = <<>>

Next == Ask \/ Answer \/ Pull \/ Take \/ Leave

Spec == Init /\ [][Next]_vars

-----------------------------------------------------------------------------
(* A call without an id is known by its name, to Google. *)
IdIn(d, p) == IF d = "google" THEN Identified(p).id ELSE p.id

(* What a native conversation says, whatever the dialect: its texts, pictures, calls and  *)
(* results in their order, an assistant's text before its calls; how it is cut into turns  *)
(* says nothing.                                                                             *)
SaidBy(d, m) ==
  LET role  == IF m.role = "assistant" THEN "assistant" ELSE "user"
      parts == IF role = "assistant" THEN But("use", m.parts) \o Only("use", m.parts) ELSE m.parts
      atoms(p) == CASE p.is = "text" -> [k \in DOMAIN p.text |-> <<role, p.text[k]>>]
                    [] p.is = "use" -> <<<<role, IdIn(d, p), p.name>>>>
                    [] p.is = "result" -> <<<<role, IdIn(d, p)>>>>
                    [] OTHER -> <<<<role, p.is, p.from>>>>
  IN  Concat([i \in DOMAIN parts |-> atoms(parts[i])])
SaidIn(d, msgs) == Concat([i \in DOMAIN msgs |-> SaidBy(d, msgs[i])])

(* What the settings ask for: one call at a time is a key, or part of Anthropic's choice,  *)
(* and goes without saying where no call is allowed.                                          *)
AskedFor(s) ==
  [system |-> s.system # "none", tools |-> s.tools, stream |-> s.stream,
   choice |-> IF s.choice = "none_given" THEN "auto" ELSE s.choice,
   single |-> s.choice # "none" /\ (s.disable \/ ~s.parallel)]

(* An Anthropic caller's disable_parallel_tool_use is dropped on the way. *)
Unread(s) == s.disable

(* The provider that serves a request is told what the caller said and asked for, every  *)
(* result under the id and, for Google, the name of its call, or it is told nothing.         *)
SentMeansSaid ==
  phase = "sent" =>
    /\ SaidIn(served, sent.messages) = SaidIn(caller, history)
    /\ Unread(settings) \/ AskedFor(sent.settings) = AskedFor(settings)
    /\ served = "google" =>
         \A i \in DOMAIN sent.messages : \A j \in DOMAIN sent.messages[i].parts :
           LET p == sent.messages[i].parts[j]
           IN  p.is = "result" => p.name = Identified(p).id[1]

(* The caller hears what was answered: text, calls, and why it ended, in its own words. *)
AnswerMeansHeard ==
  phase = "answered" =>
    /\ SaidBy(caller, Message("assistant", received.parts)) = SaidBy(served, Message("assistant", answer.parts))
    /\ Canonical(caller, received).finish = Canonical(served, answer).finish

(* A conversation whose calls were all answered, a function once a turn, is never refused  *)
(* for its exchange of calls and results, whoever served its turns before.                   *)
Answered(msgs) ==
  \A i \in DOMAIN msgs : \A j \in DOMAIN msgs[i].parts :
    LET p == msgs[i].parts[j]
    IN  p.is = "use" => \E k \in (i + 1)..Len(msgs) : \E l \in DOMAIN msgs[k].parts :
                          LET r == msgs[k].parts[l]
                          IN  r.is = "result" /\ IdIn(caller, r) = IdIn(caller, p)
AnsweredIsAccepted ==
  phase = "refused" /\ sent.refused = "exchange" =>
    ~Answered(history) \/ \E i \in DOMAIN history : CallsTwice(history[i])

(* A reader of a translated stream has heard, or will hear next, all that was sent, in its  *)
(* order and no more: the texts, and the ends that have a name in its dialect.                *)
Marks(d, chunks) ==
  Concat([i \in DOMAIN chunks |->
            Joined(chunks[i].parts)
            \o (IF chunks[i].finish \in DOMAIN FinishToCanonical[d]
                THEN <<NormalizeFinishReason(d, chunks[i].finish)>> ELSE <<>>)])
StreamMeansHeard ==
  /\ phase \in {"streaming", "cut"} =>
       LET accepted == IF phase = "cut" THEN Front(source) ELSE source
       IN  Marks(caller, heard \o queued) = Marks(served, accepted)
  /\ IsPrefix(Marks(caller, heard), Marks(served, source))

TranslationIsFaithful == SentMeansSaid /\ AnswerMeansHeard /\ AnsweredIsAccepted /\ StreamMeansHeard
=============================================================================
