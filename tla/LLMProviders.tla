---------------------------- MODULE LLMProviders ----------------------------
(***************************************************************************)
(* The clients of the three providers: which text Generate returns for a   *)
(* reply of the service, {} standing for an error.  A text is a sequence   *)
(* of pieces, the empty one being the empty text.                          *)
(*                                                                         *)
(* A reply is [provider, status, broken, body]; broken: the connection     *)
(* failed before the end of the body, or was never made.  The body is      *)
(*   anthropic  the events of the stream, [type, text]                     *)
(*   gemini     the candidates, each the sequence of its parts' texts      *)
(*   openai     the output items, [type, content], a content [type, text]  *)
(* All callers ask for a stream, which only the first client provides.     *)
(***************************************************************************)
EXTENDS Integers, SequencesExt

Ok(reply) == reply.status = 200 /\ ~reply.broken

\* A text, or an error for an empty one.
NonEmpty(text) == IF text = <<>> THEN {} ELSE {text}

Texts(parts) == FlattenSeq([i \in DOMAIN parts |-> parts[i].text])

\* anthropicClient.handleStreamResponse.  The end of the stream ends the text, with or
\* without the event that says so, and so does [DONE]; malformed events, the ones that
\* report an error and the reason of the stop are passed over; no text is a text.
HandleStreamResponse(reply) ==
  LET done == {i \in DOMAIN reply.body : reply.body[i].type = "done"}
      read == IF done = {} THEN reply.body ELSE SubSeq(reply.body, 1, Min(done) - 1)
  IN  IF Ok(reply) THEN {Texts(SelectSeq(read, LAMBDA event : event.type = "text_delta"))} ELSE {}

AnthropicGenerate(reply) == HandleStreamResponse(reply)

\* geminiClient.Generate: the parts of the first candidate.
GeminiGenerate(reply) ==
  IF Ok(reply) /\ reply.body # <<>> THEN NonEmpty(FlattenSeq(reply.body[1])) ELSE {}

\* extractResponseText: the first text that is not empty, the others are dropped.
ExtractResponseText(output) ==
  LET messages == SelectSeq(output, LAMBDA item : item.type = "message")
      contents == FlattenSeq([i \in DOMAIN messages |-> messages[i].content])
      texts == SelectSeq(contents, LAMBDA c : c.type = "output_text" /\ c.text # <<>>)
  IN  IF texts = <<>> THEN <<>> ELSE texts[1].text

\* openaiClient.Generate
OpenAIGenerate(reply) == IF Ok(reply) THEN NonEmpty(ExtractResponseText(reply.body)) ELSE {}

\* NewProvider: the client of the provider that is configured.
ProviderGenerate(reply) ==
  CASE reply.provider = "anthropic" -> AnthropicGenerate(reply)
    [] reply.provider = "gemini"    -> GeminiGenerate(reply)
    [] reply.provider = "openai"    -> OpenAIGenerate(reply)
=============================================================================
