-------------------------- MODULE MCServingPipeline --------------------------
(***************************************************************************)
(* The multi-process engine for TLC: a stream and a generate, in any       *)
(* order and interleaved where the stream is suspended; or a generate of   *)
(* so many prompts that the ring of channels can fill while it sends them. *)
(***************************************************************************)
EXTENDS ServingPipeline

MCCalls   == {"stream", "generate", "many"}
MCStreams == {"stream"}
MCAlone   == {"many"}

\* With a message in each of the four channels, one in each worker's hands and one more
\* to send, the ring holds four answers of the first of these prompts and the other four.
MCPrompts == [k \in Calls |-> CASE k = "stream" -> 1 [] k = "generate" -> 2 [] k = "many" -> 5]

\* Three tokens for the stream: generate may come in the middle and take the second.
MCMaxTokens ==
  [p \in Prompts |-> CASE p[1] = "stream" -> 3 [] p = <<"many", 1>> -> 4 [] OTHER -> 1]
=============================================================================
