--------------------------- MODULE ServingPipeline ---------------------------
(***************************************************************************)
(* The multi-process engine: MultiProcessEngine as the client, and the     *)
(* tokenizer, scheduler and detokenizer processes of engine/workers, each  *)
(* running BaseWorker.run, in a cycle of ZMQ channels (engine/ipc) whose   *)
(* sends block when the channel is full.                                   *)
(*                                                                         *)
(* client -> tokenizer -> scheduler -> detokenizer -> client               *)
(*                                                                         *)
(* The engine inside the scheduler process is any progress of its          *)
(* unfinished requests, a token at a time, and any retraction.             *)
(***************************************************************************)
EXTENDS DetokenizerOps, FiniteSets

CONSTANTS Calls,          \* calls of generate and stream_generate by the one client
          PromptsOf,      \* how many prompts each call has
          Streams,        \* the calls that are stream_generate
          MaxTokens,      \* sampling_params.max_tokens of each prompt
          Capacity,       \* messages a channel holds: both high-water marks
          MaxDisturbances, \* bound: workers that fail, calls of stop, retractions, together
          Alone           \* bound: a call of these is the only one, and nothing disturbs it

\* The prompts of all calls, each with its place in its call.
Prompts == UNION {{<<k, i>> : i \in 1..PromptsOf[k]} : k \in Calls}

ASSUME PipelineAssumption ==
  /\ "none" \notin Calls
  /\ PromptsOf \in [Calls -> Nat \ {0}] /\ Streams \subseteq Calls
  /\ MaxTokens \in [Prompts -> Nat \ {0}] /\ Capacity \in Nat \ {0}
  /\ MaxDisturbances \in Nat /\ Alone \subseteq Calls

Workers == {"tokenizer", "scheduler", "detokenizer"}

\* Each channel by its receiver.
Channels == Workers \cup {"client"}

NextHop == [w \in Workers |-> CASE w = "tokenizer"   -> "scheduler"
                               [] w = "scheduler"   -> "detokenizer"
                               [] w = "detokenizer" -> "client"]

\* The table f with v under x.
Put(f, x, v) == [y \in {x} \cup DOMAIN f |-> IF y = x THEN v ELSE f[y]]

\* The one message with request_id -1.
SHUTDOWN == [rid |-> -1]

VARIABLES
  started,        \* _started
  next_rid,       \* _req_counter
  active,         \* the call the client is in, or "none"
  call,           \* the local variables of each call
  chan,           \* messages under way to each receiver
  up,             \* workers in state RUNNING
  outbox,         \* what a worker has still to send before its next process()
  pending_requests, \* TokenizerWorker.pending_requests: the client ids that are its keys
  engine,         \* unfinished requests of the engine: engine id -> prompt, output ids
  req_counter,    \* Req.counter of the scheduler process: the next engine id
  req_id_map,     \* SchedulerWorker.req_id_map: engine id -> client id
  prev_text,      \* DetokenizerWorker.decode_states: client id -> prev_text
  patient,        \* TRUE: nobody waits 600 s for an answer that is still to come
  final,          \* history: output of each finished request, by its prompt
  retracted,      \* history: prompts whose request was retracted
  failures, stops \* history

client  == <<started, next_rid, active, call>>
workers == <<pending_requests, engine, req_counter, req_id_map, prev_text, final, retracted>>
vars    == <<client, chan, up, outbox, workers, patient, failures, stops>>

NewCall == [phase |-> "new", rids |-> << >>, pending |-> {}, text |-> << >>, tokens |-> << >>,
            undisturbed |-> TRUE]

\* What three fresh processes and the channels between them start with.
Fresh ==
  /\ chan' = [c \in Channels |-> << >>]
  /\ outbox' = [w \in Workers |-> << >>] /\ pending_requests' = {}
  /\ engine' = << >> /\ req_counter' = 0 /\ req_id_map' = << >> /\ prev_text' = << >>

Init ==
  /\ started = FALSE /\ next_rid = 0 /\ active = "none"
  /\ call = [k \in Calls |-> NewCall]
  /\ chan = [c \in Channels |-> << >>]
  /\ up = {}
  /\ outbox = [w \in Workers |-> << >>] /\ pending_requests = {}
  /\ engine = << >> /\ req_counter = 0 /\ req_id_map = << >> /\ prev_text = << >>
  /\ patient \in BOOLEAN
  /\ final = << >> /\ retracted = {}
  /\ failures = 0 /\ stops = 0

Disturbances == failures + stops + Cardinality(retracted)

\* The bounds on disturbances and on calls.
MoreDisturbances ==
  Disturbances < MaxDisturbances /\ \A k \in Alone : call[k].phase = "new"

MoreCalls(k) ==
  /\ \A q \in Alone : call[q].phase = "new"
  /\ k \in Alone => Disturbances = 0 /\ \A q \in Calls : call[q].phase = "new"

---------------------------------------------------------------------------
\* The client.

\* start, which generate and stream_generate call when it was not: the ids go on.
Start ==
  /\ ~started /\ active = "none"
  /\ started' = TRUE
  /\ up' = Workers
  /\ Fresh
  /\ UNCHANGED <<next_rid, active, call, patient, final, retracted, failures, stops>>

\* stop, between calls or while a generator is suspended.  It sends a SHUTDOWN first,
\* then ends the processes and closes the sockets without waiting for them.
Stop ==
  /\ started /\ active = "none" /\ MoreDisturbances
  /\ Len(chan["tokenizer"]) < Capacity
  /\ started' = FALSE /\ stops' = stops + 1
  /\ up' = {}
  /\ Fresh
  /\ call' = [k \in Calls |-> [call[k] EXCEPT !.undisturbed = @ /\ call[k].phase # "suspended"]]
  /\ UNCHANGED <<next_rid, active, patient, final, retracted, failures>>

\* Enter generate or stream_generate, or resume a suspended generator.
Enter(k) ==
  /\ active = "none" /\ started
  /\ call[k].phase = "suspended" \/ (call[k].phase = "new" /\ MoreCalls(k))
  /\ active' = k
  /\ call' = [q \in Calls |->
       IF q = k THEN [call[k] EXCEPT !.phase = IF @ = "new" THEN "send" ELSE "recv"]
       ELSE IF call[q].phase = "suspended" THEN [call[q] EXCEPT !.undisturbed = FALSE]
       ELSE call[q]]
  /\ UNCHANGED <<started, next_rid, chan, up, outbox, workers, patient, failures, stops>>

\* A generator resumed after stop finds its socket closed.
ResumeStopped(k) ==
  /\ active = "none" /\ ~started /\ call[k].phase = "suspended"
  /\ call' = [call EXCEPT ![k].phase = "broken"]
  /\ UNCHANGED <<started, next_rid, active, chan, up, outbox, workers, patient, failures, stops>>

\* Mutant of NextRequestId: every call numbers its own requests.
NextRequestIdOfCall(k) == Len(call[k].rids)

\* _next_request_id.
NextRequestId(k) == next_rid

\* _send_request: all prompts are sent before the first answer is read.
SendRequest(k) ==
  LET rid == NextRequestId(k)
      i   == Len(call[k].rids) + 1
  IN /\ active = k /\ call[k].phase = "send"
     /\ Len(chan["tokenizer"]) < Capacity
     /\ chan' = [chan EXCEPT !["tokenizer"] = Append(@, [rid |-> rid, prompt |-> <<k, i>>])]
     /\ next_rid' = next_rid + 1
     /\ call' = [call EXCEPT ![k].rids = Append(@, rid),
                             ![k].pending = @ \cup {rid},
                             ![k].text = Put(@, rid, << >>),
                             ![k].tokens = Put(@, rid, << >>),
                             ![k].phase = IF i = PromptsOf[k] THEN "recv" ELSE "send"]
     /\ UNCHANGED <<started, active, up, outbox, workers, patient, failures, stops>>

\* One turn of the loop over _recv_response.  An answer to another call is dropped;
\* a stream suspends at each of its own.
RecvResponse(k) ==
  LET gr   == Head(chan["client"])
      left == IF gr.finished THEN call[k].pending \ {gr.rid} ELSE call[k].pending
      next == IF left = {} THEN "returned" ELSE IF k \in Streams THEN "suspended" ELSE "recv"
  IN /\ active = k /\ call[k].phase = "recv" /\ chan["client"] # << >>
     /\ chan' = [chan EXCEPT !["client"] = Tail(@)]
     /\ IF gr.rid \in call[k].pending
          THEN /\ call' = [call EXCEPT ![k].pending = left, ![k].phase = next,
                             ![k].text[gr.rid] = @ \o gr.delta_text,
                             ![k].tokens[gr.rid] = gr.output_token_ids]
               /\ active' = IF next = "recv" THEN k ELSE "none"
          ELSE UNCHANGED <<call, active>>
     /\ UNCHANGED <<started, next_rid, up, outbox, workers, patient, failures, stops>>

\* Nothing is under way to the client any more, or never will be.
Quiet ==
  up = Workers =>
    chan = [c \in Channels |-> << >>] /\ outbox = [w \in Workers |-> << >>] /\ engine = << >>

\* No answer for 600 s: TimeoutError.  What this call asked for stays under way.
RecvTimeout(k) ==
  /\ active = k /\ call[k].phase = "recv" /\ chan["client"] = << >>
  /\ patient => Quiet
  /\ call' = [call EXCEPT ![k].phase = "timed_out"]
  /\ active' = "none"
  /\ UNCHANGED <<started, next_rid, chan, up, outbox, workers, patient, failures, stops>>

---------------------------------------------------------------------------
\* The workers.  One that has sent everything takes its next message.

\* Mutant of Send: a message for a full channel is dropped.
SendDropping(w) ==
  /\ outbox[w] # << >>
  /\ chan' = [chan EXCEPT ![NextHop[w]] =
                IF Len(@) < Capacity THEN Append(@, Head(outbox[w])) ELSE @]
  /\ outbox' = [outbox EXCEPT ![w] = Tail(@)]
  /\ UNCHANGED <<client, up, workers, patient, failures, stops>>

\* Mutant of Send: a worker sends what it has all at once, when there is room for all.
SendWhole(w) ==
  /\ outbox[w] # << >>
  /\ Len(chan[NextHop[w]]) + Len(outbox[w]) <= Capacity
  /\ chan' = [chan EXCEPT ![NextHop[w]] = @ \o outbox[w]]
  /\ outbox' = [outbox EXCEPT ![w] = << >>]
  /\ UNCHANGED <<client, up, workers, patient, failures, stops>>

\* send_pyobj, which blocks while the channel is full.
Send(w) ==
  /\ outbox[w] # << >>
  /\ Len(chan[NextHop[w]]) < Capacity
  /\ chan' = [chan EXCEPT ![NextHop[w]] = Append(@, Head(outbox[w]))]
  /\ outbox' = [outbox EXCEPT ![w] = Tail(@)]
  /\ UNCHANGED <<client, up, workers, patient, failures, stops>>

Ready(w) == w \in up /\ outbox[w] = << >>

\* TokenizerWorker.process with _handle_generate_request.  No line of the worker takes an
\* entry out of pending_requests again.
Tokenize ==
  /\ Ready("tokenizer") /\ chan["tokenizer"] # << >>
  /\ chan' = [chan EXCEPT !["tokenizer"] = Tail(@)]
  /\ outbox' = [outbox EXCEPT !["tokenizer"] = <<Head(chan["tokenizer"])>>]
  /\ pending_requests' = pending_requests \cup {Head(chan["tokenizer"]).rid}
  /\ UNCHANGED <<client, up, engine, req_counter, req_id_map, prev_text, final, retracted,
                 patient, failures, stops>>

\* SchedulerWorker._receive_requests with _handle_tokenize_result.
AddRequest ==
  LET result == Head(chan["scheduler"])
  IN /\ Ready("scheduler") /\ chan["scheduler"] # << >>
     /\ chan' = [chan EXCEPT !["scheduler"] = Tail(@)]
     /\ engine' = Put(engine, req_counter, [prompt |-> result.prompt, ids |-> << >>])
     /\ req_id_map' = Put(req_id_map, req_counter, result.rid)
     /\ req_counter' = req_counter + 1
     /\ UNCHANGED <<client, up, outbox, pending_requests, prev_text, patient, final, retracted,
                    failures, stops>>

Over(prompt, ids) == Len(ids) = MaxTokens[prompt] \/ Last(ids) = "eos"

\* Mutant of MapAfter: an entry is kept when its request is finished.
MapAfterKept(done) == req_id_map

\* _dispatch_outputs: the entries left once the outputs are sent.
MapAfter(done) == Restrict(req_id_map, DOMAIN req_id_map \ done)

\* SchedulerWorker.process with a step of the engine that yields a token for some of its
\* requests, and _dispatch_outputs, in the order of the engine's batch.
EngineStep ==
  /\ Ready("scheduler")
  /\ \E S \in SUBSET DOMAIN engine : \E token \in [S -> TokenIds] :
     \E sent \in SetToSeqs(S \cap DOMAIN req_id_map) :
       LET ids  == [e \in S |-> Append(engine[e].ids, token[e])]
           done == {e \in S : Over(engine[e].prompt, ids[e])}
           over == {engine[e].prompt : e \in done}
       IN /\ S # {}
          /\ engine' = [e \in DOMAIN engine \ done |->
                          IF e \in S THEN [engine[e] EXCEPT !.ids = ids[e]] ELSE engine[e]]
          /\ outbox' = [outbox EXCEPT !["scheduler"] =
                          [i \in DOMAIN sent |-> [rid |-> req_id_map[sent[i]],
                                                  output_token_ids |-> ids[sent[i]],
                                                  finished |-> sent[i] \in done]]]
          /\ req_id_map' = MapAfter(done)
          /\ final' = [p \in over \cup DOMAIN final |->
                         IF p \in over THEN ids[CHOOSE e \in done : engine[e].prompt = p]
                                       ELSE final[p]]
  /\ UNCHANGED <<client, chan, up, pending_requests, req_counter, prev_text, patient, retracted,
                 failures, stops>>

\* A step of the engine that retracts a request: its output is dropped and made again.
Retract(e) ==
  /\ Ready("scheduler") /\ MoreDisturbances
  /\ engine[e].ids # << >> /\ engine[e].prompt \notin retracted
  /\ engine' = [engine EXCEPT ![e].ids = << >>]
  /\ retracted' = retracted \cup {engine[e].prompt}
  /\ UNCHANGED <<client, chan, up, outbox, pending_requests, req_counter, req_id_map, prev_text,
                 patient, final, failures, stops>>

PrevText(rid) == IF rid \in DOMAIN prev_text THEN prev_text[rid] ELSE << >>

\* Mutant of DeltaText: the whole text goes out again.
DeltaTextWhole(rid, full_text) == full_text

\* _incremental_detokenize: what is behind the length of the text of before.
DeltaText(rid, full_text) == SubSeq(full_text, Len(PrevText(rid)) + 1, Len(full_text))

\* decode_states once a chunk is handled, with _cleanup_decode_state.
StatesAfter(chunk) ==
  IF chunk.finished THEN Restrict(prev_text, DOMAIN prev_text \ {chunk.rid})
                    ELSE Put(prev_text, chunk.rid, Text(chunk.output_token_ids))

\* DetokenizerWorker.process with _handle_token_chunk.
Detokenize ==
  LET chunk == Head(chan["detokenizer"])
  IN /\ Ready("detokenizer") /\ chan["detokenizer"] # << >> /\ chunk # SHUTDOWN
     /\ chan' = [chan EXCEPT !["detokenizer"] = Tail(@)]
     /\ outbox' = [outbox EXCEPT !["detokenizer"] =
          <<[rid |-> chunk.rid, finished |-> chunk.finished,
             delta_text |-> DeltaText(chunk.rid, Text(chunk.output_token_ids)),
             output_token_ids |-> chunk.output_token_ids]>>]
     /\ prev_text' = StatesAfter(chunk)
     /\ UNCHANGED <<client, up, pending_requests, engine, req_counter, req_id_map, patient,
                    final, retracted, failures, stops>>

\* cleanup closes a worker's sockets with LINGER 0, so of what it sent last, and of the
\* scheduler's SHUTDOWN to the detokenizer, any number may not arrive.
Leave(w) ==
  LET sent == chan[NextHop[w]] \o (IF w = "scheduler" THEN <<SHUTDOWN>> ELSE << >>)
  IN \E n \in 0..Len(sent) :
       /\ n <= Capacity
       /\ up' = up \ {w}
       /\ chan' = [chan EXCEPT ![NextHop[w]] = SubSeq(sent, 1, n)]

\* BaseWorker.run when process raises.
Fail(w) ==
  /\ Ready(w) /\ MoreDisturbances
  /\ failures' = failures + 1
  /\ Leave(w)
  /\ UNCHANGED <<client, outbox, workers, patient, stops>>

\* The detokenizer receives the SHUTDOWN of a scheduler that left.
Shutdown ==
  /\ Ready("detokenizer") /\ chan["detokenizer"] # << >> /\ Head(chan["detokenizer"]) = SHUTDOWN
  /\ Leave("detokenizer")
  /\ UNCHANGED <<client, outbox, workers, patient, failures, stops>>

ClientStep == \E k \in Calls : SendRequest(k) \/ RecvResponse(k) \/ RecvTimeout(k)

\* One turn of the loop of BaseWorker.run.
TokenizerStep   == Send("tokenizer") \/ Tokenize
SchedulerStep   == Send("scheduler") \/ AddRequest \/ EngineStep
DetokenizerStep == Send("detokenizer") \/ Detokenize \/ Shutdown

Next ==
  \/ Start
  \/ Stop
  \/ \E k \in Calls : Enter(k)
  \/ \E k \in Calls : ResumeStopped(k)
  \/ ClientStep
  \/ TokenizerStep
  \/ SchedulerStep
  \/ \E e \in DOMAIN engine : Retract(e)
  \/ DetokenizerStep
  \/ \E w \in Workers : Fail(w)

\* Each process runs: a call that was entered goes on, and its 600 s pass.  Nothing makes
\* the caller start, stop or resume, and nothing makes a worker fail.
Fairness ==
  /\ WF_vars(ClientStep)
  /\ WF_vars(TokenizerStep) /\ WF_vars(SchedulerStep) /\ WF_vars(DetokenizerStep)

Spec == Init /\ [][Next]_vars /\ Fairness

---------------------------------------------------------------------------

\* Every variable has its type; no two calls share a request id.
TypeOK ==
  /\ started \in BOOLEAN /\ next_rid \in Nat
  /\ active \in Calls \cup {"none"}
  /\ \A k \in Calls :
       /\ call[k].phase \in {"new", "send", "recv", "suspended", "returned", "timed_out", "broken"}
       /\ call[k].pending \subseteq ToSet(call[k].rids)
       /\ DOMAIN call[k].text = ToSet(call[k].rids) /\ DOMAIN call[k].tokens = ToSet(call[k].rids)
  /\ \A k, q \in Calls : k # q => ToSet(call[k].rids) \cap ToSet(call[q].rids) = {}
  /\ up \subseteq Workers
  /\ \A c \in Channels : Len(chan[c]) <= Capacity
  /\ DOMAIN req_id_map \cup DOMAIN engine \subseteq 0..(req_counter - 1)
  /\ DOMAIN prev_text \cup pending_requests \subseteq 0..(next_rid - 1)
  /\ DOMAIN final \cup retracted \subseteq Prompts

\* The i-th request of a call, and what the client holds for it.
Rid(k, i)    == call[k].rids[i]
Answer(k, i) == call[k].tokens[Rid(k, i)]

\* A call that returns has, for each of its prompts in order, the whole output of that
\* prompt's request: whatever is still under way for a call that timed out or a
\* generator left half way (multi_process_engine.py:208-224, 253-263).
OwnAnswers ==
  \A k \in Calls : call[k].phase = "returned" =>
    \A i \in 1..PromptsOf[k] : <<k, i>> \in DOMAIN final /\ Answer(k, i) = final[<<k, i>>]

Whole(ids) == ToSet(ids) \cap {"first", "last"} = {}

\* At every moment the text a call has put together from the deltas is the text of the
\* tokens it got with them, for a request never retracted whose characters are whole
\* (detokenizer_worker.py:90-100, multi_process_engine.py:216-220).  A stream may miss
\* pieces in the middle if another call came while it was suspended: that call reads
\* the answers from the one socket and drops those it did not ask for.
TextMatchesTokens ==
  \A k \in Calls : \A i \in DOMAIN call[k].rids :
    call[k].undisturbed /\ <<k, i>> \notin retracted /\ Whole(Answer(k, i)) =>
      call[k].text[Rid(k, i)] = Text(Answer(k, i))

\* With answers never late, a call times out only if a worker failed, or, for a stream,
\* if stop or another call came while it was suspended and took its answers.
AnswersNotLost ==
  \A k \in Calls : patient /\ call[k].phase = "timed_out" =>
    failures > 0 \/ ~call[k].undisturbed

\* The scheduler and the detokenizer remember nothing of a request that is over: an entry of
\* req_id_map is an unfinished request, and with nothing left to detokenize so is each of
\* decode_states (scheduler_worker.py:106-130, detokenizer_worker.py:90-100).  The tokenizer
\* does remember: of pending_requests, which gets an entry for every request and loses none
\* (tokenizer_worker.py:90), it holds only that no request comes to the engine without one.
MapsAreLive ==
  /\ DOMAIN req_id_map = DOMAIN engine /\ Range(req_id_map) \subseteq pending_requests
  /\ up = Workers /\ chan["detokenizer"] = << >> /\ outbox["scheduler"] = << >> =>
       DOMAIN prev_text \subseteq Range(req_id_map)

\* The workers' tables are well formed, and req_id_map and decode_states hold nothing of a
\* request that is over.
TablesAreLive == TypeOK /\ MapsAreLive

\* A worker waits in send_pyobj for the next one to receive.
Blocked(w) == outbox[w] # << >> /\ Len(chan[NextHop[w]]) = Capacity

\* The client waits in send_pyobj too, and nobody will receive: from the tokenizer on every
\* worker is blocked by the next, up to one that is gone or round to the client itself.
Jammed(k) ==
  /\ active = k /\ call[k].phase = "send" /\ Len(chan["tokenizer"]) = Capacity
  /\ \/ "tokenizer" \notin up
     \/ /\ Blocked("tokenizer")
        /\ \/ "scheduler" \notin up
           \/ /\ Blocked("scheduler")
              /\ "detokenizer" \notin up \/ Blocked("detokenizer")

\* A call ends, with its results, at a yield or with TimeoutError, or it is jammed in its
\* sends for ever: it sends all its prompts before it reads, and no send has a timeout
\* (multi_process_engine.py:204-208, zmq_channel.py:85-100).  Once it reads, nothing
\* but its own 600 s holds it.
HangsOnlyJammed ==
  \A k \in Calls : active = k ~> active # k \/ []Jammed(k)
=============================================================================
