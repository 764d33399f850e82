----------------------- MODULE ServingPipelineProofs -----------------------
(***************************************************************************)
(* Proofs about ServingPipeline, for any calls, prompts, channel capacity  *)
(* and number of disturbances.                                             *)
(*                                                                         *)
(* What makes the answers right is that a request id means one prompt      *)
(* everywhere: in the messages, in req_id_map and in the client, even for  *)
(* a call the client has given up.  What makes them arrive is that an      *)
(* unanswered prompt is always somewhere on the way round.                 *)
(***************************************************************************)
EXTENDS ServingPipeline, FiniteSetTheorems, SequenceTheorems, WellFoundedInduction, TLAPS

---------------------------------------------------------------------------
\* The inductive invariant, in layers: each is preserved given those before it.

\* A sequence, whatever its elements.
IsSeq(s) == s \in Seq(ToSet(s))

Fields == {"phase", "rids", "pending", "text", "tokens", "undisturbed"}
Phases == {"new", "send", "recv", "suspended", "returned", "timed_out", "broken"}

\* The local variables of one call: it has asked for all its prompts once it leaves
\* "send", and waits for answers exactly as long as some are pending.
CallOK(k) ==
  LET c == call[k]
  IN /\ DOMAIN c = Fields /\ c.phase \in Phases /\ c.undisturbed \in BOOLEAN
     /\ c.rids \in Seq(Nat) /\ Len(c.rids) <= PromptsOf[k]
     /\ DOMAIN c.text = ToSet(c.rids) /\ DOMAIN c.tokens = ToSet(c.rids)
     /\ c.pending \subseteq ToSet(c.rids)
     /\ c.phase = "new" => c.rids = << >>
     /\ c.phase \in {"new", "send"} <=> Len(c.rids) < PromptsOf[k]
     /\ c.phase \in {"recv", "suspended"} => c.pending # {}
     /\ c.phase = "returned" => c.pending = {}
     /\ c.phase \in {"send", "recv"} <=> active = k

\* Request ids are handed out once.
FreshIds ==
  /\ \A k \in Calls : \A i \in 1..Len(call[k].rids) : call[k].rids[i] < next_rid
  /\ \A k, q \in Calls : \A i \in 1..Len(call[k].rids), j \in 1..Len(call[q].rids) :
       call[k].rids[i] = call[q].rids[j] => k = q /\ i = j

ClientOK ==
  /\ started \in BOOLEAN /\ next_rid \in Nat /\ failures \in Nat
  /\ active \in Calls \cup {"none"} /\ (active # "none" => started)
  /\ DOMAIN call = Calls /\ \A k \in Calls : CallOK(k)
  /\ FreshIds

ChannelsOK ==
  /\ DOMAIN chan = Channels /\ DOMAIN outbox = Workers /\ up \subseteq Workers
  /\ \A c \in Channels : IsSeq(chan[c]) /\ Len(chan[c]) <= Capacity
  /\ \A w \in Workers : IsSeq(outbox[w])

EngineOK ==
  /\ req_counter \in Nat
  /\ DOMAIN req_id_map = DOMAIN engine /\ DOMAIN engine \subseteq 0..(req_counter - 1)
  /\ \A e \in DOMAIN engine :
       engine[e] \in [prompt : Prompts, ids : Seq(TokenIds)]
  /\ DOMAIN final \subseteq Prompts /\ retracted \subseteq Prompts

Shape == ClientOK /\ ChannelsOK /\ EngineOK

\* A prompt that was sent, and the request id it was sent under.
Asked(p) == p \in Prompts /\ p[2] <= Len(call[p[1]].rids)
RidOf(p) == call[p[1]].rids[p[2]]

\* The prompts of a channel's requests.
PromptsIn(s) == {s[i].prompt : i \in DOMAIN s}

OnceEach(s) == \A i, j \in DOMAIN s : s[i].prompt = s[j].prompt => i = j

\* Where the request of a prompt can be, in the order it moves.
Place == << PromptsIn(chan["tokenizer"]), PromptsIn(outbox["tokenizer"]),
            PromptsIn(chan["scheduler"]), {engine[e].prompt : e \in DOMAIN engine},
            DOMAIN final >>

\* A request under way carries the id its prompt was sent under.
RequestOK(m) == Asked(m.prompt) /\ m.rid = RidOf(m.prompt)

\* The channels on the way to the engine hold no prompt twice.
Queued ==
  \A s \in {chan["tokenizer"], outbox["tokenizer"], chan["scheduler"]} :
    OnceEach(s) /\ \A m \in ToSet(s) : RequestOK(m)

\* The engine's requests are of different prompts, and req_id_map has their ids.
InEngine ==
  /\ \A e \in DOMAIN engine : Asked(engine[e].prompt) /\ req_id_map[e] = RidOf(engine[e].prompt)
  /\ \A e, f \in DOMAIN engine : engine[e].prompt = engine[f].prompt => e = f

\* A prompt's request is in at most one place, and nowhere before it is sent.
Requests ==
  /\ Queued /\ InEngine
  /\ \A p \in DOMAIN final : Asked(p)
  /\ \A i, j \in 1..5 : i # j => Place[i] \cap Place[j] = {}

\* A chunk or an answer is about a prompt, and the last one has its whole output.
AnswerOK(m) ==
  \E p \in Prompts :
    /\ Asked(p) /\ m.rid = RidOf(p)
    /\ m.finished => p \in DOMAIN final /\ m.output_token_ids = final[p]

Downstream ==
  /\ \A m \in ToSet(outbox["scheduler"]) \cup ToSet(outbox["detokenizer"])
          \cup ToSet(chan["client"]) : AnswerOK(m)
  /\ \A m \in ToSet(chan["detokenizer"]) : m = SHUTDOWN \/ AnswerOK(m)

\* What the client no longer waits for it has.
Answered ==
  \A p \in Prompts : Asked(p) /\ RidOf(p) \notin call[p[1]].pending =>
    p \in DOMAIN final /\ call[p[1]].tokens[RidOf(p)] = final[p]

\* Answers under way.
Answers == ToSet(outbox["scheduler"]) \cup ToSet(chan["detokenizer"])
           \cup ToSet(outbox["detokenizer"]) \cup ToSet(chan["client"])

\* A prompt's request is on its way to the engine or in it, or its last answer is on the
\* way back.
OnTheWay(p) ==
  \/ \E i \in 1..4 : p \in Place[i]
  \/ \E m \in Answers : m # SHUTDOWN /\ m.finished /\ m.rid = RidOf(p)

\* Every prompt a call still waits for is on its way round.
Delivery ==
  /\ failures = 0 /\ started => up = Workers
  /\ failures = 0 => SHUTDOWN \notin ToSet(chan["detokenizer"])
  /\ \A k \in Calls :
       active \notin {k, "none"} /\ call[k].phase = "suspended" => ~call[k].undisturbed
  /\ \A k \in Calls :
       call[k].phase \in {"send", "recv", "suspended"} /\ call[k].undisturbed /\ failures = 0 =>
         /\ started
         /\ \A i \in 1..Len(call[k].rids) :
              call[k].rids[i] \in call[k].pending => OnTheWay(<<k, i>>)

\* What the detokenizer has still to take, in order.
Coming == [i \in 1..(Len(chan["detokenizer"]) + Len(outbox["scheduler"])) |->
             IF i <= Len(chan["detokenizer"]) THEN chan["detokenizer"][i]
             ELSE outbox["scheduler"][i - Len(chan["detokenizer"])]]

\* While no worker has left, the engine still has a request or its last chunk comes.
StatesAreLive ==
  /\ \A r \in DOMAIN prev_text : r \in 0..(next_rid - 1)
  /\ up = Workers =>
       /\ SHUTDOWN \notin ToSet(chan["detokenizer"])
       /\ \A i \in DOMAIN Coming : ~Coming[i].finished =>
            \/ Coming[i].rid \in Range(req_id_map)
            \/ \E j \in DOMAIN Coming :
                 j > i /\ Coming[j].finished /\ Coming[j].rid = Coming[i].rid
       /\ \A r \in DOMAIN prev_text :
            \/ r \in Range(req_id_map)
            \/ \E j \in DOMAIN Coming : Coming[j].finished /\ Coming[j].rid = r

\* The requests on the way from the tokenizer to the engine.
Passed == ToSet(outbox["tokenizer"]) \cup ToSet(chan["scheduler"])

\* pending_requests has the ids of all requests the tokenizer took, and of no other.
PendingOK ==
  /\ pending_requests \subseteq 0..(next_rid - 1)
  /\ \A m \in Passed : m.rid \in pending_requests
  /\ Range(req_id_map) \subseteq pending_requests

PipelineInv ==
  /\ Shape /\ Requests /\ Downstream /\ Answered /\ Delivery /\ AnswersNotLost
  /\ StatesAreLive /\ PendingOK

---------------------------------------------------------------------------
\* Channels as sets of messages.


LEMMA IsSeqDef ==
  ASSUME NEW s
  PROVE  IsSeq(s) <=> Len(s) \in Nat /\ s = [i \in 1..Len(s) |-> s[i]]
BY DEF IsSeq, ToSet

LEMMA SeqIsSeq ==
  ASSUME NEW S, NEW s \in Seq(S)
  PROVE  IsSeq(s) /\ ToSet(s) \subseteq S
BY DEF IsSeq, ToSet

LEMMA EmptyIsSeq == IsSeq(<< >>) /\ ToSet(<< >>) = {} /\ Len(<< >>) = 0
BY DEF IsSeq, ToSet

\* What a send does to a channel.
LEMMA AppendSet ==
  ASSUME NEW s, IsSeq(s), NEW x
  PROVE  /\ IsSeq(Append(s, x)) /\ ToSet(Append(s, x)) = ToSet(s) \cup {x}
         /\ Len(Append(s, x)) = Len(s) + 1
<1> DEFINE T == ToSet(s) \cup {x}
<1>1. s \in Seq(T)
  BY SeqMonotonic DEF IsSeq
<1>2. /\ Append(s, x) \in Seq(T) /\ Len(Append(s, x)) = Len(s) + 1
      /\ \A i \in 1..Len(s) : Append(s, x)[i] = s[i]
      /\ Append(s, x)[Len(s) + 1] = x
  BY <1>1, AppendProperties
<1>3. ToSet(Append(s, x)) = T
  BY <1>1, <1>2 DEF ToSet
<1> QED BY <1>2, <1>3, SeqIsSeq

\* What a receive does to it.
LEMMA TailSet ==
  ASSUME NEW s, IsSeq(s), s # << >>
  PROVE  /\ IsSeq(Tail(s)) /\ ToSet(s) = {Head(s)} \cup ToSet(Tail(s))
         /\ Len(Tail(s)) = Len(s) - 1 /\ Len(s) \in Nat \ {0}
         /\ Head(s) = s[1] /\ \A i \in 1..Len(s) - 1 : Tail(s)[i] = s[i + 1]
<1> DEFINE T == ToSet(s)
<1>1. s \in Seq(T)
  BY DEF IsSeq
<1>2. /\ Tail(s) \in Seq(T) /\ Len(Tail(s)) = Len(s) - 1 /\ Len(s) \in Nat \ {0}
      /\ \A i \in 1..Len(s) - 1 : Tail(s)[i] = s[i + 1]
  BY <1>1, HeadTailProperties, EmptySeq
<1>3. Head(s) = s[1]
  BY <1>1, <1>2
<1>4. ToSet(s) = {Head(s)} \cup ToSet(Tail(s))
  <2>1. ASSUME NEW i \in DOMAIN s PROVE s[i] \in {Head(s)} \cup ToSet(Tail(s))
    <3>1. CASE i = 1
      BY <3>1, <1>3
    <3>2. CASE i # 1
      <4>1. i - 1 \in 1..Len(s) - 1 /\ DOMAIN Tail(s) = 1..Len(s) - 1
        BY <3>2, <1>1, <1>2
      <4>2. Tail(s)[i - 1] = s[i]
        BY <4>1, <1>2, <1>1
      <4> QED BY <4>1, <4>2 DEF ToSet
    <3> QED BY <3>1, <3>2
  <2>2. ASSUME NEW i \in DOMAIN Tail(s) PROVE Tail(s)[i] \in ToSet(s)
    BY <1>1, <1>2 DEF ToSet
  <2>3. Head(s) \in ToSet(s)
    BY <1>1, <1>2, <1>3 DEF ToSet
  <2> QED BY <2>1, <2>2, <2>3 DEF ToSet
<1> QED BY <1>2, <1>3, <1>4, SeqIsSeq

\* What a worker that leaves keeps of what it sent.
LEMMA PrefixSet ==
  ASSUME NEW s, IsSeq(s), NEW n \in 0..Len(s)
  PROVE  /\ IsSeq(SubSeq(s, 1, n)) /\ ToSet(SubSeq(s, 1, n)) \subseteq ToSet(s)
         /\ Len(SubSeq(s, 1, n)) = n
         /\ \A i \in 1..n : SubSeq(s, 1, n)[i] = s[i]
<1>1. s \in Seq(ToSet(s)) /\ Len(s) \in Nat
  BY DEF IsSeq
<1>2. /\ SubSeq(s, 1, n) \in Seq(ToSet(s))
      /\ Len(SubSeq(s, 1, n)) = n
      /\ \A i \in 1..n : SubSeq(s, 1, n)[i] = s[i]
  BY <1>1, SubSeqProperties
<1> QED BY <1>2, SeqIsSeq

LEMMA ConcatSet ==
  ASSUME NEW s, NEW t, IsSeq(s), IsSeq(t)
  PROVE  /\ IsSeq(s \o t) /\ ToSet(s \o t) = ToSet(s) \cup ToSet(t)
         /\ Len(s \o t) = Len(s) + Len(t)
<1> DEFINE T == ToSet(s) \cup ToSet(t)
<1>1. s \in Seq(T) /\ t \in Seq(T)
  BY SeqMonotonic DEF IsSeq
<1>2. /\ s \o t \in Seq(T) /\ Len(s \o t) = Len(s) + Len(t)
      /\ \A i \in 1..Len(s) + Len(t) :
           (s \o t)[i] = IF i <= Len(s) THEN s[i] ELSE t[i - Len(s)]
  BY <1>1, ConcatProperties
<1>3. ASSUME NEW i \in DOMAIN s PROVE s[i] \in ToSet(s \o t)
  BY <1>1, <1>2 DEF ToSet
<1>4. ASSUME NEW i \in DOMAIN t PROVE t[i] \in ToSet(s \o t)
  <2>1. Len(s) + i \in 1..Len(s) + Len(t) /\ ~(Len(s) + i <= Len(s)) /\ (Len(s) + i) - Len(s) = i
    BY <1>1
  <2> QED BY <1>2, <2>1 DEF ToSet
<1>5. ToSet(s \o t) \subseteq T
  BY <1>2, SeqIsSeq
<1>6. T \subseteq ToSet(s \o t)
  BY <1>3, <1>4 DEF ToSet
<1> QED BY <1>2, <1>5, <1>6, SeqIsSeq

\* A sequence of all elements of a finite set, once each.
LEMMA SetToSeqsSet ==
  ASSUME NEW S, IsFiniteSet(S), NEW s \in SetToSeqs(S)
  PROVE  /\ IsSeq(s) /\ ToSet(s) = S /\ Len(s) = Cardinality(S)
         /\ \A i, j \in 1..Len(s) : i # j => s[i] # s[j]
<1> DEFINE n == Cardinality(S)
<1>1. n \in Nat /\ s \in [1..n -> S] /\ \A i, j \in 1..n : i # j => s[i] # s[j]
  BY FS_CardinalityType DEF SetToSeqs
<1>2. Cardinality(1..n) = n
  BY <1>1, FS_Interval
<1> HIDE DEF n
<1>3. s \in Injection(1..n, S)
  BY <1>1 DEF Injection, IsInjective
<1>4. s \in Surjection(1..n, S)
  BY <1>2, <1>3, FS_Injection DEF n
<1>5. s \in Seq(S) /\ Len(s) = n
  BY <1>1
<1>6. ToSet(s) = S
  BY <1>1, <1>4 DEF Surjection, ToSet
<1> QED BY <1>1, <1>5, <1>6, SeqIsSeq DEF n

---------------------------------------------------------------------------
\* Tables, calls and prompts.

LEMMA PutSet ==
  ASSUME NEW f, NEW x, NEW v
  PROVE  /\ DOMAIN Put(f, x, v) = {x} \cup DOMAIN f /\ Put(f, x, v)[x] = v
         /\ \A y \in DOMAIN f : y # x => Put(f, x, v)[y] = f[y]
BY DEF Put

LEMMA PromptIs ==
  /\ \A k \in Calls : \A i \in 1..PromptsOf[k] :
       <<k, i>> \in Prompts /\ <<k, i>>[1] = k /\ <<k, i>>[2] = i
  /\ \A p \in Prompts : p[1] \in Calls /\ p[2] \in 1..PromptsOf[p[1]] /\ p = <<p[1], p[2]>>
BY DEF Prompts

LEMMA NextHops ==
  /\ NextHop["tokenizer"] = "scheduler" /\ NextHop["scheduler"] = "detokenizer"
  /\ NextHop["detokenizer"] = "client"
BY DEF NextHop, Workers

---------------------------------------------------------------------------
\* What the steps of the client do to its calls.

LEMMA SendRequestEffect ==
  ASSUME Shape, NEW k \in Calls, SendRequest(k)
  PROVE  /\ DOMAIN call' = Calls /\ \A q \in Calls : q # k => call'[q] = call[q]
         /\ DOMAIN call'[k] = Fields
         /\ call'[k].rids \in Seq(Nat) /\ Len(call'[k].rids) = Len(call[k].rids) + 1
         /\ Len(call[k].rids) \in Nat /\ Len(call[k].rids) < PromptsOf[k]
         /\ \A i \in 1..Len(call[k].rids) : call'[k].rids[i] = call[k].rids[i]
         /\ call'[k].rids[Len(call[k].rids) + 1] = next_rid
         /\ ToSet(call'[k].rids) = ToSet(call[k].rids) \cup {next_rid}
         /\ call'[k].pending = call[k].pending \cup {next_rid}
         /\ DOMAIN call'[k].text = ToSet(call'[k].rids)
         /\ call'[k].tokens = Put(call[k].tokens, next_rid, << >>)
         /\ call'[k].phase = IF Len(call[k].rids) + 1 = PromptsOf[k] THEN "recv" ELSE "send"
         /\ call'[k].undisturbed = call[k].undisturbed
<1> DEFINE c == call[k]
<1>1. /\ DOMAIN call = Calls /\ DOMAIN c = Fields /\ c.rids \in Seq(Nat) /\ next_rid \in Nat
      /\ DOMAIN c.text = ToSet(c.rids) /\ DOMAIN c.tokens = ToSet(c.rids)
      /\ c.phase = "send" /\ Len(c.rids) < PromptsOf[k]
  BY DEF Shape, ClientOK, CallOK, SendRequest
<1>2. call' = [call EXCEPT ![k].rids = Append(@, next_rid),
                           ![k].pending = @ \cup {next_rid},
                           ![k].text = Put(@, next_rid, << >>),
                           ![k].tokens = Put(@, next_rid, << >>),
                           ![k].phase = IF Len(call[k].rids) + 1 = PromptsOf[k] THEN "recv" ELSE "send"]
  BY DEF SendRequest, NextRequestId
<1>3. /\ DOMAIN call' = Calls /\ \A q \in Calls : q # k => call'[q] = call[q]
      /\ DOMAIN call'[k] = Fields
      /\ call'[k].rids = Append(c.rids, next_rid)
      /\ call'[k].pending = c.pending \cup {next_rid}
      /\ call'[k].text = Put(c.text, next_rid, << >>)
      /\ call'[k].tokens = Put(c.tokens, next_rid, << >>)
      /\ call'[k].phase = IF Len(c.rids) + 1 = PromptsOf[k] THEN "recv" ELSE "send"
      /\ call'[k].undisturbed = c.undisturbed
  BY <1>1, <1>2 DEF Fields
<1> HIDE DEF c
<1>4. /\ Append(c.rids, next_rid) \in Seq(Nat) /\ Len(c.rids) \in Nat
      /\ Len(Append(c.rids, next_rid)) = Len(c.rids) + 1
      /\ \A i \in 1..Len(c.rids) : Append(c.rids, next_rid)[i] = c.rids[i]
      /\ Append(c.rids, next_rid)[Len(c.rids) + 1] = next_rid
  BY <1>1, AppendProperties, LenProperties
<1>5. ToSet(Append(c.rids, next_rid)) = ToSet(c.rids) \cup {next_rid}
  BY <1>1, SeqIsSeq, AppendSet
<1>6. DOMAIN Put(c.text, next_rid, << >>) = DOMAIN c.text \cup {next_rid}
  BY DEF Put
<1> QED BY <1>1, <1>3, <1>4, <1>5, <1>6 DEF c

\* The answer taken was for this call and still waited for.
Taken(k, gr) ==
  LET left == IF gr.finished THEN call[k].pending \ {gr.rid} ELSE call[k].pending
      next == IF left = {} THEN "returned" ELSE IF k \in Streams THEN "suspended" ELSE "recv"
  IN /\ gr.rid \in call[k].pending
     /\ DOMAIN call' = Calls /\ \A q \in Calls : q # k => call'[q] = call[q]
     /\ DOMAIN call'[k] = Fields
     /\ call'[k].rids = call[k].rids
     /\ call'[k].pending = left
     /\ DOMAIN call'[k].text = DOMAIN call[k].text
     /\ DOMAIN call'[k].tokens = DOMAIN call[k].tokens
     /\ \A r \in DOMAIN call[k].tokens :
          call'[k].tokens[r] = IF r = gr.rid THEN gr.output_token_ids ELSE call[k].tokens[r]
     /\ call'[k].phase = next /\ call'[k].undisturbed = call[k].undisturbed
     /\ active' = IF next = "recv" THEN k ELSE "none"

TextTaken(k, gr) ==
  \A r \in DOMAIN call[k].text :
    call'[k].text[r] = IF r = gr.rid THEN call[k].text[r] \o gr.delta_text ELSE call[k].text[r]

LEMMA RecvResponseEffect ==
  ASSUME Shape, NEW k \in Calls, RecvResponse(k)
  PROVE  \/ Taken(k, Head(chan["client"])) /\ TextTaken(k, Head(chan["client"]))
         \/ Head(chan["client"]).rid \notin call[k].pending /\ UNCHANGED <<call, active>>
<1> DEFINE c    == call[k]
           gr   == Head(chan["client"])
           left == IF gr.finished THEN c.pending \ {gr.rid} ELSE c.pending
           next == IF left = {} THEN "returned" ELSE IF k \in Streams THEN "suspended" ELSE "recv"
<1> SUFFICES ASSUME gr.rid \in c.pending
             PROVE  Taken(k, gr) /\ TextTaken(k, gr)
  BY DEF RecvResponse
<1>1. /\ DOMAIN call = Calls /\ DOMAIN c = Fields
      /\ gr.rid \in DOMAIN c.text /\ gr.rid \in DOMAIN c.tokens
  BY DEF Shape, ClientOK, CallOK
<1>2. /\ call' = [call EXCEPT ![k].pending = left, ![k].phase = next,
                             ![k].text[gr.rid] = @ \o gr.delta_text,
                             ![k].tokens[gr.rid] = gr.output_token_ids]
      /\ active' = IF next = "recv" THEN k ELSE "none"
  BY DEF RecvResponse
<1> HIDE DEF left, next, gr
<1>3. /\ DOMAIN call' = Calls /\ \A q \in Calls : q # k => call'[q] = call[q]
      /\ DOMAIN call'[k] = Fields
      /\ call'[k].rids = c.rids /\ call'[k].pending = left /\ call'[k].phase = next
      /\ call'[k].undisturbed = c.undisturbed
      /\ call'[k].text = [c.text EXCEPT ![gr.rid] = @ \o gr.delta_text]
      /\ call'[k].tokens = [c.tokens EXCEPT ![gr.rid] = gr.output_token_ids]
  BY <1>1, <1>2 DEF Fields
<1>4. /\ DOMAIN call'[k].text = DOMAIN c.text /\ DOMAIN call'[k].tokens = DOMAIN c.tokens
      /\ \A r \in DOMAIN c.tokens :
           call'[k].tokens[r] = IF r = gr.rid THEN gr.output_token_ids ELSE c.tokens[r]
  BY <1>1, <1>3
<1>5. TextTaken(k, gr)
  BY <1>1, <1>3 DEF TextTaken
<1> QED BY <1>2, <1>3, <1>4, <1>5 DEF Taken, left, next, gr

---------------------------------------------------------------------------
\* The shape of the state.

\* The answer the client takes is about a request of its own, or it changes nothing.
LEMMA RecvFromClient ==
  ASSUME Shape, NEW k \in Calls, RecvResponse(k)
  PROVE  /\ chan' = [chan EXCEPT !["client"] = Tail(@)]
         /\ chan["client"] # << >>
         /\ active = k /\ call[k].phase = "recv"
BY DEF RecvResponse

\* A step that asks for nothing hands out no id.
LEMMA FreshIdsKept ==
  ASSUME FreshIds, \A q \in Calls : call'[q].rids = call[q].rids, next_rid' = next_rid
  PROVE  FreshIds'
<1>1. \A k \in Calls : \A i \in 1..Len(call'[k].rids) : call'[k].rids[i] < next_rid'
  BY DEF FreshIds
<1>2. ASSUME NEW k \in Calls, NEW q \in Calls,
             NEW i \in 1..Len(call'[k].rids), NEW j \in 1..Len(call'[q].rids),
             call'[k].rids[i] = call'[q].rids[j]
      PROVE  k = q /\ i = j
  BY <1>2 DEF FreshIds
<1> QED BY <1>1, <1>2 DEF FreshIds

LEMMA ClientPreserved ==
  ASSUME Shape, Next \/ UNCHANGED vars
  PROVE  ClientOK'
<1> USE PipelineAssumption
<1>0. /\ ClientOK
      /\ \A k \in Calls : PromptsOf[k] \in Nat \ {0} /\ call[k].rids \in Seq(Nat) /\ Len(call[k].rids) \in Nat
  BY DEF Shape, ClientOK, CallOK
<1>1. CASE Start
  <2>1. UNCHANGED <<next_rid, active, call, failures>> /\ started' = TRUE
    BY <1>1 DEF Start
  <2>2. FreshIds'
    BY <2>1, <1>0, FreshIdsKept DEF ClientOK
  <2> QED BY <2>1, <2>2, <1>0 DEF ClientOK, CallOK
<1>2. CASE Stop
  <2>1. /\ DOMAIN call' = Calls /\ active = "none" /\ active' = "none"
        /\ started' \in BOOLEAN /\ UNCHANGED <<next_rid, failures>>
    BY <1>2 DEF Stop
  <2>2. ASSUME NEW k \in Calls
        PROVE  /\ CallOK(k)' /\ call'[k].rids = call[k].rids
    <3>1. /\ call'[k] = [call[k] EXCEPT !.undisturbed = @ /\ call[k].phase # "suspended"]
          /\ DOMAIN call[k] = Fields
      BY <1>0, <1>2 DEF Stop, ClientOK, CallOK
    <3>2. /\ DOMAIN call'[k] = Fields /\ call'[k].undisturbed \in BOOLEAN
          /\ call'[k].phase = call[k].phase /\ call'[k].rids = call[k].rids
          /\ call'[k].pending = call[k].pending /\ call'[k].text = call[k].text
          /\ call'[k].tokens = call[k].tokens
      BY <3>1 DEF Fields
    <3>3. CallOK(k)
      BY <1>0 DEF ClientOK
    <3>4. CallOK(k)'
      BY ONLY <2>1, <3>2, <3>3 DEF CallOK
    <3> QED BY <3>2, <3>4
  <2>3. FreshIds'
    BY <2>1, <2>2, <1>0, FreshIdsKept DEF ClientOK
  <2> QED BY <2>1, <2>2, <2>3, <1>0 DEF ClientOK
<1>3. ASSUME NEW k \in Calls, Enter(k) PROVE ClientOK'
  <2>1. /\ DOMAIN call' = Calls /\ active = "none" /\ active' = k /\ started /\ started'
        /\ call[k].phase \in {"new", "suspended"} /\ UNCHANGED <<next_rid, failures>>
    BY <1>3 DEF Enter
  <2>2. ASSUME NEW q \in Calls
        PROVE  CallOK(q)' /\ call'[q].rids = call[q].rids
    <3>1. DOMAIN call[q] = Fields
      BY <1>0 DEF ClientOK, CallOK
    <3>2. CASE q = k
      <4>1. call'[q] = [call[k] EXCEPT !.phase = IF @ = "new" THEN "send" ELSE "recv"]
        BY <1>3, <3>2 DEF Enter
      <4>2. /\ DOMAIN call'[q] = Fields /\ call'[q].undisturbed = call[q].undisturbed
            /\ call'[q].phase = IF call[q].phase = "new" THEN "send" ELSE "recv"
            /\ call'[q].rids = call[q].rids
            /\ call'[q].pending = call[q].pending /\ call'[q].text = call[q].text
            /\ call'[q].tokens = call[q].tokens
        BY <4>1, <3>1, <3>2 DEF Fields
      <4> QED BY <4>2, <2>1, <1>0, <3>2 DEF ClientOK, CallOK, Phases
    <3>3. CASE q # k
      <4>1. call'[q] = IF call[q].phase = "suspended" THEN [call[q] EXCEPT !.undisturbed = FALSE]
                       ELSE call[q]
        BY <1>3, <3>3 DEF Enter
      <4>2. /\ DOMAIN call'[q] = Fields /\ call'[q].undisturbed \in BOOLEAN
            /\ call'[q].phase = call[q].phase /\ call'[q].rids = call[q].rids
            /\ call'[q].pending = call[q].pending /\ call'[q].text = call[q].text
            /\ call'[q].tokens = call[q].tokens
        <5>1. call[q].undisturbed \in BOOLEAN
          BY <1>0 DEF ClientOK, CallOK
        <5> QED BY <4>1, <3>1, <5>1 DEF Fields
      <4> QED BY <4>2, <2>1, <1>0, <3>3 DEF ClientOK, CallOK
    <3> QED BY <3>2, <3>3
  <2>3. FreshIds'
    BY <2>1, <2>2, <1>0, FreshIdsKept DEF ClientOK
  <2> QED BY <2>1, <2>2, <2>3, <1>0 DEF ClientOK
<1>4. ASSUME NEW k \in Calls, ResumeStopped(k) PROVE ClientOK'
  <2>1. /\ active = "none" /\ call[k].phase = "suspended" /\ DOMAIN call[k] = Fields
        /\ UNCHANGED <<started, next_rid, active, failures>>
    BY <1>0, <1>4 DEF ResumeStopped, ClientOK, CallOK
  <2>2. /\ DOMAIN call' = Calls /\ \A q \in Calls : q # k => call'[q] = call[q]
        /\ DOMAIN call'[k] = Fields /\ call'[k].undisturbed = call[k].undisturbed
        /\ call'[k].phase = "broken" /\ call'[k].rids = call[k].rids
        /\ call'[k].pending = call[k].pending /\ call'[k].text = call[k].text
        /\ call'[k].tokens = call[k].tokens
    BY <1>0, <1>4, <2>1 DEF ResumeStopped, ClientOK, Fields
  <2>3. \A q \in Calls : CallOK(q)' /\ call'[q].rids = call[q].rids
    BY <2>1, <2>2, <1>0 DEF ClientOK, CallOK, Phases
  <2>4. FreshIds'
    BY <2>1, <2>3, <1>0, FreshIdsKept DEF ClientOK
  <2> QED BY <2>1, <2>2, <2>3, <2>4, <1>0 DEF ClientOK
<1>5. ASSUME NEW k \in Calls, SendRequest(k) PROVE ClientOK'
  <2>1. /\ active = k /\ active' = k /\ started /\ started' /\ next_rid \in Nat /\ next_rid' = next_rid + 1
        /\ failures' = failures
    BY <1>0, <1>5 DEF SendRequest, ClientOK, NextRequestId
  <2> DEFINE n == Len(call[k].rids)
  <2>2. /\ DOMAIN call' = Calls /\ \A q \in Calls : q # k => call'[q] = call[q]
        /\ DOMAIN call'[k] = Fields
        /\ call'[k].rids \in Seq(Nat) /\ Len(call'[k].rids) = n + 1
        /\ n \in Nat /\ n < PromptsOf[k]
        /\ \A i \in 1..n : call'[k].rids[i] = call[k].rids[i]
        /\ call'[k].rids[n + 1] = next_rid
        /\ ToSet(call'[k].rids) = ToSet(call[k].rids) \cup {next_rid}
        /\ call'[k].pending = call[k].pending \cup {next_rid}
        /\ DOMAIN call'[k].text = ToSet(call'[k].rids)
        /\ call'[k].tokens = Put(call[k].tokens, next_rid, << >>)
        /\ call'[k].phase = IF n + 1 = PromptsOf[k] THEN "recv" ELSE "send"
        /\ call'[k].undisturbed = call[k].undisturbed
    BY <1>5, SendRequestEffect
  <2>3. DOMAIN call'[k].tokens = ToSet(call'[k].rids)
    BY <2>2, <1>0 DEF Put, ClientOK, CallOK
  <2>4. CallOK(k)'
    <3>1. /\ Len(call'[k].rids) <= PromptsOf[k]
          /\ (call'[k].phase \in {"new", "send"} <=> Len(call'[k].rids) < PromptsOf[k])
          /\ call'[k].phase \in Phases /\ call'[k].phase # "new" /\ call'[k].phase # "returned"
          /\ call'[k].phase \in {"send", "recv"}
      BY <2>2, <1>0 DEF Phases
    <3>2. call'[k].pending # {} /\ call'[k].pending \subseteq ToSet(call'[k].rids)
      BY <2>2, <1>0 DEF ClientOK, CallOK
    <3>3. call'[k].undisturbed \in BOOLEAN
      BY <2>2, <1>0 DEF ClientOK, CallOK
    <3> QED BY <2>1, <2>2, <2>3, <3>1, <3>2, <3>3 DEF CallOK
  <2>5. \A q \in Calls : q # k => CallOK(q)'
    BY <2>1, <2>2, <1>0 DEF ClientOK, CallOK
  <2>6. FreshIds'
    <3>1. \A q \in Calls : Len(call'[q].rids) \in Nat
      BY <2>2, <1>0
    <3>2. \A q \in Calls : \A i \in 1..Len(call'[q].rids) :
            \/ q = k /\ i = n + 1 /\ call'[q].rids[i] = next_rid
            \/ i \in 1..Len(call[q].rids) /\ call'[q].rids[i] = call[q].rids[i]
               /\ call[q].rids[i] < next_rid
      <4>1. ASSUME NEW q \in Calls, q # k, NEW i \in 1..Len(call'[q].rids)
            PROVE  /\ i \in 1..Len(call[q].rids) /\ call'[q].rids[i] = call[q].rids[i]
                   /\ call[q].rids[i] < next_rid
        BY <4>1, <2>2, <1>0 DEF ClientOK, FreshIds
      <4>2. ASSUME NEW i \in 1..(n + 1)
            PROVE  \/ i = n + 1 /\ call'[k].rids[i] = next_rid
                   \/ i \in 1..n /\ call'[k].rids[i] = call[k].rids[i] /\ call[k].rids[i] < next_rid
        <5>1. i = n + 1 \/ i \in 1..n
          BY <2>2
        <5> QED BY <5>1, <2>2, <1>0 DEF ClientOK, FreshIds
      <4> QED BY <4>1, <4>2, <2>2
    <3>3. \A q \in Calls : \A i \in 1..Len(call[q].rids) : call[q].rids[i] \in Nat
      BY <1>0
    <3>4. \A q \in Calls : \A i \in 1..Len(call'[q].rids) : call'[q].rids[i] < next_rid'
      <4> SUFFICES ASSUME NEW q \in Calls, NEW i \in 1..Len(call'[q].rids)
                   PROVE  call'[q].rids[i] < next_rid'
        OBVIOUS
      <4>1. CASE call'[q].rids[i] = next_rid
        BY <4>1, <2>1
      <4>2. CASE i \in 1..Len(call[q].rids) /\ call'[q].rids[i] = call[q].rids[i]
                 /\ call[q].rids[i] < next_rid
        <5>1. call[q].rids[i] \in Nat
          BY <4>2, <3>3
        <5> QED BY <4>2, <5>1, <2>1
      <4> QED BY <4>1, <4>2, <3>2
    <3>5. \A q, r \in Calls : \A i \in 1..Len(call'[q].rids), j \in 1..Len(call'[r].rids) :
            call'[q].rids[i] = call'[r].rids[j] => q = r /\ i = j
      <4> SUFFICES ASSUME NEW q \in Calls, NEW r \in Calls,
                          NEW i \in 1..Len(call'[q].rids), NEW j \in 1..Len(call'[r].rids),
                          call'[q].rids[i] = call'[r].rids[j]
                   PROVE  q = r /\ i = j
        OBVIOUS
      <4>1. \A s \in Calls : \A l \in 1..Len(call[s].rids) : call[s].rids[l] # next_rid
        <5>1. \A s \in Calls : \A l \in 1..Len(call[s].rids) : call[s].rids[l] < next_rid
          BY <1>0 DEF ClientOK, FreshIds
        <5>2. next_rid \in Nat
          BY <1>0 DEF ClientOK
        <5>3. \A x \in Nat : x < next_rid => x # next_rid
          BY ONLY <5>2
        <5> QED BY ONLY <3>3, <5>1, <5>3
      <4>2. CASE q = k /\ i = n + 1
        <5>1. call'[q].rids[i] = next_rid
          BY <4>2, <2>2
        <5>2. CASE r = k /\ j = n + 1
          BY <4>2, <5>2
        <5>3. CASE j \in 1..Len(call[r].rids) /\ call'[r].rids[j] = call[r].rids[j]
          BY <5>1, <5>3, <4>1
        <5> QED BY <5>2, <5>3, <3>2
      <4>3. CASE r = k /\ j = n + 1
        <5>1. call'[r].rids[j] = next_rid
          BY <4>3, <2>2
        <5>2. CASE q = k /\ i = n + 1
          BY <4>3, <5>2
        <5>3. CASE i \in 1..Len(call[q].rids) /\ call'[q].rids[i] = call[q].rids[i]
          BY <5>1, <5>3, <4>1
        <5> QED BY <5>2, <5>3, <3>2
      <4>4. CASE ~(q = k /\ i = n + 1) /\ ~(r = k /\ j = n + 1)
        <5>1. /\ i \in 1..Len(call[q].rids) /\ call'[q].rids[i] = call[q].rids[i]
              /\ j \in 1..Len(call[r].rids) /\ call'[r].rids[j] = call[r].rids[j]
          BY <4>4, <3>2
        <5>2. call[q].rids[i] = call[r].rids[j]
          BY <5>1
        <5> QED BY <5>1, <5>2, <1>0 DEF ClientOK, FreshIds
      <4> QED BY <4>2, <4>3, <4>4
    <3> QED BY <3>4, <3>5 DEF FreshIds
  <2> QED BY <2>1, <2>2, <2>4, <2>5, <2>6, <1>0 DEF ClientOK
<1>6. ASSUME NEW k \in Calls, RecvResponse(k) PROVE ClientOK'
  <2> DEFINE gr == Head(chan["client"])
  <2>1. /\ active = k /\ call[k].phase = "recv" /\ UNCHANGED <<started, next_rid, failures>>
    BY <1>6 DEF RecvResponse
  <2>2. CASE Taken(k, gr)
    <3> DEFINE left == IF gr.finished THEN call[k].pending \ {gr.rid} ELSE call[k].pending
               next == IF left = {} THEN "returned" ELSE IF k \in Streams THEN "suspended" ELSE "recv"
    <3>1. /\ DOMAIN call' = Calls /\ \A q \in Calls : q # k => call'[q] = call[q]
          /\ DOMAIN call'[k] = Fields
          /\ call'[k].rids = call[k].rids
          /\ call'[k].pending = left
          /\ DOMAIN call'[k].text = DOMAIN call[k].text
          /\ DOMAIN call'[k].tokens = DOMAIN call[k].tokens
          /\ call'[k].phase = next /\ call'[k].undisturbed = call[k].undisturbed
          /\ active' = IF next = "recv" THEN k ELSE "none"
      BY <2>2 DEF Taken
    <3>2. left \subseteq call[k].pending
      OBVIOUS
    <3> HIDE DEF left, gr
    <3>3. CallOK(k)'
      BY <3>1, <3>2, <2>1, <1>0 DEF ClientOK, CallOK, Phases
    <3>4. \A q \in Calls : q # k => CallOK(q)'
      BY <3>1, <2>1, <1>0 DEF ClientOK, CallOK
    <3>5. FreshIds'
      BY <3>1, <2>1, <1>0, FreshIdsKept DEF ClientOK
    <3> QED BY <3>1, <3>3, <3>4, <3>5, <2>1, <1>0 DEF ClientOK
  <2>3. CASE UNCHANGED <<call, active>>
    <3>1. FreshIds'
      BY <2>1, <2>3, <1>0, FreshIdsKept DEF ClientOK
    <3> QED BY <3>1, <2>1, <2>3, <1>0 DEF ClientOK, CallOK
  <2> QED BY <2>2, <2>3, <1>6, RecvResponseEffect
<1>7. ASSUME NEW k \in Calls, RecvTimeout(k) PROVE ClientOK'
  <2>1. /\ active = k /\ active' = "none" /\ call[k].phase = "recv" /\ DOMAIN call[k] = Fields
        /\ UNCHANGED <<started, next_rid, failures>>
    BY <1>0, <1>7 DEF RecvTimeout, ClientOK, CallOK
  <2>2. /\ DOMAIN call' = Calls /\ \A q \in Calls : q # k => call'[q] = call[q]
        /\ DOMAIN call'[k] = Fields /\ call'[k].undisturbed = call[k].undisturbed
        /\ call'[k].phase = "timed_out" /\ call'[k].rids = call[k].rids
        /\ call'[k].pending = call[k].pending /\ call'[k].text = call[k].text
        /\ call'[k].tokens = call[k].tokens
    BY <1>0, <1>7, <2>1 DEF RecvTimeout, ClientOK, Fields
  <2>3. \A q \in Calls : CallOK(q)' /\ call'[q].rids = call[q].rids
    <3>1. CallOK(k)'
      BY <2>1, <2>2, <1>0 DEF ClientOK, CallOK, Phases
    <3>2. ASSUME NEW q \in Calls, q # k PROVE CallOK(q)'
      <4>1. call'[q] = call[q]
        BY <2>2, <3>2
      <4>2. CallOK(q) /\ active # q /\ active' # q
        BY <2>1, <3>2, <1>0 DEF ClientOK
      <4> QED BY <4>1, <4>2 DEF CallOK
    <3>3. \A q \in Calls : call'[q].rids = call[q].rids
      BY <2>2
    <3> QED BY <3>1, <3>2, <3>3
  <2>4. FreshIds'
    BY <2>1, <2>3, <1>0, FreshIdsKept DEF ClientOK
  <2> QED BY <2>1, <2>2, <2>3, <2>4, <1>0 DEF ClientOK
<1>8. ASSUME NEW w \in Workers, Fail(w) PROVE ClientOK'
  <2>1. UNCHANGED client /\ failures' = failures + 1
    BY <1>8 DEF Fail
  <2>2. FreshIds'
    BY <2>1, <1>0, FreshIdsKept DEF client, ClientOK
  <2> QED BY <2>1, <2>2, <1>0 DEF client, ClientOK, CallOK
<1>9. CASE UNCHANGED <<client, failures>>
  <2>1. FreshIds'
    BY <1>9, <1>0, FreshIdsKept DEF client, ClientOK
  <2> QED BY <2>1, <1>9, <1>0 DEF client, ClientOK, CallOK
<1>10. ASSUME NEW w \in Workers, Send(w) PROVE UNCHANGED <<client, failures>>
  BY <1>10 DEF Send, client
<1>11. ASSUME Tokenize \/ AddRequest \/ EngineStep \/ Detokenize \/ Shutdown \/ \E e \in DOMAIN engine : Retract(e)
       PROVE  UNCHANGED <<client, failures>>
  BY <1>11 DEF Tokenize, AddRequest, EngineStep, Detokenize, Shutdown, Retract, client
<1>12. CASE UNCHANGED vars
  BY <1>12, <1>9 DEF vars
<1> QED BY <1>1, <1>2, <1>3, <1>4, <1>5, <1>6, <1>7, <1>8, <1>9, <1>10, <1>11, <1>12
        DEF Next, ClientStep, TokenizerStep, SchedulerStep, DetokenizerStep, Workers

LEMMA FunIsSeq ==
  ASSUME NEW n \in Nat, NEW s, s = [i \in 1..n |-> s[i]]
  PROVE  IsSeq(s) /\ DOMAIN s = 1..n /\ Len(s) = n
BY DEF IsSeq, ToSet

\* A step of the engine for the requests in S, of which those in done are over: ids is what
\* each has now, and sent the order in which their chunks go out.
EngineStepped(S, ids, done, sent) ==
  /\ S \subseteq DOMAIN engine /\ S # {} /\ done \subseteq S
  /\ \A e \in S : ids[e] \in Seq(TokenIds)
  /\ DOMAIN engine' = DOMAIN engine \ done
  /\ \A e \in DOMAIN engine \ done :
       engine'[e] = IF e \in S THEN [engine[e] EXCEPT !.ids = ids[e]] ELSE engine[e]
  /\ DOMAIN outbox' = Workers /\ \A w \in Workers : w # "scheduler" => outbox'[w] = outbox[w]
  /\ IsSeq(outbox'["scheduler"]) /\ Len(outbox'["scheduler"]) = Len(sent)
  /\ Len(sent) \in Nat /\ DOMAIN outbox'["scheduler"] = 1..Len(sent)
  /\ \A i \in 1..Len(sent) :
       /\ sent[i] \in S
       /\ outbox'["scheduler"][i] = [rid |-> req_id_map[sent[i]],
                                     output_token_ids |-> ids[sent[i]],
                                     finished |-> sent[i] \in done]
  /\ \A e \in S : \E i \in 1..Len(sent) : sent[i] = e
  /\ DOMAIN req_id_map' = DOMAIN req_id_map \ done
  /\ \A e \in DOMAIN req_id_map \ done : req_id_map'[e] = req_id_map[e]
  /\ DOMAIN final' = {engine[e].prompt : e \in done} \cup DOMAIN final
  /\ \A p \in DOMAIN final' :
       final'[p] = IF p \in {engine[e].prompt : e \in done}
                     THEN ids[CHOOSE e \in done : engine[e].prompt = p] ELSE final[p]

\* In it each request in S gets one token more, and one chunk of each goes out.
OneToken(S, ids, sent) ==
  /\ \A e \in S : \E t \in TokenIds : ids[e] = Append(engine[e].ids, t)
  /\ \A i, j \in 1..Len(sent) : i # j => sent[i] # sent[j]

LEMMA EngineStepEffect ==
  ASSUME Shape, EngineStep
  PROVE  /\ outbox["scheduler"] = << >>
         /\ \E S, ids, done, sent : EngineStepped(S, ids, done, sent) /\ OneToken(S, ids, sent)
<1> DEFINE Step(S, token, sent) ==
        LET ids  == [e \in S |-> Append(engine[e].ids, token[e])]
            done == {e \in S : Over(engine[e].prompt, ids[e])}
            over == {engine[e].prompt : e \in done}
        IN /\ S # {}
           /\ engine' = [e \in DOMAIN engine \ done |->
                          IF e \in S THEN [engine[e] EXCEPT !.ids = ids[e]] ELSE engine[e]]
           /\ outbox' = [outbox EXCEPT !["scheduler"] =
                          [i \in DOMAIN sent |-> [rid |-> req_id_map[sent[i]],
                                                  output_token_ids |-> ids[sent[i]],
                                                  finished |-> sent[i] \in done]]]
           /\ req_id_map' = MapAfter(done)
           /\ final' = [p \in over \cup DOMAIN final |->
                          IF p \in over THEN ids[CHOOSE e \in done : engine[e].prompt = p]
                                        ELSE final[p]]
<1>1. \E S \in SUBSET DOMAIN engine : \E token \in [S -> TokenIds] :
        \E sent \in SetToSeqs(S \cap DOMAIN req_id_map) : Step(S, token, sent)
  BY DEF EngineStep
<1> HIDE DEF Step
<1>2. PICK S \in SUBSET DOMAIN engine : \E token \in [S -> TokenIds] :
        \E sent \in SetToSeqs(S \cap DOMAIN req_id_map) : Step(S, token, sent)
  BY <1>1
<1>3. PICK token \in [S -> TokenIds] :
        \E sent \in SetToSeqs(S \cap DOMAIN req_id_map) : Step(S, token, sent)
  BY <1>2
<1>4. PICK sent \in SetToSeqs(S \cap DOMAIN req_id_map) : Step(S, token, sent)
  BY <1>3
<1> DEFINE ids  == [e \in S |-> Append(engine[e].ids, token[e])]
           done == {e \in S : Over(engine[e].prompt, ids[e])}
           over == {engine[e].prompt : e \in done}
<1>5. /\ S \subseteq DOMAIN engine /\ S # {} /\ token \in [S -> TokenIds]
      /\ sent \in SetToSeqs(S \cap DOMAIN req_id_map)
      /\ engine' = [e \in DOMAIN engine \ done |->
                      IF e \in S THEN [engine[e] EXCEPT !.ids = ids[e]] ELSE engine[e]]
      /\ outbox' = [outbox EXCEPT !["scheduler"] =
                      [i \in DOMAIN sent |-> [rid |-> req_id_map[sent[i]],
                                              output_token_ids |-> ids[sent[i]],
                                              finished |-> sent[i] \in done]]]
      /\ req_id_map' = MapAfter(done)
      /\ final' = [p \in over \cup DOMAIN final |->
                      IF p \in over THEN ids[CHOOSE e \in done : engine[e].prompt = p]
                                    ELSE final[p]]
  BY <1>4 DEF Step
<1>6. done \subseteq S
  OBVIOUS
<1>7. \A e \in S : ids[e] \in Seq(TokenIds)
  <2> TAKE e \in S
  <2>1. engine[e].ids \in Seq(TokenIds) /\ token[e] \in TokenIds
    BY <1>5 DEF Shape, EngineOK
  <2> QED BY <2>1
<1>8. \A e \in S : \E t \in TokenIds : ids[e] = Append(engine[e].ids, t)
  BY <1>5
<1> HIDE DEF done, ids, over
<1>9. S \cap DOMAIN req_id_map = S /\ IsFiniteSet(S)
  <2>1. IsFiniteSet(0..(req_counter - 1)) /\ S \subseteq 0..(req_counter - 1)
    <3>1. req_counter \in Nat /\ S \subseteq 0..(req_counter - 1)
      BY <1>5 DEF Shape, EngineOK
    <3>2. 0 \in Int /\ req_counter - 1 \in Int
      BY <3>1
    <3> QED BY <3>1, <3>2, FS_Interval
  <2> QED BY <1>5, <2>1, FS_Subset DEF Shape, EngineOK
<1>10. /\ IsSeq(sent) /\ ToSet(sent) = S /\ Len(sent) \in Nat /\ DOMAIN sent = 1..Len(sent)
       /\ \A i, j \in 1..Len(sent) : i # j => sent[i] # sent[j]
  <2>1. sent \in SetToSeqs(S)
    BY <1>5, <1>9
  <2>2. IsSeq(sent) /\ ToSet(sent) = S /\ \A i, j \in 1..Len(sent) : i # j => sent[i] # sent[j]
    BY <2>1, <1>9, SetToSeqsSet
  <2> QED BY <2>2 DEF IsSeq
<1>11. /\ \A i \in 1..Len(sent) : sent[i] \in S
       /\ \A e \in S : \E i \in 1..Len(sent) : sent[i] = e
  BY <1>10 DEF ToSet
<1> DEFINE chunks == [i \in 1..Len(sent) |-> [rid |-> req_id_map[sent[i]],
                                              output_token_ids |-> ids[sent[i]],
                                              finished |-> sent[i] \in done]]
<1>12. /\ DOMAIN outbox' = Workers /\ outbox'["scheduler"] = chunks
       /\ \A w \in Workers : w # "scheduler" => outbox'[w] = outbox[w]
  BY <1>5, <1>10 DEF Shape, ChannelsOK, Workers
<1>13. IsSeq(chunks) /\ Len(chunks) = Len(sent) /\ DOMAIN chunks = 1..Len(sent)
  BY <1>10, FunIsSeq
<1>14. /\ DOMAIN req_id_map' = DOMAIN req_id_map \ done
       /\ \A e \in DOMAIN req_id_map \ done : req_id_map'[e] = req_id_map[e]
  BY <1>5 DEF MapAfter, Restrict
<1>15. /\ DOMAIN final' = over \cup DOMAIN final
       /\ \A p \in DOMAIN final' :
            final'[p] = IF p \in over THEN ids[CHOOSE e \in done : engine[e].prompt = p] ELSE final[p]
  BY <1>5
<1>16. outbox["scheduler"] = << >>
  BY DEF EngineStep, Ready
<1>17. EngineStepped(S, ids, done, sent)
  BY <1>5, <1>6, <1>7, <1>10, <1>11, <1>12, <1>13, <1>14, <1>15 DEF EngineStepped, over
<1>18. OneToken(S, ids, sent)
  BY <1>10, <1>8 DEF OneToken
<1> QED BY <1>16, <1>17, <1>18

\* What is left of the last messages of a worker that goes.
LEMMA LeaveEffect ==
  ASSUME Shape, NEW w \in Workers, Leave(w)
  PROVE  LET c == NextHop[w]
         IN /\ c \in Channels /\ up' = up \ {w}
            /\ DOMAIN chan' = Channels /\ \A d \in Channels : d # c => chan'[d] = chan[d]
            /\ IsSeq(chan'[c]) /\ Len(chan'[c]) <= Capacity
            /\ ToSet(chan'[c]) \subseteq ToSet(chan[c]) \cup (IF w = "scheduler" THEN {SHUTDOWN} ELSE {})
            /\ w # "scheduler" => \E n \in 0..Len(chan[c]) : chan'[c] = SubSeq(chan[c], 1, n)
<1> DEFINE c    == NextHop[w]
           sent == chan[c] \o (IF w = "scheduler" THEN <<SHUTDOWN>> ELSE << >>)
<1>1. PICK n \in 0..Len(sent) : n <= Capacity /\ up' = up \ {w} /\ chan' = [chan EXCEPT ![c] = SubSeq(sent, 1, n)]
  BY DEF Leave
<1>2. c \in Channels /\ IsSeq(chan[c])
  BY DEF NextHop, Workers, Channels, Shape, ChannelsOK
<1>3. IsSeq(<<SHUTDOWN>>) /\ ToSet(<<SHUTDOWN>>) = {SHUTDOWN}
  BY DEF IsSeq, ToSet
<1>4. /\ IsSeq(sent)
      /\ ToSet(sent) \subseteq ToSet(chan[c]) \cup (IF w = "scheduler" THEN {SHUTDOWN} ELSE {})
  BY <1>2, <1>3, ConcatSet, EmptyIsSeq
<1>5. w # "scheduler" => sent = chan[c]
  BY <1>2 DEF IsSeq
<1> HIDE DEF sent
<1>6. /\ IsSeq(SubSeq(sent, 1, n)) /\ ToSet(SubSeq(sent, 1, n)) \subseteq ToSet(sent)
      /\ Len(SubSeq(sent, 1, n)) = n
  BY <1>4, PrefixSet
<1>7. /\ DOMAIN chan' = Channels /\ chan'[c] = SubSeq(sent, 1, n)
      /\ \A d \in Channels : d # c => chan'[d] = chan[d]
  BY <1>1, <1>2 DEF Shape, ChannelsOK
<1> QED BY <1>1, <1>2, <1>4, <1>5, <1>6, <1>7

LEMMA ChannelsPreserved ==
  ASSUME Shape, Next \/ UNCHANGED vars
  PROVE  ChannelsOK'
<1> USE PipelineAssumption
<1>0. /\ DOMAIN chan = Channels /\ DOMAIN outbox = Workers /\ up \subseteq Workers
      /\ \A c \in Channels : IsSeq(chan[c]) /\ Len(chan[c]) <= Capacity /\ Len(chan[c]) \in Nat
      /\ \A w \in Workers : IsSeq(outbox[w])
      /\ \A w \in Workers : w \in Channels /\ NextHop[w] \in Channels
  BY DEF Shape, ChannelsOK, IsSeq, NextHop, Workers, Channels
<1>1. CASE Fresh /\ up' \subseteq Workers
  BY <1>1, EmptyIsSeq DEF Fresh, ChannelsOK
<1>2. ASSUME NEW c \in Channels, chan[c] # << >>, chan' = [chan EXCEPT ![c] = Tail(@)]
      PROVE  /\ DOMAIN chan' = Channels
             /\ \A d \in Channels : IsSeq(chan'[d]) /\ Len(chan'[d]) <= Capacity
  <2>1. IsSeq(Tail(chan[c])) /\ Len(Tail(chan[c])) = Len(chan[c]) - 1
    BY <1>0, <1>2, TailSet
  <2> QED BY <2>1, <1>0, <1>2
<1>3. ASSUME NEW c \in Channels, Len(chan[c]) < Capacity, NEW m, chan' = [chan EXCEPT ![c] = Append(@, m)]
      PROVE  /\ DOMAIN chan' = Channels
             /\ \A d \in Channels : IsSeq(chan'[d]) /\ Len(chan'[d]) <= Capacity
  <2>1. IsSeq(Append(chan[c], m)) /\ Len(Append(chan[c], m)) = Len(chan[c]) + 1
    BY <1>0, <1>3, AppendSet
  <2> QED BY <2>1, <1>0, <1>3
<1>4. ASSUME NEW w \in Workers, NEW m, outbox' = [outbox EXCEPT ![w] = <<m>>]
      PROVE  DOMAIN outbox' = Workers /\ \A v \in Workers : IsSeq(outbox'[v])
  <2>1. IsSeq(<<m>>)
    BY DEF IsSeq, ToSet
  <2> QED BY <2>1, <1>0, <1>4
<1>5. ASSUME NEW k \in Calls, SendRequest(k) PROVE ChannelsOK'
  <2>1. /\ Len(chan["tokenizer"]) < Capacity /\ UNCHANGED <<up, outbox>>
        /\ chan' = [chan EXCEPT !["tokenizer"] =
                      Append(@, [rid |-> NextRequestId(k), prompt |-> <<k, Len(call[k].rids) + 1>>])]
    BY <1>5 DEF SendRequest, workers
  <2>2. "tokenizer" \in Channels
    BY DEF Channels, Workers
  <2> QED BY <2>1, <2>2, <1>3, <1>0 DEF ChannelsOK
<1>6. ASSUME NEW k \in Calls, RecvResponse(k) PROVE ChannelsOK'
  <2>1. /\ chan["client"] # << >> /\ chan' = [chan EXCEPT !["client"] = Tail(@)]
        /\ UNCHANGED <<up, outbox>>
    BY <1>6 DEF RecvResponse
  <2>2. "client" \in Channels
    BY DEF Channels
  <2> QED BY <2>1, <2>2, <1>2, <1>0 DEF ChannelsOK
<1>7. ASSUME NEW w \in Workers, Send(w) PROVE ChannelsOK'
  <2>1. /\ outbox[w] # << >> /\ Len(chan[NextHop[w]]) < Capacity
        /\ chan' = [chan EXCEPT ![NextHop[w]] = Append(@, Head(outbox[w]))]
        /\ outbox' = [outbox EXCEPT ![w] = Tail(@)] /\ up' = up
    BY <1>7 DEF Send
  <2>2. IsSeq(Tail(outbox[w]))
    BY <2>1, <1>0, TailSet
  <2>3. DOMAIN outbox' = Workers /\ \A v \in Workers : IsSeq(outbox'[v])
    BY <2>1, <2>2, <1>0
  <2> QED BY <2>1, <2>3, <1>3, <1>0 DEF ChannelsOK
<1>8. CASE Tokenize
  <2>1. /\ chan["tokenizer"] # << >> /\ chan' = [chan EXCEPT !["tokenizer"] = Tail(@)]
        /\ outbox' = [outbox EXCEPT !["tokenizer"] = <<Head(chan["tokenizer"])>>] /\ up' = up
    BY <1>8 DEF Tokenize
  <2>2. "tokenizer" \in Workers /\ "tokenizer" \in Channels
    BY DEF Channels, Workers
  <2> QED BY <2>1, <2>2, <1>2, <1>4, <1>0 DEF ChannelsOK
<1>9. CASE AddRequest
  <2>1. /\ chan["scheduler"] # << >> /\ chan' = [chan EXCEPT !["scheduler"] = Tail(@)]
        /\ UNCHANGED <<up, outbox>>
    BY <1>9 DEF AddRequest
  <2>2. "scheduler" \in Channels
    BY DEF Channels, Workers
  <2> QED BY <2>1, <2>2, <1>2, <1>0 DEF ChannelsOK
<1>10. CASE EngineStep
  <2>1. PICK S, ids, done, sent : EngineStepped(S, ids, done, sent)
    BY <1>10, EngineStepEffect
  <2>2. UNCHANGED <<chan, up>>
    BY <1>10 DEF EngineStep
  <2>3. DOMAIN outbox' = Workers /\ \A v \in Workers : IsSeq(outbox'[v])
    BY <2>1, <1>0 DEF EngineStepped
  <2> QED BY <2>2, <2>3, <1>0 DEF ChannelsOK
<1>11. CASE Detokenize
  <2>1. /\ chan["detokenizer"] # << >> /\ chan' = [chan EXCEPT !["detokenizer"] = Tail(@)]
        /\ up' = up /\ \E m : outbox' = [outbox EXCEPT !["detokenizer"] = <<m>>]
    BY <1>11 DEF Detokenize
  <2>2. "detokenizer" \in Workers /\ "detokenizer" \in Channels
    BY DEF Channels, Workers
  <2> QED BY <2>1, <2>2, <1>2, <1>4, <1>0 DEF ChannelsOK
<1>12. ASSUME NEW w \in Workers, Leave(w), outbox' = outbox PROVE ChannelsOK'
  BY <1>12, <1>0, LeaveEffect DEF ChannelsOK
<1>13. ASSUME UNCHANGED <<chan, outbox, up>> PROVE ChannelsOK'
  BY <1>13, <1>0 DEF ChannelsOK
<1>14. ASSUME Start \/ Stop PROVE ChannelsOK'
  BY <1>14, <1>1 DEF Start, Stop
<1>15. ASSUME NEW k \in Calls, Enter(k) \/ ResumeStopped(k) \/ RecvTimeout(k) PROVE ChannelsOK'
  BY <1>15, <1>13 DEF Enter, ResumeStopped, RecvTimeout
<1>16. ASSUME \E e \in DOMAIN engine : Retract(e) PROVE ChannelsOK'
  BY <1>16, <1>13 DEF Retract
<1>17. ASSUME NEW w \in Workers, Fail(w) PROVE ChannelsOK'
  BY <1>17, <1>12 DEF Fail
<1>18. CASE Shutdown
  BY <1>18, <1>12 DEF Shutdown, Workers
<1>19. CASE UNCHANGED vars
  BY <1>19, <1>13 DEF vars
<1> QED BY <1>5, <1>6, <1>7, <1>8, <1>9, <1>10, <1>11, <1>14, <1>15, <1>16, <1>17, <1>18, <1>19
        DEF Next, ClientStep, TokenizerStep, SchedulerStep, DetokenizerStep, Workers

\* An answer is of an unfinished request of the engine, which is of a prompt.
LEMMA EnginePreserved ==
  ASSUME Shape, Requests, Next \/ UNCHANGED vars
  PROVE  EngineOK'
<1>0. EngineOK
  BY DEF Shape
<1>1. ASSUME Fresh, UNCHANGED <<final, retracted>> PROVE EngineOK'
  BY <1>0, <1>1 DEF Fresh, EngineOK
<1>2. CASE AddRequest
  <2> DEFINE result == Head(chan["scheduler"])
             entry  == [prompt |-> result.prompt, ids |-> << >>]
  <2>1. /\ chan["scheduler"] # << >> /\ engine' = Put(engine, req_counter, entry)
        /\ req_id_map' = Put(req_id_map, req_counter, result.rid)
        /\ req_counter' = req_counter + 1 /\ UNCHANGED <<final, retracted>>
    BY <1>2 DEF AddRequest
  <2>2. result \in ToSet(chan["scheduler"])
    <3>1. IsSeq(chan["scheduler"])
      BY DEF Shape, ChannelsOK, Channels, Workers
    <3> QED BY <2>1, <3>1, TailSet
  <2>3. entry \in [prompt : Prompts, ids : Seq(TokenIds)]
    BY <2>2 DEF Requests, Queued, RequestOK, Asked
  <2> HIDE DEF entry, result
  <2>4. /\ DOMAIN engine' = {req_counter} \cup DOMAIN engine
        /\ DOMAIN req_id_map' = {req_counter} \cup DOMAIN req_id_map
        /\ engine'[req_counter] = entry
        /\ \A e \in DOMAIN engine : e # req_counter => engine'[e] = engine[e]
    BY <2>1 DEF Put
  <2>5. \A e \in DOMAIN engine' : engine'[e] \in [prompt : Prompts, ids : Seq(TokenIds)]
    BY <2>3, <2>4, <1>0 DEF EngineOK
  <2>6. /\ req_counter' \in Nat /\ DOMAIN engine' \subseteq 0..(req_counter' - 1)
        /\ DOMAIN req_id_map' = DOMAIN engine'
    BY <2>1, <2>4, <1>0 DEF EngineOK
  <2> QED BY <2>1, <2>5, <2>6, <1>0 DEF EngineOK
<1>3. CASE EngineStep
  <2>1. PICK S, ids, done, sent : EngineStepped(S, ids, done, sent)
    BY <1>3, EngineStepEffect
  <2>2. UNCHANGED <<req_counter, retracted>>
    BY <1>3 DEF EngineStep
  <2>3. /\ DOMAIN engine' = DOMAIN engine \ done /\ DOMAIN req_id_map' = DOMAIN req_id_map \ done
        /\ done \subseteq DOMAIN engine
        /\ DOMAIN final' = {engine[e].prompt : e \in done} \cup DOMAIN final
    BY <2>1 DEF EngineStepped
  <2>4. ASSUME NEW e \in DOMAIN engine'
        PROVE  engine'[e] \in [prompt : Prompts, ids : Seq(TokenIds)]
    <3>1. engine[e] \in [prompt : Prompts, ids : Seq(TokenIds)]
      BY <2>3, <1>0 DEF EngineOK
    <3>2. CASE e \in S
      <4>1. ids[e] \in Seq(TokenIds) /\ engine'[e] = [engine[e] EXCEPT !.ids = ids[e]]
        BY <3>2, <2>1, <2>3 DEF EngineStepped
      <4> QED BY <3>1, <4>1
    <3>3. CASE e \notin S
      BY <3>3, <2>1, <2>3, <3>1 DEF EngineStepped
    <3> QED BY <3>2, <3>3
  <2>5. DOMAIN final' \subseteq Prompts
    BY <2>3, <1>0 DEF EngineOK
  <2> QED BY <2>2, <2>3, <2>4, <2>5, <1>0 DEF EngineOK
<1>4. ASSUME NEW e \in DOMAIN engine, Retract(e) PROVE EngineOK'
  <2>1. /\ engine' = [engine EXCEPT ![e].ids = << >>]
        /\ retracted' = retracted \cup {engine[e].prompt}
        /\ UNCHANGED <<req_counter, req_id_map, final>>
    BY <1>4 DEF Retract
  <2>2. engine[e] \in [prompt : Prompts, ids : Seq(TokenIds)]
    BY <1>0 DEF EngineOK
  <2>3. engine'[e] \in [prompt : Prompts, ids : Seq(TokenIds)] /\ retracted' \subseteq Prompts
    <3>1. engine'[e] = [engine[e] EXCEPT !.ids = << >>] /\ << >> \in Seq(TokenIds)
      BY <2>1
    <3>2. engine'[e] \in [prompt : Prompts, ids : Seq(TokenIds)]
      BY <2>2, <3>1
    <3>3. engine[e].prompt \in Prompts
      BY <2>2
    <3> QED BY <2>1, <3>2, <3>3, <1>0 DEF EngineOK
  <2>4. DOMAIN engine' = DOMAIN engine /\ \A f \in DOMAIN engine : f # e => engine'[f] = engine[f]
    BY <2>1
  <2> QED BY <2>1, <2>3, <2>4, <1>0 DEF EngineOK
<1>5. ASSUME UNCHANGED <<req_counter, engine, req_id_map, final, retracted>> PROVE EngineOK'
  BY <1>5, <1>0 DEF EngineOK
<1>6. ASSUME UNCHANGED workers PROVE EngineOK'
  BY <1>5, <1>6 DEF workers
<1>7. ASSUME Start \/ Stop PROVE EngineOK'
  BY <1>7, <1>1 DEF Start, Stop
<1>8. ASSUME NEW k \in Calls,
             Enter(k) \/ ResumeStopped(k) \/ SendRequest(k) \/ RecvResponse(k) \/ RecvTimeout(k)
      PROVE  EngineOK'
  BY <1>8, <1>6 DEF Enter, ResumeStopped, SendRequest, RecvResponse, RecvTimeout
<1>9. ASSUME NEW w \in Workers, Send(w) \/ Fail(w) PROVE EngineOK'
  BY <1>9, <1>6 DEF Send, Fail
<1>10. ASSUME Tokenize \/ Detokenize \/ Shutdown \/ UNCHANGED vars PROVE EngineOK'
  BY <1>10, <1>5, <1>6 DEF Tokenize, Detokenize, Shutdown, vars, workers
<1> QED BY <1>2, <1>3, <1>4, <1>7, <1>8, <1>9, <1>10
        DEF Next, ClientStep, TokenizerStep, SchedulerStep, DetokenizerStep, Workers

---------------------------------------------------------------------------
\* One request for each prompt.

\* Ids are only ever added to a call's.
RidsGrow ==
  \A k \in Calls :
    /\ Len(call[k].rids) \in Nat /\ Len(call'[k].rids) \in Nat
    /\ Len(call[k].rids) <= Len(call'[k].rids)
    /\ \A i \in 1..Len(call[k].rids) : call'[k].rids[i] = call[k].rids[i]

LEMMA RidsOnlyGrow ==
  ASSUME Shape, Next \/ UNCHANGED vars
  PROVE  RidsGrow
<1>0. /\ DOMAIN call = Calls
      /\ \A k \in Calls : Len(call[k].rids) \in Nat /\ DOMAIN call[k] = Fields
  BY DEF Shape, ClientOK, CallOK
<1>1. ASSUME \A k \in Calls : call'[k].rids = call[k].rids PROVE RidsGrow
  BY <1>0, <1>1 DEF RidsGrow
<1>2. ASSUME NEW k \in Calls, SendRequest(k) PROVE RidsGrow
  <2>1. /\ \A q \in Calls : q # k => call'[q] = call[q]
        /\ Len(call'[k].rids) = Len(call[k].rids) + 1
        /\ \A i \in 1..Len(call[k].rids) : call'[k].rids[i] = call[k].rids[i]
    BY <1>2, SendRequestEffect
  <2> QED BY <1>0, <2>1 DEF RidsGrow
<1>3. ASSUME NEW k \in Calls, RecvResponse(k) PROVE RidsGrow
  BY <1>3, <1>1, RecvResponseEffect DEF Taken
<1>4. CASE Stop
  <2>1. ASSUME NEW q \in Calls PROVE call'[q].rids = call[q].rids
    BY <1>4, <1>0 DEF Stop, Fields
  <2> QED BY <2>1, <1>1
<1>5. ASSUME NEW k \in Calls, Enter(k) PROVE RidsGrow
  <2>1. ASSUME NEW q \in Calls PROVE call'[q].rids = call[q].rids
    BY <1>5, <1>0 DEF Enter, Fields
  <2> QED BY <2>1, <1>1
<1>6. ASSUME NEW k \in Calls, ResumeStopped(k) PROVE RidsGrow
  <2>1. ASSUME NEW q \in Calls PROVE call'[q].rids = call[q].rids
    BY <1>6, <1>0 DEF ResumeStopped, Fields
  <2> QED BY <2>1, <1>1
<1>7. ASSUME NEW k \in Calls, RecvTimeout(k) PROVE RidsGrow
  <2>1. ASSUME NEW q \in Calls PROVE call'[q].rids = call[q].rids
    BY <1>7, <1>0 DEF RecvTimeout, Fields
  <2> QED BY <2>1, <1>1
<1>8. ASSUME NEW w \in Workers, Send(w) \/ Fail(w) PROVE call' = call
  BY <1>8 DEF Send, Fail, client
<1>9. ASSUME \/ Start \/ Tokenize \/ AddRequest \/ EngineStep \/ Detokenize \/ Shutdown \/ UNCHANGED vars
             \/ \E e \in DOMAIN engine : Retract(e)
      PROVE  call' = call
  BY <1>9 DEF Start, Tokenize, AddRequest, EngineStep, Detokenize, Shutdown, Retract, client, vars
<1> QED BY <1>1, <1>2, <1>3, <1>4, <1>5, <1>6, <1>7, <1>8, <1>9
        DEF Next, ClientStep, TokenizerStep, SchedulerStep, DetokenizerStep, Workers

LEMMA AskedStays ==
  ASSUME RidsGrow, NEW p, Asked(p)
  PROVE  Asked(p)' /\ RidOf(p)' = RidOf(p)
<1>1. p \in Prompts /\ p[1] \in Calls /\ p[2] \in Nat \ {0} /\ p[2] <= Len(call[p[1]].rids)
  BY PromptIs, PipelineAssumption DEF Asked
<1>2. PICK k, i : k = p[1] /\ i = p[2]
  OBVIOUS
<1>3. /\ Len(call[k].rids) \in Nat /\ Len(call'[k].rids) \in Nat
      /\ Len(call[k].rids) <= Len(call'[k].rids)
      /\ \A j \in 1..Len(call[k].rids) : call'[k].rids[j] = call[k].rids[j]
  BY <1>1, <1>2 DEF RidsGrow
<1>4. i \in Nat \ {0} /\ i <= Len(call[k].rids)
  BY ONLY <1>1, <1>2
<1>5. i <= Len(call'[k].rids) /\ i \in 1..Len(call[k].rids)
  BY ONLY <1>3, <1>4
<1>6. call'[k].rids[i] = call[k].rids[i]
  BY ONLY <1>3, <1>5
<1> QED BY ONLY <1>1, <1>2, <1>5, <1>6 DEF Asked, RidOf

\* A prompt is asked once.
LEMMA RidsApart ==
  ASSUME Shape, NEW p, NEW q, Asked(p), Asked(q), RidOf(p) = RidOf(q)
  PROVE  p = q
<1>1. /\ p[1] \in Calls /\ p[2] \in 1..Len(call[p[1]].rids) /\ p = <<p[1], p[2]>>
      /\ q[1] \in Calls /\ q[2] \in 1..Len(call[q[1]].rids) /\ q = <<q[1], q[2]>>
  BY PromptIs, PipelineAssumption DEF Asked, Shape, ClientOK, CallOK
<1>2. p[1] = q[1] /\ p[2] = q[2]
  BY <1>1 DEF RidOf, Shape, ClientOK, FreshIds
<1> QED BY <1>1, <1>2

LEMMA RidIs ==
  ASSUME Shape, NEW p, Asked(p)
  PROVE  /\ RidOf(p) \in Nat /\ RidOf(p) < next_rid /\ p[1] \in Calls
         /\ p[2] \in 1..Len(call[p[1]].rids) /\ p[2] \in 1..PromptsOf[p[1]]
         /\ RidOf(p) \in ToSet(call[p[1]].rids)
<1>1. /\ p[1] \in Calls /\ p[2] \in 1..PromptsOf[p[1]] /\ PromptsOf[p[1]] \in Nat
      /\ call[p[1]].rids \in Seq(Nat) /\ p[2] <= Len(call[p[1]].rids)
  BY PromptIs, PipelineAssumption DEF Asked, Shape, ClientOK, CallOK
<1>2. p[2] \in 1..Len(call[p[1]].rids)
  BY <1>1
<1>3. RidOf(p) \in Nat /\ RidOf(p) \in ToSet(call[p[1]].rids)
  <2>1. \A s \in Seq(Nat) : \A i \in 1..Len(s) : s[i] \in Nat /\ s[i] \in ToSet(s)
    BY DEF ToSet
  <2> QED BY <1>1, <1>2, <2>1 DEF RidOf
<1>4. RidOf(p) < next_rid
  BY <1>1, <1>2 DEF RidOf, Shape, ClientOK, FreshIds
<1> QED BY <1>1, <1>2, <1>3, <1>4

LEMMA AppendOnce ==
  ASSUME NEW s, IsSeq(s), OnceEach(s), NEW m, m.prompt \notin PromptsIn(s)
  PROVE  OnceEach(Append(s, m)) /\ PromptsIn(Append(s, m)) = PromptsIn(s) \cup {m.prompt}
<1>1. /\ Len(s) \in Nat /\ DOMAIN s = 1..Len(s) /\ DOMAIN Append(s, m) = 1..(Len(s) + 1)
      /\ \A i \in 1..Len(s) : Append(s, m)[i] = s[i]
      /\ Append(s, m)[Len(s) + 1] = m
  BY DEF IsSeq
<1>2. \A i \in 1..(Len(s) + 1) : i \in 1..Len(s) \/ i = Len(s) + 1
  BY <1>1
<1> DEFINE a == Append(s, m)
<1> HIDE DEF a
<1>3. OnceEach(a)
  BY <1>1, <1>2 DEF OnceEach, PromptsIn, a
<1>4. PromptsIn(a) \subseteq PromptsIn(s) \cup {m.prompt}
  BY <1>1, <1>2 DEF PromptsIn, a
<1>5. PromptsIn(s) \subseteq PromptsIn(a) /\ m.prompt \in PromptsIn(a)
  BY <1>1 DEF PromptsIn, a
<1> QED BY <1>3, <1>4, <1>5 DEF a

LEMMA TailOnce ==
  ASSUME NEW s, IsSeq(s), OnceEach(s), s # << >>
  PROVE  /\ OnceEach(Tail(s)) /\ PromptsIn(s) = {Head(s).prompt} \cup PromptsIn(Tail(s))
         /\ Head(s).prompt \notin PromptsIn(Tail(s))
<1> DEFINE a == Tail(s)
<1>1. /\ Len(s) \in Nat \ {0} /\ DOMAIN s = 1..Len(s) /\ DOMAIN a = 1..(Len(s) - 1)
      /\ \A i \in 1..(Len(s) - 1) : a[i] = s[i + 1]
      /\ Head(s) = s[1]
  BY TailSet DEF IsSeq
<1> HIDE DEF a
<1>2. \A i \in 1..(Len(s) - 1) : i + 1 \in 1..Len(s) /\ i + 1 # 1
  BY <1>1
<1>3. \A i \in 1..Len(s) : i = 1 \/ (i - 1 \in 1..(Len(s) - 1) /\ (i - 1) + 1 = i)
  BY <1>1
<1>4. OnceEach(a)
  <2> SUFFICES ASSUME NEW i \in DOMAIN a, NEW j \in DOMAIN a, a[i].prompt = a[j].prompt
               PROVE  i = j
    BY DEF OnceEach
  <2>1. i + 1 \in DOMAIN s /\ j + 1 \in DOMAIN s /\ s[i + 1].prompt = s[j + 1].prompt
    BY <1>1, <1>2
  <2>2. i + 1 = j + 1 /\ i \in Int /\ j \in Int
    BY <1>1, <2>1 DEF OnceEach
  <2> QED BY <2>2
<1>5. ASSUME NEW i \in DOMAIN s PROVE s[i].prompt \in {Head(s).prompt} \cup PromptsIn(a)
  <2>1. CASE i = 1
    BY <2>1, <1>1
  <2>2. CASE i # 1
    <3>1. i - 1 \in DOMAIN a /\ a[i - 1] = s[i]
      BY <2>2, <1>1, <1>3
    <3> QED BY <3>1 DEF PromptsIn
  <2> QED BY <2>1, <2>2
<1>6. ASSUME NEW i \in DOMAIN a PROVE a[i].prompt \in PromptsIn(s) /\ a[i].prompt # Head(s).prompt
  <2>1. i + 1 \in DOMAIN s /\ 1 \in DOMAIN s /\ a[i] = s[i + 1] /\ i + 1 # 1
    BY <1>1, <1>2
  <2> QED BY <2>1, <1>1 DEF PromptsIn, OnceEach
<1>7. Head(s).prompt \in PromptsIn(s)
  BY <1>1 DEF PromptsIn
<1>8. PromptsIn(s) \subseteq {Head(s).prompt} \cup PromptsIn(a)
  BY <1>5 DEF PromptsIn
<1>9. PromptsIn(a) \subseteq PromptsIn(s) /\ Head(s).prompt \notin PromptsIn(a)
  BY <1>6 DEF PromptsIn
<1> QED BY <1>4, <1>7, <1>8, <1>9 DEF a

LEMMA PrefixOnce ==
  ASSUME NEW s, IsSeq(s), OnceEach(s), NEW n \in 0..Len(s)
  PROVE  OnceEach(SubSeq(s, 1, n)) /\ PromptsIn(SubSeq(s, 1, n)) \subseteq PromptsIn(s)
<1> DEFINE a == SubSeq(s, 1, n)
<1>1. Len(s) \in Nat /\ DOMAIN s = 1..Len(s) /\ DOMAIN a = 1..n /\ \A i \in 1..n : a[i] = s[i]
  BY PrefixSet DEF IsSeq
<1> HIDE DEF a
<1>2. \A i \in 1..n : i \in 1..Len(s)
  BY <1>1
<1>3. OnceEach(a)
  BY <1>1, <1>2 DEF OnceEach
<1>4. PromptsIn(a) \subseteq PromptsIn(s)
  BY <1>1, <1>2 DEF PromptsIn
<1> QED BY <1>3, <1>4 DEF a

LEMMA PromptsInSet ==
  ASSUME NEW s
  PROVE  \A p : p \in PromptsIn(s) <=> \E m \in ToSet(s) : m.prompt = p
BY DEF PromptsIn, ToSet

\* The five places share nothing.
Apart(a, b, c, d, e) ==
  /\ a \cap b = {} /\ a \cap c = {} /\ a \cap d = {} /\ a \cap e = {}
  /\ b \cap c = {} /\ b \cap d = {} /\ b \cap e = {}
  /\ c \cap d = {} /\ c \cap e = {} /\ d \cap e = {}

LEMMA ApartDef ==
  ASSUME NEW a, NEW b, NEW c, NEW d, NEW e
  PROVE  Apart(a, b, c, d, e) <=>
           \A i, j \in 1..5 : i # j => <<a, b, c, d, e>>[i] \cap <<a, b, c, d, e>>[j] = {}
<1> DEFINE P == <<a, b, c, d, e>>
<1>1. P[1] = a /\ P[2] = b /\ P[3] = c /\ P[4] = d /\ P[5] = e
  OBVIOUS
<1> HIDE DEF P
<1>2. Apart(P[1], P[2], P[3], P[4], P[5]) <=> \A i, j \in 1..5 : i # j => P[i] \cap P[j] = {}
  <2>1. \A i \in 1..5 : i = 1 \/ i = 2 \/ i = 3 \/ i = 4 \/ i = 5
    OBVIOUS
  <2>2. ASSUME Apart(P[1], P[2], P[3], P[4], P[5]), NEW i \in 1..5, NEW j \in 1..5, i # j
        PROVE  P[i] \cap P[j] = {}
    BY <2>1, <2>2 DEF Apart
  <2>3. ASSUME \A i, j \in 1..5 : i # j => P[i] \cap P[j] = {}
        PROVE  Apart(P[1], P[2], P[3], P[4], P[5])
    BY <2>3 DEF Apart
  <2> QED BY <2>2, <2>3
<1> QED BY <1>1, <1>2 DEF P

InEnginePrompts == {engine[e].prompt : e \in DOMAIN engine}

LEMMA RequestsDef ==
  Requests <=>
    /\ Queued /\ InEngine
    /\ \A p \in DOMAIN final : Asked(p)
    /\ Apart(PromptsIn(chan["tokenizer"]), PromptsIn(outbox["tokenizer"]),
             PromptsIn(chan["scheduler"]), InEnginePrompts, DOMAIN final)
BY ApartDef DEF Requests, Place, InEnginePrompts

\* What is in a place was asked.
LEMMA PlacedIsAsked ==
  ASSUME Requests
  PROVE  \A p : \/ p \in PromptsIn(chan["tokenizer"]) \/ p \in PromptsIn(outbox["tokenizer"])
                \/ p \in PromptsIn(chan["scheduler"]) \/ p \in InEnginePrompts \/ p \in DOMAIN final
           => Asked(p)
<1>1. ASSUME NEW s \in {chan["tokenizer"], outbox["tokenizer"], chan["scheduler"]},
             NEW p \in PromptsIn(s)
      PROVE  Asked(p)
  <2>1. PICK m \in ToSet(s) : m.prompt = p
    BY PromptsInSet
  <2> QED BY <2>1 DEF Requests, Queued, RequestOK
<1> QED BY <1>1 DEF Requests, InEngine, InEnginePrompts

LEMMA RequestStays ==
  ASSUME RidsGrow, NEW m, RequestOK(m)
  PROVE  RequestOK(m)'
BY AskedStays DEF RequestOK

\* A channel that loses messages.
LEMMA QueuedLess ==
  ASSUME RidsGrow, NEW s, NEW t, OnceEach(t), ToSet(t) \subseteq ToSet(s),
         \A m \in ToSet(s) : RequestOK(m)
  PROVE  \A m \in ToSet(t) : RequestOK(m)'
BY RequestStays

LEMMA InEngineFrom ==
  ASSUME RidsGrow,
         \A e \in DOMAIN engine' : \E p :
           Asked(p) /\ engine'[e].prompt = p /\ req_id_map'[e] = RidOf(p),
         \A e, f \in DOMAIN engine' : engine'[e].prompt = engine'[f].prompt => e = f
  PROVE  InEngine'
<1>1. ASSUME NEW e \in DOMAIN engine'
      PROVE  Asked(engine[e].prompt)' /\ req_id_map'[e] = RidOf(engine[e].prompt)'
  <2>1. PICK p : Asked(p) /\ engine'[e].prompt = p /\ req_id_map'[e] = RidOf(p)
    OBVIOUS
  <2>2. Asked(p)' /\ RidOf(p)' = RidOf(p)
    BY <2>1, AskedStays
  <2> QED BY <2>1, <2>2 DEF Asked, RidOf
<1> QED BY <1>1 DEF InEngine

LEMMA InEngineStays ==
  ASSUME InEngine, RidsGrow, UNCHANGED <<engine, req_id_map>>
  PROVE  InEngine'
BY InEngineFrom DEF InEngine

LEMMA RequestsPreserved ==
  ASSUME Shape, Requests, Next \/ UNCHANGED vars
  PROVE  Requests'
<1> DEFINE T == chan["tokenizer"]
           O == outbox["tokenizer"]
           C == chan["scheduler"]
           Old == /\ Queued /\ InEngine /\ \A p \in DOMAIN final : Asked(p)
                  /\ Apart(PromptsIn(T), PromptsIn(O), PromptsIn(C), InEnginePrompts, DOMAIN final)
<1>0. Old /\ RidsGrow /\ IsSeq(T) /\ IsSeq(O) /\ IsSeq(C)
  BY RequestsDef, RidsOnlyGrow DEF Shape, ChannelsOK, Channels, Workers
<1>a. \A p \in DOMAIN final : Asked(p)'
  BY <1>0, AskedStays
<1>b. /\ OnceEach(T) /\ OnceEach(O) /\ OnceEach(C)
      /\ \A m \in ToSet(T) : RequestOK(m)'
      /\ \A m \in ToSet(O) : RequestOK(m)'
      /\ \A m \in ToSet(C) : RequestOK(m)'
  BY <1>0, RequestStays DEF Queued
\* The queues before and after a step, and what it leaves alone.
<1>q. ASSUME OnceEach(T'), OnceEach(O'), OnceEach(C'),
             \A m \in ToSet(T') : RequestOK(m)', \A m \in ToSet(O') : RequestOK(m)',
             \A m \in ToSet(C') : RequestOK(m)'
      PROVE  Queued'
  BY <1>q DEF Queued
<1>r. ASSUME Queued', InEngine', \A p \in DOMAIN final' : Asked(p)',
             Apart(PromptsIn(T'), PromptsIn(O'), PromptsIn(C'), InEnginePrompts', DOMAIN final')
      PROVE  Requests'
  <2>1. (Requests <=>
          /\ Queued /\ InEngine
          /\ \A p \in DOMAIN final : Asked(p)
          /\ Apart(PromptsIn(chan["tokenizer"]), PromptsIn(outbox["tokenizer"]),
                   PromptsIn(chan["scheduler"]), InEnginePrompts, DOMAIN final))'
    BY RequestsDef, PTL
  <2> QED BY <1>r, <2>1
<1>1. ASSUME Fresh, UNCHANGED final PROVE Requests'
  <2>1. T' = << >> /\ O' = << >> /\ C' = << >> /\ DOMAIN engine' = {}
    BY <1>1 DEF Fresh, Channels, Workers
  <2>2. /\ PromptsIn(T') = {} /\ PromptsIn(O') = {} /\ PromptsIn(C') = {} /\ InEnginePrompts' = {}
        /\ ToSet(T') = {} /\ ToSet(O') = {} /\ ToSet(C') = {}
        /\ OnceEach(T') /\ OnceEach(O') /\ OnceEach(C')
    BY <2>1 DEF PromptsIn, InEnginePrompts, ToSet, OnceEach
  <2>3. InEngine'
    BY <2>1 DEF InEngine
  <2> HIDE DEF T, O, C
  <2>4. Queued'
    BY <2>2, <1>q
  <2>5. Apart(PromptsIn(T'), PromptsIn(O'), PromptsIn(C'), InEnginePrompts', DOMAIN final')
    BY <2>2 DEF Apart
  <2> QED BY <2>3, <2>4, <2>5, <1>1, <1>a, <1>r
<1>2. ASSUME UNCHANGED <<engine, req_id_map, final>>,
             Queued', Apart(PromptsIn(T'), PromptsIn(O'), PromptsIn(C'), InEnginePrompts, DOMAIN final)
      PROVE  Requests'
  <2>1. InEngine' /\ InEnginePrompts' = InEnginePrompts
    BY <1>0, <1>2, InEngineStays DEF InEnginePrompts
  <2> QED BY <2>1, <1>2, <1>a, <1>r
<1>3. ASSUME UNCHANGED <<engine, req_id_map, final, T, O, C>> PROVE Requests'
  <2>1. Queued'
    BY <1>3, <1>b, <1>q
  <2> HIDE DEF T, O, C
  <2> QED BY <2>1, <1>0, <1>2, <1>3
<1>4. ASSUME NEW k \in Calls, SendRequest(k) PROVE Requests'
  <2> DEFINE n == Len(call[k].rids)
             m == [rid |-> next_rid, prompt |-> <<k, n + 1>>]
  <2>1. /\ T' = Append(T, m) /\ O' = O /\ C' = C /\ UNCHANGED <<engine, req_id_map, final>>
    BY <1>4 DEF SendRequest, NextRequestId, workers, Shape, ChannelsOK, Channels, Workers
  <2>2. /\ n \in Nat /\ n < PromptsOf[k] /\ Len(call'[k].rids) = n + 1
        /\ call'[k].rids[n + 1] = next_rid /\ PromptsOf[k] \in Nat
    BY <1>4, SendRequestEffect, PipelineAssumption
  <2>3. m.prompt \in Prompts /\ m.prompt[1] = k /\ m.prompt[2] = n + 1 /\ m.rid = next_rid
    BY <2>2, PromptIs
  <2>4. ~Asked(m.prompt)
    BY <2>2, <2>3 DEF Asked
  <2>5. /\ m.prompt \notin PromptsIn(T) /\ m.prompt \notin PromptsIn(O) /\ m.prompt \notin PromptsIn(C)
        /\ m.prompt \notin InEnginePrompts /\ m.prompt \notin DOMAIN final
    BY <2>4, PlacedIsAsked
  <2>6. PICK x : x = m
    OBVIOUS
  <2>10. RequestOK(x)'
    BY <2>2, <2>3, <2>6 DEF RequestOK, Asked, RidOf
  <2> HIDE DEF T, O, C, m
  <2>7. /\ OnceEach(T') /\ PromptsIn(T') = PromptsIn(T) \cup {m.prompt}
        /\ ToSet(T') = ToSet(T) \cup {m}
    BY <2>1, <2>5, <1>0, <1>b, AppendOnce, AppendSet
  <2>8. Queued'
    BY <2>1, <2>6, <2>10, <2>7, <1>b, <1>q
  <2>9. Apart(PromptsIn(T'), PromptsIn(O'), PromptsIn(C'), InEnginePrompts, DOMAIN final)
    BY <2>1, <2>5, <2>7, <1>0 DEF Apart
  <2> QED BY <2>1, <2>8, <2>9, <1>2

<1>5. CASE Send("tokenizer")
  <2> DEFINE m == Head(O)
  <2>1. /\ O # << >> /\ T' = T /\ O' = Tail(O) /\ C' = Append(C, m) /\ UNCHANGED <<engine, req_id_map, final>>
    BY <1>5, NextHops DEF Send, workers, Shape, ChannelsOK, Channels, Workers
  <2> HIDE DEF T, O, C
  <2>2. /\ OnceEach(O') /\ PromptsIn(O) = {m.prompt} \cup PromptsIn(O') /\ m.prompt \notin PromptsIn(O')
        /\ ToSet(O) = {m} \cup ToSet(O')
    BY <2>1, <1>0, <1>b, TailOnce, TailSet
  <2>3. m.prompt \notin PromptsIn(C)
    BY <2>2, <1>0 DEF Apart
  <2> HIDE DEF m
  <2>4. /\ OnceEach(C') /\ PromptsIn(C') = PromptsIn(C) \cup {m.prompt} /\ ToSet(C') = ToSet(C) \cup {m}
    BY <2>1, <2>3, <1>0, <1>b, AppendOnce, AppendSet
  <2>5. Queued'
    BY <2>1, <2>2, <2>4, <1>b, <1>q
  <2>6. Apart(PromptsIn(T'), PromptsIn(O'), PromptsIn(C'), InEnginePrompts, DOMAIN final)
    BY <2>1, <2>2, <2>4, <1>0 DEF Apart
  <2> QED BY <2>1, <2>5, <2>6, <1>2
<1>6. CASE Tokenize
  <2> DEFINE m == Head(T)
  <2>1. /\ T # << >> /\ T' = Tail(T) /\ O = << >> /\ O' = <<m>> /\ C' = C /\ UNCHANGED <<engine, req_id_map, final>>
    BY <1>6 DEF Tokenize, Ready, workers, Shape, ChannelsOK, Channels, Workers
  <2> HIDE DEF T, O, C
  <2>2. /\ OnceEach(T') /\ PromptsIn(T) = {m.prompt} \cup PromptsIn(T') /\ m.prompt \notin PromptsIn(T')
        /\ ToSet(T) = {m} \cup ToSet(T')
    BY <2>1, <1>0, <1>b, TailOnce, TailSet
  <2> HIDE DEF m
  <2>3. OnceEach(O') /\ PromptsIn(O') = {m.prompt} /\ ToSet(O') = {m}
    BY <2>1 DEF OnceEach, PromptsIn, ToSet
  <2>4. Queued'
    BY <2>1, <2>2, <2>3, <1>b, <1>q
  <2>5. Apart(PromptsIn(T'), PromptsIn(O'), PromptsIn(C'), InEnginePrompts, DOMAIN final)
    BY <2>1, <2>2, <2>3, <1>0 DEF Apart
  <2> QED BY <2>1, <2>4, <2>5, <1>2
<1>7. CASE AddRequest
  <2> DEFINE m == Head(C)
             e == req_counter
             entry == [prompt |-> m.prompt, ids |-> << >>]
  <2>1. /\ C # << >> /\ T' = T /\ O' = O /\ C' = Tail(C) /\ final' = final
        /\ engine' = Put(engine, e, entry) /\ req_id_map' = Put(req_id_map, e, m.rid)
    BY <1>7 DEF AddRequest, Shape, ChannelsOK, Channels, Workers
  <2>2. e \notin DOMAIN engine /\ DOMAIN req_id_map = DOMAIN engine
    BY DEF Shape, EngineOK
  <2> HIDE DEF T, O, C
  <2>3. /\ OnceEach(C') /\ PromptsIn(C) = {m.prompt} \cup PromptsIn(C') /\ m.prompt \notin PromptsIn(C')
        /\ ToSet(C) = {m} \cup ToSet(C')
    BY <2>1, <1>0, <1>b, TailOnce, TailSet
  <2>4. RequestOK(m)
    BY <2>3, <1>0 DEF Queued, C
  <2> HIDE DEF m, e
  <2>5. /\ DOMAIN engine' = {e} \cup DOMAIN engine /\ engine'[e].prompt = m.prompt
        /\ req_id_map'[e] = m.rid
        /\ \A f \in DOMAIN engine : engine'[f] = engine[f] /\ req_id_map'[f] = req_id_map[f]
    BY <2>1, <2>2 DEF Put
  <2>6. Asked(m.prompt) /\ m.rid = RidOf(m.prompt)
    BY <2>4 DEF RequestOK
  <2>7. InEnginePrompts' = {m.prompt} \cup InEnginePrompts
    BY <2>5 DEF InEnginePrompts
  <2>8. m.prompt \notin InEnginePrompts
    BY <2>3, <1>0 DEF Apart
  <2>9. InEngine'
    <3>1. ASSUME NEW f \in DOMAIN engine'
          PROVE  \E p : Asked(p) /\ engine'[f].prompt = p /\ req_id_map'[f] = RidOf(p)
      BY <2>5, <2>6, <1>0 DEF InEngine
    <3>2. \A f, g \in DOMAIN engine' : engine'[f].prompt = engine'[g].prompt => f = g
      BY <2>5, <2>8, <1>0 DEF InEngine, InEnginePrompts
    <3> QED BY <3>1, <3>2, <1>0, InEngineFrom
  <2>10. Queued'
    BY <2>1, <2>3, <1>b, <1>q
  <2>11. Apart(PromptsIn(T'), PromptsIn(O'), PromptsIn(C'), InEnginePrompts', DOMAIN final')
    BY <2>1, <2>3, <2>7, <1>0 DEF Apart
  <2> QED BY <2>1, <2>9, <2>10, <2>11, <1>a, <1>r
<1>8. CASE EngineStep
  <2>1. PICK S, ids, done, sent : EngineStepped(S, ids, done, sent)
    BY <1>8, EngineStepEffect
  <2>2. T' = T /\ O' = O /\ C' = C
    BY <1>8, <2>1 DEF EngineStep, EngineStepped, Workers
  <2> HIDE DEF T, O, C
  <2>3. /\ done \subseteq DOMAIN engine /\ DOMAIN engine' = DOMAIN engine \ done
        /\ DOMAIN final' = {engine[e].prompt : e \in done} \cup DOMAIN final
        /\ \A e \in DOMAIN engine' : req_id_map'[e] = req_id_map[e]
    BY <2>1 DEF EngineStepped, Shape, EngineOK
  <2>4. ASSUME NEW e \in DOMAIN engine' PROVE engine'[e].prompt = engine[e].prompt
    <3>1. engine[e] \in [prompt : Prompts, ids : Seq(TokenIds)] /\ e \in DOMAIN engine \ done
      BY <2>3 DEF Shape, EngineOK
    <3> QED BY <3>1, <2>1 DEF EngineStepped
  <2>5. InEngine'
    BY <2>3, <2>4, <1>0, InEngineFrom DEF InEngine
  <2>6. \A p \in DOMAIN final' : Asked(p)'
    <3>1. \A e \in done : Asked(engine[e].prompt)
      BY <2>3, <1>0 DEF InEngine
    <3>2. \A p \in DOMAIN final' : Asked(p)
      BY <3>1, <2>3, <1>0
    <3> QED BY <3>2, <1>0, AskedStays
  <2>7. /\ InEnginePrompts' \subseteq InEnginePrompts
        /\ {engine[e].prompt : e \in done} \subseteq InEnginePrompts
        /\ InEnginePrompts' \cap {engine[e].prompt : e \in done} = {}
    BY <2>3, <2>4, <1>0 DEF InEnginePrompts, InEngine
  <2>8. Apart(PromptsIn(T'), PromptsIn(O'), PromptsIn(C'), InEnginePrompts', DOMAIN final')
    BY <2>2, <2>3, <2>7, <1>0 DEF Apart
  <2>9. Queued'
    BY <2>2, <1>b, <1>q
  <2> QED BY <2>5, <2>6, <2>8, <2>9, <1>r
<1>9. ASSUME NEW e \in DOMAIN engine, Retract(e) PROVE Requests'
  <2>1. /\ T' = T /\ O' = O /\ C' = C /\ UNCHANGED <<req_id_map, final>>
        /\ engine' = [engine EXCEPT ![e].ids = << >>]
    BY <1>9 DEF Retract
  <2> HIDE DEF T, O, C
  <2>2. DOMAIN engine' = DOMAIN engine /\ \A f \in DOMAIN engine : engine'[f].prompt = engine[f].prompt
    <3>1. \A f \in DOMAIN engine : engine[f] \in [prompt : Prompts, ids : Seq(TokenIds)]
      BY DEF Shape, EngineOK
    <3> QED BY <2>1, <3>1
  <2>3. InEngine'
    BY <2>1, <2>2, <1>0, InEngineFrom DEF InEngine
  <2>4. InEnginePrompts' = InEnginePrompts
    BY <2>2 DEF InEnginePrompts
  <2>5. Queued'
    BY <2>1, <1>b, <1>q
  <2>6. Apart(PromptsIn(T'), PromptsIn(O'), PromptsIn(C'), InEnginePrompts', DOMAIN final')
    BY <2>1, <2>4, <1>0
  <2> QED BY <2>1, <2>3, <2>5, <2>6, <1>a, <1>r
<1>10. ASSUME NEW w \in Workers, Leave(w), UNCHANGED <<outbox, workers>> PROVE Requests'
  <2>1. CASE w = "tokenizer"
    <3>1. /\ T' = T /\ O' = O /\ UNCHANGED <<engine, req_id_map, final>>
          /\ \E n \in 0..Len(C) : C' = SubSeq(C, 1, n)
      BY <1>10, <2>1, LeaveEffect, NextHops DEF workers, Channels, Workers
    <3> HIDE DEF T, O, C
    <3>2. OnceEach(C') /\ PromptsIn(C') \subseteq PromptsIn(C) /\ ToSet(C') \subseteq ToSet(C)
      BY <3>1, <1>0, <1>b, PrefixOnce, PrefixSet
    <3>3. Queued'
      BY <3>1, <3>2, <1>b, <1>q
    <3>4. Apart(PromptsIn(T'), PromptsIn(O'), PromptsIn(C'), InEnginePrompts, DOMAIN final)
      BY <3>1, <3>2, <1>0 DEF Apart
    <3> QED BY <3>1, <3>3, <3>4, <1>2
  <2>2. CASE w # "tokenizer"
    <3>1. T' = T /\ O' = O /\ C' = C /\ UNCHANGED <<engine, req_id_map, final>>
      BY <1>10, <2>2, LeaveEffect, NextHops DEF workers, Channels, Workers
    <3> QED BY <3>1, <1>3
  <2> QED BY <2>1, <2>2
<1>11. ASSUME NEW w \in Workers, w # "tokenizer", Send(w) PROVE Requests'
  <2>1. T' = T /\ O' = O /\ C' = C /\ UNCHANGED <<engine, req_id_map, final>>
    BY <1>11, NextHops DEF Send, workers, Shape, ChannelsOK, Channels, Workers
  <2> QED BY <2>1, <1>3
<1>12. ASSUME NEW k \in Calls, Enter(k) \/ ResumeStopped(k) \/ RecvTimeout(k) PROVE Requests'
  BY <1>12, <1>3 DEF Enter, ResumeStopped, RecvTimeout, workers
<1>13. ASSUME NEW k \in Calls, RecvResponse(k) PROVE Requests'
  <2>1. T' = T /\ O' = O /\ C' = C /\ UNCHANGED <<engine, req_id_map, final>>
    BY <1>13 DEF RecvResponse, workers, Shape, ChannelsOK, Channels, Workers
  <2> QED BY <2>1, <1>3
<1>14. CASE Detokenize
  <2>1. T' = T /\ O' = O /\ C' = C /\ UNCHANGED <<engine, req_id_map, final>>
    BY <1>14 DEF Detokenize, Shape, ChannelsOK, Channels, Workers
  <2> QED BY <2>1, <1>3
<1>15. ASSUME Start \/ Stop PROVE Requests'
  BY <1>15, <1>1 DEF Start, Stop
<1>16. ASSUME NEW w \in Workers, Fail(w) PROVE Requests'
  BY <1>16, <1>10 DEF Fail
<1>17. CASE Shutdown
  BY <1>17, <1>10 DEF Shutdown, Workers
<1>18. CASE UNCHANGED vars
  BY <1>18, <1>3 DEF vars, workers
<1> QED BY <1>4, <1>5, <1>6, <1>7, <1>8, <1>9, <1>11, <1>12, <1>13, <1>14, <1>15, <1>16, <1>17, <1>18
        DEF Next, ClientStep, TokenizerStep, SchedulerStep, DetokenizerStep, Workers

---------------------------------------------------------------------------
\* The ids of pending_requests.

LEMMA PendingPreserved ==
  ASSUME Shape, Requests, PendingOK, Next \/ UNCHANGED vars
  PROVE  PendingOK'
<1>0. /\ next_rid \in Nat
      /\ DOMAIN chan = Channels /\ DOMAIN outbox = Workers
      /\ IsSeq(chan["tokenizer"]) /\ IsSeq(outbox["tokenizer"]) /\ IsSeq(chan["scheduler"])
      /\ "tokenizer" \in Workers /\ "tokenizer" \in Channels /\ "scheduler" \in Channels
  BY DEF Shape, ClientOK, ChannelsOK, Channels, Workers
<1>a. pending_requests \subseteq 0..(next_rid - 1)
  <2>1. PendingOK
    OBVIOUS
  <2> QED BY ONLY <2>1 DEF PendingOK
<1>1. ASSUME next_rid' \in {next_rid, next_rid + 1}, UNCHANGED pending_requests,
             Passed' \subseteq Passed, Range(req_id_map') \subseteq pending_requests
      PROVE  PendingOK'
  <2>1. pending_requests \subseteq 0..(next_rid' - 1)
    <3>1. \A n, m \in Nat : m \in {n, n + 1} => 0..(n - 1) \subseteq 0..(m - 1)
      OBVIOUS
    <3>2. next_rid \in Nat /\ next_rid' \in Nat
      BY ONLY <1>0, <1>1
    <3>3. 0..(next_rid - 1) \subseteq 0..(next_rid' - 1)
      BY ONLY <1>1, <3>1, <3>2, Zenon
    <3> QED BY ONLY <3>3, <1>a
  <2> QED BY <2>1, <1>1 DEF PendingOK
<1>2. ASSUME UNCHANGED <<next_rid, pending_requests, req_id_map>>, Passed' \subseteq Passed
      PROVE  PendingOK'
  BY <1>1, <1>2 DEF PendingOK
<1>3. ASSUME Fresh, UNCHANGED next_rid PROVE PendingOK'
  <2>1. /\ pending_requests' = {} /\ req_id_map' = << >>
        /\ outbox'["tokenizer"] = << >> /\ chan'["scheduler"] = << >>
    BY <1>0, <1>3 DEF Fresh
  <2>2. Passed' = {} /\ Range(req_id_map') = {}
    BY <2>1, EmptyIsSeq DEF Passed, Range
  <2> QED BY <2>1, <2>2 DEF PendingOK
<1>4. ASSUME NEW k \in Calls, SendRequest(k) PROVE PendingOK'
  <2>1. /\ next_rid' = next_rid + 1 /\ UNCHANGED <<pending_requests, req_id_map>>
        /\ outbox' = outbox /\ chan'["scheduler"] = chan["scheduler"]
    BY <1>0, <1>4 DEF SendRequest, workers
  <2> QED BY <2>1, <1>1 DEF Passed, PendingOK
<1>5. CASE Send("tokenizer")
  <2>1. /\ outbox["tokenizer"] # << >> /\ outbox'["tokenizer"] = Tail(outbox["tokenizer"])
        /\ chan'["scheduler"] = Append(chan["scheduler"], Head(outbox["tokenizer"]))
        /\ UNCHANGED <<next_rid, pending_requests, req_id_map>>
    BY <1>0, <1>5, NextHops DEF Send, client, workers
  <2>2. Passed' = Passed
    BY <1>0, <2>1, TailSet, AppendSet DEF Passed
  <2> QED BY <2>1, <2>2, <1>2
<1>6. CASE Tokenize
  <2> DEFINE m == Head(chan["tokenizer"])
  <2>1. /\ chan["tokenizer"] # << >> /\ outbox'["tokenizer"] = <<m>>
        /\ chan'["scheduler"] = chan["scheduler"]
        /\ pending_requests' = pending_requests \cup {m.rid}
        /\ UNCHANGED <<next_rid, req_id_map>>
    BY <1>0, <1>6 DEF Tokenize, client
  <2>2. RequestOK(m)
    BY <1>0, <2>1, TailSet DEF Requests, Queued
  <2> HIDE DEF m
  <2>3. m.rid \in 0..(next_rid - 1)
    BY <1>0, <2>2, RidIs DEF RequestOK
  <2>4. Passed' \subseteq Passed \cup {m}
    BY <2>1 DEF Passed, ToSet
  <2> QED BY <2>1, <2>3, <2>4 DEF PendingOK
<1>7. CASE AddRequest
  <2> DEFINE m == Head(chan["scheduler"])
  <2>1. /\ chan["scheduler"] # << >> /\ outbox' = outbox
        /\ chan'["scheduler"] = Tail(chan["scheduler"])
        /\ req_id_map' = Put(req_id_map, req_counter, m.rid)
        /\ UNCHANGED <<next_rid, pending_requests>>
    BY <1>0, <1>7 DEF AddRequest, client
  <2>2. m \in Passed /\ Passed' \subseteq Passed
    BY <1>0, <2>1, TailSet DEF Passed
  <2> HIDE DEF m
  <2>3. Range(req_id_map') \subseteq Range(req_id_map) \cup {m.rid}
    BY <2>1 DEF Put, Range
  <2> QED BY <2>1, <2>2, <2>3, <1>1 DEF PendingOK
<1>8. CASE EngineStep
  <2>1. PICK S, ids, done, sent : EngineStepped(S, ids, done, sent)
    BY <1>8, EngineStepEffect
  <2>2. /\ outbox'["tokenizer"] = outbox["tokenizer"] /\ chan' = chan
        /\ UNCHANGED <<next_rid, pending_requests>>
    BY <1>0, <1>8, <2>1 DEF EngineStep, EngineStepped, client
  <2>3. Range(req_id_map') \subseteq Range(req_id_map)
    BY <2>1 DEF EngineStepped, Range
  <2> QED BY <2>2, <2>3, <1>1 DEF Passed, PendingOK
<1>9. ASSUME NEW w \in Workers, Leave(w), UNCHANGED <<client, outbox, workers>> PROVE PendingOK'
  <2>1. ToSet(chan'["scheduler"]) \subseteq ToSet(chan["scheduler"])
    BY <1>0, <1>9, LeaveEffect, NextHops DEF Workers
  <2> QED BY <2>1, <1>9, <1>2 DEF Passed, client, workers
<1>10. ASSUME NEW w \in Workers, w # "tokenizer", Send(w) PROVE PendingOK'
  <2>1. /\ outbox'["tokenizer"] = outbox["tokenizer"] /\ chan'["scheduler"] = chan["scheduler"]
        /\ UNCHANGED <<next_rid, pending_requests, req_id_map>>
    BY <1>0, <1>10, NextHops DEF Send, client, workers, Workers
  <2> QED BY <2>1, <1>2 DEF Passed
<1>11. ASSUME NEW k \in Calls, RecvResponse(k) PROVE PendingOK'
  <2>1. /\ outbox' = outbox /\ chan'["scheduler"] = chan["scheduler"]
        /\ UNCHANGED <<next_rid, pending_requests, req_id_map>>
    BY <1>0, <1>11 DEF RecvResponse, workers
  <2> QED BY <2>1, <1>2 DEF Passed
<1>12. CASE Detokenize
  <2>1. /\ outbox'["tokenizer"] = outbox["tokenizer"] /\ chan'["scheduler"] = chan["scheduler"]
        /\ UNCHANGED <<next_rid, pending_requests, req_id_map>>
    BY <1>0, <1>12 DEF Detokenize, client
  <2> QED BY <2>1, <1>2 DEF Passed
<1>13. ASSUME NEW k \in Calls, Enter(k) \/ ResumeStopped(k) \/ RecvTimeout(k) PROVE PendingOK'
  BY <1>13, <1>2 DEF Enter, ResumeStopped, RecvTimeout, workers, Passed
<1>14. ASSUME NEW e \in DOMAIN engine, Retract(e) PROVE PendingOK'
  BY <1>14, <1>2 DEF Retract, client, Passed
<1>15. ASSUME Start \/ Stop PROVE PendingOK'
  BY <1>15, <1>3 DEF Start, Stop
<1>16. ASSUME NEW w \in Workers, Fail(w) PROVE PendingOK'
  BY <1>16, <1>9 DEF Fail
<1>17. CASE Shutdown
  BY <1>17, <1>9 DEF Shutdown, Workers
<1>18. CASE UNCHANGED vars
  BY <1>18, <1>2 DEF vars, client, workers, Passed
<1> QED BY <1>4, <1>5, <1>6, <1>7, <1>8, <1>10, <1>11, <1>12, <1>13, <1>14, <1>15, <1>16, <1>17, <1>18
        DEF Next, ClientStep, TokenizerStep, SchedulerStep, DetokenizerStep, Workers

---------------------------------------------------------------------------
\* What comes back is about a prompt.

\* An output, once there, does not change.
FinalStays == \A p \in DOMAIN final : p \in DOMAIN final' /\ final'[p] = final[p]

\* What a step of the engine makes of the requests that are over.
LEMMA FinishedOutput ==
  ASSUME Shape, Requests, NEW S, NEW ids, NEW done, NEW sent, EngineStepped(S, ids, done, sent)
  PROVE  /\ FinalStays
         /\ \A e \in done : engine[e].prompt \in DOMAIN final' /\ final'[engine[e].prompt] = ids[e]
<1> DEFINE over == {engine[e].prompt : e \in done}
<1>1. /\ done \subseteq DOMAIN engine /\ DOMAIN final' = over \cup DOMAIN final
      /\ \A p \in DOMAIN final' :
           final'[p] = IF p \in over THEN ids[CHOOSE e \in done : engine[e].prompt = p] ELSE final[p]
  BY DEF EngineStepped
<1>2. over \cap DOMAIN final = {}
  BY <1>1, RequestsDef DEF InEnginePrompts, Apart
<1>3. FinalStays
  BY <1>1, <1>2 DEF FinalStays
<1>4. ASSUME NEW e \in done
      PROVE  engine[e].prompt \in DOMAIN final' /\ final'[engine[e].prompt] = ids[e]
  <2> DEFINE p == engine[e].prompt
             f == CHOOSE g \in done : engine[g].prompt = p
  <2>1. p \in over /\ p \in DOMAIN final' /\ final'[p] = ids[f]
    BY <1>1
  <2>2. f \in done /\ engine[f].prompt = p
    OBVIOUS
  <2>3. f = e
    BY <1>1, <2>2 DEF Requests, InEngine
  <2> QED BY <2>1, <2>3
<1> QED BY <1>3, <1>4

LEMMA FinalOnlyGrows ==
  ASSUME Shape, Requests, Next \/ UNCHANGED vars
  PROVE  FinalStays
<1>1. ASSUME final' = final PROVE FinalStays
  BY <1>1 DEF FinalStays
<1>2. CASE EngineStep
  BY <1>2, EngineStepEffect, FinishedOutput
<1>3. ASSUME NEW k \in Calls,
             \/ Enter(k) \/ ResumeStopped(k) \/ SendRequest(k) \/ RecvResponse(k) \/ RecvTimeout(k)
      PROVE  final' = final
  BY <1>3 DEF Enter, ResumeStopped, SendRequest, RecvResponse, RecvTimeout, workers
<1>4. ASSUME NEW w \in Workers, Send(w) \/ Fail(w) PROVE final' = final
  BY <1>4 DEF Send, Fail, workers
<1>5. ASSUME \/ Start \/ Stop \/ Tokenize \/ AddRequest \/ Detokenize \/ Shutdown \/ UNCHANGED vars
             \/ \E e \in DOMAIN engine : Retract(e)
      PROVE  final' = final
  BY <1>5 DEF Start, Stop, Tokenize, AddRequest, Detokenize, Shutdown, Retract, workers, vars
<1> QED BY <1>1, <1>2, <1>3, <1>4, <1>5
        DEF Next, ClientStep, TokenizerStep, SchedulerStep, DetokenizerStep, Workers

LEMMA AnswerStays ==
  ASSUME RidsGrow, FinalStays, NEW m, AnswerOK(m)
  PROVE  AnswerOK(m)'
<1>1. PICK p \in Prompts : /\ Asked(p) /\ m.rid = RidOf(p)
                           /\ m.finished => p \in DOMAIN final /\ m.output_token_ids = final[p]
  BY DEF AnswerOK
<1>2. Asked(p)' /\ RidOf(p)' = RidOf(p)
  BY <1>1, AskedStays
<1> QED BY <1>1, <1>2 DEF AnswerOK, FinalStays

\* SHUTDOWN is no answer.
LEMMA ShutdownIsNone ==
  ASSUME Shape
  PROVE  ~AnswerOK(SHUTDOWN)
<1>1. SHUTDOWN.rid = -1
  BY DEF SHUTDOWN
<1>2. \A p : Asked(p) => RidOf(p) \in Nat
  BY RidIs
<1> QED BY <1>1, <1>2 DEF AnswerOK

\* The chunks a step of the engine sends.
LEMMA ChunksSent ==
  ASSUME Shape, Requests, RidsGrow, NEW S, NEW ids, NEW done, NEW sent, EngineStepped(S, ids, done, sent)
  PROVE  \A m \in ToSet(outbox'["scheduler"]) : AnswerOK(m)'
<1> SUFFICES ASSUME NEW m \in ToSet(outbox'["scheduler"]) PROVE AnswerOK(m)'
  OBVIOUS
<1>1. PICK i \in 1..Len(sent) :
        /\ sent[i] \in S
        /\ m = [rid |-> req_id_map[sent[i]], output_token_ids |-> ids[sent[i]],
                finished |-> sent[i] \in done]
  <2>1. PICK i \in DOMAIN outbox'["scheduler"] : m = outbox'["scheduler"][i]
    BY DEF ToSet
  <2> QED BY <2>1 DEF EngineStepped
<1> DEFINE e == sent[i]
<1>2. e \in DOMAIN engine
  BY <1>1 DEF EngineStepped
<1>3. PICK p : p = engine[e].prompt
  OBVIOUS
<1>4. Asked(p) /\ m.rid = RidOf(p)
  BY <1>1, <1>2, <1>3 DEF Requests, InEngine
<1>5. m.finished => p \in DOMAIN final' /\ m.output_token_ids = final'[p]
  <2>1. m.finished => sent[i] \in done
    BY <1>1
  <2>2. m.output_token_ids = ids[sent[i]]
    BY <1>1
  <2> QED BY <2>1, <2>2, <1>3, FinishedOutput
<1>6. Asked(p)' /\ RidOf(p)' = RidOf(p)
  BY <1>4, AskedStays
<1>7. p \in Prompts
  BY <1>4 DEF Asked
<1> QED BY <1>4, <1>5, <1>6, <1>7 DEF AnswerOK

LEMMA DownstreamPreserved ==
  ASSUME Shape, Requests, Downstream, Next \/ UNCHANGED vars
  PROVE  Downstream'
<1> DEFINE A == ToSet(outbox["scheduler"])
           B == ToSet(chan["detokenizer"])
           C == ToSet(outbox["detokenizer"])
           D == ToSet(chan["client"])
<1>0. /\ RidsGrow /\ FinalStays
      /\ DOMAIN chan = Channels /\ DOMAIN outbox = Workers
      /\ IsSeq(outbox["scheduler"]) /\ IsSeq(chan["detokenizer"])
      /\ IsSeq(outbox["detokenizer"]) /\ IsSeq(chan["client"])
      /\ {"scheduler", "detokenizer"} \subseteq Workers
      /\ {"tokenizer", "scheduler", "detokenizer", "client"} \subseteq Channels
  BY RidsOnlyGrow, FinalOnlyGrows DEF Shape, ChannelsOK, Channels, Workers
<1>a. /\ \A m \in A \cup C \cup D : AnswerOK(m) /\ AnswerOK(m)'
      /\ \A m \in B : m = SHUTDOWN \/ (AnswerOK(m) /\ AnswerOK(m)')
  BY <1>0, AnswerStays DEF Downstream
<1>b. ASSUME \A m \in A' \cup C' \cup D' : AnswerOK(m)', \A m \in B' : m = SHUTDOWN \/ AnswerOK(m)'
      PROVE  Downstream'
  BY <1>b DEF Downstream
<1>1. ASSUME Fresh PROVE Downstream'
  <2>1. A' = {} /\ B' = {} /\ C' = {} /\ D' = {}
    BY <1>0, <1>1, EmptyIsSeq DEF Fresh
  <2> HIDE DEF A, B, C, D
  <2> QED BY <2>1, <1>b
<1>2. ASSUME A' \subseteq A, B' \subseteq B, C' \subseteq C, D' \subseteq D PROVE Downstream'
  <2> HIDE DEF A, B, C, D
  <2> QED BY <1>2, <1>a, <1>b
<1>3. CASE Send("scheduler")
  <2> DEFINE m == Head(outbox["scheduler"])
  <2>1. /\ outbox["scheduler"] # << >> /\ chan'["detokenizer"] = Append(chan["detokenizer"], m)
        /\ outbox'["scheduler"] = Tail(outbox["scheduler"])
        /\ outbox'["detokenizer"] = outbox["detokenizer"] /\ chan'["client"] = chan["client"]
    BY <1>0, <1>3, NextHops DEF Send
  <2>2. A = {m} \cup A' /\ B' = B \cup {m} /\ C' = C /\ D' = D
    BY <1>0, <2>1, TailSet, AppendSet
  <2> HIDE DEF A, B, C, D, m
  <2> QED BY <2>2, <1>a, <1>b
<1>4. CASE Send("detokenizer")
  <2> DEFINE m == Head(outbox["detokenizer"])
  <2>1. /\ outbox["detokenizer"] # << >> /\ chan'["client"] = Append(chan["client"], m)
        /\ outbox'["detokenizer"] = Tail(outbox["detokenizer"])
        /\ outbox'["scheduler"] = outbox["scheduler"] /\ chan'["detokenizer"] = chan["detokenizer"]
    BY <1>0, <1>4, NextHops DEF Send
  <2>2. C = {m} \cup C' /\ D' = D \cup {m} /\ A' = A /\ B' = B
    BY <1>0, <2>1, TailSet, AppendSet
  <2> HIDE DEF A, B, C, D, m
  <2> QED BY <2>2, <1>a, <1>b
<1>5. CASE Send("tokenizer")
  <2>1. A' = A /\ B' = B /\ C' = C /\ D' = D
    BY <1>0, <1>5, NextHops DEF Send
  <2> HIDE DEF A, B, C, D
  <2> QED BY <2>1, <1>2
<1>6. CASE EngineStep
  <2>1. PICK S, ids, done, sent : EngineStepped(S, ids, done, sent)
    BY <1>6, EngineStepEffect
  <2>2. B' = B /\ C' = C /\ D' = D
    BY <1>0, <1>6, <2>1 DEF EngineStep, EngineStepped
  <2>3. \A m \in A' : AnswerOK(m)'
    BY <1>0, <2>1, ChunksSent
  <2> HIDE DEF A, B, C, D
  <2> QED BY <2>2, <2>3, <1>a, <1>b
<1>7. CASE Detokenize
  <2> DEFINE chunk == Head(chan["detokenizer"])
             answer == [rid |-> chunk.rid, finished |-> chunk.finished,
                        delta_text |-> DeltaText(chunk.rid, Text(chunk.output_token_ids)),
                        output_token_ids |-> chunk.output_token_ids]
  <2>1. /\ chan["detokenizer"] # << >> /\ chunk # SHUTDOWN
        /\ chan' = [chan EXCEPT !["detokenizer"] = Tail(@)]
        /\ outbox' = [outbox EXCEPT !["detokenizer"] = <<answer>>]
    BY <1>7 DEF Detokenize
  <2>2. PICK m : /\ outbox' = [outbox EXCEPT !["detokenizer"] = <<m>>]
                 /\ m.rid = chunk.rid /\ m.finished = chunk.finished
                 /\ m.output_token_ids = chunk.output_token_ids
    <3>1. /\ answer.rid = chunk.rid /\ answer.finished = chunk.finished
          /\ answer.output_token_ids = chunk.output_token_ids
      OBVIOUS
    <3> HIDE DEF answer, chunk
    <3> QED BY <2>1, <3>1
  <2>3. B = {chunk} \cup B' /\ A' = A /\ D' = D
    BY <1>0, <2>1, <2>2, TailSet
  <2>4. C' = {m}
    BY <1>0, <2>2 DEF ToSet
  <2> HIDE DEF A, B, C, D
  <2>5. PICK x : x = chunk
    OBVIOUS
  <2>6. AnswerOK(x)'
    BY <2>1, <2>3, <2>5, <1>a
  <2>7. AnswerOK(m)'
    BY <2>2, <2>5, <2>6 DEF AnswerOK
  <2> QED BY <2>3, <2>4, <2>7, <1>a, <1>b
<1>8. ASSUME NEW w \in Workers, Leave(w), outbox' = outbox PROVE Downstream'
  <2>1. A' = A /\ C' = C
    BY <1>8
  <2>2. CASE w = "scheduler"
    <3>1. B' \subseteq B \cup {SHUTDOWN} /\ D' = D
      BY <1>0, <1>8, <2>2, LeaveEffect, NextHops
    <3> HIDE DEF A, B, C, D
    <3> QED BY <2>1, <3>1, <1>a, <1>b
  <2>3. CASE w = "detokenizer"
    <3>1. D' \subseteq D /\ B' = B
      BY <1>0, <1>8, <2>3, LeaveEffect, NextHops
    <3> HIDE DEF A, B, C, D
    <3> QED BY <2>1, <3>1, <1>2
  <2>4. CASE w = "tokenizer"
    <3>1. B' = B /\ D' = D
      BY <1>0, <1>8, <2>4, LeaveEffect, NextHops
    <3> HIDE DEF A, B, C, D
    <3> QED BY <2>1, <3>1, <1>2
  <2> QED BY <2>2, <2>3, <2>4 DEF Workers
<1>9. ASSUME NEW k \in Calls, RecvResponse(k) PROVE Downstream'
  <2>1. chan["client"] # << >> /\ chan' = [chan EXCEPT !["client"] = Tail(@)] /\ outbox' = outbox
    BY <1>9 DEF RecvResponse
  <2>2. A' = A /\ B' = B /\ C' = C /\ D' \subseteq D
    BY <1>0, <2>1, TailSet
  <2> HIDE DEF A, B, C, D
  <2> QED BY <2>2, <1>2
<1>10. ASSUME NEW k \in Calls, SendRequest(k) PROVE Downstream'
  <2>1. A' = A /\ B' = B /\ C' = C /\ D' = D
    BY <1>0, <1>10 DEF SendRequest
  <2> HIDE DEF A, B, C, D
  <2> QED BY <2>1, <1>2
<1>11. ASSUME Tokenize \/ AddRequest PROVE Downstream'
  <2>1. A' = A /\ B' = B /\ C' = C /\ D' = D
    BY <1>0, <1>11 DEF Tokenize, AddRequest
  <2> HIDE DEF A, B, C, D
  <2> QED BY <2>1, <1>2
<1>12. ASSUME UNCHANGED <<chan, outbox>> PROVE Downstream'
  <2>1. A' = A /\ B' = B /\ C' = C /\ D' = D
    BY <1>12
  <2> HIDE DEF A, B, C, D
  <2> QED BY <2>1, <1>2
<1>13. ASSUME NEW k \in Calls, Enter(k) \/ ResumeStopped(k) \/ RecvTimeout(k) PROVE Downstream'
  BY <1>13, <1>12 DEF Enter, ResumeStopped, RecvTimeout
<1>14. ASSUME (\E e \in DOMAIN engine : Retract(e)) \/ UNCHANGED vars PROVE Downstream'
  BY <1>14, <1>12 DEF Retract, vars
<1>15. ASSUME Start \/ Stop PROVE Downstream'
  BY <1>15, <1>1 DEF Start, Stop
<1>16. ASSUME NEW w \in Workers, Fail(w) PROVE Downstream'
  BY <1>16, <1>8 DEF Fail
<1>17. CASE Shutdown
  BY <1>17, <1>8 DEF Shutdown, Workers
<1> QED BY <1>3, <1>4, <1>5, <1>6, <1>7, <1>9, <1>10, <1>11, <1>13, <1>14, <1>15, <1>16, <1>17
        DEF Next, ClientStep, TokenizerStep, SchedulerStep, DetokenizerStep, Workers

---------------------------------------------------------------------------
\* The answers the client holds.

LEMMA AnsweredPreserved ==
  ASSUME Shape, Requests, Downstream, Answered, Next \/ UNCHANGED vars
  PROVE  Answered'
<1>0. /\ RidsGrow /\ FinalStays /\ DOMAIN call = Calls
      /\ \A k \in Calls : Len(call[k].rids) \in Nat /\ DOMAIN call[k] = Fields
  BY RidsOnlyGrow, FinalOnlyGrows DEF Shape, ClientOK, CallOK
<1>a. ASSUME \A p \in Prompts : Asked(p)' /\ RidOf(p)' \notin call'[p[1]].pending =>
               /\ Asked(p) /\ RidOf(p) \notin call[p[1]].pending
               /\ call'[p[1]].tokens[RidOf(p)] = call[p[1]].tokens[RidOf(p)]
      PROVE  Answered'
  <2> SUFFICES ASSUME NEW p \in Prompts, Asked(p)', RidOf(p)' \notin call'[p[1]].pending
               PROVE  p \in DOMAIN final' /\ call'[p[1]].tokens[RidOf(p)'] = final'[p]
    BY DEF Answered
  <2>1. /\ Asked(p) /\ RidOf(p) \notin call[p[1]].pending
        /\ call'[p[1]].tokens[RidOf(p)] = call[p[1]].tokens[RidOf(p)]
    BY <1>a
  <2>2. p \in DOMAIN final /\ call[p[1]].tokens[RidOf(p)] = final[p]
    BY <2>1 DEF Answered
  <2>3. RidOf(p)' = RidOf(p)
    BY <2>1, <1>0, AskedStays
  <2> QED BY <2>1, <2>2, <2>3, <1>0 DEF FinalStays
<1>b. ASSUME \A k \in Calls : /\ call'[k].rids = call[k].rids /\ call'[k].pending = call[k].pending
                              /\ call'[k].tokens = call[k].tokens
      PROVE  Answered'
  <2>1. ASSUME NEW p \in Prompts, Asked(p)', RidOf(p)' \notin call'[p[1]].pending
        PROVE  /\ Asked(p) /\ RidOf(p) \notin call[p[1]].pending
               /\ call'[p[1]].tokens[RidOf(p)] = call[p[1]].tokens[RidOf(p)]
    BY <2>1, <1>b, PromptIs DEF Asked, RidOf
  <2> QED BY <2>1, <1>a
<1>1. ASSUME NEW k \in Calls, SendRequest(k) PROVE Answered'
  <2> DEFINE n == Len(call[k].rids)
  <2>1. /\ \A q \in Calls : q # k => call'[q] = call[q]
        /\ n \in Nat /\ Len(call'[k].rids) = n + 1
        /\ call'[k].rids[n + 1] = next_rid
        /\ call'[k].pending = call[k].pending \cup {next_rid}
        /\ call'[k].tokens = Put(call[k].tokens, next_rid, << >>)
    BY <1>1, SendRequestEffect
  <2>2. ASSUME NEW p \in Prompts, Asked(p)', RidOf(p)' \notin call'[p[1]].pending
        PROVE  /\ Asked(p) /\ RidOf(p) \notin call[p[1]].pending
               /\ call'[p[1]].tokens[RidOf(p)] = call[p[1]].tokens[RidOf(p)]
    <3>1. p[1] \in Calls /\ p[2] \in Nat \ {0}
      BY PromptIs, PipelineAssumption
    <3>2. CASE p[1] # k
      BY <3>1, <3>2, <2>1, <2>2 DEF Asked, RidOf
    <3>3. CASE p[1] = k
      <4>1. p[2] <= n + 1 /\ p[2] # n + 1
        BY <3>3, <2>1, <2>2 DEF Asked, RidOf
      <4>2. Asked(p)
        BY <3>1, <3>3, <4>1, <2>1 DEF Asked
      <4>3. RidOf(p)' = RidOf(p) /\ RidOf(p) # next_rid /\ RidOf(p) \in ToSet(call[k].rids)
        <5>1. RidOf(p) \in Nat /\ RidOf(p) < next_rid /\ next_rid \in Nat
          BY <4>2, RidIs DEF Shape, ClientOK
        <5> QED BY <3>3, <4>2, <5>1, <1>0, AskedStays, RidIs
      <4>4. RidOf(p) \in DOMAIN call[k].tokens
        BY <4>3 DEF Shape, ClientOK, CallOK
      <4>5. Put(call[k].tokens, next_rid, << >>)[RidOf(p)] = call[k].tokens[RidOf(p)]
        BY <4>3, <4>4 DEF Put
      <4> QED BY <3>3, <4>2, <4>3, <4>5, <2>1, <2>2
    <3> QED BY <3>2, <3>3
  <2> QED BY <2>2, <1>a
<1>2. ASSUME NEW k \in Calls, RecvResponse(k) PROVE Answered'
  <2> DEFINE gr == Head(chan["client"])
  <2>1. CASE UNCHANGED <<call, active>>
    BY <2>1, <1>b
  <2>2. CASE Taken(k, gr)
    <3>1. gr \in ToSet(chan["client"])
      <4>1. IsSeq(chan["client"]) /\ chan["client"] # << >>
        BY <1>2, RecvFromClient DEF Shape, ChannelsOK, Channels
      <4> QED BY <4>1, TailSet
    <3> HIDE DEF gr
    <3>2. /\ \A q \in Calls : q # k => call'[q] = call[q]
          /\ gr.rid \in call[k].pending
          /\ call'[k].rids = call[k].rids
          /\ call'[k].pending = IF gr.finished THEN call[k].pending \ {gr.rid} ELSE call[k].pending
          /\ \A r \in DOMAIN call[k].tokens :
               call'[k].tokens[r] = IF r = gr.rid THEN gr.output_token_ids ELSE call[k].tokens[r]
      BY <2>2 DEF Taken
    <3>3. PICK o \in Prompts : /\ Asked(o) /\ gr.rid = RidOf(o)
                               /\ gr.finished => o \in DOMAIN final /\ gr.output_token_ids = final[o]
      BY <3>1 DEF Downstream, AnswerOK
    <3> SUFFICES ASSUME NEW p \in Prompts, Asked(p)', RidOf(p)' \notin call'[p[1]].pending
                 PROVE  p \in DOMAIN final' /\ call'[p[1]].tokens[RidOf(p)'] = final'[p]
      BY DEF Answered
    <3>4. p[1] \in Calls /\ Asked(p) /\ RidOf(p)' = RidOf(p)
      BY <3>2, PromptIs DEF Asked, RidOf
    <3>5. RidOf(p) \in DOMAIN call[p[1]].tokens
      BY <3>4, RidIs DEF Shape, ClientOK, CallOK
    <3>6. CASE p[1] = k /\ RidOf(p) = gr.rid
      <4>1. gr.finished
        BY <3>2, <3>4, <3>6
      <4>2. p = o
        BY <3>3, <3>4, <3>6, RidsApart
      <4> QED BY <3>2, <3>3, <3>4, <3>5, <3>6, <4>1, <4>2, <1>0 DEF FinalStays
    <3>7. CASE p[1] # k \/ RidOf(p) # gr.rid
      <4>1. RidOf(p) \notin call[p[1]].pending /\ call'[p[1]].tokens[RidOf(p)] = call[p[1]].tokens[RidOf(p)]
        BY <3>2, <3>4, <3>5, <3>7
      <4>2. p \in DOMAIN final /\ call[p[1]].tokens[RidOf(p)] = final[p]
        BY <3>4, <4>1 DEF Answered
      <4> QED BY <3>4, <4>1, <4>2, <1>0 DEF FinalStays
    <3> QED BY <3>6, <3>7
  <2> QED BY <2>1, <2>2, <1>2, RecvResponseEffect
<1>3. CASE Stop
  <2>1. \A q \in Calls : /\ call'[q].rids = call[q].rids /\ call'[q].pending = call[q].pending
                         /\ call'[q].tokens = call[q].tokens
    BY <1>3, <1>0 DEF Stop, Fields
  <2> QED BY <2>1, <1>b
<1>4. ASSUME NEW k \in Calls, Enter(k) \/ ResumeStopped(k) \/ RecvTimeout(k) PROVE Answered'
  <2>1. \A q \in Calls : /\ call'[q].rids = call[q].rids /\ call'[q].pending = call[q].pending
                         /\ call'[q].tokens = call[q].tokens
    BY <1>4, <1>0 DEF Enter, ResumeStopped, RecvTimeout, Fields
  <2> QED BY <2>1, <1>b
<1>5. ASSUME NEW w \in Workers, Send(w) \/ Fail(w) PROVE call' = call
  BY <1>5 DEF Send, Fail, client
<1>6. ASSUME \/ Start \/ Tokenize \/ AddRequest \/ EngineStep \/ Detokenize \/ Shutdown \/ UNCHANGED vars
             \/ \E e \in DOMAIN engine : Retract(e)
      PROVE  call' = call
  BY <1>6 DEF Start, Tokenize, AddRequest, EngineStep, Detokenize, Shutdown, Retract, client, vars
<1> QED BY <1>1, <1>2, <1>3, <1>4, <1>5, <1>6, <1>b
        DEF Next, ClientStep, TokenizerStep, SchedulerStep, DetokenizerStep, Workers

---------------------------------------------------------------------------
\* What a call waits for is on its way.

\* While no worker failed all run, and none has been told to leave.
LEMMA WorkersStay ==
  ASSUME Shape, Downstream, Delivery, Next \/ UNCHANGED vars
  PROVE  /\ (failures' = 0 /\ started' => up' = Workers)
         /\ (failures' = 0 => SHUTDOWN \notin ToSet(chan'["detokenizer"]))
         /\ failures \in Nat /\ (failures' = 0 => failures = 0)
<1> DEFINE B == chan["detokenizer"]
           Goal == /\ (failures' = 0 /\ started' => up' = Workers)
                   /\ (failures' = 0 => SHUTDOWN \notin ToSet(B'))
                   /\ failures \in Nat /\ (failures' = 0 => failures = 0)
<1>0. /\ failures \in Nat /\ (failures = 0 /\ started => up = Workers)
      /\ (failures = 0 => SHUTDOWN \notin ToSet(B))
      /\ DOMAIN chan = Channels /\ IsSeq(B)
      /\ {"tokenizer", "scheduler", "detokenizer", "client"} \subseteq Channels
  BY DEF Shape, ClientOK, ChannelsOK, Delivery, Channels, Workers
<1>1. ASSUME ToSet(B') \subseteq ToSet(B), UNCHANGED <<started, up, failures>>
      PROVE  Goal
  BY <1>0, <1>1
<1>2. ASSUME Start \/ Stop PROVE Goal
  <2>1. B' = << >> /\ failures' = failures /\ (started' => up' = Workers)
    BY <1>0, <1>2 DEF Start, Stop, Fresh
  <2> QED BY <2>1, <1>0, EmptyIsSeq
<1>3. ASSUME NEW w \in Workers, Fail(w)
      PROVE  Goal
  BY <1>0, <1>3 DEF Fail
<1>4. ASSUME Shutdown PROVE Goal
  <2>1. B # << >> /\ Head(B) = SHUTDOWN /\ failures' = failures
    BY <1>4 DEF Shutdown
  <2>2. SHUTDOWN \in ToSet(B)
    BY <2>1, <1>0, TailSet
  <2> QED BY <2>1, <2>2, <1>0
<1>5. ASSUME Send("scheduler") PROVE Goal
  <2> DEFINE m == Head(outbox["scheduler"])
  <2>1. outbox["scheduler"] # << >> /\ B' = Append(B, m) /\ UNCHANGED <<started, up, failures>>
    BY <1>0, <1>5, NextHops DEF Send, client
  <2>2. m \in ToSet(outbox["scheduler"])
    <3>1. IsSeq(outbox["scheduler"])
      BY DEF Shape, ChannelsOK, Workers
    <3> QED BY <2>1, <3>1, TailSet
  <2>3. m # SHUTDOWN
    BY <2>2, ShutdownIsNone DEF Downstream
  <2>4. ToSet(B') = ToSet(B) \cup {m}
    BY <2>1, <1>0, AppendSet
  <2> QED BY <2>1, <2>3, <2>4, <1>0
<1>6. ASSUME NEW w \in Workers, w # "scheduler", Send(w) PROVE B' = B /\ UNCHANGED <<started, up, failures>>
  BY <1>0, <1>6, NextHops DEF Send, client, Workers
<1>7. ASSUME Detokenize PROVE Goal
  <2>1. B # << >> /\ B' = Tail(B) /\ UNCHANGED <<started, up, failures>>
    BY <1>0, <1>7 DEF Detokenize, client
  <2>2. ToSet(B') \subseteq ToSet(B)
    BY <2>1, <1>0, TailSet
  <2> HIDE DEF B
  <2> QED BY <2>1, <2>2, <1>1
<1>8. ASSUME NEW k \in Calls, SendRequest(k) \/ RecvResponse(k) PROVE B' = B /\ UNCHANGED <<started, up, failures>>
  BY <1>0, <1>8 DEF SendRequest, RecvResponse
<1>9. ASSUME NEW k \in Calls, Enter(k) \/ ResumeStopped(k) \/ RecvTimeout(k)
      PROVE  B' = B /\ UNCHANGED <<started, up, failures>>
  BY <1>9 DEF Enter, ResumeStopped, RecvTimeout
<1>10. ASSUME \/ Tokenize \/ AddRequest \/ EngineStep \/ UNCHANGED vars
              \/ \E e \in DOMAIN engine : Retract(e)
       PROVE  B' = B /\ UNCHANGED <<started, up, failures>>
  BY <1>0, <1>10 DEF Tokenize, AddRequest, EngineStep, Retract, client, vars
<1>11. ASSUME B' = B /\ UNCHANGED <<started, up, failures>> PROVE Goal
  BY <1>0, <1>11
<1>12. Goal
  <2> HIDE DEF Goal, B
  <2> QED BY <1>2, <1>3, <1>4, <1>5, <1>6, <1>7, <1>8, <1>9, <1>10, <1>11
          DEF Next, ClientStep, TokenizerStep, SchedulerStep, DetokenizerStep, Workers
<1> QED BY <1>12

\* A suspended stream that another call runs beside is marked.
LEMMA SuspendedIsMarked ==
  ASSUME Shape, Delivery, Next \/ UNCHANGED vars
  PROVE  \A k \in Calls :
           active' \notin {k, "none"} /\ call'[k].phase = "suspended" => ~call'[k].undisturbed
<1> USE PipelineAssumption
<1>0. /\ DOMAIN call = Calls
      /\ \A k \in Calls : DOMAIN call[k] = Fields
      /\ \A k \in Calls : active \notin {k, "none"} /\ call[k].phase = "suspended" => ~call[k].undisturbed
  BY DEF Shape, ClientOK, CallOK, Delivery
<1> SUFFICES ASSUME NEW k \in Calls, active' \notin {k, "none"}, call'[k].phase = "suspended"
             PROVE  ~call'[k].undisturbed
  OBVIOUS
<1>1. ASSUME active' = active, call'[k] = call[k] PROVE ~call'[k].undisturbed
  BY <1>0, <1>1
<1>2. CASE Start
  BY <1>1, <1>2 DEF Start
<1>3. CASE Stop
  BY <1>3, <1>0 DEF Stop, Fields
<1>4. ASSUME NEW q \in Calls, Enter(q) PROVE ~call'[k].undisturbed
  BY <1>4, <1>0 DEF Enter, Fields
<1>5. ASSUME NEW q \in Calls, ResumeStopped(q) PROVE ~call'[k].undisturbed
  BY <1>5, <1>0 DEF ResumeStopped, Fields
<1>6. ASSUME NEW q \in Calls, SendRequest(q) PROVE ~call'[k].undisturbed
  <2>1. q # k => call'[k] = call[k]
    BY <1>6, SendRequestEffect
  <2>2. active = q /\ active' \in {q, "none"}
    BY <1>6 DEF SendRequest
  <2> QED BY <2>1, <2>2, <1>1
<1>7. ASSUME NEW q \in Calls, RecvResponse(q) PROVE ~call'[k].undisturbed
  <2>1. CASE UNCHANGED <<call, active>>
    BY <2>1, <1>1
  <2>2. CASE Taken(q, Head(chan["client"]))
    <3>1. active = q /\ active' \in {q, "none"} /\ (q # k => call'[k] = call[k])
      BY <1>7, <2>2, RecvFromClient DEF Taken
    <3> QED BY <3>1, <1>1
  <2> QED BY <2>1, <2>2, <1>7, RecvResponseEffect
<1>8. ASSUME NEW q \in Calls, RecvTimeout(q) PROVE ~call'[k].undisturbed
  BY <1>8 DEF RecvTimeout
<1>9. ASSUME NEW w \in Workers, Send(w) \/ Fail(w) PROVE UNCHANGED <<active, call>>
  BY <1>9 DEF Send, Fail, client
<1>10. ASSUME \/ Tokenize \/ AddRequest \/ EngineStep \/ Detokenize \/ Shutdown \/ UNCHANGED vars
              \/ \E e \in DOMAIN engine : Retract(e)
       PROVE  UNCHANGED <<active, call>>
  BY <1>10 DEF Tokenize, AddRequest, EngineStep, Detokenize, Shutdown, Retract, client, vars
<1> QED BY <1>1, <1>2, <1>3, <1>4, <1>5, <1>6, <1>7, <1>8, <1>9, <1>10
        DEF Next, ClientStep, TokenizerStep, SchedulerStep, DetokenizerStep, Workers

\* The last answer to a request is among the messages ms.
LastAnswerIn(r, ms) == \E m \in ms : m # SHUTDOWN /\ m.finished /\ m.rid = r

WayIs ==
  \A q : OnTheWay(q) <=>
    \/ q \in PromptsIn(chan["tokenizer"]) \/ q \in PromptsIn(outbox["tokenizer"])
    \/ q \in PromptsIn(chan["scheduler"]) \/ q \in InEnginePrompts
    \/ LastAnswerIn(RidOf(q), ToSet(outbox["scheduler"]))
    \/ LastAnswerIn(RidOf(q), ToSet(chan["detokenizer"]))
    \/ LastAnswerIn(RidOf(q), ToSet(outbox["detokenizer"]))
    \/ LastAnswerIn(RidOf(q), ToSet(chan["client"]))

LEMMA OnTheWayDef == WayIs
<1> SUFFICES ASSUME NEW p
             PROVE  OnTheWay(p) <=>
                      \/ p \in PromptsIn(chan["tokenizer"]) \/ p \in PromptsIn(outbox["tokenizer"])
                      \/ p \in PromptsIn(chan["scheduler"]) \/ p \in InEnginePrompts
                      \/ LastAnswerIn(RidOf(p), ToSet(outbox["scheduler"]))
                      \/ LastAnswerIn(RidOf(p), ToSet(chan["detokenizer"]))
                      \/ LastAnswerIn(RidOf(p), ToSet(outbox["detokenizer"]))
                      \/ LastAnswerIn(RidOf(p), ToSet(chan["client"]))
  BY DEF WayIs
<1>1. /\ Place[1] = PromptsIn(chan["tokenizer"]) /\ Place[2] = PromptsIn(outbox["tokenizer"])
      /\ Place[3] = PromptsIn(chan["scheduler"]) /\ Place[4] = InEnginePrompts
  BY DEF Place, InEnginePrompts
<1>2. \A i \in 1..4 : i = 1 \/ i = 2 \/ i = 3 \/ i = 4
  OBVIOUS
<1>3. (\E i \in 1..4 : p \in Place[i]) <=>
        \/ p \in PromptsIn(chan["tokenizer"]) \/ p \in PromptsIn(outbox["tokenizer"])
        \/ p \in PromptsIn(chan["scheduler"]) \/ p \in InEnginePrompts
  BY <1>1, <1>2
<1>4. (\E m \in Answers : m # SHUTDOWN /\ m.finished /\ m.rid = RidOf(p)) <=>
        \/ LastAnswerIn(RidOf(p), ToSet(outbox["scheduler"])) \/ LastAnswerIn(RidOf(p), ToSet(chan["detokenizer"]))
        \/ LastAnswerIn(RidOf(p), ToSet(outbox["detokenizer"])) \/ LastAnswerIn(RidOf(p), ToSet(chan["client"]))
  BY DEF Answers, LastAnswerIn
<1> QED BY <1>3, <1>4 DEF OnTheWay, WayIs

\* The steps that take nothing from the way round.
MovesOn ==
  \/ \E k \in Calls : Enter(k) \/ ResumeStopped(k) \/ SendRequest(k) \/ RecvTimeout(k)
  \/ \E w \in Workers : Send(w)
  \/ Tokenize \/ AddRequest \/ EngineStep \/ Detokenize
  \/ \E e \in DOMAIN engine : Retract(e)
  \/ UNCHANGED vars

LEMMA MovesOnTheWay ==
  ASSUME Shape, Requests, MovesOn, RidsGrow, NEW p, Asked(p), OnTheWay(p)
  PROVE  OnTheWay(p)'
<1> DEFINE T == chan["tokenizer"]
           O == outbox["tokenizer"]
           C == chan["scheduler"]
           r == RidOf(p)
           A == ToSet(outbox["scheduler"])
           B == ToSet(chan["detokenizer"])
           D == ToSet(outbox["detokenizer"])
           F == ToSet(chan["client"])
           Way == \/ p \in PromptsIn(T) \/ p \in PromptsIn(O) \/ p \in PromptsIn(C)
                  \/ p \in InEnginePrompts
                  \/ LastAnswerIn(r, A) \/ LastAnswerIn(r, B) \/ LastAnswerIn(r, D) \/ LastAnswerIn(r, F)
<1>0. /\ DOMAIN chan = Channels /\ DOMAIN outbox = Workers
      /\ IsSeq(T) /\ IsSeq(O) /\ IsSeq(C)
      /\ OnceEach(T) /\ OnceEach(O) /\ OnceEach(C)
      /\ IsSeq(outbox["scheduler"]) /\ IsSeq(chan["detokenizer"])
      /\ IsSeq(outbox["detokenizer"]) /\ IsSeq(chan["client"])
      /\ Workers = {"tokenizer", "scheduler", "detokenizer"}
      /\ Channels = {"tokenizer", "scheduler", "detokenizer", "client"}
  BY DEF Shape, ChannelsOK, Channels, Workers, Requests, Queued
<1>1. Way /\ r' = r /\ r # -1
  BY OnTheWayDef, AskedStays, RidIs DEF WayIs
<1>2. OnTheWay(p)' <=>
        \/ p \in PromptsIn(T') \/ p \in PromptsIn(O') \/ p \in PromptsIn(C')
        \/ p \in InEnginePrompts'
        \/ LastAnswerIn(r', A') \/ LastAnswerIn(r', B') \/ LastAnswerIn(r', D') \/ LastAnswerIn(r', F')
  <2>1. WayIs'
    BY OnTheWayDef, PTL
  <2> QED BY <2>1 DEF WayIs
<1> DEFINE Goal == OnTheWay(p)'
<1>3. \A S1, S2 : S1 \subseteq S2 /\ LastAnswerIn(r, S1) => LastAnswerIn(r, S2)
  BY DEF LastAnswerIn
<1>4. ASSUME PromptsIn(T) \subseteq PromptsIn(T'), O' = O, C' = C, UNCHANGED engine,
             A \subseteq A', B \subseteq B', D \subseteq D', F \subseteq F'
      PROVE  Goal
  <2>1. InEnginePrompts' = InEnginePrompts
    BY <1>4 DEF InEnginePrompts
  <2> HIDE DEF T, O, C, r, A, B, D, F
  <2> QED BY <1>1, <1>2, <1>3, <1>4, <2>1
<1>5. ASSUME NEW k \in Calls, SendRequest(k) PROVE Goal
  <2> DEFINE m == [rid |-> next_rid, prompt |-> <<k, Len(call[k].rids) + 1>>]
  <2>1. /\ T' = Append(T, m) /\ O' = O /\ C' = C /\ UNCHANGED engine
        /\ A' = A /\ B' = B /\ D' = D /\ F' = F
    BY <1>0, <1>5 DEF SendRequest, NextRequestId, workers
  <2> HIDE DEF T, O, C, A, B, D, F, m, Goal
  <2>2. PromptsIn(T) \subseteq PromptsIn(T')
    <3>1. ToSet(T) \subseteq ToSet(T')
      BY <2>1, <1>0, AppendSet
    <3> QED BY <3>1, PromptsInSet
  <2> QED BY <2>1, <2>2, <1>4
<1>6. ASSUME Send("tokenizer") PROVE Goal
  <2> DEFINE m == Head(O)
  <2>1. /\ O # << >> /\ T' = T /\ O' = Tail(O) /\ C' = Append(C, m) /\ UNCHANGED engine
        /\ A' = A /\ B' = B /\ D' = D /\ F' = F
    BY <1>0, <1>6, NextHops DEF Send, workers
  <2> HIDE DEF T, O, C, r, A, B, D, F, Goal
  <2>2. PromptsIn(O) = {m.prompt} \cup PromptsIn(O')
    BY <2>1, <1>0, TailOnce
  <2> HIDE DEF m
  <2>3. ToSet(C') = ToSet(C) \cup {m}
    BY <2>1, <1>0, AppendSet
  <2>4. PromptsIn(C) \subseteq PromptsIn(C') /\ m.prompt \in PromptsIn(C')
    BY <2>3, PromptsInSet
  <2>5. InEnginePrompts' = InEnginePrompts
    BY <2>1 DEF InEnginePrompts
  <2> QED BY <2>1, <2>2, <2>4, <2>5, <1>1, <1>2 DEF Goal
<1>7. ASSUME Tokenize PROVE Goal
  <2> DEFINE m == Head(T)
  <2>1. /\ T # << >> /\ T' = Tail(T) /\ O = << >> /\ O' = <<m>> /\ C' = C /\ UNCHANGED engine
        /\ A' = A /\ B' = B /\ D' = D /\ F' = F
    BY <1>0, <1>7 DEF Tokenize, Ready, workers
  <2> HIDE DEF T, O, C, r, A, B, D, F, Goal
  <2>2. PromptsIn(T) = {m.prompt} \cup PromptsIn(T')
    BY <2>1, <1>0, TailOnce
  <2> HIDE DEF m
  <2>3. PromptsIn(O) = {} /\ m.prompt \in PromptsIn(O')
    BY <2>1 DEF PromptsIn
  <2>4. InEnginePrompts' = InEnginePrompts
    BY <2>1 DEF InEnginePrompts
  <2> QED BY <2>1, <2>2, <2>3, <2>4, <1>1, <1>2 DEF Goal
<1>8. ASSUME AddRequest PROVE Goal
  <2> DEFINE m == Head(C)
             e == req_counter
             entry == [prompt |-> m.prompt, ids |-> << >>]
  <2>1. /\ C # << >> /\ T' = T /\ O' = O /\ C' = Tail(C) /\ engine' = Put(engine, e, entry)
        /\ A' = A /\ B' = B /\ D' = D /\ F' = F
    BY <1>0, <1>8 DEF AddRequest
  <2>2. e \notin DOMAIN engine
    BY DEF Shape, EngineOK
  <2> HIDE DEF T, O, C, r, A, B, D, F, Goal
  <2>3. PromptsIn(C) = {m.prompt} \cup PromptsIn(C')
    BY <2>1, <1>0, TailOnce
  <2> HIDE DEF m, e
  <2>4. /\ DOMAIN engine' = {e} \cup DOMAIN engine /\ engine'[e].prompt = m.prompt
        /\ \A f \in DOMAIN engine : engine'[f] = engine[f]
    BY <2>1, <2>2 DEF Put
  <2>5. InEnginePrompts' = {m.prompt} \cup InEnginePrompts
    BY <2>4 DEF InEnginePrompts
  <2> QED BY <2>1, <2>3, <2>5, <1>1, <1>2 DEF Goal
<1>9. ASSUME EngineStep PROVE Goal
  <2>1. PICK S, ids, done, sent : EngineStepped(S, ids, done, sent)
    BY <1>9, EngineStepEffect
  <2>2. /\ T' = T /\ O' = O /\ C' = C /\ B' = B /\ D' = D /\ F' = F
        /\ outbox["scheduler"] = << >>
    BY <1>0, <1>9, <2>1, EngineStepEffect DEF EngineStep, EngineStepped
  <2>3. ~LastAnswerIn(r, A)
    BY <2>2, EmptyIsSeq DEF LastAnswerIn
  <2>4. ASSUME NEW e \in DOMAIN engine, engine[e].prompt = p, e \notin done
        PROVE  p \in InEnginePrompts'
    <3>1. engine[e] \in [prompt : Prompts, ids : Seq(TokenIds)] /\ e \in DOMAIN engine \ done
      BY <2>4 DEF Shape, EngineOK
    <3>2. e \in DOMAIN engine' /\ engine'[e].prompt = p
      BY <3>1, <2>1, <2>4 DEF EngineStepped
    <3> QED BY <3>2 DEF InEnginePrompts
  <2>5. ASSUME NEW e \in DOMAIN engine, engine[e].prompt = p, e \in done
        PROVE  LastAnswerIn(r, A')
    <3>1. e \in S /\ req_id_map[e] = r
      BY <2>1, <2>5 DEF EngineStepped, Requests, InEngine
    <3>2. PICK i \in 1..Len(sent) : sent[i] = e
      BY <3>1, <2>1 DEF EngineStepped
    <3> DEFINE m == outbox'["scheduler"][i]
    <3>3. /\ i \in DOMAIN outbox'["scheduler"]
          /\ m = [rid |-> req_id_map[e], output_token_ids |-> ids[e], finished |-> e \in done]
      BY <3>2, <2>1 DEF EngineStepped
    <3>4. m \in A' /\ m.rid = r /\ m.finished
      <4>1. m \in A'
        BY <3>3 DEF ToSet
      <4>2. m.rid = req_id_map[e] /\ m.finished = (e \in done)
        BY <3>3
      <4> QED BY <4>1, <4>2, <3>1, <2>5
    <3>5. m # SHUTDOWN
      BY <3>4, <1>1 DEF SHUTDOWN
    <3> QED BY <3>4, <3>5 DEF LastAnswerIn
  <2>6. p \in InEnginePrompts => p \in InEnginePrompts' \/ LastAnswerIn(r, A')
    BY <2>4, <2>5 DEF InEnginePrompts
  <2> HIDE DEF T, O, C, r, A, B, D, F, Goal
  <2> QED BY <2>2, <2>3, <2>6, <1>1, <1>2 DEF Goal
<1>10. ASSUME NEW e \in DOMAIN engine, Retract(e) PROVE Goal
  <2>1. /\ T' = T /\ O' = O /\ C' = C /\ A' = A /\ B' = B /\ D' = D /\ F' = F
        /\ engine' = [engine EXCEPT ![e].ids = << >>]
    BY <1>10 DEF Retract
  <2>2. DOMAIN engine' = DOMAIN engine /\ \A f \in DOMAIN engine : engine'[f].prompt = engine[f].prompt
    <3>1. \A f \in DOMAIN engine : engine[f] \in [prompt : Prompts, ids : Seq(TokenIds)]
      BY DEF Shape, EngineOK
    <3> QED BY <2>1, <3>1
  <2>3. InEnginePrompts' = InEnginePrompts
    BY <2>2 DEF InEnginePrompts
  <2> HIDE DEF T, O, C, r, A, B, D, F, Goal
  <2> QED BY <2>1, <2>3, <1>1, <1>2 DEF Goal
<1>11. ASSUME Send("scheduler") PROVE Goal
  <2> DEFINE m == Head(outbox["scheduler"])
  <2>1. /\ outbox["scheduler"] # << >> /\ chan'["detokenizer"] = Append(chan["detokenizer"], m)
        /\ outbox'["scheduler"] = Tail(outbox["scheduler"])
        /\ outbox'["detokenizer"] = outbox["detokenizer"] /\ chan'["client"] = chan["client"]
        /\ T' = T /\ O' = O /\ C' = C /\ UNCHANGED engine
    BY <1>0, <1>11, NextHops DEF Send, workers
  <2>2. A = {m} \cup A' /\ B' = B \cup {m} /\ D' = D /\ F' = F
    BY <1>0, <2>1, TailSet, AppendSet
  <2>3. InEnginePrompts' = InEnginePrompts
    BY <2>1 DEF InEnginePrompts
  <2> HIDE DEF T, O, C, r, A, B, D, F, m, Goal
  <2>4. LastAnswerIn(r, A) \/ LastAnswerIn(r, B) => LastAnswerIn(r, A') \/ LastAnswerIn(r, B')
    BY <2>2 DEF LastAnswerIn
  <2> QED BY <2>1, <2>2, <2>3, <2>4, <1>1, <1>2 DEF Goal
<1>12. ASSUME Send("detokenizer") PROVE Goal
  <2> DEFINE m == Head(outbox["detokenizer"])
  <2>1. /\ outbox["detokenizer"] # << >> /\ chan'["client"] = Append(chan["client"], m)
        /\ outbox'["detokenizer"] = Tail(outbox["detokenizer"])
        /\ outbox'["scheduler"] = outbox["scheduler"] /\ chan'["detokenizer"] = chan["detokenizer"]
        /\ T' = T /\ O' = O /\ C' = C /\ UNCHANGED engine
    BY <1>0, <1>12, NextHops DEF Send, workers
  <2>2. D = {m} \cup D' /\ F' = F \cup {m} /\ A' = A /\ B' = B
    BY <1>0, <2>1, TailSet, AppendSet
  <2>3. InEnginePrompts' = InEnginePrompts
    BY <2>1 DEF InEnginePrompts
  <2> HIDE DEF T, O, C, r, A, B, D, F, m, Goal
  <2>4. LastAnswerIn(r, D) \/ LastAnswerIn(r, F) => LastAnswerIn(r, D') \/ LastAnswerIn(r, F')
    BY <2>2 DEF LastAnswerIn
  <2> QED BY <2>1, <2>2, <2>3, <2>4, <1>1, <1>2 DEF Goal
<1>13. ASSUME Detokenize PROVE Goal
  <2> DEFINE chunk == Head(chan["detokenizer"])
             answer == [rid |-> chunk.rid, finished |-> chunk.finished,
                        delta_text |-> DeltaText(chunk.rid, Text(chunk.output_token_ids)),
                        output_token_ids |-> chunk.output_token_ids]
  <2>1. /\ chan["detokenizer"] # << >> /\ chan'["detokenizer"] = Tail(chan["detokenizer"])
        /\ outbox'["detokenizer"] = <<answer>> /\ outbox["detokenizer"] = << >>
        /\ outbox'["scheduler"] = outbox["scheduler"] /\ chan'["client"] = chan["client"]
        /\ T' = T /\ O' = O /\ C' = C /\ UNCHANGED engine
    BY <1>0, <1>13 DEF Detokenize, Ready
  <2>2. answer.rid = chunk.rid /\ answer.finished = chunk.finished
    OBVIOUS
  <2>3. B = {chunk} \cup B' /\ A' = A /\ F' = F /\ D = {} /\ D' = {answer}
    <3> HIDE DEF answer
    <3>1. B = {chunk} \cup B'
      BY <1>0, <2>1, TailSet
    <3>2. ToSet(<<answer>>) = {answer}
      BY DEF ToSet
    <3> QED BY <2>1, <3>1, <3>2, EmptyIsSeq
  <2>4. InEnginePrompts' = InEnginePrompts
    BY <2>1 DEF InEnginePrompts
  <2> HIDE DEF T, O, C, r, A, B, D, F, answer, chunk, Goal
  <2>5. answer.rid = r => answer # SHUTDOWN
    BY <1>1 DEF SHUTDOWN
  <2>6. LastAnswerIn(r, B) \/ LastAnswerIn(r, D) => LastAnswerIn(r, B') \/ LastAnswerIn(r, D')
    BY <2>2, <2>3, <2>5 DEF LastAnswerIn
  <2> QED BY <2>1, <2>3, <2>4, <2>6, <1>1, <1>2 DEF Goal
<1>14. ASSUME UNCHANGED <<chan, outbox, engine>> PROVE Goal
  <2>1. InEnginePrompts' = InEnginePrompts /\ T' = T /\ O' = O /\ C' = C /\ A' = A /\ B' = B /\ D' = D /\ F' = F
    BY <1>14 DEF InEnginePrompts
  <2> HIDE DEF T, O, C, r, A, B, D, F, Goal
  <2> QED BY <2>1, <1>1, <1>2 DEF Goal
<1>15. ASSUME NEW k \in Calls, Enter(k) \/ ResumeStopped(k) \/ RecvTimeout(k) PROVE Goal
  <2>1. UNCHANGED <<chan, outbox, engine>>
    BY <1>15 DEF Enter, ResumeStopped, RecvTimeout, workers
  <2> QED BY <2>1, <1>14
<1>16. ASSUME UNCHANGED vars PROVE Goal
  <2>1. UNCHANGED <<chan, outbox, engine>>
    BY <1>16 DEF vars, workers
  <2> QED BY <2>1, <1>14
<1> HIDE DEF Goal
<1>17. Goal
  BY <1>5, <1>6, <1>7, <1>8, <1>9, <1>10, <1>11, <1>12, <1>13, <1>15, <1>16 DEF MovesOn, Workers
<1> QED BY <1>17 DEF Goal

\* The client takes only the answer it reads.
LEMMA RecvOnTheWay ==
  ASSUME Shape, RidsGrow, NEW k \in Calls, RecvResponse(k), NEW p, Asked(p), OnTheWay(p),
         ~(Head(chan["client"]).finished /\ Head(chan["client"]).rid = RidOf(p))
  PROVE  OnTheWay(p)'
<1> DEFINE gr == Head(chan["client"])
           r  == RidOf(p)
           F  == ToSet(chan["client"])
<1>1. /\ chan["client"] # << >> /\ chan' = [chan EXCEPT !["client"] = Tail(@)]
      /\ UNCHANGED <<outbox, engine>>
  BY DEF RecvResponse, workers
<1>2. /\ \A c \in {"tokenizer", "scheduler", "detokenizer"} : chan'[c] = chan[c]
      /\ chan'["client"] = Tail(chan["client"]) /\ IsSeq(chan["client"])
  BY <1>1 DEF Shape, ChannelsOK, Channels, Workers
<1>3. F = {gr} \cup F'
  BY <1>1, <1>2, TailSet
<1>4. r' = r
  BY AskedStays
<1> HIDE DEF F, gr
<1>5. LastAnswerIn(r, F) => LastAnswerIn(r, F')
  BY <1>3 DEF LastAnswerIn, gr
<1>6. InEnginePrompts' = InEnginePrompts
  BY <1>1 DEF InEnginePrompts
<1>7. WayIs /\ WayIs'
  BY OnTheWayDef, PTL
<1> QED BY <1>1, <1>2, <1>4, <1>5, <1>6, <1>7 DEF WayIs, F

LEMMA DeliveryPreserved ==
  ASSUME Shape, Requests, Downstream, Delivery, Next \/ UNCHANGED vars
  PROVE  Delivery'
<1> USE PipelineAssumption
<1> DEFINE Waits(c) == c.phase \in {"send", "recv", "suspended"} /\ c.undisturbed
           Reach(k) == /\ started'
                       /\ \A i \in 1..Len(call'[k].rids) :
                            call'[k].rids[i] \in call'[k].pending => OnTheWay(<<k, i>>)'
<1>0. /\ RidsGrow /\ DOMAIN call = Calls
      /\ \A k \in Calls :
           /\ DOMAIN call[k] = Fields /\ Len(call[k].rids) \in Nat
           /\ Len(call[k].rids) <= PromptsOf[k]
           /\ call[k].phase \in {"send", "recv"} <=> active = k
           /\ call[k].phase = "new" => call[k].rids = << >>
      /\ \A k \in Calls :
           active \notin {k, "none"} /\ call[k].phase = "suspended" => ~call[k].undisturbed
      /\ active # "none" => started
  BY RidsOnlyGrow DEF Shape, ClientOK, CallOK, Delivery
<1>a. \A k \in Calls : Waits(call[k]) /\ failures = 0 =>
        /\ started
        /\ \A i \in 1..Len(call[k].rids) : call[k].rids[i] \in call[k].pending => OnTheWay(<<k, i>>)
  BY DEF Delivery
<1>b. \A k \in Calls : \A i \in 1..Len(call[k].rids) : Asked(<<k, i>>) /\ RidOf(<<k, i>>) = call[k].rids[i]
  <2> TAKE k \in Calls
  <2> TAKE i \in 1..Len(call[k].rids)
  <2>1. i \in 1..PromptsOf[k] /\ i <= Len(call[k].rids)
    BY <1>0
  <2>2. <<k, i>> \in Prompts /\ <<k, i>>[1] = k /\ <<k, i>>[2] = i
    BY <2>1, PromptIs
  <2> QED BY <2>1, <2>2 DEF Asked, RidOf
<1>c. failures' = 0 => failures = 0 /\ SHUTDOWN \notin ToSet(chan["detokenizer"])
  BY WorkersStay DEF Delivery
<1>d. SUFFICES ASSUME NEW k \in Calls, Waits(call'[k]), failures' = 0
               PROVE  Reach(k)
  <2>1. \A k \in Calls : Waits(call'[k]) /\ failures' = 0 => Reach(k)
    BY <1>d
  <2> QED BY <2>1, WorkersStay, SuspendedIsMarked DEF Delivery
<1>e. failures = 0 /\ SHUTDOWN \notin ToSet(chan["detokenizer"])
  BY <1>c, <1>d
<1> HIDE DEF Reach
<1>1. ASSUME MovesOn, Waits(call[k]), started' = started, call'[k].rids = call[k].rids,
             call'[k].pending \subseteq call[k].pending
      PROVE  Reach(k)
  <2>1. started
    BY <1>1, <1>a, <1>e
  <2>2. ASSUME NEW i \in 1..Len(call'[k].rids), call'[k].rids[i] \in call'[k].pending
        PROVE  OnTheWay(<<k, i>>)'
    <3>1. OnTheWay(<<k, i>>) /\ Asked(<<k, i>>)
      BY <1>1, <2>2, <1>a, <1>b, <1>e
    <3> QED BY <3>1, <1>0, <1>1, MovesOnTheWay
  <2> QED BY <2>1, <2>2, <1>1 DEF Reach
<1>2. ASSUME Start PROVE Reach(k)
  BY <1>2, <1>a, <1>d, <1>e DEF Start
<1>3. ASSUME Stop PROVE Reach(k)
  <2>1. /\ call'[k].phase = call[k].phase /\ active = "none"
        /\ call'[k].undisturbed => call[k].phase # "suspended"
    <3>1. /\ active = "none"
          /\ call'[k] = [call[k] EXCEPT !.undisturbed = @ /\ call[k].phase # "suspended"]
      BY <1>3 DEF Stop
    <3>2. DOMAIN call[k] = Fields
      BY <1>0
    <3> QED BY ONLY <3>1, <3>2 DEF Fields
  <2> QED BY <2>1, <1>0, <1>d
<1>4. ASSUME NEW q \in Calls, Enter(q) PROVE Reach(k)
  <2>1. /\ active = "none" /\ started /\ started' = started /\ MovesOn
        /\ call[q].phase \in {"new", "suspended"}
    BY <1>4 DEF Enter, MovesOn
  <2>2. /\ call'[k].rids = call[k].rids /\ call'[k].pending = call[k].pending
        /\ call'[k].undisturbed => call[k].undisturbed
        /\ call[k].phase = "new" \/ call[k].phase = "suspended" \/ call'[k].phase = call[k].phase
        /\ k # q => call'[k].phase = call[k].phase
    BY <1>0, <1>4 DEF Enter, Fields
  <2>3. CASE call[k].phase = "new"
    <3>1. call'[k].rids = << >>
      BY <2>2, <2>3, <1>0
    <3>2. 1..Len(call'[k].rids) = {}
      BY <3>1
    <3> QED BY <3>2, <2>1 DEF Reach
  <2>4. CASE call[k].phase # "new"
    <3>1. Waits(call[k])
      BY <2>1, <2>2, <2>4, <1>d
    <3> QED BY <3>1, <2>1, <2>2, <1>1
  <2> QED BY <2>3, <2>4
<1>5. ASSUME NEW q \in Calls, ResumeStopped(q) PROVE Reach(k)
  <2>1. started' = started /\ MovesOn /\ k # q /\ call'[k] = call[k]
    <3>1. started' = started /\ MovesOn /\ call' = [call EXCEPT ![q].phase = "broken"]
      BY <1>5 DEF ResumeStopped, MovesOn
    <3>2. DOMAIN call = Calls /\ DOMAIN call[q] = Fields
      BY <1>0
    <3>3. call'[q].phase = "broken"
      BY ONLY <3>1, <3>2, q \in Calls DEF Fields
    <3>4. k # q
      BY <3>3, <1>d
    <3>5. call'[k] = call[k]
      BY ONLY <3>1, <3>2, <3>4, k \in Calls
    <3> QED BY ONLY <3>1, <3>4, <3>5
  <2> QED BY <2>1, <1>1, <1>d
<1>6. ASSUME NEW q \in Calls, SendRequest(q) PROVE Reach(k)
  <2>1. MovesOn /\ started' = started /\ call[q].phase = "send"
    BY <1>6 DEF SendRequest, MovesOn
  <2>2. CASE k # q
    <3>1. call'[k] = call[k]
      BY <1>6, <2>2, SendRequestEffect
    <3> QED BY <3>1, <2>1, <1>1, <1>d
  <2>3. CASE k = q
    <3>0. PICK n : n = Len(call[k].rids)
      OBVIOUS
    <3> DEFINE m == [rid |-> next_rid, prompt |-> <<k, n + 1>>]
    <3>1. /\ Len(call'[k].rids) = n + 1 /\ n \in Nat
          /\ \A i \in 1..n : call'[k].rids[i] = call[k].rids[i]
          /\ call'[k].pending = call[k].pending \cup {next_rid}
          /\ call'[k].undisturbed = call[k].undisturbed
      BY <1>6, <2>3, <3>0, SendRequestEffect
    <3>2. Waits(call[k]) /\ started
      BY <3>1, <2>1, <2>3, <1>a, <1>d, <1>e
    <3>3. ASSUME NEW i \in 1..n, call'[k].rids[i] \in call'[k].pending
          PROVE  OnTheWay(<<k, i>>)'
      <4>1. Asked(<<k, i>>) /\ RidOf(<<k, i>>) = call[k].rids[i]
        BY <1>b, <3>0
      <4>2. call[k].rids[i] \in Nat /\ call[k].rids[i] < next_rid /\ next_rid \in Nat
        BY <4>1, RidIs DEF Shape, ClientOK
      <4>5. call[k].rids[i] # next_rid
        BY ONLY <4>2
      <4>6. call[k].rids[i] \in call[k].pending \cup {next_rid}
        BY ONLY <3>1, <3>3
      <4>3. call[k].rids[i] \in call[k].pending
        BY ONLY <4>5, <4>6
      <4>4. OnTheWay(<<k, i>>)
        BY <3>0, <3>2, <4>3, <1>a, <1>e
      <4> QED BY <4>1, <4>4, <2>1, <1>0, MovesOnTheWay
    <3>4. OnTheWay(<<k, n + 1>>)'
      <4>1. chan'["tokenizer"] = Append(chan["tokenizer"], m) /\ IsSeq(chan["tokenizer"])
        BY <1>6, <2>3, <3>0 DEF SendRequest, NextRequestId, Shape, ChannelsOK, Channels, Workers
      <4> HIDE DEF m
      <4>2. m \in ToSet(chan'["tokenizer"])
        BY <4>1, AppendSet
      <4>3. m.prompt \in PromptsIn(chan'["tokenizer"])
        BY <4>2, PromptsInSet
      <4>4. <<k, n + 1>> \in PromptsIn(chan["tokenizer"])'
        BY <4>3 DEF m
      <4>5. WayIs'
        BY OnTheWayDef, PTL
      <4> QED BY <4>4, <4>5 DEF WayIs
    <3>5. ASSUME NEW i \in 1..(n + 1), call'[k].rids[i] \in call'[k].pending
          PROVE  OnTheWay(<<k, i>>)'
      <4>1. i = n + 1 \/ i \in 1..n
        BY <3>1
      <4> QED BY <4>1, <3>3, <3>4, <3>5
    <3> QED BY <3>1, <3>2, <3>5, <2>1 DEF Reach
  <2> QED BY <2>2, <2>3
<1>7. ASSUME NEW q \in Calls, RecvResponse(q) PROVE Reach(k)
  <2> DEFINE gr == Head(chan["client"])
  <2>1. active = q /\ started' = started /\ call[q].phase = "recv"
    BY <1>7 DEF RecvResponse
  <2>2. \/ Taken(q, gr)
        \/ gr.rid \notin call[q].pending /\ UNCHANGED <<call, active>>
    BY <1>7, RecvResponseEffect
  <2>3. CASE k # q
    <3>1. call'[k] = call[k]
      BY <2>2, <2>3 DEF Taken
    <3>2. active \notin {k, "none"} /\ Waits(call[k])
      BY <2>1, <2>3, <3>1, <1>d
    <3> QED BY <3>2, <1>0
  <2>4. CASE k = q
    <3>1. /\ call'[k].rids = call[k].rids /\ call'[k].undisturbed = call[k].undisturbed
          /\ call'[k].pending \subseteq call[k].pending
          /\ gr.finished => gr.rid \notin call'[k].pending
      BY <2>2, <2>4 DEF Taken
    <3>2. Waits(call[k]) /\ started
      BY <2>1, <2>4, <3>1, <1>0, <1>d
    <3>3. ASSUME NEW i \in 1..Len(call'[k].rids), call'[k].rids[i] \in call'[k].pending
          PROVE  OnTheWay(<<k, i>>)'
      <4>1. /\ Asked(<<k, i>>) /\ RidOf(<<k, i>>) = call[k].rids[i]
            /\ OnTheWay(<<k, i>>)
        BY <3>1, <3>2, <3>3, <1>a, <1>b, <1>e
      <4>2. ~(gr.finished /\ gr.rid = RidOf(<<k, i>>))
        BY <3>1, <3>3, <4>1
      <4> QED BY <4>1, <4>2, <1>0, <1>7, RecvOnTheWay
    <3> QED BY <3>2, <3>3, <2>1 DEF Reach
  <2> QED BY <2>3, <2>4
<1>8. ASSUME NEW q \in Calls, RecvTimeout(q) PROVE Reach(k)
  <2>1. started' = started /\ MovesOn /\ k # q /\ call'[k] = call[k]
    BY <1>0, <1>8, <1>d DEF RecvTimeout, MovesOn, Fields
  <2> QED BY <2>1, <1>1, <1>d
<1>9. ASSUME NEW w \in Workers, Send(w) PROVE Reach(k)
  <2>1. started' = started /\ MovesOn /\ call' = call
    BY <1>9 DEF Send, MovesOn, client
  <2> QED BY <2>1, <1>1, <1>d
<1>10. ASSUME \/ Tokenize \/ AddRequest \/ EngineStep \/ Detokenize \/ UNCHANGED vars
              \/ \E e \in DOMAIN engine : Retract(e)
       PROVE Reach(k)
  <2>1. started' = started /\ MovesOn /\ call' = call
    BY <1>10 DEF Tokenize, AddRequest, EngineStep, Detokenize, Retract, MovesOn, client, vars
  <2> QED BY <2>1, <1>1, <1>d
<1>11. ASSUME NEW w \in Workers, Fail(w) PROVE Reach(k)
  <2>1. failures' = failures + 1
    BY <1>11 DEF Fail
  <2> QED BY <2>1, <1>d, <1>e
<1>12. ASSUME Shutdown PROVE Reach(k)
  <2>1. chan["detokenizer"] # << >> /\ Head(chan["detokenizer"]) = SHUTDOWN
    BY <1>12 DEF Shutdown
  <2>2. SHUTDOWN \in ToSet(chan["detokenizer"])
    <3>1. IsSeq(chan["detokenizer"])
      BY DEF Shape, ChannelsOK, Channels, Workers
    <3> QED BY <2>1, <3>1, TailSet
  <2> QED BY <2>2, <1>e
<1> QED BY <1>2, <1>3, <1>4, <1>5, <1>6, <1>7, <1>8, <1>9, <1>10, <1>11, <1>12
        DEF Next, ClientStep, TokenizerStep, SchedulerStep, DetokenizerStep, Workers

LEMMA AnswersNotLostPreserved ==
  ASSUME Shape, Delivery, AnswersNotLost, Next \/ UNCHANGED vars
  PROVE  AnswersNotLost'
<1>0. /\ DOMAIN call = Calls /\ failures \in Nat
      /\ \A k \in Calls : DOMAIN call[k] = Fields
      /\ \A k \in Calls : patient /\ call[k].phase = "timed_out" => failures > 0 \/ ~call[k].undisturbed
  BY DEF Shape, ClientOK, CallOK, AnswersNotLost
<1> SUFFICES ASSUME NEW k \in Calls, patient', call'[k].phase = "timed_out",
                    ~(failures' > 0), call'[k].undisturbed
             PROVE  FALSE
  BY DEF AnswersNotLost
<1>1. ASSUME patient' = patient, failures' = failures, call'[k].phase = call[k].phase,
             call'[k].undisturbed => call[k].undisturbed
      PROVE  FALSE
  BY <1>0, <1>1
<1>2. ASSUME Start PROVE FALSE
  BY <1>1, <1>2 DEF Start
<1>3. ASSUME Stop PROVE FALSE
  BY <1>0, <1>1, <1>3 DEF Stop, Fields
<1>4. ASSUME NEW q \in Calls, Enter(q) PROVE FALSE
  BY <1>0, <1>1, <1>4 DEF Enter, Fields
<1>5. ASSUME NEW q \in Calls, ResumeStopped(q) PROVE FALSE
  BY <1>0, <1>1, <1>5 DEF ResumeStopped, Fields
<1>6. ASSUME NEW q \in Calls, SendRequest(q) PROVE FALSE
  <2>1. (k # q => call'[k] = call[k]) /\ (k = q => call'[k].phase # "timed_out")
    BY <1>6, SendRequestEffect
  <2> QED BY <2>1, <1>1, <1>6 DEF SendRequest
<1>7. ASSUME NEW q \in Calls, RecvResponse(q) PROVE FALSE
  <2>1. call'[k] = call[k] \/ call'[k].phase # "timed_out"
    BY <1>7, RecvResponseEffect DEF Taken
  <2> QED BY <2>1, <1>1, <1>7 DEF RecvResponse
<1>8. ASSUME NEW q \in Calls, RecvTimeout(q) PROVE FALSE
  <2>1. CASE k # q
    BY <2>1, <1>0, <1>1, <1>8 DEF RecvTimeout
  <2>2. CASE k = q
    <3>1. /\ call[k].phase = "recv" /\ call[k].undisturbed /\ failures = 0 /\ Quiet
          /\ chan["client"] = << >>
      BY <2>2, <1>0, <1>8 DEF RecvTimeout, Fields
    <3>2. /\ started /\ up = Workers
          /\ \A i \in 1..Len(call[k].rids) : call[k].rids[i] \in call[k].pending => OnTheWay(<<k, i>>)
      BY <3>1 DEF Delivery
    <3>3. PICK i \in 1..Len(call[k].rids) : call[k].rids[i] \in call[k].pending
      <4>1. /\ call[k].pending # {} /\ call[k].pending \subseteq ToSet(call[k].rids)
            /\ call[k].rids \in Seq(Nat)
        BY <3>1 DEF Shape, ClientOK, CallOK
      <4> QED BY <4>1 DEF ToSet
    <3>4. OnTheWay(<<k, i>>)
      BY <3>2, <3>3
    <3>5. /\ \A c \in Channels : chan[c] = << >>
          /\ \A w \in Workers : outbox[w] = << >>
          /\ engine = << >>
      BY <3>1, <3>2 DEF Quiet
    <3>6. /\ "tokenizer" \in Workers /\ "scheduler" \in Workers /\ "detokenizer" \in Workers
          /\ "tokenizer" \in Channels /\ "scheduler" \in Channels /\ "detokenizer" \in Channels
          /\ "client" \in Channels
      BY DEF Workers, Channels
    <3>7. /\ PromptsIn(<< >>) = {} /\ InEnginePrompts = {} /\ \A r : ~LastAnswerIn(r, ToSet(<< >>))
      BY <3>5, EmptyIsSeq DEF PromptsIn, InEnginePrompts, LastAnswerIn
    <3> QED BY <3>4, <3>5, <3>6, <3>7, OnTheWayDef DEF WayIs
  <2> QED BY <2>1, <2>2
<1>9. ASSUME NEW w \in Workers, Send(w) PROVE FALSE
  BY <1>1, <1>9 DEF Send, client
<1>10. ASSUME NEW w \in Workers, Fail(w) PROVE FALSE
  BY <1>0, <1>10 DEF Fail
<1>11. ASSUME \/ Tokenize \/ AddRequest \/ EngineStep \/ Detokenize \/ Shutdown \/ UNCHANGED vars
              \/ \E e \in DOMAIN engine : Retract(e)
       PROVE  FALSE
  <2>1. UNCHANGED <<patient, failures, call>>
    BY <1>11 DEF Tokenize, AddRequest, EngineStep, Detokenize, Shutdown, Retract, client, vars
  <2> QED BY <2>1, <1>1
<1> QED BY <1>2, <1>3, <1>4, <1>5, <1>6, <1>7, <1>8, <1>9, <1>10, <1>11
        DEF Next, ClientStep, TokenizerStep, SchedulerStep, DetokenizerStep, Workers

---------------------------------------------------------------------------
\* What the workers remember.

LEMMA ComingDef ==
  ASSUME Shape
  PROVE  /\ Len(chan["detokenizer"]) \in Nat /\ Len(outbox["scheduler"]) \in Nat
         /\ DOMAIN Coming = 1..(Len(chan["detokenizer"]) + Len(outbox["scheduler"]))
         /\ \A i \in DOMAIN Coming :
              Coming[i] = IF i <= Len(chan["detokenizer"]) THEN chan["detokenizer"][i]
                          ELSE outbox["scheduler"][i - Len(chan["detokenizer"])]
BY DEF Coming, Shape, ChannelsOK, IsSeq, Channels, Workers

\* A chunk of a request that goes on has a successor, or its request is in the engine.
Covered(coming, live) ==
  \A i \in DOMAIN coming : ~coming[i].finished =>
    \/ coming[i].rid \in live
    \/ \E j \in DOMAIN coming : j > i /\ coming[j].finished /\ coming[j].rid = coming[i].rid

\* A request the detokenizer remembers is in the engine, or its last chunk comes.
Remembered(states, coming, live) ==
  \A r \in states :
    r \in live \/ \E j \in DOMAIN coming : coming[j].finished /\ coming[j].rid = r

\* The detokenizer takes a chunk.
LEMMA TakeChunk ==
  ASSUME NEW c, NEW d, NEW n \in Nat \ {0}, DOMAIN c = 1..n, DOMAIN d = 1..(n - 1),
         \A i \in 1..(n - 1) : d[i] = c[i + 1],
         NEW live, NEW states, Covered(c, live), Remembered(states, c, live)
  PROVE  /\ Covered(d, live)
         /\ c[1].finished => Remembered(states \ {c[1].rid}, d, live)
         /\ ~c[1].finished => Remembered(states \cup {c[1].rid}, d, live)
<1>1. \A i \in 1..(n - 1) : i + 1 \in 1..n /\ i \in Nat
  OBVIOUS
<1>2. ASSUME NEW j \in 1..n, j # 1 PROVE j - 1 \in 1..(n - 1) /\ d[j - 1] = c[j]
  <2>1. j - 1 \in 1..(n - 1) /\ (j - 1) + 1 = j
    BY <1>2
  <2> QED BY <2>1
<1>3. Covered(d, live)
  <2> SUFFICES ASSUME NEW i \in 1..(n - 1), ~d[i].finished, d[i].rid \notin live
               PROVE  \E j \in DOMAIN d : j > i /\ d[j].finished /\ d[j].rid = d[i].rid
    BY DEF Covered
  <2>1. i + 1 \in 1..n /\ c[i + 1] = d[i]
    BY <1>1
  <2>2. PICK j \in 1..n : j > i + 1 /\ c[j].finished /\ c[j].rid = d[i].rid
    BY <2>1 DEF Covered
  <2>3. PICK l : l = j - 1
    OBVIOUS
  <2>4. j # 1 /\ l > i
    BY <2>2, <2>3
  <2>5. l \in DOMAIN d /\ d[l] = c[j]
    BY <1>2, <2>3, <2>4
  <2> QED BY ONLY <2>2, <2>4, <2>5
<1>4. ASSUME NEW r \in states, r \notin live, ~(c[1].finished /\ c[1].rid = r)
      PROVE  \E j \in DOMAIN d : d[j].finished /\ d[j].rid = r
  <2>1. PICK j \in 1..n : c[j].finished /\ c[j].rid = r
    BY <1>4 DEF Remembered
  <2>2. j # 1
    BY <2>1, <1>4
  <2> QED BY <2>1, <2>2, <1>2
<1>5. ASSUME ~c[1].finished, c[1].rid \notin live
      PROVE  \E j \in DOMAIN d : d[j].finished /\ d[j].rid = c[1].rid
  <2>1. 1 \in 1..n
    OBVIOUS
  <2>2. PICK j \in 1..n : j > 1 /\ c[j].finished /\ c[j].rid = c[1].rid
    BY <1>5, <2>1 DEF Covered
  <2>3. PICK l : l = j - 1
    OBVIOUS
  <2>4. l \in DOMAIN d /\ d[l] = c[j]
    BY <1>2, <2>2, <2>3
  <2> QED BY ONLY <2>2, <2>4
<1>6. c[1].finished => Remembered(states \ {c[1].rid}, d, live)
  BY <1>4 DEF Remembered
<1>7. ~c[1].finished => Remembered(states \cup {c[1].rid}, d, live)
  BY <1>4, <1>5 DEF Remembered
<1> QED BY <1>3, <1>6, <1>7

\* The engine yields tokens: n chunks c were coming, d comes with the x new ones; of the
\* requests live some are over, and left are left.
ChunksAdded(c, d, n, x, live, left) ==
  /\ n \in Nat /\ x \in Nat /\ DOMAIN c = 1..n /\ DOMAIN d = 1..(n + x)
  /\ \A i \in 1..n : d[i] = c[i]
  /\ \A r \in live : r \in left \/ \E j \in (n + 1)..(n + x) : d[j].finished /\ d[j].rid = r
  /\ \A j \in (n + 1)..(n + x) : ~d[j].finished => d[j].rid \in left

LEMMA MoreChunks ==
  ASSUME NEW c, NEW d, NEW n, NEW x, NEW live, NEW left, ChunksAdded(c, d, n, x, live, left),
         NEW states, Covered(c, live), Remembered(states, c, live)
  PROVE  Covered(d, left) /\ Remembered(states, d, left)
<1> USE DEF ChunksAdded
<1>1. \A i \in 1..n : i \in 1..(n + x)
  OBVIOUS
<1>2. \A i \in (n + 1)..(n + x) : i \in 1..(n + x) /\ \A j \in 1..n : i > j
  OBVIOUS
<1>3. \A i \in 1..(n + x) : i \in 1..n \/ i \in (n + 1)..(n + x)
  OBVIOUS
<1>4. ASSUME NEW i \in 1..n, ~d[i].finished, d[i].rid \notin left
      PROVE  \E j \in DOMAIN d : j > i /\ d[j].finished /\ d[j].rid = d[i].rid
  <2>1. CASE d[i].rid \in live
    BY <2>1, <1>2, <1>4
  <2>2. CASE d[i].rid \notin live
    <3>1. PICK j \in 1..n : j > i /\ c[j].finished /\ c[j].rid = c[i].rid
      BY <2>2, <1>4 DEF Covered
    <3> QED BY <3>1, <1>1
  <2> QED BY <2>1, <2>2
<1>5. Covered(d, left)
  <2> SUFFICES ASSUME NEW i \in 1..(n + x), ~d[i].finished, d[i].rid \notin left
               PROVE  \E j \in DOMAIN d : j > i /\ d[j].finished /\ d[j].rid = d[i].rid
    BY DEF Covered
  <2> QED BY <1>3, <1>4
<1>6. ASSUME NEW r \in states, r \notin left
      PROVE  \E j \in DOMAIN d : d[j].finished /\ d[j].rid = r
  <2>1. CASE r \in live
    BY <2>1, <1>2, <1>6
  <2>2. CASE r \notin live
    <3>1. PICK j \in 1..n : c[j].finished /\ c[j].rid = r
      BY <2>2 DEF Remembered
    <3> QED BY <3>1, <1>1
  <2> QED BY <2>1, <2>2
<1> QED BY <1>5, <1>6 DEF Remembered

LEMMA StatesAreLiveDef ==
  StatesAreLive <=>
    /\ \A r \in DOMAIN prev_text : r \in 0..(next_rid - 1)
    /\ up = Workers => /\ SHUTDOWN \notin ToSet(chan["detokenizer"])
                       /\ Covered(Coming, Range(req_id_map))
                       /\ Remembered(DOMAIN prev_text, Coming, Range(req_id_map))
BY DEF StatesAreLive, Covered, Remembered

LEMMA StatesPreserved ==
  ASSUME Shape, Requests, Downstream, StatesAreLive, Next \/ UNCHANGED vars, Shape'
  PROVE  StatesAreLive'
<1> DEFINE B    == chan["detokenizer"]
           A    == outbox["scheduler"]
           live == Range(req_id_map)
           mem  == DOMAIN prev_text
           Goal == /\ \A r \in mem' : r \in 0..(next_rid' - 1)
                   /\ up' = Workers => /\ SHUTDOWN \notin ToSet(B')
                                       /\ Covered(Coming', live') /\ Remembered(mem', Coming', live')
<1>0. /\ \A r \in mem : r \in 0..(next_rid - 1)
      /\ up = Workers => /\ SHUTDOWN \notin ToSet(B)
                         /\ Covered(Coming, live) /\ Remembered(mem, Coming, live)
      /\ next_rid \in Nat
      /\ IsSeq(A) /\ IsSeq(B) /\ DOMAIN chan = Channels /\ DOMAIN outbox = Workers
      /\ Workers = {"tokenizer", "scheduler", "detokenizer"}
      /\ Channels = {"tokenizer", "scheduler", "detokenizer", "client"}
      /\ up \subseteq Workers
  BY StatesAreLiveDef DEF Shape, ClientOK, ChannelsOK, Channels, Workers
<1>a. SUFFICES Goal
  <2>1. (StatesAreLive <=>
          /\ \A r \in DOMAIN prev_text : r \in 0..(next_rid - 1)
          /\ up = Workers => /\ SHUTDOWN \notin ToSet(chan["detokenizer"])
                             /\ Covered(Coming, Range(req_id_map))
                             /\ Remembered(DOMAIN prev_text, Coming, Range(req_id_map)))'
    BY StatesAreLiveDef, PTL
  <2> QED BY <1>a, <2>1
<1>b. /\ Len(B) \in Nat /\ Len(A) \in Nat /\ DOMAIN Coming = 1..(Len(B) + Len(A))
      /\ \A i \in DOMAIN Coming : Coming[i] = IF i <= Len(B) THEN B[i] ELSE A[i - Len(B)]
  BY ComingDef
<1>c. /\ Len(B') \in Nat /\ Len(A') \in Nat /\ DOMAIN Coming' = 1..(Len(B') + Len(A'))
      /\ \A i \in DOMAIN Coming' : Coming'[i] = IF i <= Len(B') THEN B'[i] ELSE A'[i - Len(B')]
  BY DEF Coming, Shape, ChannelsOK, IsSeq, Channels, Workers
<1>1. ASSUME B' = B, A' = A, mem' = mem, live \subseteq live', up' = up,
             next_rid' \in Nat, next_rid' >= next_rid
      PROVE  Goal
  <2>1. Coming' = Coming
    BY <1>1 DEF Coming
  <2> HIDE DEF B, A, live, mem
  <2>2. Covered(Coming, live) => Covered(Coming, live')
    BY <1>1 DEF Covered
  <2>3. Remembered(mem, Coming, live) => Remembered(mem, Coming, live')
    BY <1>1 DEF Remembered
  <2>4. \A r \in mem' : r \in 0..(next_rid' - 1)
    BY <1>0, <1>1
  <2> QED BY <2>1, <2>2, <2>3, <2>4, <1>0, <1>1
<1>2. ASSUME up' # Workers, prev_text' = prev_text, next_rid' = next_rid PROVE Goal
  BY <1>0, <1>2
<1>3. ASSUME Start \/ Stop PROVE Goal
  <2>1. B' = << >> /\ A' = << >> /\ mem' = {}
    BY <1>0, <1>3 DEF Start, Stop, Fresh
  <2> HIDE DEF B, A, live, mem
  <2>2. DOMAIN Coming' = {} /\ SHUTDOWN \notin ToSet(B')
    BY <2>1, <1>c, EmptyIsSeq
  <2> QED BY <2>1, <2>2 DEF Covered, Remembered
<1>4. ASSUME NEW w \in Workers, Leave(w), UNCHANGED <<prev_text, next_rid>> PROVE Goal
  <2>1. up' # Workers
    BY <1>4 DEF Leave
  <2> QED BY <2>1, <1>2, <1>4
<1>5. ASSUME Send("scheduler") PROVE Goal
  <2> DEFINE m == Head(A)
  <2>1. /\ A # << >> /\ B' = Append(B, m) /\ A' = Tail(A)
        /\ mem' = mem /\ live' = live /\ up' = up /\ next_rid' = next_rid
    BY <1>0, <1>5, NextHops DEF Send, client, workers
  <2>2. m \in ToSet(A)
    BY <1>0, <2>1, TailSet
  <2>3. m # SHUTDOWN
    BY <2>2, ShutdownIsNone DEF Downstream
  <2> HIDE DEF B, A, live, mem
  <2>4. ToSet(B') = ToSet(B) \cup {m} /\ Len(B') = Len(B) + 1
    BY <2>1, <1>0, AppendSet
  <2>5. Len(A') = Len(A) - 1 /\ m = A[1] /\ \A i \in 1..Len(A) - 1 : A'[i] = A[i + 1]
    BY <2>1, <1>0, TailSet
  <2>6. B'[Len(B) + 1] = m /\ \A i \in 1..Len(B) : B'[i] = B[i]
    BY <2>1, <1>0, <1>b DEF IsSeq
  <2>7. Len(A) \in Nat \ {0}
    BY <2>1, <1>0, TailSet
  <2>8. DOMAIN Coming' = DOMAIN Coming
    BY <2>4, <2>5, <2>7, <1>b, <1>c
  <2>9. ASSUME NEW i \in DOMAIN Coming PROVE Coming'[i] = Coming[i]
    <3>1. CASE i <= Len(B)
      BY <3>1, <2>4, <2>6, <2>8, <1>b, <1>c
    <3>2. CASE i = Len(B) + 1
      <4>1. Coming'[i] = B'[i]
        BY <3>2, <2>4, <2>8, <1>b, <1>c
      <4>2. ~(i <= Len(B)) /\ i - Len(B) = 1
        BY ONLY <3>2, <1>b
      <4>3. Coming[i] = A[1]
        BY <4>2, <1>b
      <4> QED BY ONLY <4>1, <4>3, <3>2, <2>5, <2>6
    <3>3. CASE i > Len(B) + 1
      <4>1. /\ i \in Nat /\ ~(i <= Len(B)) /\ ~(i <= Len(B) + 1) /\ i - (Len(B) + 1) \in 1..Len(A) - 1
            /\ (i - (Len(B) + 1)) + 1 = i - Len(B)
        BY <3>3, <1>b
      <4> QED BY <4>1, <2>4, <2>5, <2>8, <1>b, <1>c
    <3> QED BY <3>1, <3>2, <3>3, <1>b
  <2>10. Covered(Coming, live) => Covered(Coming', live)
    BY <2>8, <2>9 DEF Covered
  <2>11. Remembered(mem, Coming, live) => Remembered(mem, Coming', live)
    BY <2>8, <2>9 DEF Remembered
  <2> QED BY <2>1, <2>3, <2>4, <2>10, <2>11, <1>0
<1>6. ASSUME AddRequest PROVE Goal
  <2>1. /\ B' = B /\ A' = A /\ mem' = mem /\ up' = up /\ next_rid' = next_rid
        /\ req_id_map' = Put(req_id_map, req_counter, Head(chan["scheduler"]).rid)
    BY <1>0, <1>6 DEF AddRequest, client
  <2>2. req_counter \notin DOMAIN req_id_map
    BY DEF Shape, EngineOK
  <2>3. /\ DOMAIN req_id_map \subseteq DOMAIN req_id_map'
        /\ \A e \in DOMAIN req_id_map : req_id_map'[e] = req_id_map[e]
    BY <2>1, <2>2 DEF Put
  <2>4. live \subseteq live'
    BY <2>3 DEF Range
  <2> HIDE DEF Goal, B, A, live, mem
  <2> QED BY <2>1, <2>4, <1>0, <1>1
<1>7. ASSUME EngineStep PROVE Goal
  <2>1. PICK S, ids, done, sent : EngineStepped(S, ids, done, sent)
    BY <1>7, EngineStepEffect
  <2>2. /\ A = << >> /\ B' = B /\ mem' = mem /\ up' = up /\ next_rid' = next_rid
    BY <1>7, EngineStepEffect DEF EngineStep, client
  <2>3. /\ Len(A') = Len(sent) /\ Len(sent) \in Nat
        /\ DOMAIN req_id_map = DOMAIN engine /\ S \subseteq DOMAIN engine /\ done \subseteq S
        /\ DOMAIN req_id_map' = DOMAIN req_id_map \ done
        /\ \A e \in DOMAIN req_id_map \ done : req_id_map'[e] = req_id_map[e]
        /\ \A e \in S : \E i \in 1..Len(sent) : sent[i] = e
    BY <2>1 DEF EngineStepped, Shape, EngineOK
  <2>4. ASSUME NEW i \in 1..Len(sent)
        PROVE  sent[i] \in S /\ A'[i].rid = req_id_map[sent[i]] /\ (A'[i].finished <=> sent[i] \in done)
    <3>1. sent[i] \in S /\ A'[i] = [rid |-> req_id_map[sent[i]], output_token_ids |-> ids[sent[i]],
                                    finished |-> sent[i] \in done]
      BY <2>1 DEF EngineStepped
    <3> HIDE DEF A
    <3>2. A'[i].rid = req_id_map[sent[i]] /\ A'[i].finished = (sent[i] \in done)
      BY <3>1
    <3> QED BY <3>1, <3>2
  <2> DEFINE n == Len(B)
             x == Len(sent)
  <2>5. Len(A) = 0
    BY <2>2, EmptyIsSeq
  <2> HIDE DEF A, B, mem
  <2>6. /\ DOMAIN Coming = 1..n /\ DOMAIN Coming' = 1..(n + x) /\ n \in Nat /\ x \in Nat
        /\ \A i \in 1..n : Coming'[i] = Coming[i]
    BY <2>2, <2>3, <2>5, <1>b, <1>c
  <2>7. ASSUME NEW j \in 1..x PROVE n + j \in (n + 1)..(n + x) /\ Coming'[n + j] = A'[j]
    <3>1. n + j \in 1..(n + x) /\ ~(n + j <= n) /\ (n + j) - n = j /\ n + j \in (n + 1)..(n + x)
      BY <2>6
    <3> QED BY <3>1, <2>2, <2>6, <1>c
  <2>8. ASSUME NEW r \in live
        PROVE  r \in live' \/ \E j \in (n + 1)..(n + x) : Coming'[j].finished /\ Coming'[j].rid = r
    <3>1. PICK e \in DOMAIN req_id_map : req_id_map[e] = r
      BY DEF Range
    <3>2. CASE e \notin done
      BY <3>1, <3>2, <2>3 DEF Range
    <3>3. CASE e \in done
      <4>1. PICK i \in 1..Len(sent) : sent[i] = e
        BY <3>3, <2>3
      <4>2. A'[i].finished /\ A'[i].rid = r
        BY <4>1, <3>1, <3>3, <2>4
      <4> QED BY <4>1, <4>2, <2>7
    <3> QED BY <3>2, <3>3
  <2>9. ASSUME NEW j \in (n + 1)..(n + x), ~Coming'[j].finished
        PROVE  Coming'[j].rid \in live'
    <3>1. j - n \in 1..x /\ n + (j - n) = j
      BY <2>6
    <3>2. Coming'[j] = A'[j - n]
      BY <3>1, <2>7
    <3>3. sent[j - n] \in S \ done /\ Coming'[j].rid = req_id_map[sent[j - n]]
      BY <3>1, <3>2, <2>4, <2>9
    <3> QED BY <3>3, <2>3 DEF Range
  <2> HIDE DEF n, x, live
  <2>10. ASSUME Covered(Coming, live), Remembered(mem, Coming, live)
         PROVE  Covered(Coming', live') /\ Remembered(mem, Coming', live')
    <3> DEFINE c == Coming
               d == Coming'
               left == live'
    <3>1. ChunksAdded(c, d, n, x, live, left)
      BY <2>6, <2>8, <2>9 DEF ChunksAdded
    <3>2. Covered(c, live) /\ Remembered(mem, c, live)
      BY <2>10
    <3> HIDE DEF c, d, left
    <3>3. Covered(d, left) /\ Remembered(mem, d, left)
      BY <3>1, <3>2, MoreChunks
    <3> QED BY <3>3 DEF d, left
  <2> QED BY <2>2, <2>10, <1>0
<1>8. ASSUME Detokenize PROVE Goal
  <2> DEFINE chunk == Head(B)
  <2>1. /\ B # << >> /\ chunk # SHUTDOWN /\ B' = Tail(B) /\ A' = A /\ prev_text' = StatesAfter(chunk)
        /\ live' = live /\ up' = up /\ next_rid' = next_rid
    BY <1>0, <1>8 DEF Detokenize, client
  <2>2. chunk \in ToSet(B)
    BY <2>1, <1>0, TailSet
  <2>3. chunk.rid \in 0..(next_rid - 1)
    <3>1. AnswerOK(chunk)
      BY <2>1, <2>2 DEF Downstream
    <3> QED BY <3>1, <1>0, RidIs DEF AnswerOK
  <2> HIDE DEF chunk
  <2>4. mem' = IF chunk.finished THEN mem \ {chunk.rid} ELSE mem \cup {chunk.rid}
    BY <2>1 DEF StatesAfter, Restrict, Put
  <2> HIDE DEF B, A, live, mem
  <2>5. /\ Len(B') = Len(B) - 1 /\ Len(B) \in Nat \ {0} /\ chunk = B[1]
        /\ \A i \in 1..Len(B) - 1 : B'[i] = B[i + 1]
    BY <2>1, <1>0, TailSet DEF chunk
  <2> DEFINE n == Len(B) + Len(A)
  <2>6. /\ n \in Nat \ {0} /\ DOMAIN Coming = 1..n /\ DOMAIN Coming' = 1..(n - 1)
        /\ Coming[1] = chunk
    BY <2>1, <2>5, <1>b, <1>c
  <2>7. ASSUME NEW i \in 1..(n - 1) PROVE Coming'[i] = Coming[i + 1]
    <3>1. i + 1 \in 1..n /\ (i + 1) - Len(B) = i - (Len(B) - 1)
      BY <2>5, <1>b
    <3>2. CASE i <= Len(B) - 1
      <4>1. i \in 1..Len(B) - 1 /\ i + 1 <= Len(B) /\ i <= Len(B')
        BY <3>2, <2>5
      <4> QED BY <3>1, <4>1, <2>5, <2>6, <1>b, <1>c
    <3>3. CASE ~(i <= Len(B) - 1)
      <4>1. ~(i + 1 <= Len(B)) /\ ~(i <= Len(B'))
        BY <3>3, <2>5
      <4> QED BY <3>1, <4>1, <2>1, <2>5, <2>6, <1>b, <1>c
    <3> QED BY <3>2, <3>3
  <2> HIDE DEF n
  <2>8. ASSUME Covered(Coming, live), Remembered(mem, Coming, live)
        PROVE  Covered(Coming', live) /\ Remembered(mem', Coming', live)
    <3> DEFINE c == Coming
               d == Coming'
    <3>1. /\ n \in Nat \ {0} /\ DOMAIN c = 1..n /\ DOMAIN d = 1..(n - 1)
          /\ \A i \in 1..(n - 1) : d[i] = c[i + 1]
          /\ Covered(c, live) /\ Remembered(mem, c, live)
          /\ c[1] = chunk
      BY <2>6, <2>7, <2>8
    <3> HIDE DEF c, d
    <3>2. /\ Covered(d, live)
          /\ c[1].finished => Remembered(mem \ {c[1].rid}, d, live)
          /\ ~c[1].finished => Remembered(mem \cup {c[1].rid}, d, live)
      BY <3>1, TakeChunk
    <3>3. Remembered(mem', d, live)
      BY <3>1, <3>2, <2>4
    <3> QED BY <3>2, <3>3 DEF d
  <2>9. ToSet(B') \subseteq ToSet(B)
    BY <2>1, <1>0, TailSet
  <2>10. \A r \in mem' : r \in 0..(next_rid' - 1)
    BY <2>1, <2>3, <2>4, <1>0
  <2> QED BY <2>1, <2>8, <2>9, <2>10, <1>0
<1>9. ASSUME NEW k \in Calls, SendRequest(k) PROVE Goal
  <2>1. B' = B /\ A' = A /\ mem' = mem /\ live' = live /\ up' = up /\ next_rid' = next_rid + 1
    BY <1>0, <1>9 DEF SendRequest, workers
  <2> HIDE DEF Goal, B, A, live, mem
  <2> QED BY <2>1, <1>0, <1>1
<1>10. ASSUME UNCHANGED <<B, A, prev_text, req_id_map, up, next_rid>> PROVE Goal
  <2>1. B' = B /\ A' = A /\ mem' = mem /\ live' = live /\ up' = up /\ next_rid' = next_rid
    BY <1>10
  <2> HIDE DEF Goal, B, A, live, mem
  <2> QED BY <2>1, <1>0, <1>1
<1>11. ASSUME NEW k \in Calls, RecvResponse(k) PROVE Goal
  <2>1. UNCHANGED <<B, A, prev_text, req_id_map, up, next_rid>>
    BY <1>0, <1>11 DEF RecvResponse, workers
  <2> QED BY <2>1, <1>10
<1>12. ASSUME NEW k \in Calls, Enter(k) \/ ResumeStopped(k) \/ RecvTimeout(k) PROVE Goal
  <2>1. UNCHANGED <<B, A, prev_text, req_id_map, up, next_rid>>
    BY <1>12 DEF Enter, ResumeStopped, RecvTimeout, workers
  <2> QED BY <2>1, <1>10
<1>13. ASSUME NEW w \in Workers, w # "scheduler", Send(w) PROVE Goal
  <2>1. UNCHANGED <<B, A, prev_text, req_id_map, up, next_rid>>
    BY <1>0, <1>13, NextHops DEF Send, client, workers
  <2> QED BY <2>1, <1>10
<1>14. ASSUME Tokenize \/ UNCHANGED vars \/ \E e \in DOMAIN engine : Retract(e) PROVE Goal
  <2>1. UNCHANGED <<B, A, prev_text, req_id_map, up, next_rid>>
    BY <1>0, <1>14 DEF Tokenize, Retract, client, workers, vars
  <2> QED BY <2>1, <1>10
<1>15. ASSUME NEW w \in Workers, Fail(w) PROVE Goal
  BY <1>15, <1>4 DEF Fail, client, workers
<1>16. ASSUME Shutdown PROVE Goal
  BY <1>16, <1>4 DEF Shutdown, Workers, client, workers
<1> HIDE DEF Goal
<1> QED BY <1>3, <1>5, <1>6, <1>7, <1>8, <1>9, <1>11, <1>12, <1>13, <1>14, <1>15, <1>16
        DEF Next, ClientStep, TokenizerStep, SchedulerStep, DetokenizerStep, Workers

---------------------------------------------------------------------------
\* The theorems.

LEMMA PipelineInit ==
  ASSUME Init
  PROVE  PipelineInv
<1> USE PipelineAssumption
<1>1. /\ started = FALSE /\ next_rid = 0 /\ active = "none" /\ up = {} /\ failures = 0
      /\ call = [k \in Calls |-> NewCall]
      /\ chan = [c \in Channels |-> << >>] /\ outbox = [w \in Workers |-> << >>]
      /\ engine = << >> /\ req_counter = 0 /\ req_id_map = << >> /\ prev_text = << >>
      /\ final = << >> /\ retracted = {} /\ pending_requests = {}
  BY DEF Init
<1>2. \A k \in Calls :
        /\ DOMAIN call[k] = Fields
        /\ call[k].phase = "new" /\ call[k].rids = << >> /\ call[k].pending = {}
        /\ call[k].text = << >> /\ call[k].tokens = << >> /\ call[k].undisturbed = TRUE
  BY <1>1 DEF NewCall, Fields
<1>3. /\ \A c \in Channels : chan[c] = << >>
      /\ \A w \in Workers : outbox[w] = << >>
      /\ Workers = {"tokenizer", "scheduler", "detokenizer"}
      /\ Channels = {"tokenizer", "scheduler", "detokenizer", "client"}
  BY <1>1 DEF Workers, Channels
<1>4. IsSeq(<< >>) /\ ToSet(<< >>) = {} /\ Len(<< >>) = 0 /\ DOMAIN << >> = {} /\ << >> \in Seq(Nat)
  BY EmptyIsSeq
<1>5. ASSUME NEW k \in Calls PROVE CallOK(k)
  <2>1. /\ PromptsOf[k] \in Nat \ {0} /\ active # k
    BY <1>1
  <2>2. /\ call[k].phase = "new" /\ call[k].rids = << >> /\ call[k].pending = {}
        /\ DOMAIN call[k] = Fields
        /\ DOMAIN call[k].text = {} /\ DOMAIN call[k].tokens = {}
        /\ ToSet(call[k].rids) = {} /\ Len(call[k].rids) = 0
    BY <1>2, <1>4
  <2>3. Len(call[k].rids) <= PromptsOf[k] /\ Len(call[k].rids) < PromptsOf[k]
    <3>1. \A n \in Nat \ {0} : 0 <= n /\ 0 < n
      OBVIOUS
    <3> QED BY <2>1, <2>2, <3>1
  <2>4. call[k].rids \in Seq(Nat)
    BY <2>2, <1>4
  <2>5. call[k].undisturbed \in BOOLEAN
    BY <1>2
  <2>6. call[k].pending \subseteq ToSet(call[k].rids)
    BY <2>2
  <2> QED BY <2>1, <2>2, <2>3, <2>4, <2>5, <2>6 DEF CallOK, Phases
<1>6. FreshIds
  BY <1>2, <1>4 DEF FreshIds
<1>7. ClientOK
  BY <1>1, <1>5, <1>6 DEF ClientOK
<1>8. ChannelsOK
  BY <1>1, <1>3, <1>4 DEF ChannelsOK
<1>9. EngineOK
  BY <1>1, <1>4 DEF EngineOK
<1>10. \A p \in Prompts : ~Asked(p)
  BY <1>2, <1>4, PromptIs DEF Asked
<1>11. Requests
  <2>1. Queued /\ InEngine /\ \A p \in DOMAIN final : Asked(p)
    BY <1>1, <1>3, <1>4 DEF Queued, InEngine, OnceEach
  <2>2. PromptsIn(<< >>) = {} /\ InEnginePrompts = {} /\ DOMAIN final = {}
    BY <1>1, <1>4 DEF PromptsIn, InEnginePrompts
  <2>3. Apart({}, {}, {}, {}, {})
    BY DEF Apart
  <2> QED BY <2>1, <2>2, <2>3, <1>3, RequestsDef
<1>12. Downstream
  BY <1>3, <1>4 DEF Downstream
<1>13. Answered
  BY <1>10 DEF Answered
<1>14. Delivery /\ AnswersNotLost
  BY <1>1, <1>2, <1>3, <1>4 DEF Delivery, AnswersNotLost
<1>15. StatesAreLive
  BY <1>1, <1>4 DEF StatesAreLive, Workers
<1>16. PendingOK
  BY <1>1, <1>3, <1>4 DEF PendingOK, Passed, Range
<1> QED BY <1>7, <1>8, <1>9, <1>11, <1>12, <1>13, <1>14, <1>15, <1>16 DEF PipelineInv, Shape

LEMMA PipelineStep ==
  ASSUME PipelineInv, [Next]_vars
  PROVE  PipelineInv'
<1>1. /\ Shape /\ Requests /\ Downstream /\ Answered /\ Delivery /\ AnswersNotLost /\ StatesAreLive
      /\ PendingOK /\ (Next \/ UNCHANGED vars)
  BY DEF PipelineInv
<1>2. Shape'
  BY <1>1, ClientPreserved, ChannelsPreserved, EnginePreserved DEF Shape
<1>3. Requests' /\ Downstream' /\ Answered'
  BY <1>1, RequestsPreserved, DownstreamPreserved, AnsweredPreserved
<1>4. Delivery' /\ AnswersNotLost'
  BY <1>1, DeliveryPreserved, AnswersNotLostPreserved
<1>5. StatesAreLive' /\ PendingOK'
  BY <1>1, <1>2, StatesPreserved, PendingPreserved
<1> QED BY <1>2, <1>3, <1>4, <1>5 DEF PipelineInv

\* A request id means the same prompt in the client, the channels and the tables of the
\* workers, and what a call waits for is on its way, however the calls interleave.
THEOREM PipelineInvariant == Spec => []PipelineInv
<1>1. Init => PipelineInv
  BY PipelineInit
<1>2. PipelineInv /\ [Next]_vars => PipelineInv'
  BY PipelineStep
<1> QED BY <1>1, <1>2, PTL DEF Spec

\* A call that returns has, in order, the whole output of each of its prompts
\* (multi_process_engine.py:208-224, 253-263).
THEOREM OwnAnswersTheorem == Spec => []OwnAnswers
<1>1. ASSUME PipelineInv PROVE OwnAnswers
  <2> SUFFICES ASSUME NEW k \in Calls, call[k].phase = "returned", NEW i \in 1..PromptsOf[k]
               PROVE  <<k, i>> \in DOMAIN final /\ Answer(k, i) = final[<<k, i>>]
    BY DEF OwnAnswers
  <2>1. /\ call[k].pending = {} /\ ~(Len(call[k].rids) < PromptsOf[k])
        /\ Len(call[k].rids) \in Nat /\ PromptsOf[k] \in Nat
    BY <1>1, PipelineAssumption DEF PipelineInv, Shape, ClientOK, CallOK
  <2>2. <<k, i>> \in Prompts /\ <<k, i>>[1] = k /\ <<k, i>>[2] = i
    BY PromptIs
  <2>3. Asked(<<k, i>>) /\ RidOf(<<k, i>>) \notin call[k].pending
    BY <2>1, <2>2 DEF Asked
  <2>4. <<k, i>> \in DOMAIN final /\ call[k].tokens[RidOf(<<k, i>>)] = final[<<k, i>>]
    BY <1>1, <2>2, <2>3 DEF PipelineInv, Answered
  <2> QED BY <2>2, <2>4 DEF Answer, Rid, RidOf
<1> QED BY <1>1, PipelineInvariant, PTL

\* With answers never late, a call times out only if a worker failed or, for a stream, if
\* it was disturbed while it was suspended (multi_process_engine.py:208-224).
THEOREM AnswersNotLostTheorem == Spec => []AnswersNotLost
<1>1. PipelineInv => AnswersNotLost
  BY DEF PipelineInv
<1> QED BY <1>1, PipelineInvariant, PTL

\* The tables of the workers are well formed; req_id_map and decode_states hold nothing of
\* a request that is over (scheduler_worker.py:106-130, detokenizer_worker.py:90-100), and
\* what the engine has came through the tokenizer, which forgets none (tokenizer_worker.py:90).
THEOREM TablesAreLiveTheorem == Spec => []TablesAreLive
<1>1. ASSUME PipelineInv PROVE TypeOK
  <2>1. /\ Shape /\ DOMAIN prev_text \cup pending_requests \subseteq 0..(next_rid - 1)
    BY <1>1 DEF PipelineInv, StatesAreLive, PendingOK
  <2>2. ASSUME NEW k \in Calls, NEW q \in Calls, k # q
        PROVE  ToSet(call[k].rids) \cap ToSet(call[q].rids) = {}
    <3>1. /\ DOMAIN call[k].rids = 1..Len(call[k].rids) /\ DOMAIN call[q].rids = 1..Len(call[q].rids)
      BY <2>1 DEF Shape, ClientOK, CallOK
    <3> QED BY <2>1, <2>2, <3>1 DEF ToSet, Shape, ClientOK, FreshIds
  <2>3. \A k \in Calls :
          /\ call[k].phase \in Phases
          /\ call[k].pending \subseteq ToSet(call[k].rids)
          /\ DOMAIN call[k].text = ToSet(call[k].rids) /\ DOMAIN call[k].tokens = ToSet(call[k].rids)
    BY <2>1 DEF Shape, ClientOK, CallOK
  <2>4. /\ started \in BOOLEAN /\ next_rid \in Nat /\ active \in Calls \cup {"none"}
    BY <2>1 DEF Shape, ClientOK
  <2>5. /\ up \subseteq Workers /\ \A c \in Channels : Len(chan[c]) <= Capacity
        /\ DOMAIN req_id_map \cup DOMAIN engine \subseteq 0..(req_counter - 1)
        /\ DOMAIN final \cup retracted \subseteq Prompts
    BY <2>1 DEF Shape, ChannelsOK, EngineOK
  <2> QED BY <2>1, <2>2, <2>3, <2>4, <2>5 DEF TypeOK, Phases
<1>2. ASSUME PipelineInv PROVE MapsAreLive
  <2>1. DOMAIN req_id_map = DOMAIN engine /\ Range(req_id_map) \subseteq pending_requests
    BY <1>2 DEF PipelineInv, Shape, EngineOK, PendingOK
  <2>2. ASSUME up = Workers, chan["detokenizer"] = << >>, outbox["scheduler"] = << >>
        PROVE  DOMAIN prev_text \subseteq Range(req_id_map)
    <3>1. DOMAIN Coming = {}
      BY <2>2, EmptyIsSeq DEF Coming
    <3> QED BY <1>2, <2>2, <3>1 DEF PipelineInv, StatesAreLive
  <2> QED BY <2>1, <2>2 DEF MapsAreLive
<1>3. PipelineInv => TablesAreLive
  BY <1>1, <1>2 DEF TablesAreLive
<1> QED BY <1>3, PipelineInvariant, PTL

---------------------------------------------------------------------------
\* The text of whole characters.

\* Every set of numbers has a least element.
LEMMA LeastNat ==
  ASSUME NEW T \in SUBSET Nat, T # {}
  PROVE  \E x \in T : \A y \in T : x <= y
<1>1. PICK x \in T : \A y \in T : ~ (<<y, x>> \in OpToRel(<, Nat))
  BY WFMin, NatLessThanWellFounded
<1>2. ASSUME NEW y \in T PROVE x <= y
  <2>1. y \in Nat /\ x \in Nat
    OBVIOUS
  <2>2. ~(y < x)
    BY <1>1, <2>1 DEF OpToRel
  <2> QED BY <2>1, <2>2
<1> QED BY <1>2

\* What holds at 0 and goes on from each number to the next holds up to n.
LEMMA Climb ==
  ASSUME NEW n \in Nat, NEW G, 0 \in G, \A i \in 1..n : i - 1 \in G => i \in G
  PROVE  0..n \subseteq G
<1> SUFFICES ASSUME ~(0..n \subseteq G) PROVE FALSE
  OBVIOUS
<1>1. (0..n) \ G \in SUBSET Nat /\ (0..n) \ G # {}
  OBVIOUS
<1>2. PICK x \in (0..n) \ G : \A y \in (0..n) \ G : x <= y
  BY <1>1, LeastNat
<1>3. x # 0 /\ x \in 1..n /\ x - 1 \in 0..n
  BY <1>2
<1>4. x - 1 \in G
  BY <1>2, <1>3
<1> QED BY <1>2, <1>3, <1>4

\* The characters among the first i tokens, and a text of n of them.
Chars(s, i) == Cardinality({j \in 1..i : s[j] = "char"})
Xs(n)       == [k \in 1..n |-> "x"]

LEMMA CharsGrow ==
  ASSUME NEW s, NEW i \in Nat
  PROVE  /\ Chars(s, i) \in Nat /\ Chars(s, 0) = 0
         /\ Chars(s, i + 1) = IF s[i + 1] = "char" THEN Chars(s, i) + 1 ELSE Chars(s, i)
<1> DEFINE A == {j \in 1..i : s[j] = "char"}
           B == {j \in 1..(i + 1) : s[j] = "char"}
<1>1. IsFiniteSet(A) /\ Cardinality(A) \in Nat
  <2>1. IsFiniteSet(1..i) /\ A \in SUBSET (1..i)
    BY FS_Interval
  <2> QED BY <2>1, FS_Subset, FS_CardinalityType
<1>2. {j \in 1..0 : s[j] = "char"} = {}
  OBVIOUS
<1>3. i + 1 \notin A /\ B = IF s[i + 1] = "char" THEN A \cup {i + 1} ELSE A
  <2>1. 1..(i + 1) = (1..i) \cup {i + 1} /\ i + 1 \notin 1..i
    OBVIOUS
  <2> QED BY <2>1
<1>4. Cardinality(A \cup {i + 1}) = Cardinality(A) + 1
  <2> HIDE DEF A
  <2> QED BY <1>1, <1>3, FS_AddElement
<1>5. Chars(s, i) = Cardinality(A) /\ Chars(s, i + 1) = Cardinality(B)
  BY DEF Chars
<1>6. Chars(s, 0) = 0
  BY <1>2, FS_EmptySet DEF Chars
<1> QED BY <1>1, <1>3, <1>4, <1>5, <1>6

LEMMA WholeNext ==
  ASSUME NEW x, NEW d, d = [text |-> x, open |-> FALSE]
  PROVE  DecodeNext(d, "char") = [text |-> Append(x, "x"), open |-> FALSE] /\ DecodeNext(d, "eos") = d
<1>1. d.text = x
  OBVIOUS
<1>2. DecodeNext(d, "char") = [text |-> Append(d.text, "x"), open |-> FALSE]
  BY DEF DecodeNext
<1>3. DecodeNext(d, "eos") = d
  BY DEF DecodeNext
<1> QED BY <1>1, <1>2, <1>3

\* Tokens that are whole characters decode to one character each, and EOS to none.
LEMMA WholeText ==
  ASSUME NEW s \in Seq(TokenIds), Whole(s)
  PROVE  Text(s) = Xs(Chars(s, Len(s)))
<1> DEFINE n == Len(s)
           b == [text |-> << >>, open |-> FALSE]
           g == [i \in 0..n |-> [text |-> Xs(Chars(s, i)), open |-> FALSE]]
           Runs(f) == f = [i \in 0..n |-> IF i = 0 THEN b ELSE DecodeNext(f[i - 1], s[i])]
           d == CHOOSE f : Runs(f)
<1>1. n \in Nat /\ \A i \in 1..n : s[i] \in {"char", "eos"}
  <2>1. \A i \in 1..n : s[i] \in TokenIds /\ s[i] \in ToSet(s)
    BY DEF ToSet
  <2>2. ASSUME NEW i \in 1..n PROVE s[i] \in {"char", "eos"}
    <3>1. s[i] # "first" /\ s[i] # "last"
      BY <2>1, <2>2 DEF Whole
    <3>2. s[i] \in {"char", "first", "last", "eos"}
      BY <2>1, <2>2, TokenAssumption
    <3> QED BY <3>1, <3>2
  <2> QED BY <2>2
<1>2. Text(s) = d[n].text
  BY DEF Text
<1> HIDE DEF n
<1>3. g[0] = b
  <2>1. Chars(s, 0) = 0
    BY CharsGrow
  <2>2. Xs(0) = << >>
    BY DEF Xs
  <2>3. 0 \in 0..n
    BY <1>1
  <2>4. g[0] = [text |-> Xs(Chars(s, 0)), open |-> FALSE]
    BY <2>3
  <2> QED BY <2>1, <2>2, <2>4
<1>4. ASSUME NEW i \in 1..n PROVE i - 1 \in 0..n /\ g[i] = DecodeNext(g[i - 1], s[i])
  <2>1. PICK j : j = i - 1
    OBVIOUS
  <2>2. j \in Nat /\ i = j + 1 /\ j \in 0..n /\ i \in 0..n
    BY <1>1, <2>1
  <2>3. PICK c : c = Chars(s, j)
    OBVIOUS
  <2>4. c \in Nat /\ Chars(s, i) = IF s[i] = "char" THEN c + 1 ELSE c
    BY <2>2, <2>3, CharsGrow
  <2>5. g[j] = [text |-> Xs(c), open |-> FALSE] /\ g[i] = [text |-> Xs(Chars(s, i)), open |-> FALSE]
    BY <2>2, <2>3
  <2>6. Append(Xs(c), "x") = Xs(c + 1)
    BY <2>4 DEF Xs
  <2>7. CASE s[i] = "char"
    <3>1. DecodeNext(g[j], s[i]) = [text |-> Append(Xs(c), "x"), open |-> FALSE]
      BY <2>5, <2>7, WholeNext
    <3> QED BY <3>1, <2>1, <2>2, <2>4, <2>5, <2>6, <2>7
  <2>8. CASE s[i] = "eos"
    <3>1. DecodeNext(g[j], s[i]) = g[j]
      BY <2>5, <2>8, WholeNext
    <3> QED BY <3>1, <2>1, <2>2, <2>4, <2>5, <2>8
  <2> QED BY <1>1, <2>7, <2>8
<1>5. Runs(g)
  <2> SUFFICES ASSUME NEW i \in 0..n PROVE g[i] = IF i = 0 THEN b ELSE DecodeNext(g[i - 1], s[i])
    OBVIOUS
  <2>1. i = 0 \/ i \in 1..n
    BY <1>1
  <2> HIDE DEF g, b
  <2> QED BY <2>1, <1>3, <1>4
<1>6. Runs(d)
  <2> HIDE DEF Runs
  <2> QED BY <1>5
<1> HIDE DEF d, g, b
<1>7. d[0] = b /\ \A i \in 1..n : d[i] = DecodeNext(d[i - 1], s[i])
  BY <1>1, <1>6
<1> DEFINE G == {i \in 0..n : d[i] = g[i]}
<1>8. 0 \in G
  BY <1>1, <1>3, <1>7
<1>9. \A i \in 1..n : i - 1 \in G => i \in G
  BY <1>1, <1>4, <1>7
<1> HIDE DEF G
<1>10. n \in G
  <2>1. 0..n \subseteq G
    BY <1>1, <1>8, <1>9, Climb
  <2> QED BY <1>1, <2>1
<1>11. d[n].text = g[n].text /\ g[n] = [text |-> Xs(Chars(s, n)), open |-> FALSE]
  BY <1>1, <1>10 DEF G, g
<1> QED BY <1>2, <1>11 DEF n

LEMMA TextOfNone == Text(<< >>) = << >>
<1>1. << >> \in Seq(TokenIds) /\ Len(<< >>) = 0 /\ Whole(<< >>)
  BY EmptyIsSeq DEF Whole
<1>2. Text(<< >>) = Xs(Chars(<< >>, 0))
  BY <1>1, WholeText
<1>3. Chars(<< >>, 0) = 0 /\ Xs(0) = << >>
  BY CharsGrow DEF Xs
<1> QED BY <1>2, <1>3

\* What a delta adds for one more token.
LEMMA WholeDelta ==
  ASSUME NEW s \in Seq(TokenIds), NEW t \in TokenIds, NEW u, u = Append(s, t), Whole(u)
  PROVE  Whole(s) /\ Text(s) \o SubSeq(Text(u), Len(Text(s)) + 1, Len(Text(u))) = Text(u)
<1>1. PICK n : n = Len(s)
  OBVIOUS
<1>2. n \in Nat /\ u \in Seq(TokenIds) /\ Len(u) = n + 1 /\ \A i \in 1..n : u[i] = s[i]
  BY <1>1
<1>3. Whole(s)
  <2>1. ToSet(s) \subseteq ToSet(u)
    <3>1. DOMAIN s = 1..n /\ DOMAIN u = 1..(n + 1)
      BY <1>1, <1>2
    <3> QED BY <3>1, <1>2 DEF ToSet
  <2> QED BY <2>1 DEF Whole
<1>4. PICK a, c : a = Chars(s, n) /\ c = Chars(u, n + 1)
  OBVIOUS
<1>5. a \in Nat /\ c \in Nat /\ a <= c
  <2>1. Chars(u, n) = Chars(s, n)
    <3>1. {j \in 1..n : u[j] = "char"} = {j \in 1..n : s[j] = "char"}
      BY <1>2
    <3> QED BY <3>1 DEF Chars
  <2>2. Chars(u, n) \in Nat /\ (c = Chars(u, n) \/ c = Chars(u, n) + 1)
    BY <1>2, <1>4, CharsGrow
  <2> QED BY <2>1, <2>2, <1>4
<1>6. Text(s) = Xs(a) /\ Text(u) = Xs(c)
  BY <1>1, <1>2, <1>3, <1>4, WholeText
<1>7. Xs(a) \o SubSeq(Xs(c), a + 1, c) = Xs(c) /\ Len(Xs(a)) = a /\ Len(Xs(c)) = c
  BY <1>5 DEF Xs
<1> QED BY <1>3, <1>6, <1>7

---------------------------------------------------------------------------
\* The messages about one request, on their way from the engine to the client.

\* Where a request is for one who has read its messages so far: the tokens, and whether
\* the last message was among them.  Here it was not.
At(x, ids) == x.ids = ids /\ ~x.over

\* The message m leads from x to y: one token more, and in an answer the text it adds.
Passes(m, r, x, y, answers) ==
  IF m.rid = r
  THEN /\ ~x.over /\ y = [ids |-> m.output_token_ids, over |-> m.finished]
       /\ \E t \in TokenIds : y.ids = Append(x.ids, t)
       /\ answers => m.delta_text =
            SubSeq(Text(y.ids), Len(Text(x.ids)) + 1, Len(Text(y.ids)))
  ELSE y = x

\* The messages of s lead from x to y.
Chain(s, r, x, y, answers) ==
  \E v : /\ DOMAIN v = 0..Len(s) /\ v[0] = x /\ v[Len(s)] = y
         /\ \A i \in 1..Len(s) : Passes(s[i], r, v[i - 1], v[i], answers)

LEMMA ChainNone ==
  ASSUME NEW r, NEW x, NEW answers
  PROVE  /\ Chain(<< >>, r, x, x, answers)
         /\ \A y : Chain(<< >>, r, x, y, answers) => y = x
<1>1. Chain(<< >>, r, x, x, answers)
  <2> DEFINE v == [i \in 0..0 |-> x]
  <2>1. DOMAIN v = 0..Len(<< >>) /\ v[0] = x /\ v[Len(<< >>)] = x
    OBVIOUS
  <2>2. \A i \in 1..Len(<< >>) : Passes(<< >>[i], r, v[i - 1], v[i], answers)
    OBVIOUS
  <2> HIDE DEF v
  <2> QED BY <2>1, <2>2 DEF Chain
<1>2. ASSUME NEW y, Chain(<< >>, r, x, y, answers) PROVE y = x
  BY <1>2 DEF Chain
<1> QED BY <1>1, <1>2

LEMMA ChainIdle ==
  ASSUME NEW s, IsSeq(s), NEW r, NEW x, NEW answers, \A m \in ToSet(s) : m.rid # r
  PROVE  Chain(s, r, x, x, answers)
<1> DEFINE v == [i \in 0..Len(s) |-> x]
<1>1. Len(s) \in Nat /\ \A i \in 1..Len(s) : s[i].rid # r
  BY IsSeqDef DEF ToSet
<1>2. DOMAIN v = 0..Len(s) /\ v[0] = x /\ v[Len(s)] = x
  BY <1>1
<1>3. \A i \in 1..Len(s) : v[i - 1] = x /\ v[i] = x
  BY <1>1
<1>4. \A i \in 1..Len(s) : Passes(s[i], r, v[i - 1], v[i], answers)
  <2> HIDE DEF v
  <2> QED BY <1>1, <1>3 DEF Passes
<1> HIDE DEF v
<1> QED BY <1>2, <1>4 DEF Chain

LEMMA ChainOne ==
  ASSUME NEW s, IsSeq(s), NEW j \in 1..Len(s), NEW r, NEW x, NEW y, NEW answers,
         Passes(s[j], r, x, y, answers), \A i \in 1..Len(s) : i # j => s[i].rid # r
  PROVE  Chain(s, r, x, y, answers)
<1> DEFINE v == [i \in 0..Len(s) |-> IF i < j THEN x ELSE y]
<1>1. Len(s) \in Nat
  BY IsSeqDef
<1>2. DOMAIN v = 0..Len(s) /\ v[0] = x /\ v[Len(s)] = y
  BY <1>1
<1>3. ASSUME NEW i \in 1..Len(s) PROVE Passes(s[i], r, v[i - 1], v[i], answers)
  <2>1. CASE i = j
    <3>1. v[i - 1] = x /\ v[i] = y
      BY <2>1, <1>1
    <3> HIDE DEF v
    <3> QED BY <2>1, <3>1
  <2>2. CASE i # j
    <3>1. v[i - 1] = v[i]
      BY <2>2, <1>1
    <3> HIDE DEF v
    <3> QED BY <2>2, <3>1 DEF Passes
  <2> QED BY <2>1, <2>2
<1> HIDE DEF v
<1> QED BY <1>2, <1>3 DEF Chain

LEMMA ChainAppend ==
  ASSUME NEW s, IsSeq(s), NEW m, NEW r, NEW x, NEW y, NEW z, NEW answers,
         Chain(s, r, x, y, answers), Passes(m, r, y, z, answers)
  PROVE  Chain(Append(s, m), r, x, z, answers)
<1>1. PICK n : n = Len(s)
  OBVIOUS
<1>2. PICK v : /\ DOMAIN v = 0..n /\ v[0] = x /\ v[n] = y
               /\ \A i \in 1..n : Passes(s[i], r, v[i - 1], v[i], answers)
  BY <1>1 DEF Chain
<1>3. PICK t : t = Append(s, m)
  OBVIOUS
<1>4. n \in Nat /\ Len(t) = n + 1 /\ t[n + 1] = m /\ \A i \in 1..n : t[i] = s[i]
  BY <1>1, <1>3 DEF IsSeq
<1> DEFINE u == [i \in 0..(n + 1) |-> IF i <= n THEN v[i] ELSE z]
<1>5. DOMAIN u = 0..(n + 1) /\ u[0] = x /\ u[n + 1] = z /\ u[n] = y
  BY <1>2, <1>4
<1>6. \A i \in 1..n : u[i - 1] = v[i - 1] /\ u[i] = v[i]
  BY <1>4
<1> HIDE DEF u
<1>7. ASSUME NEW i \in 1..(n + 1) PROVE Passes(t[i], r, u[i - 1], u[i], answers)
  <2>1. CASE i = n + 1
    <3>1. i - 1 = n
      BY <2>1, <1>4
    <3> QED BY <2>1, <3>1, <1>4, <1>5
  <2>2. CASE i # n + 1
    <3>1. i \in 1..n
      BY <2>2, <1>4
    <3> QED BY <3>1, <1>2, <1>4, <1>6
  <2> QED BY <2>1, <2>2
<1>8. Chain(t, r, x, z, answers)
  BY <1>4, <1>5, <1>7 DEF Chain
<1> QED BY <1>3, <1>8

LEMMA ChainTail ==
  ASSUME NEW s, IsSeq(s), s # << >>, NEW r, NEW x, NEW y, NEW answers, Chain(s, r, x, y, answers)
  PROVE  \E z : Passes(Head(s), r, x, z, answers) /\ Chain(Tail(s), r, z, y, answers)
<1>1. PICK n : n = Len(s)
  OBVIOUS
<1>2. PICK v : /\ DOMAIN v = 0..n /\ v[0] = x /\ v[n] = y
               /\ \A i \in 1..n : Passes(s[i], r, v[i - 1], v[i], answers)
  BY <1>1 DEF Chain
<1>3. PICK t : t = Tail(s)
  OBVIOUS
<1>4. n \in Nat \ {0} /\ Len(t) = n - 1 /\ Head(s) = s[1] /\ \A i \in 1..(n - 1) : t[i] = s[i + 1]
  BY <1>1, <1>3, TailSet
<1>5. Passes(Head(s), r, x, v[1], answers)
  <2>1. 1 \in 1..n /\ 1 - 1 = 0
    BY <1>4
  <2> QED BY <1>2, <1>4, <2>1
<1> DEFINE u == [i \in 0..(n - 1) |-> v[i + 1]]
<1>6. DOMAIN u = 0..(n - 1) /\ u[0] = v[1] /\ u[n - 1] = y
  BY <1>2, <1>4
<1>7. \A i \in 1..(n - 1) : u[i - 1] = v[i] /\ u[i] = v[i + 1]
  BY <1>4
<1> HIDE DEF u
<1>8. ASSUME NEW i \in 1..(n - 1) PROVE Passes(t[i], r, u[i - 1], u[i], answers)
  <2>1. i + 1 \in 1..n /\ (i + 1) - 1 = i
    BY <1>4
  <2>2. Passes(s[i + 1], r, v[i], v[i + 1], answers)
    BY <1>2, <2>1
  <2> QED BY <2>2, <1>4, <1>7
<1>9. Chain(t, r, v[1], y, answers)
  BY <1>4, <1>6, <1>8 DEF Chain
<1> QED BY <1>3, <1>5, <1>9

LEMMA ChainPrefix ==
  ASSUME NEW s, IsSeq(s), NEW n \in 0..Len(s), NEW r, NEW x, NEW y, NEW answers,
         Chain(s, r, x, y, answers)
  PROVE  \E z : Chain(SubSeq(s, 1, n), r, x, z, answers)
<1>1. PICK v : /\ DOMAIN v = 0..Len(s) /\ v[0] = x
               /\ \A i \in 1..Len(s) : Passes(s[i], r, v[i - 1], v[i], answers)
  BY DEF Chain
<1>2. PICK t : t = SubSeq(s, 1, n)
  OBVIOUS
<1>3. Len(s) \in Nat /\ Len(t) = n /\ \A i \in 1..n : t[i] = s[i]
  BY <1>2, IsSeqDef, PrefixSet
<1> DEFINE u == [i \in 0..n |-> v[i]]
<1>4. DOMAIN u = 0..n /\ u[0] = x /\ \A i \in 1..n : u[i - 1] = v[i - 1] /\ u[i] = v[i]
  BY <1>1, <1>3
<1> HIDE DEF u
<1>5. ASSUME NEW i \in 1..n PROVE Passes(t[i], r, u[i - 1], u[i], answers)
  <2>1. i \in 1..Len(s)
    BY <1>3
  <2> QED BY <2>1, <1>1, <1>3, <1>4
<1>6. Chain(t, r, x, u[n], answers)
  BY <1>3, <1>4, <1>5 DEF Chain
<1> QED BY <1>2, <1>6

\* After the last chunk under way a request is where the engine has it.
Engaged(z, made, working) == "scheduler" \in working => \A ids \in made : At(z, ids)

\* From the engine to the detokenizer, which knows the text of what it has read.
Behind(c, d, r, v, prev, made, working) ==
  "detokenizer" \in working =>
    /\ ~v.over => prev = Text(v.ids)
    /\ \E w, z : /\ Chain(c, r, v, w, FALSE) /\ Chain(d, r, w, z, FALSE)
                 /\ Engaged(z, made, working)

\* From the engine to the client, who has read the messages that lead to x.
Flow(a, b, c, d, r, x, prev, made, working) ==
  \E u, v : /\ Chain(a, r, x, u, TRUE) /\ Chain(b, r, u, v, TRUE)
            /\ Behind(c, d, r, v, prev, made, working)

LEMMA BehindLess ==
  ASSUME NEW c, NEW d, NEW r, NEW v, NEW prev, NEW made, NEW working,
         NEW made2, NEW working2,
         Behind(c, d, r, v, prev, made, working),
         made2 \subseteq made, working2 \subseteq working
  PROVE  Behind(c, d, r, v, prev, made2, working2)
<1> SUFFICES ASSUME "detokenizer" \in working2
             PROVE  /\ ~v.over => prev = Text(v.ids)
                    /\ \E w, z : /\ Chain(c, r, v, w, FALSE) /\ Chain(d, r, w, z, FALSE)
                                 /\ Engaged(z, made2, working2)
  BY DEF Behind
<1>1. /\ ~v.over => prev = Text(v.ids)
      /\ \E w, z : /\ Chain(c, r, v, w, FALSE) /\ Chain(d, r, w, z, FALSE)
                   /\ Engaged(z, made, working)
  BY DEF Behind
<1>2. ASSUME NEW z, Engaged(z, made, working) PROVE Engaged(z, made2, working2)
  BY <1>2 DEF Engaged
<1> QED BY <1>1, <1>2

LEMMA BehindSend ==
  ASSUME NEW c, NEW d, IsSeq(c), IsSeq(d), d # << >>,
         NEW r, NEW v, NEW prev, NEW made, NEW working,
         Behind(c, d, r, v, prev, made, working)
  PROVE  Behind(Append(c, Head(d)), Tail(d), r, v, prev, made, working)
<1> SUFFICES ASSUME "detokenizer" \in working
             PROVE  /\ ~v.over => prev = Text(v.ids)
                    /\ \E w, z : /\ Chain(Append(c, Head(d)), r, v, w, FALSE)
                                 /\ Chain(Tail(d), r, w, z, FALSE)
                                 /\ Engaged(z, made, working)
  BY DEF Behind
<1>1. /\ ~v.over => prev = Text(v.ids)
      /\ \E w, z : /\ Chain(c, r, v, w, FALSE) /\ Chain(d, r, w, z, FALSE)
                   /\ Engaged(z, made, working)
  BY DEF Behind
<1>2. PICK w, z : /\ Chain(c, r, v, w, FALSE) /\ Chain(d, r, w, z, FALSE)
                  /\ Engaged(z, made, working)
  BY <1>1
<1>3. PICK y : Passes(Head(d), r, w, y, FALSE) /\ Chain(Tail(d), r, y, z, FALSE)
  BY <1>2, ChainTail
<1>4. Chain(Append(c, Head(d)), r, v, y, FALSE)
  BY <1>2, <1>3, ChainAppend
<1> QED BY <1>1, <1>2, <1>3, <1>4

\* The detokenizer takes a chunk and answers.
LEMMA BehindTake ==
  ASSUME NEW c, NEW d, IsSeq(c), c # << >>,
         NEW r, NEW v, NEW prev, NEW made, NEW working,
         Behind(c, d, r, v, prev, made, working), "detokenizer" \in working,
         NEW m, m.rid = Head(c).rid, m.finished = Head(c).finished,
         m.output_token_ids = Head(c).output_token_ids,
         NEW prev2, Head(c).rid # r => prev2 = prev,
         Head(c).rid = r =>
           /\ m.delta_text = SubSeq(Text(m.output_token_ids), Len(prev) + 1, Len(Text(m.output_token_ids)))
           /\ ~m.finished => prev2 = Text(m.output_token_ids)
  PROVE  \E y : Passes(m, r, v, y, TRUE) /\ Behind(Tail(c), d, r, y, prev2, made, working)
<1>1. /\ ~v.over => prev = Text(v.ids)
      /\ \E w, z : /\ Chain(c, r, v, w, FALSE) /\ Chain(d, r, w, z, FALSE)
                   /\ Engaged(z, made, working)
  BY DEF Behind
<1>2. PICK w, z : /\ Chain(c, r, v, w, FALSE) /\ Chain(d, r, w, z, FALSE)
                  /\ Engaged(z, made, working)
  BY <1>1
<1>3. PICK y : Passes(Head(c), r, v, y, FALSE) /\ Chain(Tail(c), r, y, w, FALSE)
  BY <1>2, ChainTail
<1>4. Passes(m, r, v, y, TRUE) /\ (~y.over => prev2 = Text(y.ids))
  <2>1. CASE Head(c).rid = r
    <3>1. /\ ~v.over /\ y = [ids |-> m.output_token_ids, over |-> m.finished]
          /\ \E t \in TokenIds : y.ids = Append(v.ids, t)
      BY <1>3, <2>1 DEF Passes
    <3>2. y.ids = m.output_token_ids /\ y.over = m.finished
      BY <3>1
    <3>3. m.delta_text = SubSeq(Text(y.ids), Len(Text(v.ids)) + 1, Len(Text(y.ids)))
      BY <1>1, <2>1, <3>1, <3>2
    <3> QED BY <2>1, <3>1, <3>2, <3>3 DEF Passes
  <2>2. CASE Head(c).rid # r
    BY <1>1, <1>3, <2>2 DEF Passes
  <2> QED BY <2>1, <2>2
<1>5. Behind(Tail(c), d, r, y, prev2, made, working)
  BY <1>2, <1>3, <1>4 DEF Behind
<1> QED BY <1>4, <1>5

\* The engine makes no token of this request.
LEMMA BehindIdle ==
  ASSUME NEW c, NEW d, IsSeq(d), NEW r, \A m \in ToSet(d) : m.rid # r,
         NEW v, NEW prev, NEW made, NEW working,
         Behind(c, << >>, r, v, prev, made, working)
  PROVE  Behind(c, d, r, v, prev, made, working)
<1> SUFFICES ASSUME "detokenizer" \in working
             PROVE  /\ ~v.over => prev = Text(v.ids)
                    /\ \E w, z : /\ Chain(c, r, v, w, FALSE) /\ Chain(d, r, w, z, FALSE)
                                 /\ Engaged(z, made, working)
  BY DEF Behind
<1>1. /\ ~v.over => prev = Text(v.ids)
      /\ \E w, z : /\ Chain(c, r, v, w, FALSE) /\ Chain(<< >>, r, w, z, FALSE)
                   /\ Engaged(z, made, working)
  BY DEF Behind
<1>2. PICK w, z : /\ Chain(c, r, v, w, FALSE) /\ Chain(<< >>, r, w, z, FALSE)
                  /\ Engaged(z, made, working)
  BY <1>1
<1>3. z = w /\ Chain(d, r, w, w, FALSE)
  BY <1>2, ChainNone, ChainIdle
<1> QED BY <1>1, <1>2, <1>3

\* The engine makes a token of it.
LEMMA BehindToken ==
  ASSUME NEW c, NEW d, IsSeq(d), NEW r, NEW j \in 1..Len(d),
         \A i \in 1..Len(d) : i # j => d[i].rid # r,
         NEW v, NEW prev, NEW made, NEW working, "scheduler" \in working,
         Behind(c, << >>, r, v, prev, made, working),
         NEW ids \in made, NEW t \in TokenIds,
         d[j].rid = r, d[j].output_token_ids = Append(ids, t),
         NEW made2,
         \A more \in made2 : ~d[j].finished /\ more = Append(ids, t)
  PROVE  Behind(c, d, r, v, prev, made2, working)
<1> SUFFICES ASSUME "detokenizer" \in working
             PROVE  /\ ~v.over => prev = Text(v.ids)
                    /\ \E w, z : /\ Chain(c, r, v, w, FALSE) /\ Chain(d, r, w, z, FALSE)
                                 /\ Engaged(z, made2, working)
  BY DEF Behind
<1>1. /\ ~v.over => prev = Text(v.ids)
      /\ \E w, z : /\ Chain(c, r, v, w, FALSE) /\ Chain(<< >>, r, w, z, FALSE)
                   /\ Engaged(z, made, working)
  BY DEF Behind
<1>2. PICK w, z : /\ Chain(c, r, v, w, FALSE) /\ Chain(<< >>, r, w, z, FALSE)
                  /\ Engaged(z, made, working)
  BY <1>1
<1>3. z = w /\ At(z, ids)
  BY <1>2, ChainNone DEF Engaged
<1> DEFINE y == [ids |-> Append(ids, t), over |-> d[j].finished]
<1>4. Passes(d[j], r, w, y, FALSE)
  <2>1. w.ids = ids /\ ~w.over
    BY <1>3 DEF At
  <2>2. y.ids = Append(w.ids, t)
    BY <2>1
  <2>3. y = [ids |-> d[j].output_token_ids, over |-> d[j].finished]
    OBVIOUS
  <2> HIDE DEF y
  <2> QED BY <2>1, <2>2, <2>3 DEF Passes
<1>5. Engaged(y, made2, working)
  BY DEF Engaged, At
<1> HIDE DEF y
<1>6. Chain(d, r, w, y, FALSE)
  BY <1>4, ChainOne
<1> QED BY <1>1, <1>2, <1>5, <1>6

\* The scheduler leaves.
LEMMA BehindLeft ==
  ASSUME NEW c, IsSeq(c), NEW m, NEW r, m.rid # r, NEW n \in 0..(Len(c) + 1),
         NEW v, NEW prev, NEW made, NEW working, NEW working2,
         working2 = working \ {"scheduler"},
         Behind(c, << >>, r, v, prev, made, working)
  PROVE  Behind(SubSeq(c \o <<m>>, 1, n), << >>, r, v, prev, made, working2)
<1> SUFFICES ASSUME "detokenizer" \in working2
             PROVE  /\ ~v.over => prev = Text(v.ids)
                    /\ \E w, z : /\ Chain(SubSeq(c \o <<m>>, 1, n), r, v, w, FALSE)
                                 /\ Chain(<< >>, r, w, z, FALSE)
                                 /\ Engaged(z, made, working2)
  BY DEF Behind
<1>1. /\ ~v.over => prev = Text(v.ids)
      /\ \E w, z : Chain(c, r, v, w, FALSE) /\ Chain(<< >>, r, w, z, FALSE)
  BY DEF Behind
<1>2. PICK w : Chain(c, r, v, w, FALSE)
  BY <1>1
<1>3. PICK t : t = Append(c, m)
  OBVIOUS
<1>4. IsSeq(t) /\ Len(t) = Len(c) + 1 /\ Chain(t, r, v, w, FALSE)
  BY <1>2, <1>3, AppendSet, ChainAppend DEF Passes
<1>5. c \o <<m>> = t
  BY <1>3, IsSeqDef
<1>6. PICK y : Chain(SubSeq(t, 1, n), r, v, y, FALSE)
  BY <1>4, ChainPrefix
<1>7. Chain(<< >>, r, y, y, FALSE) /\ Engaged(y, made, working2)
  BY ChainNone DEF Engaged
<1> QED BY <1>1, <1>5, <1>6, <1>7

\* The client reads an answer.
LEMMA FlowRead ==
  ASSUME NEW a, IsSeq(a), a # << >>, NEW b, NEW c, NEW d, NEW r, NEW x, NEW prev, NEW made, NEW working, Flow(a, b, c, d, r, x, prev, made, working)
  PROVE  \E y : /\ Passes(Head(a), r, x, y, TRUE)
                /\ Flow(Tail(a), b, c, d, r, y, prev, made, working)
<1>1. PICK u, v : /\ Chain(a, r, x, u, TRUE) /\ Chain(b, r, u, v, TRUE)
                  /\ Behind(c, d, r, v, prev, made, working)
  BY DEF Flow
<1>2. PICK y : Passes(Head(a), r, x, y, TRUE) /\ Chain(Tail(a), r, y, u, TRUE)
  BY <1>1, ChainTail
<1> QED BY <1>1, <1>2 DEF Flow

\* The detokenizer sends it.
LEMMA FlowAnswered ==
  ASSUME NEW a, NEW b, IsSeq(a), IsSeq(b), b # << >>, NEW c, NEW d, NEW r, NEW x, NEW prev,
         NEW made, NEW working, Flow(a, b, c, d, r, x, prev, made, working)
  PROVE  Flow(Append(a, Head(b)), Tail(b), c, d, r, x, prev, made, working)
<1>1. PICK u, v : /\ Chain(a, r, x, u, TRUE) /\ Chain(b, r, u, v, TRUE)
                  /\ Behind(c, d, r, v, prev, made, working)
  BY DEF Flow
<1>2. PICK y : Passes(Head(b), r, u, y, TRUE) /\ Chain(Tail(b), r, y, v, TRUE)
  BY <1>1, ChainTail
<1>3. Chain(Append(a, Head(b)), r, x, y, TRUE)
  BY <1>1, <1>2, ChainAppend
<1> QED BY <1>1, <1>2, <1>3 DEF Flow

\* The detokenizer makes it of a chunk.
LEMMA FlowTaken ==
  ASSUME NEW a, NEW c, NEW d, IsSeq(c), c # << >>,
         NEW r, NEW x, NEW prev, NEW made, NEW working,
         Flow(a, << >>, c, d, r, x, prev, made, working), "detokenizer" \in working,
         NEW m, m.rid = Head(c).rid, m.finished = Head(c).finished,
         m.output_token_ids = Head(c).output_token_ids,
         NEW prev2, Head(c).rid # r => prev2 = prev,
         Head(c).rid = r =>
           /\ m.delta_text = SubSeq(Text(m.output_token_ids), Len(prev) + 1, Len(Text(m.output_token_ids)))
           /\ ~m.finished => prev2 = Text(m.output_token_ids)
  PROVE  Flow(a, <<m>>, Tail(c), d, r, x, prev2, made, working)
<1>1. PICK u, v : /\ Chain(a, r, x, u, TRUE) /\ Chain(<< >>, r, u, v, TRUE)
                  /\ Behind(c, d, r, v, prev, made, working)
  BY DEF Flow
<1>2. v = u
  BY <1>1, ChainNone
<1>3. PICK y : Passes(m, r, u, y, TRUE) /\ Behind(Tail(c), d, r, y, prev2, made, working)
  BY <1>1, <1>2, BehindTake
<1>4. Chain(<<m>>, r, u, y, TRUE)
  <2>1. Append(<< >>, m) = <<m>>
    OBVIOUS
  <2>2. PICK s : s = << >>
    OBVIOUS
  <2>3. IsSeq(s) /\ Chain(s, r, u, u, TRUE)
    BY <2>2, EmptyIsSeq, ChainNone
  <2>4. Chain(Append(s, m), r, u, y, TRUE)
    BY <1>3, <2>3, ChainAppend
  <2> QED BY <2>1, <2>2, <2>4
<1> QED BY <1>1, <1>3, <1>4 DEF Flow

\* What happens behind the detokenizer is all that changes.
LEMMA FlowBehind ==
  ASSUME NEW a, NEW b, NEW c, NEW d, NEW r, NEW x, NEW prev, NEW made, NEW working,
         Flow(a, b, c, d, r, x, prev, made, working),
         NEW c2, NEW d2, NEW prev2, NEW made2, NEW working2,
         \A v : Behind(c, d, r, v, prev, made, working)
                => Behind(c2, d2, r, v, prev2, made2, working2)
  PROVE  Flow(a, b, c2, d2, r, x, prev2, made2, working2)
BY DEF Flow

\* The detokenizer leaves.
LEMMA FlowLeft ==
  ASSUME NEW a, IsSeq(a), NEW n \in 0..Len(a), NEW c, NEW d, NEW r, NEW x, NEW prev, NEW made, NEW working, NEW c2, NEW d2, NEW prev2, NEW made2, NEW working2,
         "detokenizer" \notin working2,
         Flow(a, << >>, c, d, r, x, prev, made, working)
  PROVE  Flow(SubSeq(a, 1, n), << >>, c2, d2, r, x, prev2, made2, working2)
<1>1. PICK u : Chain(a, r, x, u, TRUE)
  BY DEF Flow
<1>2. PICK y : Chain(SubSeq(a, 1, n), r, x, y, TRUE)
  BY <1>1, ChainPrefix
<1> QED BY <1>2, ChainNone DEF Flow, Behind

\* A request nobody has heard of.
LEMMA FlowNew ==
  ASSUME NEW a, NEW b, NEW c, NEW d, NEW r, NEW prev, NEW made, NEW working,
         \A s \in {a, b, c, d} : IsSeq(s) /\ \A m \in ToSet(s) : m.rid # r,
         prev = << >>, made \subseteq {<< >>}, NEW x, At(x, << >>)
  PROVE  Flow(a, b, c, d, r, x, prev, made, working)
<1>1. \A s \in {a, b, c, d} : Chain(s, r, x, x, TRUE) /\ Chain(s, r, x, x, FALSE)
  BY ChainIdle
<1>2. Text(<< >>) = << >>
  BY TextOfNone
<1>3. Engaged(x, made, working) /\ prev = Text(x.ids)
  BY <1>2 DEF Engaged, At
<1>4. Behind(c, d, r, x, prev, made, working)
  BY <1>1, <1>3 DEF Behind
<1> QED BY <1>1, <1>4 DEF Flow

---------------------------------------------------------------------------
\* What a call has of an answer, and what is still to come.

\* A request on its way to the engine.
Asking(p) ==
  \/ p \in PromptsIn(chan["tokenizer"]) \/ p \in PromptsIn(outbox["tokenizer"])
  \/ p \in PromptsIn(chan["scheduler"])

\* The tokens the engine has made for a prompt, none while its request is on its way.
Made(p) ==
  {ids \in Seq(TokenIds) :
     \/ ids = << >> /\ Asking(p)
     \/ \E e \in DOMAIN engine : engine[e] = [prompt |-> p, ids |-> ids]}

\* The messages about request r of prompt p, for a client who has read those up to x.
FlowAt(r, x, p) ==
  Flow(chan["client"], outbox["detokenizer"], chan["detokenizer"], outbox["scheduler"],
       r, x, PrevText(r), Made(p), up)

\* A call that waits for the answer to p, and was the only one to read since it asked.
Waiting(p) ==
  /\ Asked(p) /\ p \notin retracted /\ RidOf(p) \in call[p[1]].pending
  /\ call[p[1]].undisturbed /\ call[p[1]].phase \in {"send", "recv", "suspended"}

Delivered(p) ==
  Asked(p) /\ p \notin retracted /\ call[p[1]].undisturbed =>
    LET ids == call[p[1]].tokens[RidOf(p)]
    IN ids \in Seq(TokenIds) /\ (Whole(ids) => call[p[1]].text[RidOf(p)] = Text(ids))

\* Every answer's messages are in order: what the client has of it, what is on its way
\* and what the engine has made follow on each other.
TextInv ==
  \A p \in Prompts :
    /\ Delivered(p)
    /\ Waiting(p) => started /\ \E x : At(x, call[p[1]].tokens[RidOf(p)]) /\ FlowAt(RidOf(p), x, p)

LEMMA FlowSame ==
  ASSUME NEW p, NEW r, NEW x, FlowAt(r, x, p),
         chan'["client"] = chan["client"], outbox'["detokenizer"] = outbox["detokenizer"],
         chan'["detokenizer"] = chan["detokenizer"], outbox'["scheduler"] = outbox["scheduler"],
         prev_text' = prev_text, Made(p)' \subseteq Made(p), up' \subseteq up
  PROVE  FlowAt(r, x, p)'
<1>1. PICK made, made2 : made = Made(p) /\ made2 = Made(p)'
  OBVIOUS
<1>2. PrevText(r)' = PrevText(r)
  BY DEF PrevText
<1>3. PICK a, b, c, d, prev :
        /\ a = chan["client"] /\ b = outbox["detokenizer"]
        /\ c = chan["detokenizer"] /\ d = outbox["scheduler"] /\ prev = PrevText(r)
  OBVIOUS
<1>4. Flow(a, b, c, d, r, x, prev, made, up)
  BY <1>1, <1>3 DEF FlowAt
<1>5. \A v : Behind(c, d, r, v, prev, made, up) => Behind(c, d, r, v, prev, made2, up')
  BY <1>1, BehindLess
<1>6. Flow(a, b, c, d, r, x, prev, made2, up')
  BY <1>4, <1>5, FlowBehind
<1> QED BY <1>1, <1>2, <1>3, <1>6 DEF FlowAt

\* The engine is left alone and no request is new.
LEMMA MadeLess ==
  ASSUME NEW p, engine' = engine, Asking(p)' => Asking(p)
  PROVE  Made(p)' \subseteq Made(p)
<1> SUFFICES ASSUME NEW ids \in Seq(TokenIds),
                    \/ ids = << >> /\ Asking(p)'
                    \/ \E e \in DOMAIN engine' : engine'[e] = [prompt |-> p, ids |-> ids]
             PROVE  ids \in Made(p)
  BY DEF Made
<1> QED BY DEF Made

LEMMA FlowSends ==
  ASSUME Shape, Requests, NEW w \in Workers, Send(w),
         NEW p, NEW r, NEW x, FlowAt(r, x, p)
  PROVE  FlowAt(r, x, p)'
<1>0. /\ DOMAIN chan = Channels /\ DOMAIN outbox = Workers
      /\ IsSeq(outbox["scheduler"]) /\ IsSeq(chan["detokenizer"])
      /\ IsSeq(outbox["detokenizer"]) /\ IsSeq(chan["client"])
      /\ IsSeq(outbox["tokenizer"]) /\ IsSeq(chan["scheduler"])
      /\ NextHop[w] \in Channels
  BY DEF Shape, ChannelsOK, Channels, Workers, NextHop
<1>1. /\ outbox[w] # << >> /\ up' = up /\ engine' = engine /\ prev_text' = prev_text
      /\ chan'[NextHop[w]] = Append(chan[NextHop[w]], Head(outbox[w]))
      /\ outbox'[w] = Tail(outbox[w])
      /\ \A c \in Channels : c # NextHop[w] => chan'[c] = chan[c]
      /\ \A v \in Workers : v # w => outbox'[v] = outbox[v]
  BY <1>0 DEF Send, workers
<1>2. CASE w = "tokenizer"
  <2>1. /\ outbox["tokenizer"] # << >> /\ chan'["tokenizer"] = chan["tokenizer"]
        /\ chan'["scheduler"] = Append(chan["scheduler"], Head(outbox["tokenizer"]))
        /\ outbox'["tokenizer"] = Tail(outbox["tokenizer"])
        /\ chan'["client"] = chan["client"] /\ outbox'["detokenizer"] = outbox["detokenizer"]
        /\ chan'["detokenizer"] = chan["detokenizer"] /\ outbox'["scheduler"] = outbox["scheduler"]
    BY <1>1, <1>2, NextHops DEF Channels, Workers
  <2>2. /\ ToSet(chan'["scheduler"]) = ToSet(chan["scheduler"]) \cup {Head(outbox["tokenizer"])}
        /\ ToSet(outbox["tokenizer"]) = {Head(outbox["tokenizer"])} \cup ToSet(outbox'["tokenizer"])
    BY <1>0, <2>1, AppendSet, TailSet
  <2>3. Asking(p)' => Asking(p)
    BY <2>1, <2>2, PromptsInSet DEF Asking
  <2> QED BY <1>1, <2>1, <2>3, MadeLess, FlowSame
<1>3. CASE w # "tokenizer"
  <2>1. chan'["tokenizer"] = chan["tokenizer"] /\ outbox'["tokenizer"] = outbox["tokenizer"]
        /\ chan'["scheduler"] = chan["scheduler"]
    BY <1>1, <1>3, NextHops DEF Channels, Workers
  <2>2. Made(p)' = Made(p) /\ PrevText(r)' = PrevText(r)
    BY <1>1, <2>1 DEF Made, Asking, PrevText
  <2>3. PICK made, prev : made = Made(p) /\ prev = PrevText(r)
    OBVIOUS
  <2>4. Flow(chan["client"], outbox["detokenizer"], chan["detokenizer"], outbox["scheduler"],
             r, x, prev, made, up)
    BY <2>3 DEF FlowAt
  <2>5. CASE w = "scheduler"
    <3>1. /\ outbox["scheduler"] # << >>
          /\ chan'["detokenizer"] = Append(chan["detokenizer"], Head(outbox["scheduler"]))
          /\ outbox'["scheduler"] = Tail(outbox["scheduler"])
          /\ chan'["client"] = chan["client"] /\ outbox'["detokenizer"] = outbox["detokenizer"]
      BY <1>1, <2>5, NextHops DEF Channels, Workers
    <3>2. PICK a, b, c, d :
            /\ a = chan["client"] /\ b = outbox["detokenizer"]
            /\ c = chan["detokenizer"] /\ d = outbox["scheduler"]
      OBVIOUS
    <3>3. IsSeq(c) /\ IsSeq(d) /\ d # << >> /\ Flow(a, b, c, d, r, x, prev, made, up)
      BY <1>0, <2>4, <3>1, <3>2
    <3>4. Flow(a, b, Append(c, Head(d)), Tail(d), r, x, prev, made, up)
      BY <3>3, BehindSend, FlowBehind
    <3> QED BY <1>1, <2>2, <2>3, <3>1, <3>2, <3>4 DEF FlowAt
  <2>6. CASE w = "detokenizer"
    <3>1. /\ outbox["detokenizer"] # << >>
          /\ chan'["client"] = Append(chan["client"], Head(outbox["detokenizer"]))
          /\ outbox'["detokenizer"] = Tail(outbox["detokenizer"])
          /\ chan'["detokenizer"] = chan["detokenizer"] /\ outbox'["scheduler"] = outbox["scheduler"]
      BY <1>1, <2>6, NextHops DEF Channels, Workers
    <3>2. Flow(chan'["client"], outbox'["detokenizer"], chan["detokenizer"], outbox["scheduler"],
               r, x, prev, made, up)
      BY <1>0, <2>4, <3>1, FlowAnswered
    <3> QED BY <1>1, <2>2, <2>3, <3>1, <3>2 DEF FlowAt
  <2> QED BY <1>3, <2>5, <2>6 DEF Workers
<1> QED BY <1>2, <1>3

LEMMA FlowTokenizes ==
  ASSUME Shape, Requests, Tokenize, NEW p, NEW r, NEW x, FlowAt(r, x, p)
  PROVE  FlowAt(r, x, p)'
<1>1. /\ DOMAIN chan = Channels /\ DOMAIN outbox = Workers /\ IsSeq(chan["tokenizer"])
  BY DEF Shape, ChannelsOK, Channels, Workers
<1>2. /\ chan["tokenizer"] # << >> /\ engine' = engine /\ prev_text' = prev_text /\ up' = up
      /\ chan'["tokenizer"] = Tail(chan["tokenizer"])
      /\ outbox'["tokenizer"] = <<Head(chan["tokenizer"])>>
      /\ chan'["scheduler"] = chan["scheduler"]
      /\ chan'["client"] = chan["client"] /\ outbox'["detokenizer"] = outbox["detokenizer"]
      /\ chan'["detokenizer"] = chan["detokenizer"] /\ outbox'["scheduler"] = outbox["scheduler"]
  BY <1>1 DEF Tokenize, workers, Channels, Workers
<1>3. /\ ToSet(chan["tokenizer"]) = {Head(chan["tokenizer"])} \cup ToSet(chan'["tokenizer"])
      /\ ToSet(outbox'["tokenizer"]) = {Head(chan["tokenizer"])}
  <2>1. \A m : ToSet(<<m>>) = {m}
    BY DEF ToSet
  <2> QED BY <1>1, <1>2, <2>1, TailSet
<1>4. Asking(p)' => Asking(p)
  BY <1>2, <1>3, PromptsInSet DEF Asking
<1> QED BY <1>2, <1>4, MadeLess, FlowSame

\* The engine takes the request up, with no tokens yet.
LEMMA FlowAdds ==
  ASSUME Shape, Requests, AddRequest, NEW p, NEW r, NEW x, FlowAt(r, x, p)
  PROVE  FlowAt(r, x, p)'
<1>1. /\ DOMAIN chan = Channels /\ DOMAIN outbox = Workers /\ IsSeq(chan["scheduler"])
      /\ req_counter \notin DOMAIN engine /\ OnceEach(chan["scheduler"])
  <2>1. DOMAIN chan = Channels /\ DOMAIN outbox = Workers /\ IsSeq(chan["scheduler"])
    BY DEF Shape, ChannelsOK, Channels, Workers
  <2>2. req_counter \notin DOMAIN engine
    BY DEF Shape, EngineOK
  <2>3. OnceEach(chan["scheduler"])
    BY DEF Requests, Queued
  <2> QED BY <2>1, <2>2, <2>3
<1>2. PICK m, entry : m = Head(chan["scheduler"]) /\ entry = [prompt |-> m.prompt, ids |-> << >>]
  OBVIOUS
<1>3. /\ chan["scheduler"] # << >> /\ prev_text' = prev_text /\ up' = up /\ outbox' = outbox
      /\ chan'["scheduler"] = Tail(chan["scheduler"]) /\ chan'["tokenizer"] = chan["tokenizer"]
      /\ chan'["client"] = chan["client"] /\ chan'["detokenizer"] = chan["detokenizer"]
      /\ engine' = Put(engine, req_counter, entry)
  BY <1>1, <1>2 DEF AddRequest, Channels, Workers
<1>4. /\ engine'[req_counter] = entry /\ DOMAIN engine' = {req_counter} \cup DOMAIN engine
      /\ \A e \in DOMAIN engine : engine'[e] = engine[e]
  BY <1>1, <1>3 DEF Put
<1>5. PromptsIn(chan["scheduler"]) = {m.prompt} \cup PromptsIn(chan'["scheduler"])
  BY <1>1, <1>2, <1>3, TailOnce
<1>6. Asking(p)' => Asking(p)
  BY <1>3, <1>5 DEF Asking
<1>7. Made(p)' \subseteq Made(p)
  <2> SUFFICES ASSUME NEW ids \in Seq(TokenIds), ~(ids = << >> /\ Asking(p)),
                      \/ ids = << >> /\ Asking(p)'
                      \/ \E e \in DOMAIN engine' : engine'[e] = [prompt |-> p, ids |-> ids]
               PROVE  \E e \in DOMAIN engine : engine[e] = [prompt |-> p, ids |-> ids]
    BY DEF Made
  <2>1. PICK e \in DOMAIN engine' : engine'[e] = [prompt |-> p, ids |-> ids]
    BY <1>6
  <2>2. CASE e = req_counter
    <3>1. engine'[e] = [prompt |-> m.prompt, ids |-> << >>]
      BY <1>2, <1>4, <2>2
    <3>2. p = m.prompt /\ ids = << >>
      BY <2>1, <3>1
    <3> QED BY <1>5, <3>2 DEF Asking
  <2>3. CASE e # req_counter
    <3>1. e \in DOMAIN engine /\ engine'[e] = engine[e]
      BY <1>4, <2>3
    <3> QED BY <2>1, <3>1
  <2> QED BY <2>2, <2>3
<1> QED BY <1>3, <1>7, FlowSame

\* The engine drops the tokens of another request.
LEMMA FlowRetracts ==
  ASSUME Shape, NEW e \in DOMAIN engine, Retract(e), NEW p, p \notin retracted',
         NEW r, NEW x, FlowAt(r, x, p)
  PROVE  FlowAt(r, x, p)'
<1>1. /\ engine' = [engine EXCEPT ![e].ids = << >>] /\ prev_text' = prev_text /\ up' = up
      /\ chan' = chan /\ outbox' = outbox /\ engine[e].prompt # p
  BY DEF Retract
<1>2. Asking(p)' = Asking(p)
  BY <1>1 DEF Asking
<1>3. Made(p)' \subseteq Made(p)
  <2> SUFFICES ASSUME NEW ids \in Seq(TokenIds), NEW f \in DOMAIN engine',
                      engine'[f] = [prompt |-> p, ids |-> ids]
               PROVE  engine[f] = [prompt |-> p, ids |-> ids]
    BY <1>1, <1>2 DEF Made
  <2>1. f \in DOMAIN engine /\ engine'[f].prompt = p
    BY <1>1
  <2>2. engine[e] \in [prompt : Prompts, ids : Seq(TokenIds)]
    BY DEF Shape, EngineOK
  <2>3. f # e
    BY <1>1, <2>1, <2>2
  <2> QED BY <1>1, <2>1, <2>3
<1> QED BY <1>1, <1>3, FlowSame

LEMMA FlowMakes ==
  ASSUME Shape, Requests, EngineStep, NEW p, Asked(p), NEW r, r = RidOf(p), NEW x, FlowAt(r, x, p)
  PROVE  FlowAt(r, x, p)'
<1>1. PICK S, ids, done, sent : EngineStepped(S, ids, done, sent) /\ OneToken(S, ids, sent)
  BY EngineStepEffect
<1>2. /\ chan' = chan /\ prev_text' = prev_text /\ up' = up /\ "scheduler" \in up
      /\ outbox["scheduler"] = << >> /\ outbox'["tokenizer"] = outbox["tokenizer"]
      /\ outbox'["detokenizer"] = outbox["detokenizer"]
  BY <1>1, EngineStepEffect DEF EngineStep, Ready, EngineStepped, Workers
<1>3. PICK d : d = outbox'["scheduler"]
  OBVIOUS
<1>4. /\ IsSeq(d) /\ Len(d) = Len(sent) /\ Len(sent) \in Nat
      /\ \A i \in 1..Len(sent) :
           /\ sent[i] \in S /\ sent[i] \in DOMAIN engine /\ d[i].rid = req_id_map[sent[i]]
           /\ d[i].output_token_ids = ids[sent[i]] /\ (sent[i] \notin done => ~d[i].finished)
      /\ S \subseteq DOMAIN engine /\ done \subseteq S /\ DOMAIN engine' = DOMAIN engine \ done
      /\ \A e \in S : \E i \in 1..Len(sent) : sent[i] = e
  <2>1. /\ IsSeq(d) /\ Len(d) = Len(sent) /\ Len(sent) \in Nat
        /\ S \subseteq DOMAIN engine /\ done \subseteq S /\ DOMAIN engine' = DOMAIN engine \ done
        /\ \A e \in S : \E i \in 1..Len(sent) : sent[i] = e
        /\ \A i \in 1..Len(sent) :
             /\ sent[i] \in S
             /\ d[i] = [rid |-> req_id_map[sent[i]], output_token_ids |-> ids[sent[i]],
                        finished |-> sent[i] \in done]
    BY <1>1, <1>3 DEF EngineStepped
  <2>2. ASSUME NEW i \in 1..Len(sent)
        PROVE  /\ sent[i] \in S /\ sent[i] \in DOMAIN engine /\ d[i].rid = req_id_map[sent[i]]
               /\ d[i].output_token_ids = ids[sent[i]] /\ (sent[i] \notin done => ~d[i].finished)
    <3>1. d[i] = [rid |-> req_id_map[sent[i]], output_token_ids |-> ids[sent[i]],
                  finished |-> sent[i] \in done]
      BY <2>1
    <3>2. d[i].rid = req_id_map[sent[i]] /\ d[i].output_token_ids = ids[sent[i]]
      BY ONLY <3>1
    <3>3. PICK m : m = d[i]
      OBVIOUS
    <3>4. m = [rid |-> req_id_map[sent[i]], output_token_ids |-> ids[sent[i]],
               finished |-> sent[i] \in done]
      BY ONLY <3>1, <3>3
    <3>5. m.finished => sent[i] \in done
      BY ONLY <3>4
    <3>6. sent[i] \in S /\ sent[i] \in DOMAIN engine
      BY <2>1
    <3> QED BY ONLY <3>2, <3>3, <3>5, <3>6
  <2> QED BY <2>1, <2>2
<1>5. \A e \in DOMAIN engine : /\ engine[e] \in [prompt : Prompts, ids : Seq(TokenIds)]
                               /\ Asked(engine[e].prompt) /\ req_id_map[e] = RidOf(engine[e].prompt)
  BY DEF Shape, EngineOK, Requests, InEngine
<1>6. \A f \in DOMAIN engine' :
        engine'[f].prompt = engine[f].prompt /\ (f \in S => engine'[f].ids = ids[f])
        /\ (f \notin S => engine'[f] = engine[f])
  BY <1>1, <1>4, <1>5 DEF EngineStepped
<1>7. ASSUME NEW i \in 1..Len(sent), engine[sent[i]].prompt # p PROVE d[i].rid # r
  <2>1. sent[i] \in DOMAIN engine /\ d[i].rid = req_id_map[sent[i]]
    BY <1>4
  <2>2. Asked(engine[sent[i]].prompt) /\ d[i].rid = RidOf(engine[sent[i]].prompt)
    BY <2>1, <1>5
  <2> QED BY <2>2, <1>7, RidsApart
<1>8. Asking(p)' = Asking(p)
  BY <1>2 DEF Asking
<1>9. PICK made, made2, prev : made = Made(p) /\ made2 = Made(p)' /\ prev = PrevText(r)
  OBVIOUS
<1>10. PICK a, b, c : a = chan["client"] /\ b = outbox["detokenizer"] /\ c = chan["detokenizer"]
  OBVIOUS
<1>11. Flow(a, b, c, << >>, r, x, prev, made, up)
  BY <1>2, <1>9, <1>10 DEF FlowAt
<1>12. ASSUME Flow(a, b, c, d, r, x, prev, made2, up) PROVE FlowAt(r, x, p)'
  <2>1. PrevText(r)' = prev
    BY <1>2, <1>9 DEF PrevText
  <2> QED BY <1>2, <1>3, <1>9, <1>10, <1>12, <2>1 DEF FlowAt
<1>13. ASSUME NEW e \in S, engine[e].prompt = p PROVE FlowAt(r, x, p)'
  <2>1. PICK j \in 1..Len(sent) : sent[j] = e
    BY <1>4
  <2>2. PICK t \in TokenIds : ids[e] = Append(engine[e].ids, t)
    BY <1>1 DEF OneToken
  <2>3. e \in DOMAIN engine /\ d[j].rid = r /\ d[j].output_token_ids = Append(engine[e].ids, t)
        /\ (e \notin done => ~d[j].finished)
    <3>1. /\ d[j].rid = req_id_map[e] /\ d[j].output_token_ids = ids[e]
          /\ (e \notin done => ~d[j].finished)
      BY <2>1, <1>4
    <3> QED BY <3>1, <2>2, <1>4, <1>5, <1>13
  <2>4. \A f \in DOMAIN engine : engine[f].prompt = p => f = e
    BY <2>3, <1>13 DEF Requests, InEngine
  <2>5. \A i \in 1..Len(d) : i # j => d[i].rid # r
    BY <2>1, <2>4, <1>1, <1>4, <1>7 DEF OneToken
  <2>6. engine[e].ids \in made
    <3>1. engine[e] = [prompt |-> p, ids |-> engine[e].ids] /\ engine[e].ids \in Seq(TokenIds)
      BY <2>3, <1>5, <1>13
    <3> QED BY <2>3, <3>1, <1>9 DEF Made
  <2>7. ~Asking(p)
    <3>1. p \in InEnginePrompts
      BY <2>3, <1>13 DEF InEnginePrompts
    <3> QED BY <3>1, RequestsDef DEF Asking, Apart
  <2>8. ASSUME NEW more \in made2 PROVE ~d[j].finished /\ more = Append(engine[e].ids, t)
    <3>1. PICK f \in DOMAIN engine' : engine'[f] = [prompt |-> p, ids |-> more]
      BY <2>7, <2>8, <1>8, <1>9 DEF Made
    <3>2. engine'[f].prompt = p /\ engine'[f].ids = more
      BY <3>1
    <3>3. f = e /\ e \notin done
      BY <3>2, <2>4, <1>4, <1>6
    <3>4. more = ids[e]
      BY <3>2, <3>3, <1>6
    <3> QED BY <3>3, <3>4, <2>2, <2>3
  <2>9. \A v : Behind(c, << >>, r, v, prev, made, up) => Behind(c, d, r, v, prev, made2, up)
    <3>1. j \in 1..Len(d) /\ IsSeq(d)
      BY <1>4, <2>1
    <3>2. PICK ids2 : ids2 = engine[e].ids
      OBVIOUS
    <3>3. /\ ids2 \in made /\ d[j].rid = r /\ d[j].output_token_ids = Append(ids2, t)
          /\ \A more \in made2 : ~d[j].finished /\ more = Append(ids2, t)
      BY <2>3, <2>6, <2>8, <3>2
    <3> QED BY <2>2, <2>5, <3>1, <3>3, <1>2, BehindToken
  <2> QED BY <2>9, <1>11, <1>12, FlowBehind
<1>14. ASSUME \A e \in S : engine[e].prompt # p PROVE FlowAt(r, x, p)'
  <2>1. \A m \in ToSet(d) : m.rid # r
    <3>1. \A i \in 1..Len(d) : d[i].rid # r
      BY <1>4, <1>7, <1>14
    <3> QED BY <3>1, <1>4, IsSeqDef DEF ToSet
  <2>2. made2 \subseteq made
    <3> SUFFICES ASSUME NEW more \in Seq(TokenIds), NEW f \in DOMAIN engine',
                        engine'[f] = [prompt |-> p, ids |-> more]
                 PROVE  f \in DOMAIN engine /\ engine[f] = [prompt |-> p, ids |-> more]
      BY <1>8, <1>9 DEF Made
    <3>1. engine'[f].prompt = p
      OBVIOUS
    <3>2. f \notin S /\ f \in DOMAIN engine
      BY <3>1, <1>4, <1>6, <1>14
    <3> QED BY <3>2, <1>6
  <2>3. ASSUME NEW v, Behind(c, << >>, r, v, prev, made, up) PROVE Behind(c, d, r, v, prev, made2, up)
    <3>1. Behind(c, d, r, v, prev, made, up)
      BY <2>1, <2>3, <1>4, BehindIdle
    <3> QED BY <3>1, <2>2, BehindLess
  <2> QED BY <2>3, <1>11, <1>12, FlowBehind
<1> QED BY <1>13, <1>14

\* What the detokenizer knows of a request once it has handled a chunk.
LEMMA StateAfter ==
  ASSUME NEW chunk, prev_text' = StatesAfter(chunk), NEW r
  PROVE  /\ chunk.rid # r => PrevText(r)' = PrevText(r)
         /\ chunk.rid = r /\ ~chunk.finished => PrevText(r)' = Text(chunk.output_token_ids)
<1>1. CASE chunk.finished
  <2>1. /\ DOMAIN prev_text' = DOMAIN prev_text \ {chunk.rid}
        /\ \A q \in DOMAIN prev_text \ {chunk.rid} : prev_text'[q] = prev_text[q]
    BY <1>1 DEF StatesAfter, Restrict
  <2> QED BY <1>1, <2>1 DEF PrevText
<1>2. CASE ~chunk.finished
  <2>1. prev_text' = Put(prev_text, chunk.rid, Text(chunk.output_token_ids))
    BY <1>2 DEF StatesAfter
  <2>2. PICK text, rid : text = Text(chunk.output_token_ids) /\ rid = chunk.rid
    OBVIOUS
  <2>3. /\ DOMAIN prev_text' = {rid} \cup DOMAIN prev_text /\ prev_text'[rid] = text
        /\ \A q \in DOMAIN prev_text : q # rid => prev_text'[q] = prev_text[q]
    BY <2>1, <2>2 DEF Put
  <2> QED BY <2>2, <2>3 DEF PrevText
<1> QED BY <1>1, <1>2

LEMMA FlowDetokenizes ==
  ASSUME Shape, Detokenize, NEW p, NEW r, NEW x, FlowAt(r, x, p)
  PROVE  FlowAt(r, x, p)'
<1>1. PICK chunk, text : chunk = Head(chan["detokenizer"]) /\ text = Text(chunk.output_token_ids)
  OBVIOUS
<1>2. PICK m : m = [rid |-> chunk.rid, finished |-> chunk.finished,
                    delta_text |-> DeltaText(chunk.rid, text),
                    output_token_ids |-> chunk.output_token_ids]
  OBVIOUS
<1>3. /\ DOMAIN chan = Channels /\ DOMAIN outbox = Workers /\ IsSeq(chan["detokenizer"])
  BY DEF Shape, ChannelsOK, Channels, Workers
<1>4. /\ "detokenizer" \in up /\ outbox["detokenizer"] = << >> /\ chan["detokenizer"] # << >>
      /\ chan'["detokenizer"] = Tail(chan["detokenizer"]) /\ outbox'["detokenizer"] = <<m>>
      /\ chan'["client"] = chan["client"] /\ outbox'["scheduler"] = outbox["scheduler"]
      /\ chan'["tokenizer"] = chan["tokenizer"] /\ chan'["scheduler"] = chan["scheduler"]
      /\ outbox'["tokenizer"] = outbox["tokenizer"]
      /\ engine' = engine /\ up' = up /\ prev_text' = StatesAfter(chunk)
  BY <1>1, <1>2, <1>3 DEF Detokenize, Ready, Channels, Workers
<1>5. Made(p)' = Made(p)
  BY <1>4 DEF Made, Asking
<1>6. PICK a, c, d, prev, prev2, made :
        /\ a = chan["client"] /\ c = chan["detokenizer"] /\ d = outbox["scheduler"]
        /\ prev = PrevText(r) /\ prev2 = PrevText(r)' /\ made = Made(p)
  OBVIOUS
<1>7. Flow(a, << >>, c, d, r, x, prev, made, up) /\ IsSeq(c) /\ c # << >> /\ Head(c) = chunk
  BY <1>1, <1>3, <1>4, <1>6 DEF FlowAt
<1>8. /\ m.rid = chunk.rid /\ m.finished = chunk.finished
      /\ m.output_token_ids = chunk.output_token_ids
      /\ m.delta_text = DeltaText(chunk.rid, text)
  BY <1>2
<1>9. /\ chunk.rid # r => prev2 = prev
      /\ chunk.rid = r => /\ m.delta_text = SubSeq(text, Len(prev) + 1, Len(text))
                          /\ ~chunk.finished => prev2 = text
  <2>1. DeltaText(chunk.rid, text) = SubSeq(text, Len(PrevText(chunk.rid)) + 1, Len(text))
    BY DEF DeltaText
  <2> QED BY <2>1, <1>1, <1>4, <1>6, <1>8, StateAfter
<1>10. Flow(a, <<m>>, Tail(c), d, r, x, prev2, made, up)
  <2>1. /\ Head(c).rid # r => prev2 = prev
        /\ Head(c).rid = r =>
             /\ m.delta_text = SubSeq(Text(m.output_token_ids), Len(prev) + 1,
                                      Len(Text(m.output_token_ids)))
             /\ ~m.finished => prev2 = Text(m.output_token_ids)
    BY <1>1, <1>7, <1>8, <1>9
  <2>2. /\ m.rid = Head(c).rid /\ m.finished = Head(c).finished
        /\ m.output_token_ids = Head(c).output_token_ids
    BY <1>7, <1>8
  <2> QED BY <1>4, <1>7, <2>1, <2>2, FlowTaken
<1> QED BY <1>4, <1>5, <1>6, <1>10 DEF FlowAt

LEMMA FlowLeaves ==
  ASSUME Shape, NEW w \in Workers, outbox[w] = << >>, Leave(w), UNCHANGED <<outbox, workers>>,
         NEW p, NEW r \in Nat, NEW x, FlowAt(r, x, p)
  PROVE  FlowAt(r, x, p)'
<1>1. /\ DOMAIN chan = Channels /\ DOMAIN outbox = Workers
      /\ IsSeq(chan["scheduler"]) /\ IsSeq(chan["detokenizer"]) /\ IsSeq(chan["client"])
  BY DEF Shape, ChannelsOK, Channels, Workers
<1>2. /\ up' = up \ {w} /\ \A c \in Channels : c # NextHop[w] => chan'[c] = chan[c]
      /\ engine' = engine /\ prev_text' = prev_text /\ outbox' = outbox
  BY LeaveEffect DEF workers
<1>3. CASE w = "tokenizer"
  <2>1. /\ chan'["client"] = chan["client"] /\ chan'["detokenizer"] = chan["detokenizer"]
        /\ chan'["tokenizer"] = chan["tokenizer"]
        /\ ToSet(chan'["scheduler"]) \subseteq ToSet(chan["scheduler"])
    BY <1>2, <1>3, LeaveEffect, NextHops DEF Channels, Workers
  <2>2. Asking(p)' => Asking(p)
    BY <1>2, <2>1, PromptsInSet DEF Asking
  <2> QED BY <1>2, <2>1, <2>2, MadeLess, FlowSame
<1>4. CASE w # "tokenizer"
  <2>1. chan'["tokenizer"] = chan["tokenizer"] /\ chan'["scheduler"] = chan["scheduler"]
    BY <1>2, <1>4, NextHops DEF Channels, Workers
  <2>2. Made(p)' = Made(p) /\ PrevText(r)' = PrevText(r)
    BY <1>2, <2>1 DEF Made, Asking, PrevText
  <2>3. PICK a, b, c, d, prev, made :
          /\ a = chan["client"] /\ b = outbox["detokenizer"] /\ c = chan["detokenizer"]
          /\ d = outbox["scheduler"] /\ prev = PrevText(r) /\ made = Made(p)
    OBVIOUS
  <2>4. Flow(a, b, c, d, r, x, prev, made, up) /\ IsSeq(a) /\ IsSeq(c)
    BY <1>1, <2>3 DEF FlowAt
  <2>5. CASE w = "scheduler"
    <3>1. chan'["client"] = chan["client"] /\ d = << >>
      BY <1>2, <2>3, <2>5, NextHops DEF Channels, Workers
    <3>2. SHUTDOWN.rid # r
      BY DEF SHUTDOWN
    <3>3. Len(c \o <<SHUTDOWN>>) = Len(c) + 1
      BY <2>4, IsSeqDef
    <3>4. PICK n \in 0..(Len(c) + 1) : chan'["detokenizer"] = SubSeq(c \o <<SHUTDOWN>>, 1, n)
      <4>1. chan["detokenizer"] \o (IF w = "scheduler" THEN <<SHUTDOWN>> ELSE << >>) = c \o <<SHUTDOWN>>
        BY <2>3, <2>5
      <4>2. NextHop[w] = "detokenizer" /\ "detokenizer" \in DOMAIN chan
        BY <1>1, <2>5, NextHops DEF Channels, Workers
      <4> QED BY <3>3, <4>1, <4>2 DEF Leave
    <3>5. PICK c2, gone : c2 = SubSeq(c \o <<SHUTDOWN>>, 1, n) /\ gone = SHUTDOWN
      OBVIOUS
    <3>6. \A v : Behind(c, << >>, r, v, prev, made, up) => Behind(c2, << >>, r, v, prev, made, up')
      BY <1>2, <2>4, <2>5, <3>2, <3>5, BehindLeft
    <3>7. Flow(a, b, c2, d, r, x, prev, made, up')
      BY <2>4, <3>1, <3>6, FlowBehind
    <3> QED BY <1>2, <2>2, <2>3, <3>1, <3>4, <3>5, <3>7 DEF FlowAt
  <2>6. CASE w = "detokenizer"
    <3>1. PICK n \in 0..Len(a) : chan'["client"] = SubSeq(a, 1, n)
      BY <2>3, <2>6, LeaveEffect, NextHops
    <3>2. "detokenizer" \notin up' /\ b = << >>
      BY <1>2, <2>3, <2>6
    <3>3. PICK c2 : c2 = chan'["detokenizer"]
      OBVIOUS
    <3>4. Flow(SubSeq(a, 1, n), << >>, c2, d, r, x, prev, made, up')
      BY <2>4, <3>2, FlowLeft
    <3> QED BY <1>2, <2>2, <2>3, <3>1, <3>2, <3>3, <3>4 DEF FlowAt
  <2> QED BY <1>4, <2>5, <2>6 DEF Workers
<1> QED BY <1>3, <1>4

---------------------------------------------------------------------------
\* The steps keep the messages in order.

\* A step that asks nothing and takes no answer.
LEMMA TextStep ==
  ASSUME Shape, TextInv, DOMAIN call' = Calls, retracted \subseteq retracted',
         \A q \in Calls : /\ call'[q].rids = call[q].rids /\ call'[q].tokens = call[q].tokens
                          /\ call'[q].text = call[q].text
                          /\ call'[q].undisturbed => call[q].undisturbed,
         \A p \in Prompts : Waiting(p)' => Waiting(p) /\ started',
         \A p \in Prompts : Waiting(p)' => \A r, x : r = RidOf(p) /\ FlowAt(r, x, p) => FlowAt(r, x, p)'
  PROVE  TextInv'
<1> SUFFICES ASSUME NEW p \in Prompts
             PROVE  /\ Delivered(p)'
                    /\ Waiting(p)' =>
                         started' /\ \E x : /\ At(x, call'[p[1]].tokens[RidOf(p)'])
                                            /\ FlowAt(RidOf(p), x, p)'
  BY DEF TextInv
<1>1. /\ Delivered(p)
      /\ Waiting(p) => started /\ \E x : At(x, call[p[1]].tokens[RidOf(p)]) /\ FlowAt(RidOf(p), x, p)
  BY DEF TextInv
<1>2. PICK k : k = p[1] /\ k \in Calls
  BY PromptIs
<1>3. RidOf(p)' = RidOf(p) /\ (Asked(p)' <=> Asked(p))
  BY <1>2 DEF RidOf, Asked
<1>4. Delivered(p)'
  BY <1>1, <1>2, <1>3 DEF Delivered
<1>5. ASSUME Waiting(p)'
      PROVE  started' /\ \E x : At(x, call'[p[1]].tokens[RidOf(p)']) /\ FlowAt(RidOf(p), x, p)'
  <2>1. PICK x, r : r = RidOf(p) /\ At(x, call[k].tokens[r]) /\ FlowAt(r, x, p)
    BY <1>1, <1>2, <1>5
  <2>2. FlowAt(r, x, p)'
    BY <1>5, <2>1
  <2>3. At(x, call'[k].tokens[r]) /\ r = RidOf(p)'
    BY <1>2, <1>3, <2>1
  <2>4. FlowAt(RidOf(p), x, p)'
    BY <2>2, <2>3 DEF FlowAt
  <2> QED BY <1>2, <1>5, <2>3, <2>4
<1> QED BY <1>4, <1>5

\* While a call runs no other waits for anything it could still get.
LEMMA WaitingIsActive ==
  ASSUME Shape, Delivery, active # "none", NEW p, Waiting(p)
  PROVE  p[1] = active
<1>1. PICK k : k = p[1] /\ k \in Calls
  BY PromptIs DEF Waiting, Asked
<1>2. CASE call[k].phase \in {"send", "recv"}
  BY <1>1, <1>2 DEF Shape, ClientOK, CallOK
<1>3. CASE call[k].phase = "suspended"
  BY <1>1, <1>3 DEF Waiting, Delivery
<1> QED BY <1>1, <1>2, <1>3 DEF Waiting

LEMMA TextWorkers ==
  ASSUME Shape, Requests, TextInv,
         \/ \E w \in Workers : Send(w) \/ Fail(w)
         \/ Tokenize \/ AddRequest \/ EngineStep \/ Detokenize \/ Shutdown
         \/ \E e \in DOMAIN engine : Retract(e)
         \/ UNCHANGED vars
  PROVE  TextInv'
<1>1. UNCHANGED client /\ retracted \subseteq retracted'
  BY DEF Send, Fail, Tokenize, AddRequest, EngineStep, Detokenize, Shutdown, Retract, vars, workers
<1>2. DOMAIN call' = Calls /\ call' = call /\ started' = started
  BY <1>1 DEF client, Shape, ClientOK
<1>3. ASSUME NEW p \in Prompts, Waiting(p)' PROVE Waiting(p) /\ started'
  <2>1. Waiting(p)
    BY <1>1, <1>2, <1>3 DEF Waiting, Asked, RidOf
  <2> QED BY <2>1, <1>2 DEF TextInv
<1>4. ASSUME NEW p \in Prompts, Waiting(p)', NEW r, NEW x, r = RidOf(p), FlowAt(r, x, p)
      PROVE  FlowAt(r, x, p)'
  <2>1. Asked(p) /\ r \in Nat /\ p \notin retracted'
    <3>1. Asked(p)
      BY <1>3, <1>4 DEF Waiting
    <3> QED BY <3>1, <1>4, RidIs DEF Waiting
  <2>2. ASSUME NEW w \in Workers, Send(w) PROVE FlowAt(r, x, p)'
    BY <1>4, <2>2, FlowSends
  <2>3. ASSUME NEW w \in Workers, Fail(w) PROVE FlowAt(r, x, p)'
    <3>1. Leave(w) /\ outbox[w] = << >> /\ UNCHANGED <<outbox, workers>>
      BY <2>3 DEF Fail, Ready
    <3> QED BY <1>4, <2>1, <3>1, FlowLeaves
  <2>4. CASE Shutdown
    <3>1. /\ Leave("detokenizer") /\ outbox["detokenizer"] = << >> /\ UNCHANGED <<outbox, workers>>
          /\ "detokenizer" \in Workers
      BY <2>4 DEF Shutdown, Ready, Workers
    <3> QED BY <1>4, <2>1, <3>1, FlowLeaves
  <2>5. CASE Tokenize
    BY <1>4, <2>5, FlowTokenizes
  <2>6. CASE AddRequest
    BY <1>4, <2>6, FlowAdds
  <2>7. CASE EngineStep
    BY <1>4, <2>1, <2>7, FlowMakes
  <2>8. CASE Detokenize
    BY <1>4, <2>8, FlowDetokenizes
  <2>9. ASSUME NEW e \in DOMAIN engine, Retract(e) PROVE FlowAt(r, x, p)'
    BY <1>4, <2>1, <2>9, FlowRetracts
  <2>10. CASE UNCHANGED vars
    <3>1. /\ chan' = chan /\ outbox' = outbox /\ prev_text' = prev_text /\ up' = up /\ engine' = engine
      BY <2>10 DEF vars, workers
    <3>2. Made(p)' = Made(p)
      BY <3>1 DEF Made, Asking
    <3> QED BY <1>4, <3>1, <3>2, FlowSame
  <2> QED BY <2>2, <2>3, <2>4, <2>5, <2>6, <2>7, <2>8, <2>9, <2>10
<1> QED BY <1>1, <1>2, <1>3, <1>4, TextStep

\* start, stop, entering, resuming and giving up: who still waits waited before, and
\* for the same messages.
LEMMA TextClient ==
  ASSUME Shape, Requests, Delivery, TextInv,
         \/ Start \/ Stop
         \/ \E k \in Calls : Enter(k) \/ ResumeStopped(k) \/ RecvTimeout(k)
  PROVE  TextInv'
<1>0. /\ DOMAIN call = Calls /\ \A q \in Calls : DOMAIN call[q] = Fields
      /\ \A q \in Calls : call[q].phase \in {"send", "recv"} <=> active = q
      /\ "none" \notin Calls
  BY PipelineAssumption DEF Shape, ClientOK, CallOK
<1>1. \A p : Waiting(p) => Asked(p) /\ p \in Prompts /\ p[1] \in Calls /\ started
  <2> SUFFICES ASSUME NEW p, Waiting(p)
               PROVE  Asked(p) /\ p \in Prompts /\ p[1] \in Calls /\ started
    OBVIOUS
  <2>1. Asked(p) /\ p \in Prompts
    BY DEF Waiting, Asked
  <2> QED BY <2>1, PromptIs DEF TextInv
<1>2. DOMAIN call' = Calls /\ retracted' = retracted
  BY <1>0 DEF Start, Stop, Enter, ResumeStopped, RecvTimeout, workers
<1>3. ASSUME NEW q \in Calls
      PROVE  /\ call'[q].rids = call[q].rids /\ call'[q].tokens = call[q].tokens
             /\ call'[q].text = call[q].text /\ call'[q].pending = call[q].pending
             /\ call'[q].undisturbed => call[q].undisturbed
  <2>1. CASE Start
    BY <2>1 DEF Start
  <2>2. CASE Stop
    <3>1. call'[q] = [call[q] EXCEPT !.undisturbed = @ /\ call[q].phase # "suspended"]
      BY <2>2 DEF Stop
    <3> QED BY <1>0, <3>1 DEF Fields
  <2>3. ASSUME NEW k \in Calls, Enter(k) \/ ResumeStopped(k) \/ RecvTimeout(k)
        PROVE  /\ call'[q].rids = call[q].rids /\ call'[q].tokens = call[q].tokens
               /\ call'[q].text = call[q].text /\ call'[q].pending = call[q].pending
               /\ call'[q].undisturbed => call[q].undisturbed
    BY <2>3, <1>0 DEF Enter, ResumeStopped, RecvTimeout, Fields
  <2> QED BY <2>1, <2>2, <2>3
<1>4. ASSUME NEW p \in Prompts, Waiting(p)'
      PROVE  /\ Waiting(p) /\ started'
             /\ \A r, x : r = RidOf(p) /\ FlowAt(r, x, p) => FlowAt(r, x, p)'
  <2>1. PICK q : q = p[1] /\ q \in Calls
    BY PromptIs
  <2>2. /\ Asked(p) /\ p \notin retracted /\ RidOf(p) \in call[q].pending /\ call[q].undisturbed
        /\ call'[q].undisturbed /\ call'[q].phase \in {"send", "recv", "suspended"}
    BY <1>2, <1>3, <1>4, <2>1 DEF Waiting, Asked, RidOf
  <2>3. call[q].phase \in {"send", "recv", "suspended"} => Waiting(p) /\ started
    BY <1>1, <2>1, <2>2 DEF Waiting
  <2>4. ~Start /\ ~Stop
    <3>1. ASSUME Start PROVE FALSE
      BY <2>2, <2>3, <3>1 DEF Start
    <3>2. ASSUME Stop PROVE FALSE
      <4>1. call'[q] = [call[q] EXCEPT !.undisturbed = @ /\ call[q].phase # "suspended"] /\ active = "none"
        BY <2>1, <3>2 DEF Stop
      <4>2. call'[q].phase = call[q].phase
        BY <1>0, <2>1, <4>1 DEF Fields
      <4>3. call[q].phase = "suspended"
        BY <1>0, <2>1, <2>2, <4>1, <4>2
      <4>4. ~call'[q].undisturbed
        BY <1>0, <2>1, <4>1, <4>3 DEF Fields
      <4> QED BY <2>2, <4>4
    <3> QED BY <3>1, <3>2
  <2>5. PICK k \in Calls : Enter(k) \/ ResumeStopped(k) \/ RecvTimeout(k)
    BY <2>4
  <2>6. ~ResumeStopped(k)
    <3> SUFFICES ASSUME ResumeStopped(k) PROVE FALSE
      OBVIOUS
    <3>1. ~started /\ DOMAIN call' = Calls /\ call'[k].phase = "broken" /\ (q # k => call'[q] = call[q])
      BY <1>0, <2>1 DEF ResumeStopped, Fields
    <3> QED BY <2>2, <2>3, <3>1
  <2>7. ~RecvTimeout(k)
    <3> SUFFICES ASSUME RecvTimeout(k) PROVE FALSE
      OBVIOUS
    <3>1. active = k /\ call'[k].phase = "timed_out" /\ (q # k => call'[q] = call[q])
      BY <1>0, <2>1 DEF RecvTimeout, Fields
    <3>2. q # k /\ Waiting(p)
      BY <2>2, <2>3, <3>1
    <3> QED BY <1>0, <2>1, <3>1, <3>2, WaitingIsActive
  <2>8. Enter(k)
    BY <2>5, <2>6, <2>7
  <2>9. active = "none" /\ started /\ started' = started
        /\ (q # k => call[q].phase # "suspended" /\ call'[q] = call[q])
        /\ call[k].phase \in {"new", "suspended"}
    <3>1. ASSUME q # k, call[q].phase = "suspended" PROVE FALSE
      <4>1. call'[q] = [call[q] EXCEPT !.undisturbed = FALSE]
        BY <2>1, <2>8, <3>1 DEF Enter
      <4> QED BY <1>0, <2>1, <2>2, <4>1 DEF Fields
    <3> QED BY <2>1, <2>8, <3>1 DEF Enter
  <2>10. q = k
    BY <1>0, <2>1, <2>2, <2>9
  <2>11. call[k].phase # "new"
    <3>1. Len(call[k].rids) >= 1
      <4>1. p[2] \in 1..Len(call[k].rids)
        BY <2>1, <2>2, <2>10, RidIs
      <4>2. Len(call[k].rids) \in Nat
        BY DEF Shape, ClientOK, CallOK
      <4> QED BY <4>1, <4>2
    <3>2. call[k].phase = "new" => Len(call[k].rids) = 0
      BY EmptyIsSeq DEF Shape, ClientOK, CallOK
    <3> QED BY <3>1, <3>2
  <2>12. /\ chan' = chan /\ outbox' = outbox /\ prev_text' = prev_text /\ up' = up /\ engine' = engine
    BY <2>8 DEF Enter, workers
  <2>13. Made(p)' = Made(p)
    BY <2>12 DEF Made, Asking
  <2>14. \A r, x : r = RidOf(p) /\ FlowAt(r, x, p) => FlowAt(r, x, p)'
    BY <2>12, <2>13, FlowSame
  <2> QED BY <2>3, <2>9, <2>10, <2>11, <2>14
<1> QED BY <1>2, <1>3, <1>4, TextStep

\* A call asks for one more prompt.
LEMMA TextAsks ==
  ASSUME PipelineInv, TextInv, NEW k \in Calls, SendRequest(k)
  PROVE  TextInv'
<1>0. /\ Shape /\ Requests /\ Downstream /\ Delivery /\ StatesAreLive /\ RidsGrow
  BY RidsOnlyGrow DEF PipelineInv, Next, ClientStep
<1>1. PICK n, rid, new : n = Len(call[k].rids) /\ rid = next_rid /\ new = <<k, n + 1>>
  OBVIOUS
<1>2. /\ DOMAIN call' = Calls /\ \A q \in Calls : q # k => call'[q] = call[q]
      /\ n \in Nat /\ n < PromptsOf[k] /\ Len(call'[k].rids) = n + 1
      /\ \A i \in 1..n : call'[k].rids[i] = call[k].rids[i]
      /\ call'[k].rids[n + 1] = rid
      /\ call'[k].pending = call[k].pending \cup {rid}
      /\ call'[k].tokens = Put(call[k].tokens, rid, << >>)
      /\ call'[k].undisturbed = call[k].undisturbed
  BY <1>0, <1>1, SendRequestEffect
<1>3. call'[k].text = Put(call[k].text, rid, << >>)
  <2>1. DOMAIN call = Calls /\ DOMAIN call[k] = Fields
    BY <1>0 DEF Shape, ClientOK, CallOK
  <2> QED BY <1>1, <2>1 DEF SendRequest, NextRequestId, Fields
<1>4. /\ call'[k].tokens[rid] = << >> /\ call'[k].text[rid] = << >>
      /\ \A r \in DOMAIN call[k].tokens : r # rid => call'[k].tokens[r] = call[k].tokens[r]
      /\ \A r \in DOMAIN call[k].text : r # rid => call'[k].text[r] = call[k].text[r]
  <2>1. PICK ids, ids2, text, text2 :
          /\ ids = call[k].tokens /\ text = call[k].text
          /\ ids2 = call'[k].tokens /\ text2 = call'[k].text
    OBVIOUS
  <2>2. ids2 = Put(ids, rid, << >>) /\ text2 = Put(text, rid, << >>)
    BY <1>2, <1>3, <2>1
  <2>3. /\ ids2[rid] = << >> /\ \A r \in DOMAIN ids : r # rid => ids2[r] = ids[r]
        /\ text2[rid] = << >> /\ \A r \in DOMAIN text : r # rid => text2[r] = text[r]
    BY ONLY <2>2 DEF Put
  <2> QED BY <2>1, <2>3
<1>5. /\ active = k /\ call[k].phase = "send" /\ started /\ started' = started
      /\ retracted' = retracted /\ outbox' = outbox /\ prev_text' = prev_text /\ up' = up
      /\ engine' = engine
      /\ DOMAIN chan = Channels /\ IsSeq(chan["tokenizer"])
      /\ chan'["tokenizer"] = Append(chan["tokenizer"], [rid |-> rid, prompt |-> new])
      /\ \A c \in Channels : c # "tokenizer" => chan'[c] = chan[c]
  <2>1. DOMAIN chan = Channels /\ IsSeq(chan["tokenizer"]) /\ (active # "none" => started)
    BY <1>0 DEF Shape, ClientOK, ChannelsOK, Channels, Workers
  <2> QED BY <1>1, <2>1, PipelineAssumption DEF SendRequest, NextRequestId, workers, Channels, Workers
<1>6. new \in Prompts /\ new[1] = k /\ new[2] = n + 1
  BY <1>1, <1>2, PromptIs, PipelineAssumption
<1>7. PromptsIn(chan'["tokenizer"]) = PromptsIn(chan["tokenizer"]) \cup {new}
  <2>1. PICK m : m = [rid |-> rid, prompt |-> new]
    OBVIOUS
  <2>2. m.prompt = new /\ ToSet(chan'["tokenizer"]) = ToSet(chan["tokenizer"]) \cup {m}
    BY <1>5, <2>1, AppendSet
  <2> QED BY <2>2, PromptsInSet
<1>8. ~Asked(new) /\ new \notin PromptsIn(chan["tokenizer"])
  <2>1. ~Asked(new)
    BY <1>1, <1>2, <1>6 DEF Asked
  <2> QED BY <1>0, <2>1, PlacedIsAsked
\* The prompts asked before.
<1>9. ASSUME NEW p \in Prompts, Asked(p)
      PROVE  /\ RidOf(p)' = RidOf(p) /\ RidOf(p) # rid /\ p # new
             /\ call'[p[1]].tokens[RidOf(p)] = call[p[1]].tokens[RidOf(p)]
             /\ call'[p[1]].text[RidOf(p)] = call[p[1]].text[RidOf(p)]
             /\ call'[p[1]].undisturbed = call[p[1]].undisturbed
             /\ Waiting(p)' => Waiting(p)
  <2>1. RidOf(p)' = RidOf(p) /\ RidOf(p) # rid /\ p # new /\ p[1] \in Calls
    BY <1>0, <1>1, <1>8, <1>9, AskedStays, RidIs
  <2>2. PICK q, r : q = p[1] /\ r = RidOf(p)
    OBVIOUS
  <2>3. CASE q # k
    <3>1. call'[q] = call[q]
      BY <1>2, <2>1, <2>2, <2>3
    <3>2. Waiting(p)' => Waiting(p)
      BY <1>5, <1>9, <2>1, <2>2, <3>1 DEF Waiting
    <3> QED BY <2>1, <2>2, <3>1, <3>2
  <2>4. CASE q = k
    <3>1. r \in DOMAIN call[k].tokens /\ r \in DOMAIN call[k].text
      <4>1. r \in ToSet(call[k].rids)
        BY <1>0, <1>9, <2>2, <2>4, RidIs
      <4>2. DOMAIN call[k].tokens = ToSet(call[k].rids) /\ DOMAIN call[k].text = ToSet(call[k].rids)
        BY <1>0 DEF Shape, ClientOK, CallOK
      <4> QED BY <4>1, <4>2
    <3>2. call'[k].tokens[r] = call[k].tokens[r] /\ call'[k].text[r] = call[k].text[r]
      BY <1>4, <2>1, <2>2, <3>1
    <3>3. Waiting(p)' => Waiting(p)
      BY <1>2, <1>5, <1>9, <2>1, <2>2, <2>4 DEF Waiting
    <3> QED BY <1>2, <2>1, <2>2, <2>4, <3>2, <3>3
  <2> QED BY <2>3, <2>4
<1>10. ASSUME NEW p \in Prompts, p # new PROVE Asked(p)' => Asked(p)
  <2>1. p[1] \in Calls /\ p[2] \in Nat /\ p = <<p[1], p[2]>>
    BY PromptIs, PipelineAssumption
  <2>2. CASE p[1] # k
    BY <1>2, <2>1, <2>2 DEF Asked
  <2>3. CASE p[1] = k
    BY <1>1, <1>2, <1>10, <2>1, <2>3 DEF Asked
  <2> QED BY <2>2, <2>3
<1>11. ASSUME NEW p \in Prompts, Asked(p)
       PROVE  /\ Delivered(p)'
              /\ Waiting(p)' =>
                   started' /\ \E x : /\ At(x, call'[p[1]].tokens[RidOf(p)'])
                                      /\ FlowAt(RidOf(p), x, p)'
  <2>1. /\ RidOf(p)' = RidOf(p) /\ p # new
        /\ call'[p[1]].tokens[RidOf(p)] = call[p[1]].tokens[RidOf(p)]
        /\ call'[p[1]].text[RidOf(p)] = call[p[1]].text[RidOf(p)]
        /\ call'[p[1]].undisturbed = call[p[1]].undisturbed
        /\ Waiting(p)' => Waiting(p)
    BY <1>9, <1>11
  <2>2. Delivered(p)'
    BY <1>5, <1>11, <2>1 DEF TextInv, Delivered
  <2>3. ASSUME Waiting(p)'
        PROVE  started' /\ \E x : /\ At(x, call'[p[1]].tokens[RidOf(p)'])
                                  /\ FlowAt(RidOf(p), x, p)'
    <3>1. PICK x, r : r = RidOf(p) /\ At(x, call[p[1]].tokens[r]) /\ FlowAt(r, x, p)
      BY <2>1, <2>3 DEF TextInv
    <3>2. Asking(p)' => Asking(p)
      BY <1>5, <1>7, <2>1 DEF Asking, Channels, Workers
    <3>3. FlowAt(r, x, p)'
      BY <1>5, <3>1, <3>2, MadeLess, FlowSame DEF Channels, Workers
    <3>4. FlowAt(RidOf(p), x, p)'
      BY <2>1, <3>1, <3>3 DEF FlowAt
    <3> QED BY <1>5, <2>1, <3>1, <3>4
  <2> QED BY <2>2, <2>3
\* The prompt it asks for now.
<1>12. RidOf(new)' = rid
  BY <1>2, <1>6 DEF RidOf
<1>13. call'[k].tokens[rid] = << >> /\ call'[k].text[rid] = << >>
  BY <1>4
<1>14. Delivered(new)'
  <2>1. << >> \in Seq(TokenIds) /\ Text(<< >>) = << >>
    BY TextOfNone
  <2> QED BY <1>6, <1>12, <1>13, <2>1 DEF Delivered
<1>15. ASSUME NEW x, At(x, << >>) PROVE FlowAt(rid, x, new)'
  <2>1. PICK a, b, c, d, prev, made :
          /\ a = chan'["client"] /\ b = outbox'["detokenizer"] /\ c = chan'["detokenizer"]
          /\ d = outbox'["scheduler"] /\ prev = PrevText(rid)' /\ made = Made(new)'
    OBVIOUS
  <2>2. /\ a = chan["client"] /\ b = outbox["detokenizer"] /\ c = chan["detokenizer"]
        /\ d = outbox["scheduler"]
    BY <1>5, <2>1 DEF Channels, Workers
  <2>3. IsSeq(a) /\ IsSeq(b) /\ IsSeq(c) /\ IsSeq(d)
    BY <1>0, <2>2 DEF Shape, ChannelsOK, Channels, Workers
  <2>4. \A m : AnswerOK(m) => m.rid # rid
    <3> SUFFICES ASSUME NEW m, AnswerOK(m) PROVE m.rid # rid
      OBVIOUS
    <3>1. PICK p \in Prompts : Asked(p) /\ m.rid = RidOf(p)
      BY DEF AnswerOK
    <3> QED BY <1>9, <3>1
  <2>5. SHUTDOWN.rid # rid
    BY <1>0, <1>1 DEF SHUTDOWN, Shape, ClientOK
  <2>6. \A s \in {a, b, c, d} : IsSeq(s) /\ \A m \in ToSet(s) : m.rid # rid
    BY <1>0, <2>2, <2>3, <2>4, <2>5 DEF Downstream
  <2>7. prev = << >>
    <3>1. rid \notin DOMAIN prev_text
      BY <1>0, <1>1 DEF StatesAreLive, Shape, ClientOK
    <3> QED BY <1>5, <2>1, <3>1 DEF PrevText
  <2>8. made \subseteq {<< >>}
    <3> SUFFICES ASSUME NEW ids \in Seq(TokenIds), NEW e \in DOMAIN engine,
                        engine[e] = [prompt |-> new, ids |-> ids]
                 PROVE  FALSE
      BY <1>5, <2>1 DEF Made
    <3>1. engine[e].prompt = new
      OBVIOUS
    <3> QED BY <1>0, <1>8, <3>1 DEF Requests, InEngine
  <2>9. Flow(a, b, c, d, rid, x, prev, made, up')
    BY <1>15, <2>6, <2>7, <2>8, FlowNew
  <2> QED BY <2>1, <2>9 DEF FlowAt
<1>16. started' /\ \E x : At(x, call'[new[1]].tokens[RidOf(new)']) /\ FlowAt(RidOf(new), x, new)'
  <2>1. PICK x : x = [ids |-> << >>, over |-> FALSE]
    OBVIOUS
  <2>2. At(x, << >>)
    BY <2>1 DEF At
  <2>3. FlowAt(rid, x, new)'
    BY <1>15, <2>2
  <2>4. FlowAt(RidOf(new), x, new)'
    BY <1>12, <2>3 DEF FlowAt
  <2> QED BY <1>5, <1>6, <1>12, <1>13, <2>2, <2>4
<1>17. ASSUME NEW p \in Prompts
       PROVE  /\ Delivered(p)'
              /\ Waiting(p)' =>
                   started' /\ \E x : /\ At(x, call'[p[1]].tokens[RidOf(p)'])
                                      /\ FlowAt(RidOf(p), x, p)'
  <2>1. CASE p = new
    BY <1>14, <1>16, <2>1
  <2>2. CASE p # new
    <3>1. ~Asked(p)' => Delivered(p)' /\ ~Waiting(p)'
      BY DEF Delivered, Waiting
    <3> QED BY <1>10, <1>11, <2>2, <3>1
  <2> QED BY <2>1, <2>2
<1> QED BY <1>17 DEF TextInv

\* A call takes an answer, or drops one it did not ask for.
LEMMA TextReads ==
  ASSUME PipelineInv, TextInv, NEW k \in Calls, RecvResponse(k)
  PROVE  TextInv'
<1>0. Shape /\ Requests /\ Delivery
  BY DEF PipelineInv
<1>1. PICK gr : gr = Head(chan["client"])
  OBVIOUS
<1>2. /\ active = k /\ call[k].phase = "recv" /\ started /\ started' = started
      /\ retracted' = retracted /\ outbox' = outbox /\ prev_text' = prev_text /\ up' = up
      /\ engine' = engine
      /\ chan["client"] # << >> /\ IsSeq(chan["client"]) /\ chan'["client"] = Tail(chan["client"])
      /\ \A c \in Channels : c # "client" => chan'[c] = chan[c]
  <2>1. DOMAIN chan = Channels /\ IsSeq(chan["client"]) /\ (active # "none" => started)
        /\ "client" \in Channels
    BY <1>0 DEF Shape, ClientOK, ChannelsOK, Channels
  <2> QED BY <2>1, PipelineAssumption DEF RecvResponse, workers
\* What comes after the answer.
<1>3. ASSUME NEW p, NEW r, NEW x, FlowAt(r, x, p)
      PROVE  \E y : Passes(gr, r, x, y, TRUE) /\ FlowAt(r, y, p)'
  <2>1. Made(p)' = Made(p) /\ PrevText(r)' = PrevText(r)
    BY <1>2 DEF Made, Asking, PrevText, Channels, Workers
  <2>2. PICK a, b, c, d, prev, made :
          /\ a = chan["client"] /\ b = outbox["detokenizer"] /\ c = chan["detokenizer"]
          /\ d = outbox["scheduler"] /\ prev = PrevText(r) /\ made = Made(p)
    OBVIOUS
  <2>3. Flow(a, b, c, d, r, x, prev, made, up) /\ IsSeq(a) /\ a # << >>
    BY <1>2, <1>3, <2>2 DEF FlowAt
  <2>4. PICK y : Passes(gr, r, x, y, TRUE) /\ Flow(Tail(a), b, c, d, r, y, prev, made, up)
    BY <1>1, <2>2, <2>3, FlowRead
  <2>5. /\ chan'["client"] = Tail(a) /\ chan'["detokenizer"] = c /\ outbox'["detokenizer"] = b
        /\ outbox'["scheduler"] = d
    BY <1>2, <2>2 DEF Channels, Workers
  <2>6. FlowAt(r, y, p)'
    BY <1>2, <2>1, <2>2, <2>4, <2>5 DEF FlowAt
  <2> QED BY <2>4, <2>6
<1>4. ASSUME NEW p, Waiting(p) PROVE p[1] = k
  BY <1>0, <1>2, <1>4, WaitingIsActive, PipelineAssumption
<1>5. CASE gr.rid \notin call[k].pending
  <2>1. call' = call
    BY <1>0, <1>1, <1>5, RecvResponseEffect DEF Taken
  <2>2. DOMAIN call' = Calls
    BY <1>0, <2>1 DEF Shape, ClientOK
  <2>3. ASSUME NEW p \in Prompts, Waiting(p)'
        PROVE  /\ Waiting(p) /\ started'
               /\ \A r, x : r = RidOf(p) /\ FlowAt(r, x, p) => FlowAt(r, x, p)'
    <3>1. Waiting(p)
      BY <1>2, <2>1, <2>3 DEF Waiting, Asked, RidOf
    <3>2. RidOf(p) # gr.rid
      BY <1>4, <1>5, <3>1 DEF Waiting
    <3>3. ASSUME NEW r, NEW x, r = RidOf(p), FlowAt(r, x, p) PROVE FlowAt(r, x, p)'
      <4>1. PICK y : Passes(gr, r, x, y, TRUE) /\ FlowAt(r, y, p)'
        BY <1>3, <3>3
      <4>2. y = x
        BY <3>2, <3>3, <4>1 DEF Passes
      <4> QED BY <4>1, <4>2
    <3> QED BY <1>2, <3>1, <3>3
  <2> QED BY <1>0, <1>2, <2>1, <2>2, <2>3, TextStep
<1>6. CASE gr.rid \in call[k].pending
  <2>1. /\ DOMAIN call' = Calls /\ \A q \in Calls : q # k => call'[q] = call[q]
        /\ call'[k].rids = call[k].rids /\ call'[k].undisturbed = call[k].undisturbed
        /\ call'[k].pending \subseteq call[k].pending
        /\ gr.finished => gr.rid \notin call'[k].pending
        /\ \A r \in DOMAIN call[k].tokens :
             call'[k].tokens[r] = IF r = gr.rid THEN gr.output_token_ids ELSE call[k].tokens[r]
    BY <1>0, <1>1, <1>6, RecvResponseEffect DEF Taken
  <2>2. ASSUME NEW r \in DOMAIN call[k].text
        PROVE  call'[k].text[r] = IF r = gr.rid THEN call[k].text[r] \o gr.delta_text ELSE call[k].text[r]
    BY <1>0, <1>1, <1>6, RecvResponseEffect DEF TextTaken
  <2>3. ASSUME NEW p \in Prompts
        PROVE  /\ Delivered(p)'
               /\ Waiting(p)' =>
                    started' /\ \E x : /\ At(x, call'[p[1]].tokens[RidOf(p)'])
                                       /\ FlowAt(RidOf(p), x, p)'
    <3>1. PICK q, r : q = p[1] /\ r = RidOf(p) /\ q \in Calls
      BY PromptIs
    <3>2. RidOf(p)' = r /\ (Asked(p)' <=> Asked(p))
      BY <2>1, <3>1 DEF RidOf, Asked
    <3>3. Delivered(p) /\ (Waiting(p) => \E x : At(x, call[q].tokens[r]) /\ FlowAt(r, x, p))
      BY <3>1 DEF TextInv
    <3>4. CASE q # k
      <4>1. call'[q] = call[q]
        BY <2>1, <3>1, <3>4
      <4>2. Delivered(p)'
        BY <1>2, <3>1, <3>2, <3>3, <4>1 DEF Delivered
      <4>3. Waiting(p)' => Waiting(p)
        BY <1>2, <3>1, <3>2, <4>1 DEF Waiting
      <4> QED BY <1>4, <3>1, <3>4, <4>2, <4>3
    <3>5. CASE ~Asked(p)
      BY <3>2, <3>5 DEF Delivered, Waiting
    <3>6. CASE q = k /\ Asked(p) /\ r # gr.rid
      <4>1. r \in DOMAIN call[k].tokens /\ r \in DOMAIN call[k].text
        <5>1. r \in ToSet(call[k].rids)
          BY <1>0, <3>1, <3>6, RidIs
        <5>2. DOMAIN call[k].tokens = ToSet(call[k].rids) /\ DOMAIN call[k].text = ToSet(call[k].rids)
          BY <1>0 DEF Shape, ClientOK, CallOK
        <5> QED BY <5>1, <5>2
      <4>2. call'[k].tokens[r] = call[k].tokens[r] /\ call'[k].text[r] = call[k].text[r]
        BY <2>1, <2>2, <3>6, <4>1
      <4>3. Delivered(p)'
        BY <1>2, <2>1, <3>1, <3>2, <3>3, <3>6, <4>2 DEF Delivered
      <4>4. ASSUME Waiting(p)'
            PROVE  started' /\ \E x : /\ At(x, call'[p[1]].tokens[RidOf(p)'])
                                      /\ FlowAt(RidOf(p), x, p)'
        <5>1. Waiting(p)
          BY <1>2, <2>1, <3>1, <3>2, <3>6, <4>4 DEF Waiting
        <5>2. PICK x : At(x, call[k].tokens[r]) /\ FlowAt(r, x, p)
          BY <3>3, <3>6, <5>1
        <5>3. PICK y : Passes(gr, r, x, y, TRUE) /\ FlowAt(r, y, p)'
          BY <1>3, <5>2
        <5>4. y = x
          BY <3>6, <5>3 DEF Passes
        <5>5. FlowAt(RidOf(p), x, p)'
          BY <3>2, <5>3, <5>4 DEF FlowAt
        <5> QED BY <1>2, <3>1, <3>2, <3>6, <4>2, <5>2, <5>5
      <4> QED BY <4>3, <4>4
    <3>7. CASE q = k /\ Asked(p) /\ r = gr.rid
      <4>1. r \in DOMAIN call[k].tokens /\ r \in DOMAIN call[k].text
        <5>1. r \in ToSet(call[k].rids)
          BY <1>0, <3>1, <3>7, RidIs
        <5>2. DOMAIN call[k].tokens = ToSet(call[k].rids) /\ DOMAIN call[k].text = ToSet(call[k].rids)
          BY <1>0 DEF Shape, ClientOK, CallOK
        <5> QED BY <5>1, <5>2
      <4>2. PICK ids, ids2, text, text2 :
              /\ ids = call[k].tokens[r] /\ text = call[k].text[r]
              /\ ids2 = call'[k].tokens[r] /\ text2 = call'[k].text[r]
        OBVIOUS
      <4>3. ids2 = gr.output_token_ids /\ text2 = text \o gr.delta_text
        BY <2>1, <2>2, <3>7, <4>1, <4>2
      <4>4. CASE p \in retracted \/ ~call[k].undisturbed
        BY <1>2, <2>1, <3>1, <3>2, <3>7, <4>4 DEF Delivered, Waiting
      <4>5. CASE p \notin retracted /\ call[k].undisturbed
        <5>1. Waiting(p)
          BY <1>2, <1>6, <3>1, <3>7, <4>5 DEF Waiting
        <5>2. PICK x : At(x, ids) /\ FlowAt(r, x, p)
          BY <3>3, <3>7, <4>2, <5>1
        <5>3. PICK y : Passes(gr, r, x, y, TRUE) /\ FlowAt(r, y, p)'
          BY <1>3, <5>2
        <5>4. /\ y = [ids |-> ids2, over |-> gr.finished]
              /\ \E t \in TokenIds : y.ids = Append(x.ids, t)
              /\ gr.delta_text = SubSeq(Text(y.ids), Len(Text(x.ids)) + 1, Len(Text(y.ids)))
          BY <3>7, <4>3, <5>3 DEF Passes
        <5>5. y.ids = ids2 /\ (y.over => gr.finished) /\ x.ids = ids
          BY <5>2, <5>4 DEF At
        <5>6. PICK t \in TokenIds : ids2 = Append(ids, t)
          BY <5>4, <5>5
        <5>7. ids \in Seq(TokenIds) /\ (Whole(ids) => text = Text(ids))
          BY <3>1, <3>3, <3>7, <4>2, <4>5 DEF Delivered
        <5>8. ids2 \in Seq(TokenIds)
          BY <5>6, <5>7
        <5>9. Whole(ids2) => text2 = Text(ids2)
          <6>1. ASSUME Whole(ids2) PROVE text2 = Text(ids2)
            <7>1. /\ Whole(ids)
                  /\ Text(ids) \o SubSeq(Text(ids2), Len(Text(ids)) + 1, Len(Text(ids2))) = Text(ids2)
              BY <5>6, <5>7, <6>1, WholeDelta
            <7> QED BY <4>3, <5>4, <5>5, <5>7, <7>1
          <6> QED BY <6>1
        <5>10. Delivered(p)'
          BY <3>1, <3>2, <3>7, <4>2, <5>8, <5>9 DEF Delivered
        <5>11. ASSUME Waiting(p)'
               PROVE  started' /\ \E z : /\ At(z, call'[p[1]].tokens[RidOf(p)'])
                                         /\ FlowAt(RidOf(p), z, p)'
          <6>1. ~gr.finished
            BY <2>1, <3>1, <3>2, <3>7, <5>11 DEF Waiting
          <6>2. At(y, ids2)
            BY <5>5, <6>1 DEF At
          <6>3. FlowAt(RidOf(p), y, p)'
            BY <3>2, <5>3 DEF FlowAt
          <6> QED BY <1>2, <3>1, <3>2, <3>7, <4>2, <6>2, <6>3
        <5> QED BY <5>10, <5>11
      <4> QED BY <4>4, <4>5
    <3> QED BY <3>4, <3>5, <3>6, <3>7
  <2> QED BY <2>3 DEF TextInv
<1> QED BY <1>5, <1>6

LEMMA TextStays ==
  ASSUME PipelineInv, TextInv, [Next]_vars
  PROVE  TextInv'
<1>1. Shape /\ Requests /\ Delivery
  BY DEF PipelineInv
<1>2. CASE \/ \E w \in Workers : Send(w) \/ Fail(w)
           \/ Tokenize \/ AddRequest \/ EngineStep \/ Detokenize \/ Shutdown
           \/ \E e \in DOMAIN engine : Retract(e)
           \/ UNCHANGED vars
  BY <1>1, <1>2, TextWorkers
<1>3. CASE \/ Start \/ Stop
           \/ \E k \in Calls : Enter(k) \/ ResumeStopped(k) \/ RecvTimeout(k)
  BY <1>1, <1>3, TextClient
<1>4. ASSUME NEW k \in Calls, SendRequest(k) \/ RecvResponse(k) PROVE TextInv'
  BY <1>4, TextAsks, TextReads
<1> QED BY <1>2, <1>3, <1>4
        DEF Next, ClientStep, TokenizerStep, SchedulerStep, DetokenizerStep, Workers

\* The text a call has put together from the deltas is at every moment the text of the
\* tokens it got with them, for whole characters and a call no other read for
\* (detokenizer_worker.py:90-100, multi_process_engine.py:216-220).
THEOREM TextMatchesTokensTheorem == Spec => []TextMatchesTokens
<1>1. Init => TextInv
  <2> SUFFICES ASSUME Init, NEW p \in Prompts PROVE ~Asked(p)
    BY DEF TextInv, Delivered, Waiting
  <2>1. p[1] \in Calls /\ p[2] \in Nat \ {0}
    BY PromptIs, PipelineAssumption
  <2>2. call[p[1]].rids = << >>
    BY <2>1 DEF Init, NewCall
  <2> QED BY <2>1, <2>2, EmptyIsSeq DEF Asked
<1>2. PipelineInv /\ TextInv /\ [Next]_vars => TextInv'
  BY TextStays
<1>3. ASSUME PipelineInv, TextInv PROVE TextMatchesTokens
  <2> SUFFICES ASSUME NEW k \in Calls, NEW i \in DOMAIN call[k].rids,
                      call[k].undisturbed, <<k, i>> \notin retracted, Whole(Answer(k, i))
               PROVE  call[k].text[Rid(k, i)] = Text(Answer(k, i))
    BY DEF TextMatchesTokens
  <2>1. i \in 1..Len(call[k].rids) /\ i <= PromptsOf[k] /\ i \in 1..PromptsOf[k]
    BY <1>3, PipelineAssumption DEF PipelineInv, Shape, ClientOK, CallOK
  <2>2. PICK p : p = <<k, i>>
    OBVIOUS
  <2>3. p \in Prompts /\ p[1] = k /\ p[2] = i
    BY <2>1, <2>2, PromptIs
  <2>4. Asked(p) /\ RidOf(p) = Rid(k, i)
    BY <2>1, <2>3 DEF Asked, RidOf, Rid
  <2> QED BY <1>3, <2>2, <2>3, <2>4 DEF TextInv, Delivered, Answer
<1> QED BY <1>1, <1>2, <1>3, PipelineInvariant, PTL DEF Spec
=============================================================================
