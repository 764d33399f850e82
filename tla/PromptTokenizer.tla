-------------------------- MODULE PromptTokenizer --------------------------
(***************************************************************************)
(* miniinfer/engine/incremental_batch_tokenizer.py: prompts to token ids,  *)
(* one at a time or in batches, through an LRU cache.  The tokenizer is a  *)
(* function of the prompt; with or without chat template, which is part of *)
(* the key, does not matter here.                                          *)
(***************************************************************************)
EXTENDS Integers, Sequences, SequencesExt, FiniteSets, TLC

CONSTANTS Prompts,
          LruSize,    \* cache_size
          BatchSize   \* bound: prompts of one call

ASSUME TokenizerAssumption == LruSize \in Nat /\ BatchSize \in Nat

VARIABLES
  lru,      \* _cache: entries [key, ids], oldest first
  answer,   \* the last call: its prompts and the ids it returned
  recency   \* history: every prompt ever asked for, by its last use

tvars == <<lru, answer, recency>>

\* The external tokenizer.
Encode(p) == <<"ids", p>>

TokenizerInit == lru = << >> /\ recency = << >> /\ answer = [prompts |-> << >>, ids |-> << >>]

Keys(c) == [i \in DOMAIN c |-> c[i].key]
Hit(c, p) == p \in Range(Keys(c))
At(c, p) == CHOOSE i \in DOMAIN c : c[i].key = p

\* move_to_end of an entry.
Touch(c, p) == Append(RemoveAt(c, At(c, p)), c[At(c, p)])

\* _cache[key] = ids, and to the end.
Put(c, p, ids) ==
  Append(IF Hit(c, p) THEN RemoveAt(c, At(c, p)) ELSE c, [key |-> p, ids |-> ids])

\* popitem(last=False) down to the size.
Evict(c) == IF Len(c) > LruSize THEN SubSeq(c, Len(c) - LruSize + 1, Len(c)) ELSE c

\* A use of p, in the history.
Use(rec, p) ==
  Append(IF p \in Range(rec) THEN RemoveAt(rec, CHOOSE i \in DOMAIN rec : rec[i] = p) ELSE rec, p)

\* encode_one.
EncodeOne(p) ==
  /\ lru' = IF LruSize = 0 THEN << >>
            ELSE IF Hit(lru, p) THEN Touch(lru, p)
            ELSE Evict(Put(lru, p, Encode(p)))
  /\ answer' = [prompts |-> <<p>>,
                ids |-> <<IF Hit(lru, p) THEN lru[At(lru, p)].ids ELSE Encode(p)>>]
  /\ recency' = Use(recency, p)

\* Mutant of IsMissing: every prompt is sent to the tokenizer once.
IsMissingOnce(c, ps, i) == ~Hit(c, ps[i]) /\ \A j \in 1..(i - 1) : ps[j] # ps[i]

\* A prompt that is not cached is missing, each time it is repeated.
IsMissing(c, ps, i) == ~Hit(c, ps[i])

\* What the first loop does for the i-th prompt, x being [cache, recency, missing]: a
\* hit is moved to the end, the place of a missing prompt is noted.
LookUp(x, ps, i) ==
  IF IsMissing(x.cache, ps, i) THEN [x EXCEPT !.missing = Append(@, i)]
  ELSE IF Hit(x.cache, ps[i])
    THEN [x EXCEPT !.cache = Touch(@, ps[i]), !.recency = Use(@, ps[i])]
  ELSE x

LookedUp(ps) ==
  LET looked[i \in 0..Len(ps)] ==
        IF i = 0 THEN [cache |-> lru, recency |-> recency, missing |-> << >>]
        ELSE LookUp(looked[i - 1], ps, i)
  IN looked[Len(ps)]

\* What the loop over the encoded prompts does for one of them.
Fill(x, p, ids) == [x EXCEPT !.cache = Put(@, p, ids), !.recency = Use(@, p)]

Filled(x, ps, batch) ==
  LET filled[k \in 0..Len(x.missing)] ==
        IF k = 0 THEN x ELSE Fill(filled[k - 1], ps[x.missing[k]], batch[k])
  IN filled[Len(x.missing)]

\* encode_batch: the missing prompts are encoded together, their ids put where they
\* are missing and into the cache.
EncodeBatch(ps) ==
  LET looked  == LookedUp(ps)
      missing == looked.missing
      batch   == [k \in DOMAIN missing |-> Encode(ps[missing[k]])]
      filled  == Filled(looked, ps, batch)
  IN /\ ps # << >>
     /\ lru' = IF LruSize = 0 THEN << >> ELSE Evict(filled.cache)
     /\ answer' = [prompts |-> ps,
          ids |-> [i \in DOMAIN ps |->
             IF Hit(lru, ps[i]) THEN lru[At(lru, ps[i])].ids
             ELSE IF \E k \in DOMAIN missing : missing[k] = i
               THEN batch[CHOOSE k \in DOMAIN missing : missing[k] = i]
             ELSE << >>]]
     /\ recency' = filled.recency

TokenizerNext ==
  \/ \E p \in Prompts : EncodeOne(p)
  \/ \E n \in 1..BatchSize : \E ps \in [1..n -> Prompts] : EncodeBatch(ps)

---------------------------------------------------------------------------
\* Every prompt of a call gets its own ids, in the order of the prompts, whichever
\* of them were cached and however often one is repeated.
AnswersInOrder ==
  answer.ids = [i \in DOMAIN answer.prompts |-> Encode(answer.prompts[i])]

\* The cache is least recently used: it holds the prompts used last, as many as
\* its size allows, in the order of their last use.
LeastRecentlyUsed ==
  LET n == IF Len(recency) < LruSize THEN Len(recency) ELSE LruSize
  IN Keys(lru) = SubSeq(recency, Len(recency) - n + 1, Len(recency))
=============================================================================
