--------------------------- MODULE PrefillBudget ---------------------------
(***************************************************************************)
(* scheduler/prefill_adder.py: which waiting requests a prefill batch      *)
(* takes.  Everything is counted in tokens.  Chunked prefill is off        *)
(* (chunk_size = None, the default).                                       *)
(*                                                                         *)
(* An adder is the record of what has been decided so far                  *)
(*   total   rem_total_token_offset: what is spoken for, the decodes to    *)
(*           come included                                                 *)
(*   cur     cur_rem_token_offset: what this batch takes at once           *)
(*   input   tokens of input taken so far, off max_extend_len              *)
(*   taken   can_run_list                                                  *)
(*   rest    remaining_waiting                                             *)
(*   closed  a request has been refused with NO_TOKEN                      *)
(* new_token_ratio is an integer percentage.                               *)
(***************************************************************************)
EXTENDS Integers, SequencesExt

CONSTANTS PageSize,        \* tokens per page
          MaxExtendLen,    \* max_extend_len
          PromptLen,       \* request -> len(origin_input_ids)
          MaxTokens        \* request -> sampling_params.max_tokens

ClipMaxNewTokens == 1024

\* Mutant of Clipped: max for min.
ClippedUp(n) == IF n < ClipMaxNewTokens THEN ClipMaxNewTokens ELSE n

\* min(n, CLIP_MAX_NEW_TOKENS)
Clipped(n) == IF n < ClipMaxNewTokens THEN n ELSE ClipMaxNewTokens

CeilPages(n) == (n + PageSize - 1) \div PageSize
AlignUp(n)   == CeilPages(n) * PageSize

\* _running_req_token_reserve of a request with output_len tokens.
RunningReserve(r, output_len, ratio) ==
  (Clipped(IF MaxTokens[r] > output_len THEN MaxTokens[r] - output_len ELSE 0) * ratio) \div 100

\* What the adder keeps back for requests that reserve as many tokens as s says.
Total(s) == FoldLeft(LAMBDA n, m : n + m, 0, s)

NewAdder(reserved) == [total |-> reserved, cur |-> 0, input |-> 0,
                       taken |-> << >>, rest |-> << >>, closed |-> FALSE]

\* budget_state() = CONTINUE
BudgetLeft(a, available) ==
  a.total < available /\ a.cur < available /\ a.input < MaxExtendLen

\* Mutant of Skip: the queue behind a refused request is forgotten.
SkipForgets(a, r) == IF a.closed THEN a ELSE [a EXCEPT !.rest = Append(@, r)]

\* remaining_waiting.append
Skip(a, r) == [a EXCEPT !.rest = Append(@, r)]

\* Mutant of Take: the pages of the prompt are not counted among what the batch
\* holds.
TakeUncounted(a, r) == [a EXCEPT !.taken = Append(@, r), !.input = @ + AlignUp(PromptLen[r])]

\* can_run_list.append and _update_prefill_budget.
Take(a, r) ==
  LET aligned == AlignUp(PromptLen[r])
  IN [a EXCEPT !.total = @ + aligned + Clipped(MaxTokens[r]),
               !.cur   = @ + aligned,
               !.input = @ + aligned,
               !.taken = Append(@, r)]

\* One turn of the loop over the waiting queue: try_add_prefill of a request that
\* has no output and no cached prefix, and what the scheduler does with the answer.
Consider(a, r, available, slots) ==
  CASE a.closed \/ ~BudgetLeft(a, available) -> Skip(a, r)
    [] Len(a.taken) >= slots                 -> Skip(a, r)
    [] PromptLen[r] + Clipped(MaxTokens[r]) > available - a.total
                                             -> [Skip(a, r) EXCEPT !.closed = TRUE]
    [] AlignUp(PromptLen[r]) >= MaxExtendLen - a.input /\ a.taken # << >>
                                             -> Skip(a, r)
    [] OTHER                                 -> Take(a, r)

\* The whole loop: waiting requests in order, against `available` tokens of which
\* `reserved` are kept for the running requests, into at most `slots` places.
\* (When the budget is used up before the loop begins, the loop takes nothing.)
Admit(waiting, available, reserved, slots) ==
  FoldLeft(LAMBDA a, r : Consider(a, r, available, slots), NewAdder(reserved), waiting)
=============================================================================
