------------------------ MODULE Rabit2CausalChunkPlan ------------------------
(***************************************************************************)
(* Rabit2CausalChunkPlan: a chunk that is not the first of its request     *)
(* encodes all the pages it will close up front, then exposes the sidecar  *)
(* state one token at a time.                                              *)
(***************************************************************************)
EXTENDS Rabit2Runtime

\* The plan variable when no chunk is being applied.
NoPlan == [init_closed |-> 0, init_open_len |-> 0, init_recent_len |-> 0,
           combined_recent |-> <<>>, all |-> <<>>, num_tokens |-> 0,
           last_step |-> -1]

PlanFullPages(plan) == Len(plan.all) \div GroupSize

\* Mutant: the aged tokens are cut one position late.
NewPlanLate(rt, toks) ==
  LET combined == rt.recent \o toks
      aged_total == Aged(Len(combined))
  IN  [init_closed |-> rt.closed_pages,
       init_open_len |-> Len(rt.open),
       init_recent_len |-> Len(rt.recent),
       combined_recent |-> combined,
       all |-> rt.open \o Slice(combined, 1, aged_total + 1),
       num_tokens |-> Len(toks),
       last_step |-> -1]

\* The fields __init__ computes from the sidecar and the chunk's tokens.
NewPlan(rt, toks) ==
  LET combined == rt.recent \o toks
      aged_total == Aged(Len(combined))
  IN  [init_closed |-> rt.closed_pages,
       init_open_len |-> Len(rt.open),
       init_recent_len |-> Len(rt.recent),
       combined_recent |-> combined,
       all |-> rt.open \o Slice(combined, 0, aged_total),
       num_tokens |-> Len(toks),
       last_step |-> -1]

\* __init__ refuses a row that cannot hold the pages the chunk closes.
PlanRaises(plan, row) == plan.init_closed + PlanFullPages(plan) > Len(row)

\* Mutant: the scatter runs over the whole row, padding included.
PlanWritesWholeRow(plan, cache, row) ==
  LET written == write_full_pages(plan.all, PlanFullPages(plan),
                                  plan.init_closed, cache, row)
      rest == (plan.init_closed + PlanFullPages(plan) + 1)..Len(row)
  IN  [b \in DOMAIN cache |->
         IF \E p \in rest : row[p] = b THEN <<Uninit>> ELSE written[b]]

\* __init__ scatters every page the chunk will close.
PlanWrites(plan, cache, row) ==
  IF PlanFullPages(plan) = 0
  THEN cache
  ELSE write_full_pages(plan.all, PlanFullPages(plan), plan.init_closed,
                        cache, row)

\* Mutant: the open group keeps the tokens of the pages just closed.
apply_step_keeps_closed(rt, plan, step) ==
  LET processed == step + 1
      aged_now == Aged(plan.init_recent_len + processed)
      open_total_now == plan.init_open_len + aged_now
  IN  [rt EXCEPT
         !.closed_pages = plan.init_closed + (open_total_now \div GroupSize),
         !.open = Slice(plan.all, 0, open_total_now),
         !.recent = Slice(plan.combined_recent, aged_now,
                          plan.init_recent_len + processed)]

\* The sidecar after consuming chunk token `step' (0-based).
apply_step(rt, plan, step) ==
  LET processed == step + 1
      aged_now == Aged(plan.init_recent_len + processed)
      open_total_now == plan.init_open_len + aged_now
      closed_new == open_total_now \div GroupSize
  IN  [rt EXCEPT
         !.closed_pages = plan.init_closed + closed_new,
         !.open = Slice(plan.all, PageTokens(closed_new), open_total_now),
         !.recent = Slice(plan.combined_recent, aged_now,
                          plan.init_recent_len + processed)]

-----------------------------------------------------------------------------
PlanType ==
  [init_closed : Nat, init_open_len : Nat, init_recent_len : Nat,
   combined_recent : Seq(Token), all : Seq(Token), num_tokens : Nat,
   last_step : Nat \cup {-1}]

\* The plan extends a sidecar of n tokens of computation e.
PlanExtends(p, e, n) ==
  LET base == PageTokens(p.init_closed)
      end == n + p.num_tokens
  IN  /\ p.init_open_len < GroupSize
      /\ base + p.init_open_len = Aged(n)
      /\ p.init_recent_len = n - Aged(n)
      /\ p.combined_recent = Run(e, Aged(n), end)
      /\ p.all = Run(e, base, Aged(end))
=============================================================================
