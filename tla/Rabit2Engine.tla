----------------------------- MODULE Rabit2Engine -----------------------------
(***************************************************************************)
(* The life of sidecars in a serving engine: the asynchronous scheduler    *)
(* decides steps and frees blocks, the worker executes the steps later and *)
(* in order, and each attention layer finds its sidecars through the batch *)
(* the model runner published last.  What a sidecar holds is modelled by   *)
(* Rabit2Sequence; here it is its length, the computations its tokens came *)
(* from and the blocks of its closed pages.                                *)
(***************************************************************************)
EXTENDS Integers, Sequences, SequencesExt, FiniteSets, FiniteSetsExt, Functions

CONSTANTS
  Requests,        \* request IDs, each used once (input_processor.py)
  NumLayers,       \* attention layers, run in order by one forward
  Runner,          \* "V1" (gpu_model_runner.py) or "V2" (gpu/model_runner.py)
  DataParallel,    \* TRUE: an idle rank runs dummy batches for its peers
  NumBlocks,       \* physical KV blocks
  BlockSize, ResidualTokens,
  Prompts,         \* prompt lengths
  max_model_len, max_num_scheduled_tokens,
  batch_queue_size,
  MaxResets        \* bound: calls of reset_prefix_cache

ASSUME EngineAssumption ==
  /\ Runner \in {"V1", "V2"} /\ DataParallel \in BOOLEAN
  /\ {NumLayers, NumBlocks, BlockSize, max_num_scheduled_tokens}
       \subseteq Nat \ {0}
  /\ batch_queue_size \in Nat /\ batch_queue_size >= 2
  /\ {ResidualTokens, MaxResets} \subseteq Nat
  /\ Prompts \subseteq 1..(max_model_len - 1)
  /\ NumBlocks * BlockSize >= max_model_len

VARIABLES
  req,        \* Scheduler.requests
  running, waiting,
  owned,      \* the blocks the KV cache manager holds for a request
  finished_req_ids, reset_preempted_req_ids,
  batch_queue,\* scheduler outputs not yet processed by update_from_output
  worker,     \* phase, next layer and attention metadata of a forward
  active,     \* _RABIT2_ACTIVE_BATCH
  runtimes,   \* impl._rabit2_runtimes of each layer
  startup,    \* "profile", then "warmup", then "serving"
  loop,       \* where run_busy_loop is
  resets

schedVars == <<req, running, waiting, owned, finished_req_ids,
               reset_preempted_req_ids>>
vars == <<schedVars, batch_queue, worker, active, runtimes, startup, loop, resets>>

Layers == 1..NumLayers
Ceil(n, d) == (n + d - 1) \div d
Profile(i) == <<"__rabit_profile_", i>>
Warmup(i) == <<"_warmup_", i>>

\* The only member of S.
The(S) == CHOOSE x \in S : TRUE

Init ==
  /\ req = [r \in Requests |->
              [status |-> "unseen", computed |-> 0, num_tokens |-> 0,
               placeholders |-> 0, discard |-> 0, preemptions |-> 0]]
  /\ running = <<>> /\ waiting = <<>>
  /\ owned = [r \in Requests |-> <<>>]
  /\ finished_req_ids = {} /\ reset_preempted_req_ids = {}
  /\ batch_queue = <<>>
  /\ worker = [phase |-> "idle", layer |-> 0, attn |-> <<>>]
  /\ active = <<>>
  /\ runtimes = [l \in Layers |-> <<>>]
  /\ startup = "profile"
  /\ loop = "poll"
  /\ resets = 0
-----------------------------------------------------------------------------
\* Scheduler.

HasUnfinishedRequests == running # <<>> \/ waiting # <<>>
HasRequests == HasUnfinishedRequests \/ finished_req_ids # {}

\* The engine handles client messages between two of its steps.  In a step it may
\* have to wait for the oldest result ("pop", or "pop_nothing" if the step
\* executed nothing); "nothing" is a data-parallel rank after a step that
\* executed nothing.
BetweenSteps == startup = "serving" /\ loop = "poll"

AfterStep(executed) == IF executed \/ ~ DataParallel THEN "poll" ELSE "nothing"

add_request(r, prompt) ==
  /\ BetweenSteps
  /\ req[r].status = "unseen"
  /\ req' = [req EXCEPT ![r].status = "waiting", ![r].num_tokens = prompt]
  /\ waiting' = Append(waiting, r)
  /\ UNCHANGED <<running, owned, finished_req_ids, reset_preempted_req_ids,
                 batch_queue, worker, active, runtimes, startup, loop, resets>>

\* Mutant: a request that finishes in the waiting queue stays in it.
FreeRequests_running_only(table, S) ==
  /\ req' = [r \in Requests |-> IF r \in S
               THEN [table[r] EXCEPT !.status = "finished"] ELSE table[r]]
  /\ running' = SelectSeq(running, LAMBDA r : r \notin S)
  /\ waiting' = waiting
  /\ owned' = [r \in Requests |-> IF r \in S THEN <<>> ELSE owned[r]]
  /\ finished_req_ids' = finished_req_ids \cup S
  /\ UNCHANGED reset_preempted_req_ids

\* _free_request for S: out of the queues, blocks returned, the IDs announced
\* with the next scheduler output.
FreeRequests(table, S) ==
  /\ req' = [r \in Requests |-> IF r \in S
               THEN [table[r] EXCEPT !.status = "finished"] ELSE table[r]]
  /\ running' = SelectSeq(running, LAMBDA r : r \notin S)
  /\ waiting' = SelectSeq(waiting, LAMBDA r : r \notin S)
  /\ owned' = [r \in Requests |-> IF r \in S THEN <<>> ELSE owned[r]]
  /\ finished_req_ids' = finished_req_ids \cup S
  /\ UNCHANGED reset_preempted_req_ids

\* A client aborts a request, even while a step that holds it is in flight or
\* waited for.
finish_requests(r) ==
  /\ loop # "nothing"
  /\ req[r].status \in {"waiting", "running", "preempted"}
  /\ FreeRequests(req, {r})
  /\ UNCHANGED <<batch_queue, worker, active, runtimes, startup, loop, resets>>

\* Mutant: the position survives the preemption.
_preempt_request_keeps_position(q) ==
  [q EXCEPT !.status = "preempted", !.preemptions = @ + 1]

_preempt_request(q) ==
  [q EXCEPT !.status = "preempted", !.computed = 0, !.preemptions = @ + 1]

\* reset_prefix_cache(reset_running_requests=True): every running request is
\* preempted outside schedule(), so the very next step may resume it; the
\* outputs still in flight for it are to be discarded.
reset_prefix_cache ==
  /\ BetweenSteps
  /\ resets < MaxResets /\ running # <<>>
  /\ resets' = resets + 1
  /\ LET S == Range(running)
     IN  /\ req' = [r \in Requests |-> IF r \in S
                      THEN [_preempt_request(req[r]) EXCEPT
                              !.discard = req[r].placeholders, !.placeholders = 0]
                      ELSE req[r]]
         /\ owned' = [r \in Requests |-> IF r \in S THEN <<>> ELSE owned[r]]
         /\ reset_preempted_req_ids' = reset_preempted_req_ids \cup S
  /\ running' = <<>>
  /\ waiting' = running \o waiting
  /\ UNCHANGED <<finished_req_ids, batch_queue, worker, active, runtimes, startup,
                 loop>>

\* The state of schedule()'s loops.
LoopStart ==
  [req_index |-> 1, token_budget |-> max_num_scheduled_tokens, req |-> req,
   running |-> running, waiting |-> waiting, owned |-> owned,
   entries |-> <<>>, preempted |-> {}]

FreeBlocks(s) == (1..NumBlocks) \ UNION {Range(s.owned[r]) : r \in Requests}

\* allocate_slots succeeds for n tokens of r, and the row of r after it.
Fits(s, r, n) ==
  Ceil(n, BlockSize) - Len(s.owned[r]) <= Cardinality(FreeBlocks(s))

Row(s, r, n) ==
  LET more == Ceil(n, BlockSize) - Len(s.owned[r])
  IN  IF more <= 0 THEN s.owned[r]
      ELSE s.owned[r] \o SubSeq(SetToSortSeq(FreeBlocks(s), <), 1, more)

\* Request r gets n new tokens.  _update_after_schedule advances its position;
\* once all its tokens are computed it is going to sample another one.
Scheduled(s, r, n) ==
  LET q == s.req[r]
      end == q.computed + n
      row == Row(s, r, end)
      samples == end >= q.num_tokens + q.placeholders
  IN  [s EXCEPT
         !.token_budget = @ - n,
         !.owned[r] = row,
         !.req[r] = [q EXCEPT !.status = "running", !.computed = end,
                              !.placeholders = IF samples THEN @ + 1 ELSE @],
         !.entries = Append(@, [id |-> r, q |-> n, ctx |-> q.computed,
                                row |-> row, samples |-> samples,
                                from |-> <<r, q.preemptions>>])]

\* One round of the loop over the running requests: schedule the next one, or
\* preempt the last one to make room.
RunningRound(s) ==
  LET r == s.running[s.req_index]
      q == s.req[r]
      n == Min({q.num_tokens + q.placeholders - q.computed, s.token_budget,
                max_model_len - q.computed - 1})
      last == Last(s.running)
  IN  IF s.req_index > Len(s.running) \/ s.token_budget = 0 THEN s
      ELSE IF n = 0 THEN [s EXCEPT !.req_index = @ + 1]
      ELSE IF Fits(s, r, q.computed + n)
      THEN [Scheduled(s, r, n) EXCEPT !.req_index = @ + 1]
      ELSE [s EXCEPT !.running = Front(@), !.waiting = <<last>> \o @,
                     !.owned[last] = <<>>, !.req[last] = _preempt_request(@),
                     !.preempted = @ \cup {last}]

\* One round of the loop over the waiting requests: admit the first one if its
\* whole sequence fits; admit none in a step that preempted.
WaitingRound(s) ==
  LET r == Head(s.waiting)
      n == Min({s.req[r].num_tokens - s.req[r].computed, s.token_budget})
  IN  IF \/ s.preempted # {} \/ s.waiting = <<>> \/ s.token_budget = 0
         \/ ~ Fits(s, r, s.req[r].num_tokens)
      THEN s
      ELSE [Scheduled(s, r, n) EXCEPT !.running = Append(@, r), !.waiting = Tail(@)]

\* Each round of either loop disposes of a request.
ScheduleLoops ==
  LET rounds == Cardinality(Requests)
      first[i \in 0..rounds] ==
        IF i = 0 THEN LoopStart ELSE The({RunningRound(s) : s \in {first[i - 1]}})
      second[i \in 0..rounds] ==
        IF i = 0 THEN first[rounds]
        ELSE The({WaitingRound(s) : s \in {second[i - 1]}})
  IN  second[rounds]

\* A step that schedules.  The output announces what has finished and what was
\* preempted since the last one.  The step ends here while the queue has room and
\* there is more to schedule, and otherwise waits for the oldest result.
schedule ==
  /\ BetweenSteps /\ HasRequests
  /\ \E s \in {ScheduleLoops} :
       /\ req' = s.req /\ running' = s.running /\ waiting' = s.waiting
       /\ owned' = s.owned
       /\ batch_queue' =
            Append(batch_queue,
                   [entries |-> s.entries, finished |-> finished_req_ids,
                    preempted |-> reset_preempted_req_ids \cup s.preempted,
                    done |-> FALSE])
       /\ LET executed == s.entries # <<>>
          IN  loop' = IF /\ Len(batch_queue') < batch_queue_size
                         /\ executed \/ HasUnfinishedRequests'
                      THEN AfterStep(executed)
                      ELSE IF executed THEN "pop" ELSE "pop_nothing"
  /\ finished_req_ids' = {} /\ reset_preempted_req_ids' = {}
  /\ UNCHANGED <<worker, active, runtimes, startup, resets>>

\* Mutant: off by one at the model's length.
check_stop_late(q) == q.num_tokens > max_model_len

\* The length part of check_stop.
check_stop(q) == q.num_tokens >= max_model_len

\* A request after a sampled token returned: an output that was in flight when
\* reset_prefix_cache preempted the request is dropped.
_update_request_with_output(q) ==
  IF q.discard > 0 THEN [q EXCEPT !.discard = @ - 1]
  ELSE [q EXCEPT !.num_tokens = @ + 1, !.placeholders = @ - 1]

\* The oldest result is processed, at the end of a step that waits for it or in a
\* step that has nothing to schedule.  Requests that are gone are skipped; of the
\* others, those at the model's length finish, and so do those that sampled a stop
\* token or their last token (stop_tokens).
update_from_output(stop_tokens) ==
  /\ loop \in {"pop", "pop_nothing"} \/ (BetweenSteps /\ ~ HasRequests)
  /\ batch_queue # <<>> /\ Head(batch_queue).done
  /\ LET sampled == {e.id : e \in {x \in Range(Head(batch_queue).entries) :
                       x.samples /\ x.id \in Requests}}
         updated == {r \in sampled : req[r].status \in {"running", "preempted"}}
         accepted == {r \in updated : req[r].discard = 0}
         table == [r \in Requests |-> IF r \in updated
                     THEN _update_request_with_output(req[r]) ELSE req[r]]
     IN  /\ stop_tokens \subseteq accepted
         /\ FreeRequests(table, stop_tokens \cup {r \in accepted : check_stop(table[r])})
  /\ batch_queue' = Tail(batch_queue)
  /\ loop' = AfterStep(loop = "pop")
  /\ UNCHANGED <<worker, active, runtimes, startup, resets>>

\* A data-parallel rank steps although it has nothing to do, because another rank
\* is busy (engines_running).
StepWithoutWork ==
  /\ DataParallel /\ BetweenSteps
  /\ ~ HasRequests /\ batch_queue = <<>>
  /\ loop' = "nothing"
  /\ UNCHANGED <<schedVars, batch_queue, worker, active, runtimes, startup, resets>>

\* After a step that executed nothing, all ranks are idle: no dummy batch.
AllEnginesIdle ==
  /\ loop = "nothing" /\ worker.phase # "dummy"
  /\ ~ HasUnfinishedRequests
  /\ loop' = "poll"
  /\ UNCHANGED <<schedVars, batch_queue, worker, active, runtimes, startup, resets>>
-----------------------------------------------------------------------------
\* Model runner.

\* The entries of a sidecar table other than those of ids.
Without(table, ids) == Restrict(table, DOMAIN table \ ids)

rabit2_finish_requests(ids) == [l \in Layers |-> Without(runtimes[l], ids)]

\* Mutant: the V2 runner forgets what was preempted.
ReleasedIds_finished_only(o) == o.finished

\* What the runner releases when it starts a step.
ReleasedIds(o) ==
  IF Runner = "V2" THEN o.finished \cup o.preempted ELSE o.finished

\* Mutant: the batch is published in the order it had before the reordering.
rabit2_set_active_batch_unordered(entries, tables) ==
  /\ active' = [i \in DOMAIN entries |->
                  LET e == Reverse(entries)[i]
                  IN  [id |-> e.id, q |-> e.q, ctx |-> e.ctx]]
  /\ runtimes' = [l \in Layers |->
                    Without(tables[l], {Profile(i) : i \in 1..2})]

\* Publish IDs, query and context lengths.  Unless the batch is empty, sidecars
\* of profiling runs go.
rabit2_set_active_batch(entries, tables) ==
  /\ active' = [i \in DOMAIN entries |->
                  LET e == entries[i] IN [id |-> e.id, q |-> e.q, ctx |-> e.ctx]]
  /\ runtimes' = IF entries = <<>> THEN tables
                 ELSE [l \in Layers |->
                         Without(tables[l], {Profile(i) : i \in 1..2})]

Pending == {i \in DOMAIN batch_queue : ~ batch_queue[i].done}
Done == [batch_queue EXCEPT ![Min(Pending)].done = TRUE]

\* Mutant: a step without tokens publishes nothing under either runner.
Publishes_nonempty(o) == o.entries # <<>>

\* The V1 runner publishes every step (_update_states), an empty batch for one
\* without tokens; the V2 runner returns from such a step before it publishes, and
\* the previous batch stays published.
Publishes(o) == Runner = "V1" \/ o.entries # <<>>

\* Publication and forward of step o, with the sidecars that are kept.
PublishAndRun(o, kept) ==
  /\ IF Publishes(o) THEN rabit2_set_active_batch(o.entries, kept)
     ELSE runtimes' = kept /\ UNCHANGED active
  /\ IF o.entries = <<>>
     THEN batch_queue' = Done /\ UNCHANGED worker
     ELSE /\ worker' = [phase |-> "forward", layer |-> 1, attn |-> o.entries]
          /\ UNCHANGED batch_queue

\* Mutant: a step without tokens returns before it releases anything.
execute_model_returns_early ==
  /\ worker.phase = "idle" /\ Pending # {}
  /\ LET o == batch_queue[Min(Pending)]
     IN  PublishAndRun(o, IF o.entries = <<>> THEN runtimes
                          ELSE rabit2_finish_requests(ReleasedIds(o)))
  /\ UNCHANGED <<schedVars, startup, loop, resets>>

\* execute_model up to the forward: release, publish, run.
execute_model ==
  /\ worker.phase = "idle" /\ Pending # {}
  /\ LET o == batch_queue[Min(Pending)]
     IN  PublishAndRun(o, rabit2_finish_requests(ReleasedIds(o)))
  /\ UNCHANGED <<schedVars, startup, loop, resets>>

\* The attention metadata of synthetic requests.
DummyMetadata(query_lens) ==
  [i \in DOMAIN query_lens |->
     [q |-> query_lens[i], row |-> <<>>, from |-> <<"dummy", 0>>]]

\* A forward over synthetic requests with the given query lengths.  The V1 runner
\* builds attention metadata only if forced to or for a full CUDA graph, so
\* its eager dummy runs have none (<<>>).
_dummy_run(query_lens) ==
  /\ worker.phase = "idle"
  /\ worker' = [phase |-> "dummy", layer |-> 1,
                attn |-> IF Runner = "V1" THEN <<>> ELSE DummyMetadata(query_lens)]
  /\ UNCHANGED <<schedVars, batch_queue, active, runtimes, startup, loop, resets>>

\* Profiling and kernel warm-up before anything is published.
profile_run(query_lens) == startup = "profile" /\ _dummy_run(query_lens)

\* V2: two synthetic requests go through execute_model like real ones: a
\* prefill of two tokens, a decode, and a step that only finishes them.
warmup_kernels ==
  /\ startup = "profile" /\ worker.phase = "idle"
  /\ startup' = "warmup"
  /\ LET Step(ctx, q) ==
           [i \in 1..2 |-> [id |-> Warmup(i), q |-> q, ctx |-> ctx, row |-> <<i>>,
                            samples |-> TRUE, from |-> Warmup(i)]]
         Out(entries, ids) ==
           [entries |-> entries, finished |-> ids, preempted |-> {}, done |-> FALSE]
     IN  batch_queue' = IF Runner = "V1" THEN <<>>
                        ELSE <<Out(Step(0, 2), {}), Out(Step(2, 1), {}),
                               Out(<<>>, {Warmup(1), Warmup(2)})>>
  /\ UNCHANGED <<schedVars, worker, active, runtimes, loop, resets>>

\* The worker has warmed up; its outputs go to nobody.
StartServing ==
  /\ startup = "warmup" /\ worker.phase = "idle" /\ Pending = {}
  /\ startup' = "serving" /\ batch_queue' = <<>>
  /\ UNCHANGED <<schedVars, worker, active, runtimes, loop, resets>>

\* After a step that executed nothing, with or without unfinished requests, a
\* data-parallel rank runs a dummy batch for its peers, behind the steps that the
\* worker has not executed yet, and waits for it.
execute_dummy_batch ==
  /\ loop = "nothing" /\ Pending = {}
  /\ _dummy_run(<<1>>)
-----------------------------------------------------------------------------
\* Attention layer.

\* What a layer takes for its batch: the published one or, if that is empty,
\* profiling IDs at context 0.
BatchOf(attn) ==
  IF active # <<>> THEN active
  ELSE [i \in DOMAIN attn |-> [id |-> Profile(i), q |-> attn[i].q, ctx |-> 0]]

TotalQ(batch) == FoldFunction(LAMBDA e, n : e.q + n, 0, batch)

\* The published batch is not the shape of this forward.
BatchMismatch(batch, attn) ==
  Len(batch) # Len(attn) \/ TotalQ(batch) # TotalQ(attn)

\* No sidecar, or one of another length, for a context that is not empty.
SidecarMismatch(table, e) ==
  e.ctx > 0 /\ (e.id \notin DOMAIN table \/ table[e.id].len # e.ctx)

NewRuntime == [len |-> 0, from |-> {}, pages |-> <<>>]

\* Mutant: a sidecar that is there is always continued.
BoundSidecar_reused(table, e) ==
  IF e.id \in DOMAIN table THEN table[e.id] ELSE NewRuntime

\* A new request or a restarted one gets a new sidecar.
BoundSidecar(table, e) == IF e.ctx = 0 THEN NewRuntime ELSE table[e.id]

\* The sidecar after it took the q tokens of the forward.
Extended(sidecar, e, a) ==
  LET len == sidecar.len + e.q
      aged == IF len > ResidualTokens THEN len - ResidualTokens ELSE 0
  IN  [len |-> len, from |-> sidecar.from \cup {a.from},
       pages |-> SubSeq(a.row, 1, Min({aged \div BlockSize, Len(a.row)}))]

\* On to the next layer.  After the last one a step is done, and an engine that
\* waits for a dummy batch goes on.
NextLayer ==
  LET last == worker.layer = NumLayers
  IN  /\ worker' = IF last THEN [phase |-> "idle", layer |-> 0, attn |-> <<>>]
                   ELSE [worker EXCEPT !.layer = @ + 1]
      /\ batch_queue' = IF last /\ worker.phase = "forward" THEN Done ELSE batch_queue
      /\ loop' = IF last /\ worker.phase = "dummy" THEN "poll" ELSE loop

\* A layer without attention metadata returns zeros.
forward_without_metadata ==
  /\ worker.phase = "dummy" /\ worker.attn = <<>>
  /\ NextLayer
  /\ UNCHANGED <<schedVars, active, runtimes, startup, resets>>

\* One layer of the forward: bind, check and extend every request's sidecar.
_forward_rabit_kv2 ==
  /\ worker.phase \in {"forward", "dummy"} /\ worker.attn # <<>>
  /\ LET table == runtimes[worker.layer]
         attn == worker.attn
         batch == BatchOf(attn)
         Index(id) == CHOOSE i \in DOMAIN batch : batch[i].id = id
         new == [id \in {e.id : e \in Range(batch)} |->
                   LET e == batch[Index(id)]
                   IN  Extended(BoundSidecar(table, e), e, attn[Index(id)])]
     IN  IF \/ BatchMismatch(batch, attn)
            \/ \E e \in Range(batch) : SidecarMismatch(table, e)
         THEN /\ worker' = [worker EXCEPT !.phase = "raised"]
              /\ UNCHANGED <<runtimes, batch_queue, loop>>
         ELSE /\ runtimes' = [runtimes EXCEPT
                   ![worker.layer] = [id \in DOMAIN table \cup DOMAIN new |->
                      IF id \in DOMAIN new THEN new[id] ELSE table[id]]]
              /\ NextLayer
  /\ UNCHANGED <<schedVars, active, startup, resets>>
-----------------------------------------------------------------------------
Engine ==
  \/ schedule
  \/ \E stop_tokens \in SUBSET Requests : update_from_output(stop_tokens)
  \/ StepWithoutWork \/ AllEnginesIdle
  \/ execute_dummy_batch

Worker == execute_model \/ _forward_rabit_kv2 \/ forward_without_metadata

Client ==
  \/ \E r \in Requests, prompt \in Prompts : add_request(r, prompt)
  \/ \E r \in Requests : finish_requests(r)
  \/ reset_prefix_cache

Startup ==
  \/ \E query_lens \in {<<1>>, <<2, 1>>} : profile_run(query_lens)
  \/ warmup_kernels
  \/ StartServing

Next == Client \/ Engine \/ Worker \/ Startup

Spec == Init /\ [][Next]_vars

\* The engine loop keeps stepping and the worker keeps executing.
FairSpec == Spec /\ WF_vars(Engine) /\ WF_vars(Worker)
-----------------------------------------------------------------------------
\* Types and ranges; the queues hold exactly the requests whose status says so,
\* each once (Scheduler.running, Scheduler.waiting), and a step starts with room in
\* the batch queue (the assertion of step_with_batch_queue).
TypeOK ==
  /\ \A r \in Requests :
       /\ req[r].computed \in 0..(max_model_len - 1)
       /\ req[r].num_tokens \in 0..max_model_len
       /\ {req[r].placeholders, req[r].discard} \subseteq 0..batch_queue_size
       /\ owned[r] \in Seq(1..NumBlocks)
  /\ Range(running) = {r \in Requests : req[r].status = "running"}
  /\ Range(waiting) = {r \in Requests : req[r].status \in {"waiting", "preempted"}}
  /\ IsInjective(running \o waiting)
  /\ finished_req_ids \cup reset_preempted_req_ids \subseteq Requests
  /\ worker.phase \in {"idle", "forward", "dummy", "raised"}
  /\ loop \in {"poll", "pop", "pop_nothing", "nothing"}
  /\ BetweenSteps => Len(batch_queue) < batch_queue_size
  /\ worker.layer \in 0..NumLayers
  /\ \A l \in Layers : DOMAIN runtimes[l] \subseteq
       Requests \cup {Warmup(i) : i \in 1..2} \cup {Profile(i) : i \in 1..2}

\* No forward raises in _forward_rabit_kv2: the published batch has the shape of
\* the forward, and the sidecar of every request is there and as long as the
\* scheduler's context, whatever was aborted, preempted or reset meanwhile.
NoForwardRaises == worker.phase # "raised"

\* A sidecar that a forward continues holds tokens of this very computation of
\* this request: none of an earlier one, of another request or of a dummy run.
BindsOwnSidecar ==
  worker.phase = "forward" =>
    \A i \in DOMAIN active :
      /\ worker.attn[i].id = active[i].id
      /\ active[i].ctx > 0 =>
           \A l \in worker.layer..NumLayers :
             active[i].id \in DOMAIN runtimes[l] =>
               runtimes[l][active[i].id].from = {worker.attn[i].from}

\* When a forward writes, no layer holds a sidecar whose closed pages lie in a
\* block that the step gave to another request: rabit2_finish_requests has run
\* "before scheduler blocks can be reused by later requests".
ReleasedBeforeReuse ==
  worker.phase = "forward" =>
    \A l \in Layers : \A id \in DOMAIN runtimes[l] : \A i \in DOMAIN active :
      active[i].id # id =>
        Range(runtimes[l][id].pages) \cap Range(worker.attn[i].row) = {}

\* While a synthetic forward runs, what a layer binds to is profiling IDs, never a
\* published one: such forwards "happen before scheduler state exists" and "are
\* isolated under synthetic IDs" (_forward_rabit_kv2).  At a dummy batch this takes
\* the step before it to have withdrawn the last batch, whether or not the forward
\* has attention metadata.
SyntheticForwardsIsolated ==
  worker.phase = "dummy" =>
    \A e \in Range(BatchOf(worker.attn)) : e.id \in {Profile(i) : i \in 1..2}

\* Every request ends, although requests lose their blocks to each other and to
\* resets and are computed again (schedule, _preempt_request).
EveryRequestEnds ==
  \A r \in Requests : req[r].status = "waiting" ~> req[r].status = "finished"

\* The sidecars of a finished request are released on every layer for good,
\* although steps that hold the request may still be in flight and the step that
\* announces it may have no tokens (rabit2_finish_requests).
FinishedAreReleased ==
  \A r \in Requests :
    req[r].status = "finished" ~> [](\A l \in Layers : r \notin DOMAIN runtimes[l])
=============================================================================
