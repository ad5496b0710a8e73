------------------------------ MODULE Rollout ------------------------------
(***************************************************************************)
(* The rollout loops of the engines over EnvGroup and DataBuffer, and the  *)
(* sampling of a RolloutBuffer that ends a rollout or runs beside it:      *)
(*                                                                         *)
(*   "sync"   SyncRLEngine.rollout: steps all environments together,       *)
(*            inside auto_reset; then the dataset is sampled;              *)
(*   "rsl"    RSLRLEngine.rollout: steps each environment as soon as it    *)
(*            returned, a fixed number of steps; then samples;             *)
(*   "async"  AsyncRLEngine.rollout and AsyncRSLRLEngine.rollout: the      *)
(*            same inside auto_reset without an end, while another thread  *)
(*            waits for enough data and samples.                           *)
(*                                                                         *)
(* A policy answers every return; which policy and when it answers is left *)
(* to Dispatch: calls on a shard wait for their arguments in order.        *)
(***************************************************************************)
EXTENDS EnvGroup, DataBuffer, Functions, FiniteSetsExt

CONSTANTS
    Configs,        \* the [loop, auto, epochs, rollout_epoch] an engine is run with; epochs
                    \* is max_epochs, of the sync and rsl loops, rollout_epoch the sync loop's
    BatchSize,      \* train.batch_size
    MaxResets,      \* bound: resets of an environment before the async rollout stops
    MaxSamples      \* bound: samples taken beside the async rollout

ASSUME ConfigsAssumption ==
    Configs \subseteq [loop : {"sync", "rsl", "async"}, auto : BOOLEAN,
                       epochs : Nat \ {0}, rollout_epoch : Nat \ {0}]
ASSUME RolloutAssumption == {BatchSize, MaxResets, MaxSamples} \subseteq Nat \ {0}

VARIABLES
    loop,           \* which engine
    pc,             \* the rollout thread
    batch,          \* batched_env_ret
    flags,          \* truncations: the environments flagged
    iter,           \* sync: the loop variable
    taken,          \* rsl: step_counter
    last,           \* rsl: last_env_rets_dict
    epochs,         \* epochs left
    rollout_epoch,  \* sync: the rollouts of an epoch
    round,          \* sync: which of them this is
    running,        \* async: coordinator.is_running()
    spc,            \* the thread that samples: in the sync and rsl loops the same thread
    asked,          \* shards whose size it has asked for in this round
    samples         \* history: samples taken

rolloutVars == <<loop, pc, batch, flags, iter, taken, last, epochs, rollout_epoch, round, running>>
samplerVars == <<spc, asked, samples>>
vars == <<envVars, bufferVars, rolloutVars, samplerVars>>

inAutoReset == loop # "rsl"
Empty == [e \in {} |-> {}]
Only(b, envs) == [e \in envs |-> b[e]]

\* The ways a step may end sub-environments; without auto_truncate_episode the
\* buffer does not look at them.
Ends(e) == IF auto THEN SUBSET SubEnvs[e] ELSE {{}}

Goto(l) == pc' = l

Init ==
    /\ \E c \in Configs : loop = c.loop /\ auto = c.auto /\ epochs = c.epochs
                        /\ rollout_epoch = c.rollout_epoch
    /\ EnvInit /\ BufferInit
    /\ pc = "reset"
    /\ batch = Empty /\ flags = {} /\ iter = 0 /\ round = 1
    /\ taken = [e \in Envs |-> 0] /\ last = Empty
    /\ running = TRUE
    /\ spc = "idle" /\ asked = 0 /\ samples = 0

----------------------------------------------------------------------------
\* The rollout thread.

Reset ==
    /\ pc = "reset"
    /\ ResetAll(inAutoReset)
    /\ batch' = ResetReturns
    /\ flags' = IF inAutoReset THEN TruncationsOf(Envs) ELSE {}
    /\ iter' = 0
    /\ Goto(IF loop = "sync" THEN "store_pairs" ELSE "store_returns")
    /\ UNCHANGED <<loop, taken, last, epochs, rollout_epoch, round, running, bufferVars, samplerVars>>

\* SyncRLEngine: the pair is stored, then the inner for loop goes on or ends, and the
\* outer one with it: the environments are reset again before anything is sampled.
StorePairs ==
    /\ pc = "store_pairs"
    /\ SubmitPairs(batch, flags)
    /\ IF iter < MaxSteps THEN Goto("step") /\ UNCHANGED round
       ELSE IF round < rollout_epoch THEN Goto("reset") /\ round' = round + 1
       ELSE Goto("rolled_out") /\ round' = 1
    /\ UNCHANGED <<loop, batch, flags, iter, taken, last, epochs, rollout_epoch, running, fixedVars, shardVars, envVars, samplerVars>>

Step ==
    /\ pc = "step"
    /\ StepAll
    /\ batch' \in StepReturns([e \in Envs |-> Ends(e)])
    /\ flags' = TruncationsOf(Envs)
    /\ iter' = iter + 1
    /\ Goto("store_pairs")
    /\ UNCHANGED <<loop, taken, last, epochs, rollout_epoch, round, running, bufferVars, samplerVars>>

StoreReturns ==
    /\ pc = "store_returns"
    /\ SubmitReturns(batch)
    /\ Goto(IF loop = "rsl" THEN "step_async" ELSE "store_responses")
    /\ UNCHANGED <<loop, batch, flags, iter, taken, last, epochs, rollout_epoch, round, running, fixedVars, shardVars, envVars, samplerVars>>

AtBound == \E e \in Envs : position[e].resets = MaxResets

\* The async rollout goes on while the coordinator is running.
StoreResponses ==
    /\ pc = "store_responses"
    /\ SubmitResponses(batch, flags)
    /\ IF loop = "rsl" THEN Goto("collect")
       ELSE \/ running /\ ~AtBound /\ Goto("step_async")
            \/ ~running /\ Goto("done")
    /\ UNCHANGED <<loop, batch, flags, iter, taken, last, epochs, rollout_epoch, round, running, fixedVars, shardVars, envVars, samplerVars>>

SubmitSteps ==
    /\ pc = "step_async"
    /\ StepAsync(DOMAIN batch, inAutoReset)
    /\ Goto(IF loop = "rsl" THEN "store_responses" ELSE "collect")
    /\ UNCHANGED <<loop, batch, flags, iter, taken, last, epochs, rollout_epoch, round, running, bufferVars, samplerVars>>

\* AsyncRLEngine: what is collected is the next batch.
Collect ==
    /\ pc = "collect" /\ loop = "async"
    /\ CollectAsync(inAutoReset)
    /\ batch' = Collected
    /\ flags' = TruncationsOf(Ready)
    /\ Goto("store_returns")
    /\ UNCHANGED <<loop, iter, taken, last, epochs, rollout_epoch, round, running, bufferVars, samplerVars>>

\* RSLRLEngine: an environment that made all its steps leaves the batch; the loop
\* ends with the last one.  Nothing is stored or stepped for an empty batch.
CollectRsl ==
    /\ pc = "collect" /\ loop = "rsl"
    /\ CollectAsync(inAutoReset)
    /\ LET finished == {e \in Ready : taken[e] + 1 = MaxSteps}
           all == DOMAIN last \cup finished
       IN  /\ taken' = [e \in Envs |-> IF e \in Ready THEN taken[e] + 1 ELSE taken[e]]
           /\ last' = [e \in all |-> IF e \in finished THEN Collected[e] ELSE last[e]]
           /\ batch' = Only(Collected, Ready \ finished)
           /\ Goto(IF all = Envs THEN "store_last"
                   ELSE IF Ready = finished THEN "collect" ELSE "store_returns")
    /\ UNCHANGED <<loop, flags, iter, epochs, rollout_epoch, round, running, bufferVars, samplerVars>>

\* The last returns are stored with the responses to them, and every episode is
\* truncated; the next rollout starts from the same returns.
StoreLast ==
    /\ pc = "store_last"
    /\ SubmitReturns(last)
    /\ batch' = last
    /\ Goto("store_last_responses")
    /\ UNCHANGED <<loop, flags, iter, taken, last, epochs, rollout_epoch, round, running, fixedVars, shardVars, envVars, samplerVars>>

StoreLastResponses ==
    /\ pc = "store_last_responses"
    /\ SubmitResponses(batch, {})
    /\ Goto("truncate")
    /\ UNCHANGED <<loop, batch, flags, iter, taken, last, epochs, rollout_epoch, round, running, fixedVars, shardVars, envVars, samplerVars>>

TruncateAll ==
    /\ pc = "truncate"
    /\ SubmitTruncations(DOMAIN batch)
    /\ taken' = [e \in Envs |-> 0] /\ last' = Empty
    /\ Goto("rolled_out")
    /\ UNCHANGED <<loop, batch, flags, iter, epochs, rollout_epoch, round, running, fixedVars, shardVars, envVars, samplerVars>>

\* The rollout is sampled; the next epoch starts when that is done.
NextEpoch ==
    /\ pc = "sampled"
    /\ epochs' = epochs - 1
    /\ Goto(IF epochs' = 0 THEN "done"
            ELSE IF loop = "rsl" THEN "store_returns" ELSE "reset")
    /\ UNCHANGED <<loop, batch, flags, iter, taken, last, rollout_epoch, round, running, envVars, bufferVars, samplerVars>>

----------------------------------------------------------------------------
\* Sampling.

shards == SetToSeq(Shards)
Total == FoldFunction(+, 0, sizes)
Refused == Cardinality({sizes[s] : s \in Shards}) > 1

\* update_dataset begins: at the end of a rollout, or when the trainer asks for data.
StartSampling ==
    /\ spc = "idle"
    /\ IF loop = "async" THEN running /\ samples < MaxSamples ELSE pc = "rolled_out"
    /\ spc' = IF loop = "async" THEN "poll" ELSE "check"
    /\ asked' = 0
    /\ UNCHANGED <<samples, rolloutVars, envVars, bufferVars>>

Rounds == {"poll", "check", "sizes"}

\* get_size of one shard after the other, each waited for.
AskSize ==
    /\ spc \in Rounds
    /\ asked < Len(shards)
    /\ \A i \in 1..asked : sizes[shards[i]] >= 0
    /\ SubmitTo(shards[asked + 1], [op |-> "size"])
    /\ sizes' = [sizes EXCEPT ![shards[asked + 1]] = -1]
    /\ asked' = asked + 1
    /\ UNCHANGED <<spc, samples, rolloutVars, envVars, fixedVars, current, active, stored, delivered, dropped, counted, torn>>

\* The sizes of a round are known: poll again until there is enough or the training
\* stops, refuse an empty buffer (rsl: ValueError; RolloutBuffer.sample reads the total
\* but refuses nothing when all data are sampled) and shards of unequal size
\* (RuntimeError).
Decide ==
    /\ spc \in Rounds
    /\ asked = Len(shards)
    /\ \A s \in Shards : sizes[s] >= 0
    /\ asked' = 0
    /\ spc' = CASE spc = "poll" -> IF Total >= BatchSize \/ ~running THEN "check" ELSE "poll"
                [] spc = "check" -> IF loop = "rsl" /\ Total < 1 THEN "failed" ELSE "sizes"
                [] spc = "sizes" -> IF Refused THEN "failed" ELSE "get"
    /\ UNCHANGED <<samples, rolloutVars, envVars, bufferVars>>

Get ==
    /\ spc = "get"
    /\ SubmitToAll([s \in Shards |-> [op |-> "get", n |-> sizes[s]]])
    /\ spc' = "clear"
    /\ UNCHANGED <<asked, samples, rolloutVars, envVars, fixedVars, shardVars>>

\* RolloutBuffer.sample: what was sampled is cleared, and what came since.
Clear ==
    /\ spc = "clear"
    /\ SubmitToAll([s \in Shards |-> [op |-> "clear"]])
    /\ spc' = "idle"
    /\ samples' = samples + 1
    /\ pc' = IF loop = "async" THEN pc ELSE "sampled"
    /\ UNCHANGED <<asked, loop, batch, flags, iter, taken, last, epochs, rollout_epoch, round, running, envVars, fixedVars, shardVars>>

----------------------------------------------------------------------------
Rolling ==
    \/ Reset \/ StorePairs \/ Step
    \/ StoreReturns \/ StoreResponses \/ SubmitSteps \/ Collect \/ CollectRsl
    \/ StoreLast \/ StoreLastResponses \/ TruncateAll
    \/ NextEpoch

\* The trainer is done: coordinator.stop().
Stop ==
    /\ loop = "async" /\ running
    /\ running' = FALSE
    /\ UNCHANGED <<loop, pc, batch, flags, iter, taken, last, epochs, rollout_epoch, round, envVars, bufferVars, samplerVars>>

Sampling == StartSampling \/ AskSize \/ Decide \/ Get \/ Clear

FinishTask(e) ==
    /\ \E ended \in Ends(e) : Finish(e, ended)
    /\ UNCHANGED <<bufferVars, rolloutVars, samplerVars>>

ExecuteCall(s) ==
    /\ Execute(s)
    /\ UNCHANGED <<envVars, rolloutVars, samplerVars>>

Next ==
    \/ Rolling \/ Sampling
    \/ \E e \in Envs : FinishTask(e)
    \/ \E s \in Shards : ExecuteCall(s)
    \/ Stop

\* The threads run, every environment finishes its step and every shard executes its
\* calls.  Nothing makes the trainer stop.
Fairness ==
    /\ WF_vars(Rolling) /\ WF_vars(Sampling)
    /\ \A e \in Envs : WF_vars(FinishTask(e))
    /\ \A s \in Shards : WF_vars(ExecuteCall(s))

Spec == Init /\ [][Next]_vars
FairSpec == Spec /\ Fairness

----------------------------------------------------------------------------
\* Properties

Row == [ret : Returns, resp : Returns]
Episode == [key : AllKeys, rows : Seq(Row)]
Batches == UNION {[es -> Returns] : es \in SUBSET Envs}

\* The types of the variables.
TypeOK ==
    /\ counter \in [Envs -> -1..MaxSteps]
    /\ task \in [Envs -> {"none", "step", "reset"}]
    /\ \A e \in Envs : result[e] \subseteq Returns /\ Cardinality(result[e]) <= 1
    /\ position \in [Envs -> [resets : Nat, steps : Nat]]
    /\ auto \in BOOLEAN /\ shardOf \in [Envs -> Shards] /\ running \in BOOLEAN
    /\ \A e \in Envs : current[e] = <<>> \/ current[e] \in Seq(Returns)
    /\ \A k \in AllKeys : active[k] \in Seq(Row)
    /\ \A s \in Shards : stored[s] \in Seq(Episode) /\ sizes[s] \in Nat \cup {-1}
    /\ iter \in 0..MaxSteps /\ taken \in [Envs -> 0..MaxSteps]
    /\ DOMAIN last \subseteq Envs /\ flags \subseteq Envs
    /\ \A e \in DOMAIN batch : batch[e] \in Returns
    /\ epochs \in Nat /\ rollout_epoch \in Nat /\ round \in 1..rollout_epoch /\ samples \in Nat /\ asked \in 0..Len(shards)

Pushed == delivered \cup dropped \cup UNION {ToSet(stored[s]) : s \in Shards}

Follows(a, b) == a.env = b.env /\ a.resets = b.resets /\ b.steps = a.steps + 1

\* The last return of an episode: the sub-environment ended, or all steps were made.
Closes(key, ret) ==
    \/ auto /\ (IF Splits(ret.env) THEN key[2] \in ret.ended ELSE ret.ended # {})
    \/ IF inAutoReset THEN ret.steps = MaxSteps ELSE ret.steps % MaxSteps = 0

\* Known: when a sub-environment ends by itself in the step that is truncated (KeyError),
\* or in the first of an episode (no rows), the call raises half-way through the
\* sub-environments: episodes of some are lost, others go on across the reset.
Broken(e) == Splits(e) /\ e \in torn

\* Every episode that reaches a container is a run of consecutive returns of one
\* environment, each with the response to that very return, that no reset crosses,
\* that closes with its last return and not before (add_data_async pairs calls that
\* arrive one by one; truncation flags travel with the batch, not with the return).
PushedWhole ==
    \A p \in {q \in Pushed : ~Broken(q.key[1])} :
        LET rets == [i \in DOMAIN p.rows |-> p.rows[i].ret]
        IN  /\ \A i \in DOMAIN p.rows : p.rows[i].resp = rets[i] /\ rets[i].env = p.key[1]
            /\ \A i \in 1..(Len(rets) - 1) :
                  Follows(rets[i], rets[i + 1]) /\ (i > 1 => ~Closes(p.key, rets[i]))
            /\ Closes(p.key, rets[Len(rets)])

\* The returns of e that are older than its last one and were answered.
Answered(e) ==
    IF loop = "rsl" /\ pc = "store_responses" /\ e \in DOMAIN batch THEN {}
    ELSE {at \in [resets : 1..position[e].resets, steps : 0..Max({MaxSteps, position[e].steps})] :
            IF at.resets < position[e].resets THEN at.steps <= MaxSteps
            ELSE at.steps < position[e].steps}

\* The returns under key k that are queued, in an open episode or in a pushed one.
Kept(k) ==
    LET rowsOf(p) == {r.ret : r \in ToSet(p.rows)}
        queued == {c \in UNION {ToSet(mailbox[s]) : s \in Shards} : c.op \in {"pair", "response"}}
    IN  {[resets |-> r.resets, steps |-> r.steps] :
            r \in {x \in {c.ret : c \in queued} \cup {r.ret : r \in ToSet(active[k])}
                       \cup UNION {rowsOf(p) : p \in {q \in Pushed : q.key = k}} : x.env = k[1]}}

\* No return that was answered disappears on its way: not between the front end and
\* the shard, not when an episode is closed twice in one step (KeyError).
NoReturnLost ==
    \A e \in {x \in Envs : ~Broken(x)} : \A k \in ToSet(KeysOf(e)) : Answered(e) \subseteq Kept(k)

\* What was rolled out arrives in the containers, all of it and in whole episodes.
EpisodesWhole == PushedWhole /\ NoReturnLost

\* An episode that was delivered is gone before the next sample reads the shard, and
\* the clear that follows a sample drops nothing that the shard held when it told its
\* size for the sample: what is lost came later.
DeliveredOnce ==
    \A s \in Shards :
        /\ (\E p \in ToSet(stored[s]) : p \in delivered) =>
               spc = "clear" \/ \E c \in ToSet(mailbox[s]) : c.op = "clear"
        /\ \A p \in dropped : HasRows(p) => p \notin counted[s]

\* The sub-environments whose transitions shard s keeps, with the environment they are of.
SubEnvsOn(s) == UNION {{e} \X SubEnvs[e] : e \in {x \in Envs : shardOf[x] = s}}

\* The table counts environments: shards with equally many of them may hold unequally many
\* sub-environments, and then every sample is refused (RuntimeError).
EvenlyDealt == \A s, t \in Shards : Cardinality(SubEnvsOn(s)) = Cardinality(SubEnvsOn(t))

\* What a rollout of the sync or rsl loop leaves in shard s: a whole episode of every
\* sub-environment, as often as the environments are rolled out before they are sampled.
RolledOut(s) ==
    rollout_epoch * Cardinality(SubEnvsOn(s)) * (IF Unit = "episode" THEN 1 ELSE MaxSteps)

\* While sampling alternates with the rollout, each shard is read when it holds all of the
\* rollout and nothing else: the sample is refused only if the table dealt unevenly.
SyncSampleWhole ==
    loop # "async" /\ ~auto =>
        /\ spc = "failed" => ~EvenlyDealt
        /\ spc = "get" => \A s \in Shards : sizes[s] = RolledOut(s)

\* A sample takes each episode once and drops none it could have taken; between rollouts
\* it takes all that was rolled out and is not refused.
SampledOnce == DeliveredOnce /\ SyncSampleWhole

\* Every rollout of the synchronous engines comes to its end and is sampled, if the shards
\* keep equally many sub-environments: no environment is left waiting for a step that was
\* not submitted, and the sample for an answer.
EpochsComplete == <>(loop = "async" \/ auto \/ ~EvenlyDealt \/ pc = "done")
=============================================================================
