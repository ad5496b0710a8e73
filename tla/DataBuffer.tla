----------------------------- MODULE DataBuffer -----------------------------
(***************************************************************************)
(* The data buffer in front of its storage shards (buffer/base_buffer.py,  *)
(* buffer/utils/storage.py): each shard is a Ray actor that executes the   *)
(* calls submitted to it one by one, in the order of submission.  A shard  *)
(* pairs the returns of an environment with the responses to them, grows   *)
(* the open episode of every environment, and moves it to its container    *)
(* when it ends by itself (auto_truncate_episode) or is truncated.  The    *)
(* container is the sequence of its episodes: DataContainer says how rows  *)
(* are kept.                                                               *)
(***************************************************************************)
EXTENDS Environments, Sequences, SequencesExt, FiniteSetsExt

CONSTANTS
    EnvOrder,       \* the ids of the environments as init_storage_table gets them
    NumShards,      \* storage shards
    Unit            \* what the containers count and are indexed by

ASSUME EnvOrderAssumption == EnvOrder \in Seq(Envs) /\ ToSet(EnvOrder) = Envs
ASSUME NumShardsAssumption == NumShards \in Nat \ {0}
ASSUME OwnIdAssumption == \A e \in Envs : "all" \notin SubEnvs[e]
ASSUME UnitAssumption == Unit \in {"transition", "episode"}

Shards == 1..NumShards

\* EpisodeTable._register_env: the shard with the fewest environments, from the cursor on.
Register(table, e) ==
    LET shardAt(i) == ((table.cursor + i) % NumShards) + 1
        least == Min({table.count[s] : s \in Shards})
        skipped == Min({i \in 0..(NumShards - 1) : table.count[shardAt(i)] = least})
    IN  [shard |-> [table.shard EXCEPT ![e] = shardAt(skipped)],
         count |-> [table.count EXCEPT ![shardAt(skipped)] = @ + 1],
         cursor |-> (table.cursor + skipped + 1) % NumShards]

EmptyTable == [shard |-> [e \in Envs |-> 0], count |-> [s \in Shards |-> 0], cursor |-> 0]
EpisodeTable == FoldLeft(Register, EmptyTable, EnvOrder)

VARIABLES
    auto,           \* auto_truncate_episode
    shardOf,        \* env_to_storage: the shard of each environment
    mailbox,        \* calls submitted to each shard and not executed
    current,        \* transitions_buffer: the transition of each environment being filled
    active,         \* episodes_buffer: the open episode of each key
    stored,         \* the container of each shard
    sizes,          \* answers to get_size, for the caller that waits for them
    \* History, for the properties only:
    delivered,      \* episodes handed out by a sample
    dropped,        \* episodes erased by a clear, or without rows
    counted,        \* episodes each shard held when it last told its size
    torn            \* environments a call for which raised half-way

shardVars == <<current, active, stored, sizes, delivered, dropped, counted, torn>>
fixedVars == <<auto, shardOf>>     \* set up before the first call
bufferVars == <<fixedVars, mailbox, shardVars>>

\* The keys under which an environment's open episodes are kept: one per
\* sub-environment if they are split, else the environment's own id.
SubKeys == [e \in Envs |-> [i \in 1..Cardinality(SubEnvs[e]) |-> <<e, SetToSeq(SubEnvs[e])[i]>>]]
Splits(e) == auto /\ Cardinality(SubEnvs[e]) > 1
KeysOf(e) == IF Splits(e) THEN SubKeys[e] ELSE << <<e, "all">> >>
AllKeys == {<<e, s>> : e \in Envs, s \in {"all"} \cup UNION {SubEnvs[x] : x \in Envs}}

BufferInit ==
    /\ shardOf = EpisodeTable.shard
    /\ mailbox = [s \in Shards |-> <<>>]
    /\ current = [e \in Envs |-> <<>>]
    /\ active = [k \in AllKeys |-> <<>>]
    /\ stored = [s \in Shards |-> <<>>]
    /\ sizes = [s \in Shards |-> -1]
    /\ delivered = {} /\ dropped = {}
    /\ counted = [s \in Shards |-> {}] /\ torn = {}

----------------------------------------------------------------------------
\* Front end: what a call on the buffer submits.  envs is a set, the order of
\* the batch is not told apart: calls for one environment keep their order.

\* calls[e] are the calls made for e.
CallsOn(s, calls) ==
    LET here == SetToSeq({e \in DOMAIN calls : shardOf[e] = s})
    IN  FlattenSeq([i \in DOMAIN here |-> calls[here[i]]])

Submit(calls) ==
    mailbox' = [s \in Shards |-> mailbox[s] \o CallsOn(s, calls)]

TruncateCall(e, flags) == IF e \in flags THEN <<[op |-> "truncate", envs |-> <<e>>]>> ELSE <<>>

\* add_batched_transition: pairs of a return and the response to it.
SubmitPairs(batch, flags) ==
    Submit([e \in DOMAIN batch |->
              <<[op |-> "pair", ret |-> batch[e]]>> \o TruncateCall(e, flags)])

\* add_batched_data_async of environment returns.
SubmitReturns(batch) ==
    Submit([e \in DOMAIN batch |-> <<[op |-> "return", ret |-> batch[e]]>>])

\* Mutant: the episode is truncated before its last response is stored.
SubmitResponsesLate(batch, flags) ==
    Submit([e \in DOMAIN batch |->
              TruncateCall(e, flags) \o <<[op |-> "response", ret |-> batch[e]]>>])

\* add_batched_data_async of policy responses; a response is named by the return
\* it answers.
SubmitResponses(batch, flags) ==
    Submit([e \in DOMAIN batch |->
              <<[op |-> "response", ret |-> batch[e]]>> \o TruncateCall(e, flags)])

\* truncate_episodes: one call per shard.
SubmitTruncations(envs) ==
    mailbox' = [s \in Shards |->
                  LET here == {e \in envs : shardOf[e] = s}
                  IN  IF here = {} THEN mailbox[s]
                      ELSE Append(mailbox[s], [op |-> "truncate", envs |-> SetToSeq(here)])]

SubmitTo(s, call) == mailbox' = [mailbox EXCEPT ![s] = Append(@, call)]
SubmitToAll(call) == mailbox' = [s \in Shards |-> Append(mailbox[s], call[s])]

----------------------------------------------------------------------------
\* Storage: what a shard does with a call.  Each operator says what changes but
\* the mailbox.

\* postprocess makes the reward and the next observation of a transition from the
\* one after it: an episode of one transition has no rows and is not stored.
HasRows(episode) == Len(episode.rows) > 1

\* Each episode is named by its key.
EpisodesOf(keys) == [i \in DOMAIN keys |-> [key |-> keys[i], rows |-> active[keys[i]]]]

\* push raises at an episode without rows: what follows in the list is lost.  missed are
\* environments of which not even the list could be made.
Push(s, episodes, missed) ==
    LET rowless == {i \in DOMAIN episodes : ~HasRows(episodes[i])}
        pushed == {i \in DOMAIN episodes : \A j \in rowless : i < j}
    IN  /\ stored' = [stored EXCEPT ![s] = @ \o SubSeq(episodes, 1, Cardinality(pushed))]
        /\ dropped' = dropped \cup {episodes[i] : i \in rowless}
        /\ torn' = torn \cup missed \cup {episodes[i].key[1] : i \in rowless}

\* The row ends the episode of key k of e (_judge_done).
EndsKey(e, k, row) ==
    auto /\ IF Splits(e) THEN k[2] \in row.ret.ended ELSE row.ret.ended # {}

\* The keys whose episode the row ends (pop_done_episode).
EndedIn(e, row) ==
    LET keys == KeysOf(e)
    IN  FlattenSeq([i \in DOMAIN keys |-> IF EndsKey(e, keys[i], row) THEN <<keys[i]>> ELSE <<>>])

\* ActiveEpisodeBuffer.add_transition, then the episodes that ended are pushed.
AddRow(s, e, row) ==
    LET keys == KeysOf(e)
        ended == EndedIn(e, row)
        grown == [i \in DOMAIN ended |->
                    [key |-> ended[i], rows |-> Append(active[ended[i]], row)]]
    IN  /\ active' = [k \in AllKeys |->
                        IF k \in ToSet(ended) THEN <<>>
                        ELSE IF k \in ToSet(keys) THEN Append(active[k], row) ELSE active[k]]
        /\ Push(s, grown, {})

Transition(ret, resp) == [ret |-> ret, resp |-> resp]

AddPair(s, call) ==
    LET e == call.ret.env
    IN  /\ call.op = "pair"
        /\ current' = [current EXCEPT ![e] = <<call.ret>>]
        /\ AddRow(s, e, Transition(call.ret, call.ret))
        /\ UNCHANGED <<sizes, delivered, counted>>

AddReturn(s, call) ==
    /\ call.op = "return"
    /\ current' = [current EXCEPT ![call.ret.env] = <<call.ret>>]
    /\ UNCHANGED <<active, stored, sizes, delivered, dropped, counted, torn>>

\* The response completes the transition of the return stored last.
AddResponse(s, call) ==
    LET e == call.ret.env
    IN  /\ call.op = "response"
        /\ current[e] # <<>>
        /\ AddRow(s, e, Transition(current[e][1], call.ret))
        /\ UNCHANGED <<current, sizes, delivered, counted>>

\* pop of an environment's open episodes: a key that is missing is a KeyError, and
\* what was popped before it is lost.
Missing(e) == {i \in DOMAIN KeysOf(e) : active[KeysOf(e)[i]] = <<>>}
PoppedKeys(e) ==
    {KeysOf(e)[i] : i \in {j \in DOMAIN KeysOf(e) : \A m \in Missing(e) : j < m}}
PoppedEpisodes(e) == IF Missing(e) = {} THEN EpisodesOf(KeysOf(e)) ELSE <<>>
Raises(e) == Missing(e) # {} \/ \E k \in PoppedKeys(e) : Len(active[k]) = 1

\* truncate_episodes, truncate_one_episode: pop and push for one environment after
\* the other, until one raises.
Truncate(s, call) ==
    LET reached == {i \in DOMAIN call.envs : \A j \in 1..(i - 1) : ~Raises(call.envs[j])}
        popped == UNION {PoppedKeys(call.envs[i]) : i \in reached}
    IN  /\ call.op = "truncate"
        /\ active' = [k \in AllKeys |-> IF k \in popped THEN <<>> ELSE active[k]]
        /\ Push(s, FlattenSeq([i \in reached |-> PoppedEpisodes(call.envs[i])]),
                {call.envs[i] : i \in {j \in reached : Missing(call.envs[j]) # {}}})
        /\ UNCHANGED <<current, sizes, delivered, counted>>

\* The episodes of sub-environments in a stored one: pop flattens an episode that is
\* not split to those of all sub-environments, one after the other.
SubEpisodes(p) == IF p.key[2] = "all" THEN Cardinality(SubEnvs[p.key[1]]) ELSE 1

\* Mutant: an episode that is not split counts as one, whatever it was flattened from.
ItemsOfOne(p) == IF Unit = "episode" THEN 1 ELSE Len(p.rows) - 1

\* What a stored episode adds to the length of its container, in rows or in episodes.
ItemsOf(p) == SubEpisodes(p) * (IF Unit = "episode" THEN 1 ELSE Len(p.rows) - 1)

\* The length of a container that holds these episodes.
LengthOf(episodes) == FoldLeft(LAMBDA n, p : n + ItemsOf(p), 0, episodes)

GetSize(s, call) ==
    /\ call.op = "size"
    /\ sizes' = [sizes EXCEPT ![s] = LengthOf(stored[s])]
    /\ counted' = [counted EXCEPT ![s] = ToSet(stored[s])]
    /\ UNCHANGED <<active, current, stored, delivered, dropped, torn>>

\* The episodes all of whose items have an index below n.
EpisodesBelow(episodes, n) ==
    {episodes[i] : i \in {j \in DOMAIN episodes : LengthOf(SubSeq(episodes, 1, j)) <= n}}

\* Mutant: the last index is left out.
GetItemsShort(s, call) ==
    /\ call.op = "get"
    /\ delivered' = delivered \cup EpisodesBelow(stored[s], call.n - 1)
    /\ UNCHANGED <<active, current, stored, sizes, dropped, counted, torn>>

\* __getitem__ of the indices AllDataSampler takes: all below the size that was told.
GetItems(s, call) ==
    /\ call.op = "get"
    /\ delivered' = delivered \cup EpisodesBelow(stored[s], call.n)
    /\ UNCHANGED <<active, current, stored, sizes, dropped, counted, torn>>

ClearShard(s, call) ==
    /\ call.op = "clear"
    /\ stored' = [stored EXCEPT ![s] = <<>>]
    /\ dropped' = dropped \cup (ToSet(stored[s]) \ delivered)
    /\ UNCHANGED <<active, current, sizes, delivered, counted, torn>>

Execute(s) ==
    /\ mailbox[s] # <<>>
    /\ mailbox' = [mailbox EXCEPT ![s] = Tail(@)]
    /\ LET call == Head(mailbox[s])
       IN  \/ AddPair(s, call) \/ AddReturn(s, call) \/ AddResponse(s, call)
           \/ Truncate(s, call)
           \/ GetSize(s, call) \/ GetItems(s, call) \/ ClearShard(s, call)
    /\ UNCHANGED fixedVars
=============================================================================
