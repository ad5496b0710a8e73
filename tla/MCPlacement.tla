---------------------------- MODULE MCPlacement ----------------------------
(* Half, three-quarter and whole GPUs on clusters of one to three nodes, and *)
(* the setups of the buffer and of the training step tried on some of them.  *)
EXTENDS DataParallel

SmallClusters == {<<4>>, <<2, 2>>, <<4, 2>>, <<2, 2, 2>>, <<3, 0>>, <<6, 6>>}

Request(t, tn, v, vn, e, en, s) ==
    [workers |-> [c \in GpuComponents |-> IF c = "train" THEN t ELSE IF c = "eval" THEN v ELSE e],
     need |-> [c \in GpuComponents |-> IF c = "train" THEN tn ELSE IF c = "eval" THEN vn ELSE en],
     storageGpus |-> s]

SmallRequests ==
    {Request(t, tn, v, vn, e, en, s) :
        t \in {1, 2, 4}, tn \in {2, 4}, v \in {1, 4}, vn \in {2, 3, 4},
        e \in {1, 2}, en \in {0, 2, 4}, s \in {0, 1}}

AllStrategies == [kind : {"disaggregate", "colocate"}, shared : BOOLEAN]
Colocated == [kind : {"colocate"}, shared : {FALSE}]
PlainRequests == {r \in SmallRequests : r.storageGpus = 0}

\* Trainers and environments on one node or on both, as many on each or not, or none.
TrainedRequests ==
    {Request(2, 4, 1, 4, 2, 4, 0), Request(0, 4, 1, 4, 2, 4, 0),
     Request(3, 4, 1, 4, 4, 4, 0), Request(4, 4, 1, 4, 1, 4, 0), Request(4, 4, 4, 4, 4, 4, 0)}

AllRequests == SmallRequests \cup TrainedRequests

Sampled(b, sa, n) == [buffer |-> b, sampler |-> sa, batch |-> n]
Samplings ==
    {Sampled("RolloutBuffer", "all", 0), Sampled("ReplayBuffer", "uniform", 4),
     Sampled("ReplayBuffer", "batch", 3), Sampled("RolloutBuffer", "batch", 1), Sampled("RolloutBuffer", "batch", 0)}

SmallSetups ==
    {[sharded |-> s, nearEnvs |-> near[1], nearTrainers |-> near[2],
      buffer |-> d.buffer, sampler |-> d.sampler, batch |-> d.batch, dropLast |-> l,
      rows |-> r, mini |-> 4, micro |-> m, epochs |-> 1] :
        s \in BOOLEAN, near \in BOOLEAN \X BOOLEAN, d \in Samplings, l \in BOOLEAN,
        r \in {1, 3}, m \in {1, 2}}

SetupsOf == [r \in AllRequests |-> IF r \in TrainedRequests THEN SmallSetups ELSE {}]
=============================================================================
