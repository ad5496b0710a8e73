--------------------------- MODULE MCSyncRLEngine ---------------------------
(* Two evaluation policies, every combination of the settings; strategy "None" *)
(* passes the weights on by copy.                                              *)
EXTENDS SyncRLEngine

AllConfigs ==
    {c \in [strategy : {"None", "buffer"}, copies : BOOLEAN, offload : BOOLEAN,
            warm : BOOLEAN, replay : BOOLEAN, evalEvery : {0, 2}, saveEvery : {1}] :
        c.strategy = "None" => c.copies}
=============================================================================
