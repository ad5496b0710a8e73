------------------------- MODULE AsyncCoordinator -------------------------
(***************************************************************************)
(* The event flags through which the four worker threads of the            *)
(* asynchronous engine synchronise (engine/async_rl_engine.py, class       *)
(* AsyncCoordinator).  A threading.Event is a member of "signalled" while  *)
(* it is set.  Every operator is one call on one event: wait() and clear() *)
(* are two steps of the caller, and so are the five statements of start()  *)
(* and of stop().                                                          *)
(***************************************************************************)
VARIABLE signalled      \* the events that are set

Event == {"done", "ready_for_update_dataset", "ready_for_sync_weights",
          "weights_updated", "dataset_ready"}

CoordinatorInit == signalled = {}

Set(e) == signalled' = signalled \cup {e}

Clear(e) == signalled' = signalled \ {e}

\* Event.wait() returns only while the event is set, and leaves it set.
Wait(e) == e \in signalled /\ UNCHANGED signalled

IsRunning == "done" \notin signalled

=============================================================================
