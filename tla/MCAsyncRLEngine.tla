-------------------------- MODULE MCAsyncRLEngine --------------------------
(***************************************************************************)
(* Instances of AsyncRLEngine for TLC.                                     *)
(***************************************************************************)
EXTENDS AsyncRLEngine

\* A rollout iteration completes no episode, or one of one or two rows.
SomeGrowth == {0, 1, 2}

NoWorker == {}
=============================================================================
