--------------------------- MODULE MCEvalPolicy ---------------------------
(***************************************************************************)
(* Instances of EvalPolicy: a remote policy, whose one actor thread serves *)
(* every call, and a local one called by two threads of the engine.        *)
(***************************************************************************)
EXTENDS EvalPolicy

\* SyncRLEngine.__init__ verifies the first version only.
FirstVersion == {1}

SecondVersion == {2}
=============================================================================
