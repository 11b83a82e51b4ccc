----------------------------- MODULE MCSession ------------------------------
(* Instances of the session control plane for TLC.  Handlers are            *)
(* interchangeable; the symmetry is used for invariants only.              *)
EXTENDS Session, TLC

HandlerSymmetry == Permutations(Handlers)
=============================================================================
