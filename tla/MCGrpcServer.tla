---------------------------- MODULE MCGrpcServer ----------------------------
(* A server with three calls; the calls are interchangeable.               *)
EXTENDS GrpcServer, TLC

CONSTANTS rpc1, rpc2, rpc3

MCRpcs == {rpc1, rpc2, rpc3}

MCEnvTimeouts == {Unset, Garbage, 1}

MCSymmetry == Permutations(MCRpcs)
=============================================================================
