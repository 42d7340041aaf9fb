------------------------------- MODULE Egress -------------------------------
(***************************************************************************)
(* Layer 6: the egress policy (src/src/egress.rs, fn evaluate).  What the  *)
(* code reads off the destination and the body is the input here.          *)
(***************************************************************************)

\* blocklisted and allowlisted: the destination's host is on the list;
\* entropy: the body's reaches the threshold; paths: the body names a
\* sensitive path.
EgressInput == [blocklisted: BOOLEAN, allowlisted: BOOLEAN, entropy: BOOLEAN, paths: BOOLEAN]

\* blockUnknown is the policy's block_unknown_destinations.
EgressBlocks(in, blockUnknown) ==
  \/ in.blocklisted \/ in.paths
  \/ ~in.allowlisted /\ (in.entropy \/ blockUnknown)

EgressEvaluate(in, blockUnknown) ==
  IF EgressBlocks(in, blockUnknown) THEN "Block"
  ELSE IF ~in.allowlisted \/ in.entropy THEN "Ask" ELSE "Allow"
=============================================================================
