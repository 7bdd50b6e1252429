--------------------------- MODULE MCProofReceipt ---------------------------
(***************************************************************************)
(* A small instance of ProofReceipt for TLC: three writers, two intents,   *)
(* and received receipts with every combination of what the rules look at; *)
(* those of another version or type, or verified by replay alone, are      *)
(* otherwise in order.                                                     *)
(***************************************************************************)
EXTENDS ProofReceipt

InOrder == [version |-> "1", type |-> "intent", id |-> "a", status |-> "verified",
            proofLevel |-> "L4", label |-> "L4", nodeTrusted |-> "false", l0Verified |-> TRUE,
            replayVerified |-> FALSE, witnessQuorumVerified |-> FALSE, artifactId |-> "a",
            command |-> "verify", network |-> "kermit"]

MCReceived ==
  [version : {"1"}, type : {"intent"}, id : {"a", "blank"}, status : {"verified", "partial", "odd"},
   proofLevel : {"", "L0", "L3", "L4", "l4"}, label : {"plain", "L4"},
   nodeTrusted : {"true", "false", "omitted"}, l0Verified : BOOLEAN, replayVerified : {FALSE},
   witnessQuorumVerified : BOOLEAN, artifactId : {"", "b"},
   command : {"verify", "blank"}, network : {"kermit", "blank"}]
  \cup {[InOrder EXCEPT !.version = "2"],
        [InOrder EXCEPT !.proofLevel = "L0", !.label = "plain", !.l0Verified = FALSE,
                        !.replayVerified = TRUE]}
  \cup {[InOrder EXCEPT !.type = t, !.artifactId = "b"] : t \in {"evidence", "release", "odd"}}
=============================================================================
