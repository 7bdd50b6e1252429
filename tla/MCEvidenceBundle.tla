-------------------------- MODULE MCEvidenceBundle --------------------------
(***************************************************************************)
(* A small instance of EvidenceBundle for TLC.  One section, with a        *)
(* float64, stands for the six.  Two of the three identities differ only   *)
(* in where the plan ends; a chain hash and an anchor candidate occur as   *)
(* state roots too.                                                        *)
(***************************************************************************)
EXTENDS EvidenceBundle

CONSTANTS i, x

Ids(intent, plan, outcome) == [intent |-> intent, plan |-> plan, outcome |-> outcome]

MCIdentities == {Ids(<<i>>, <<x>>, <<>>), Ids(<<i>>, <<>>, <<x>>), Ids(<<x>>, <<i>>, <<>>)}

MCSectionOrder == <<"driftAnalysis">>
=============================================================================
