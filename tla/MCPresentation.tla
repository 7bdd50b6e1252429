--------------------------- MODULE MCPresentation ---------------------------
(***************************************************************************)
(* A small instance of Presentation for TLC: two challenges, three         *)
(* credentials: one with a standard status entry, two with legacy entries, *)
(* of which one has a number that is no float64.                           *)
(***************************************************************************)
EXTENDS Presentation

MCClaims ==
  {[claim |-> 4, status |-> [NoStatus EXCEPT !.statusPurpose = "revocation",
      !.statusListIndex = "7", !.statusListCredential = "list"]],
   [claim |-> 5, status |-> [NoStatus EXCEPT !.revocationListIndex = "07",
      !.revocationListCredential = "old list"]],
   [claim |-> 8, status |-> [NoStatus EXCEPT !.revocationListIndex = "7",
      !.revocationListCredential = "old list"]]}
=============================================================================
