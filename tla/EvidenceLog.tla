---------------------------- MODULE EvidenceLog ----------------------------
(***************************************************************************)
(* What an evidence builder promises its callers, without slices, arrays   *)
(* or hashes: every builder keeps an append-only log of entries, and       *)
(* building takes a copy of the log that nothing changes afterwards, even  *)
(* if the builder goes on recording.                                       *)
(*                                                                         *)
(* EvidenceChain implements this specification: see LogSpec there.         *)
(***************************************************************************)
EXTENDS Sequences

CONSTANTS Builders,   \* the builders alive at the same time
          Entries     \* what can be recorded: a link type and a digest

VARIABLES log,        \* builder -> the entries it has recorded, in order
          sealed      \* the chains built so far: their builder and entries

Init == /\ log = [b \in Builders |-> <<>>]
        /\ sealed = <<>>

(* One more entry at the end of one log; sealed chains stay as they are. *)
Record(b, e) == /\ log' = [log EXCEPT ![b] = Append(@, e)]
                /\ UNCHANGED sealed

(* A sealed chain is a copy of the log of its builder at this moment. *)
Seal(b) == /\ sealed' = Append(sealed, [builder |-> b, entries |-> log[b]])
           /\ UNCHANGED log

Next == \E b \in Builders : Seal(b) \/ \E e \in Entries : Record(b, e)

Spec == Init /\ [][Next]_<<log, sealed>>
=============================================================================
