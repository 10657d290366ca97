------------------------------- MODULE Custody -------------------------------
(***************************************************************************)
(* What sqzarr promises about the films it is given ("Never corrupt or     *)
(* lose a file", docs/architecture.md:12), with nothing of how: a film may *)
(* gain an encoded copy, may lose its original bytes once it has one, and  *)
(* may lose the encoded copy once the original bytes are back. A step      *)
(* concerns one film.                                                      *)
(***************************************************************************)
CONSTANT Films
VARIABLE copies     \* per film: which whole copies of it are on disk

Kinds == {"original", "encoded"}

Init == copies = [f \in Films |-> {"original"}]

Encode(f) == copies' = [copies EXCEPT ![f] = @ \cup {"encoded"}]

Accept(f) == /\ copies[f] = Kinds
             /\ copies' = [copies EXCEPT ![f] = {"encoded"}]

Restore(f) == /\ copies[f] = Kinds
              /\ copies' = [copies EXCEPT ![f] = {"original"}]

Next == \E f \in Films : Encode(f) \/ Accept(f) \/ Restore(f)

Spec == Init /\ [][Next]_copies
=============================================================================
