------------------------------ MODULE Grouping ------------------------------
(***************************************************************************)
(* What every matching stage promises about the groups it hands on: a      *)
(* partition of the records claimed so far that only ever grows by joining *)
(* whole blocks and free records.  A block with its bank leg is final, and *)
(* nothing claimed is ever given back.                                     *)
(***************************************************************************)
VARIABLES
    blocks,  \* the member sets of the groups
    free,    \* the records in no group
    bank     \* the records that are bank legs

Init ==
    /\ \A a, b \in blocks : a # b => a \cap b = {}
    /\ free \cap UNION blocks = {}

Open == {b \in blocks : b \cap bank = {}}

Join(parts, loose) ==
    /\ blocks' = (blocks \ parts) \cup {(UNION parts) \cup loose}
    /\ free' = free \ loose
    /\ UNCHANGED bank

Next ==
    \E parts \in SUBSET Open : \E loose \in SUBSET free :
        /\ loose # {}
        /\ Join(parts, loose)

Spec == Init /\ [][Next]_<<blocks, free, bank>>
=============================================================================
