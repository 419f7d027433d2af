------------------------------- MODULE OneWriter -------------------------------
(***************************************************************************)
(* What strict two-phase locking promises to the writers of a key-value    *)
(* store: a key has at most one transaction that wrote it and has not      *)
(* ended, and only that transaction may change the key.                    *)
(***************************************************************************)
CONSTANTS Keys, Txns, Data, NoData, NoTxn

VARIABLES value, writer

Init ==
    /\ value = [k \in Keys |-> NoData]
    /\ writer = [k \in Keys |-> NoTxn]

Write(t, k) ==
    /\ writer[k] \in {NoTxn, t}
    /\ writer' = [writer EXCEPT ![k] = t]
    /\ \E d \in Data \cup {NoData} : value' = [value EXCEPT ![k] = d]

End(t) ==
    /\ writer' = [k \in Keys |-> IF writer[k] = t THEN NoTxn ELSE writer[k]]
    /\ UNCHANGED value

Next == \E t \in Txns : End(t) \/ \E k \in Keys : Write(t, k)

Spec == Init /\ [][Next]_<<value, writer>>
=============================================================================
