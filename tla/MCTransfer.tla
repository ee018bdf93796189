----------------------------- MODULE MCTransfer -----------------------------
(* Small instances of Transfer.                                              *)
EXTENDS Transfer, TLC

Order(sender, receiver, amount, ts) ==
    [sender |-> <<sender>>, receiver |-> <<receiver>>, amount |-> amount,
     currency |-> "USD", ts |-> ts]

\* Two transfers that differ in their amount.
MCOrders == {Order("A", "B", 1, 0), Order("A", "B", 2, 0)}

\* Transfers that differ in their amount, in the instant of one second, or in
\* where the colon of an account is; the schema refuses the last.
MCOrdersApart ==
    LET left == [Order("A", "C", 1, 0) EXCEPT !.sender = <<"A", ":", "B">>]
        right == [Order("A", "C", 1, 1) EXCEPT !.receiver = <<"B", ":", "C">>]
    IN  {left, right, [right EXCEPT !.amount = 0]}

Symmetry == Permutations(Users) \cup Permutations(Devices) \cup Permutations(KeyIDs)
            \cup Permutations(TxIDs) \cup Permutations(Submissions)
            \cup Permutations(Deliveries)

=============================================================================
