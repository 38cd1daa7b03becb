---- MODULE MCPendingManager ----
(* PendingManager with a few transactions that depend on and exclude each other. *)
EXTENDS PendingManager

CONSTANTS a, b, e, y

Tx(type, from, to, value, nonce, name) ==
    [type |-> type, from |-> from, to |-> to, value |-> value, nonce |-> nonce,
     fee |-> 1, name |-> name, dataFits |-> TRUE]

\* a and b want the same name.  a may instead vote for b and then take back one of the
\* votes.  As a delegate b has no coin left to give, until a block rewards it.
Give == Tx("TRANSFER", b, a, 1, 1, None)
Offered == {Tx("DELEGATE", b, e, 1, 0, y), Tx("DELEGATE", a, e, 1, 0, y),
            Tx("VOTE", a, b, 2, 0, None), Tx("UNVOTE", a, b, 1, 1, None), Give}

MayDrift == {Give}
Coins == [k \in {a, b, e} |-> IF k = a THEN 4 ELSE IF k = b THEN 2 ELSE 0]
NoDelegates == [n \in {} |-> a]
====
