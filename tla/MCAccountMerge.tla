--------------------------- MODULE MCAccountMerge ---------------------------
EXTENDS AccountMerge, TLC

Id(t, m) == [tg |-> t, mail |-> m]

Sub(u, name, paid) == [user |-> u, remna |-> name, paid |-> paid, live |-> TRUE, ahead |-> TRUE]

Asked(u, status) == [user |-> u, status |-> status]

Table(a, b) == [i \in 1..MaxRow |-> IF i = 1 THEN a ELSE IF i = 2 THEN b ELSE None]

Start(a, b, j, k, e) ==
    [id |-> <<Id(None, 111), Id(102, None), Id(104, 113)>>,
     row |-> Table(a, b), payout |-> Table(j, k), inviter |-> e,
     event |-> [p \in Payments |-> None]]

\* A site account, a bot account and a third with both; the first two with a
\* subscription or an open payout, each invited by the next or by nobody.
Few ==
    {Start(None, None, None, None, <<2, 3, None>>),
     Start(Sub(1, 1, FALSE), Sub(2, 102, TRUE), None, None, <<None, None, None>>),
     Start(Sub(1, 1, TRUE), Sub(2, 102, TRUE), None, None, <<None, 1, None>>),
     Start(None, Sub(2, 102, TRUE), Asked(1, "requested"), Asked(2, "processing"), <<3, None, 1>>)}
=============================================================================
