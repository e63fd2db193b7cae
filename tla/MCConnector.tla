----------------------------- MODULE MCConnector -----------------------------
(***************************************************************************)
(* Small instances of Connector for TLC.                                   *)
(***************************************************************************)
EXTENDS Connector, TLC

CONSTANTS o1, o2, s1, s2, s3

OneClient == [o \in Orders |-> "delta"]

Steel == [material |-> "steel", ordered |-> 2, received |-> 0, unit_price |-> 5]

ItemContents == {Steel}

HeaderColumns == {"status", "vendor_tax_id"}
HeaderValues == {"open", "closed", "v1"}

RowOf(status, lines) ==
    [header |-> [status |-> status, vendor_tax_id |-> "v1"],
     items |-> {[line |-> l, content |-> Steel] : l \in lines}]

Whole(o, row) == [order |-> o, row |-> row, orphans |-> <<>>]
Orphan(o, lines) ==
    [order |-> o, row |-> None,
     orphans |-> [i \in DOMAIN lines |-> [line |-> lines[i], content |-> Steel]]]

Open(o) == Whole(o, RowOf("open", {1}))
Closed(o) == Whole(o, RowOf("closed", {1}))

\* One order: two snapshots of it and an orphan.
OneOrder == {<<Open(o1)>>, <<Closed(o1)>>, <<Orphan(o1, <<2>>)>>}

\* The least that mixes the two kinds of task.
OrderAndOrphan == {<<Open(o1)>>, <<Orphan(o1, <<2>>)>>}

\* Orphans of either line, to lose one another's items.
Orphans == {<<Open(o1)>>, <<Orphan(o1, <<1>>)>>, <<Orphan(o1, <<2>>)>>}

\* A payload that carries an order and an orphan, and one with two orders.
TwoOrders == {<<Open(o1), Orphan(o2, <<2>>)>>, <<Closed(o2), Open(o1)>>}

\* A payload of two orders, and one that meets it at the first of them.
TwoTasks == {<<Open(o1), Orphan(o2, <<1>>)>>, <<Orphan(o1, <<1>>)>>}

NoInvoice == {}
SteelInvoice(o) ==
    [order |-> o, vendor_tax_id |-> "v1",
     items |-> <<[material |-> "steel", quantity |-> 1, total_value |-> 5]>>]
OneInvoice == {SteelInvoice(o1)}
TwoInvoices == {SteelInvoice(o1), SteelInvoice(o2)}

Symmetry == Permutations(Sessions)
=============================================================================
