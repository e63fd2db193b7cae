---------------------------- MODULE MCAlgorithms ----------------------------
(***************************************************************************)
(* Small inputs of the pure parts for TLC.                                 *)
(***************************************************************************)
EXTENDS Algorithms

\* Orders of up to two items, two of which may share a material, with
\* quantities and prices of the invoice on both sides of each limit.
CheckContents ==
    [material: {"m1", "m2"}, ordered: {2}, received: {0, 1, 3}, unit_price: {5}]

CheckItems ==
    {{[line |-> n, content |-> c[n]] : n \in 1..k} : k \in 0..2, c \in [1..2 -> CheckContents]}

\* The order an invoice names may not be there.
MCCheckOrders ==
    {NotFound} \cup
    {[header |-> [status |-> st, vendor_tax_id |-> "v1"], items |-> is] :
        st \in {"open", "closed", "blocked"}, is \in CheckItems}

SoldItems ==
    [material: {"m1", "m2"}, quantity: {1, 2}, total_value: {6, 7, 14}]

MCInvoices ==
    {[vendor_tax_id |-> v, items |-> is] :
        v \in {"v1", "v2"}, is \in UNION {[1..n -> SoldItems] : n \in 1..2}}

\* Two orders of one number; the one sent may name a line twice.
DiffContents ==
    {[material |-> m, ordered |-> 6, received |-> r, unit_price |-> p] :
        m \in {"m1", "m2"}, r \in {0, 2}, p \in {4, 5}}
    \cup {[material |-> "m1", ordered |-> 8, received |-> 2, unit_price |-> 4]}

OldHeader == [status |-> "open", vendor_tax_id |-> "v1"]

NewHeader == [status |-> "closed", vendor_tax_id |-> "v1"]

MCSentOrders ==
    {[header |-> h, items |-> is] :
        h \in {OldHeader, NewHeader},
        is \in UNION {[1..n -> [line: {1, 2}, content: DiffContents]] : n \in 0..2}}

DistinctLines(items) ==
    \A m, n \in DOMAIN items : items[m].line = items[n].line => m = n

MCStoredOrders == {o \in MCSentOrders : o.header = OldHeader /\ DistinctLines(o.items)}

\* One order whose amounts do or do not fit their columns, on either side of 0.
MCSameOrders ==
    {[header |-> OldHeader,
      items |-> <<[line |-> 1, content |-> [material |-> "m1", ordered |-> a,
                                            received |-> b, unit_price |-> c]]>>] :
        a, b, c \in -3..5}

\* The rows of a load: those of p3 have no header, some have no number.
Rows ==
    {[po_number |-> po, line |-> l, ok |-> TRUE, short |-> FALSE, fator_conv |-> 3,
      content |-> IF l = 1
                    THEN [material |-> "m1", ordered |-> 6, received |-> 0, unit_price |-> 2]
                    ELSE [material |-> "m2", ordered |-> 3, received |-> 3, unit_price |-> 1]] :
        po \in {"p1", "p2", "p3", Missing}, l \in {1, 2}}

\* At most one row has a defect: it cannot be read, it is too short for its
\* line, or for its number where it has none, or its boxes hold nothing.
Defects(row) ==
    {[row EXCEPT !.ok = FALSE],
     [row EXCEPT !.ok = row.po_number = Missing, !.short = TRUE],
     [row EXCEPT !.fator_conv = 0]}

RowLists(k) ==
    LET sound == [1..k -> Rows] IN
    sound \cup UNION {{[s EXCEPT ![n] = d] : d \in Defects(s[n])} : s \in sound, n \in 1..k}

Header(po, sound) == [po_number |-> po, ok |-> sound, columns |-> [status |-> po]]

MCLoads ==
    [headers: {<<Header("p1", TRUE)>>, <<Header("p1", TRUE), Header("p2", TRUE)>>,
               <<Header("p2", TRUE), Header("p1", TRUE)>>,
               <<Header("p1", TRUE), Header("p2", FALSE)>>,
               <<Header(Missing, TRUE), Header("p1", TRUE)>>},
     rows: UNION {RowLists(k) : k \in 0..3}]
=============================================================================
