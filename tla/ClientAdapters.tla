--------------------------- MODULE ClientAdapters ---------------------------
(***************************************************************************)
(* The parse methods of the four client adapters: how the rows of each     *)
(* format become purchase orders, orphan items or warnings.                *)
(*                                                                         *)
(* A raw row keeps the fields that decide where it goes.  ok says whether  *)
(* its material and its line are there and all it holds can be read; short *)
(* says that it ends before its number, its material or its line, cells    *)
(* that a CSV reader then fills with None.  Money and quantities are       *)
(* integers in units fine enough for every quotient.                       *)
(***************************************************************************)
EXTENDS Integers, Sequences, FiniteSets, SequencesExt

CONSTANTS
    Missing,   \* a po_number that is absent or blank
    Centavo    \* one centavo in the unit of unit_price

ASSUME CentavoAssumption == Centavo \in Nat \ {0}

\* ParseResult, or the exception that rejects the payload as a whole.
Rejected ==
    [ok |-> FALSE, orders |-> <<>>, orphan_items |-> <<>>, warnings |-> <<>>]

Parsed(orders, orphans, warnings) ==
    [ok |-> TRUE, orders |-> orders, orphan_items |-> orphans, warnings |-> warnings]

Item(row) == [line |-> row.line, content |-> row.content]

ItemSeq(rows) == [n \in DOMAIN rows |-> Item(rows[n])]

Order(header, rows) ==
    [po_number |-> header.po_number, header |-> header.columns, items |-> ItemSeq(rows)]

\* The rows at some positions, in the order they came: SelectSeq, by what it
\* selects.
Selected(rows, at) ==
    LET nth == CHOOSE f \in [1..Cardinality(at) -> at] :
                  \A i, j \in DOMAIN f : i < j => f[i] < f[j]
    IN  [i \in DOMAIN nth |-> rows[nth[i]]]

\* The rows of some orders.
RowsIn(rows, numbers) == Selected(rows, {n \in DOMAIN rows : rows[n].po_number \in numbers})

RowsOf(rows, po) == RowsIn(rows, {po})

\* Mutation of AllOk: the last row is taken unread.
AllOkButLast(rows) == \A n \in 1..(Len(rows) - 1) : rows[n].ok

AllOk(rows) == \A n \in DOMAIN rows : rows[n].ok

HeaderOk(header) == header.po_number # Missing /\ header.ok

(***************************************************************************)
(* Alfa: every order carries its items                                     *)
(***************************************************************************)
ParseAlfa(orders) ==
    IF \E n \in DOMAIN orders : ~HeaderOk(orders[n]) \/ ~AllOk(orders[n].items)
      THEN Rejected
      ELSE Parsed([n \in DOMAIN orders |-> Order(orders[n], orders[n].items)], <<>>, <<>>)

(***************************************************************************)
(* Beta: one file of headers, one of items                                 *)
(***************************************************************************)
Numbers(rows) == {rows[n].po_number : n \in DOMAIN rows}

\* An item without a header is dropped, with a warning that names its number,
\* material and line: nothing else of it is read, but a row too short to have
\* the three is an exception, as every defect of the others is.
ParseBeta(headers, rows) ==
    LET known == Numbers(headers)
        mine == RowsIn(rows, known)
    IN  IF \/ \E n \in DOMAIN rows : rows[n].short
           \/ \E n \in DOMAIN headers : ~HeaderOk(headers[n])
           \/ ~AllOk(mine)
          THEN Rejected
          ELSE Parsed([n \in DOMAIN headers |->
                         Order(headers[n], RowsOf(mine, headers[n].po_number))],
                      <<>>,
                      RowsIn(rows, Numbers(rows) \ known))

(***************************************************************************)
(* Gama: flat rows that repeat the header, in boxes and centavos           *)
(***************************************************************************)
\* Mutation of GamaContent: the price stays that of a box.
GamaContentPerBox(row) ==
    [material |-> row.cod_mat,
     ordered |-> row.qtd_ped * row.fator_conv,
     received |-> row.qtd_rec * row.fator_conv,
     unit_price |-> row.preco_unit_centavos * Centavo]

GamaContent(row) ==
    [material |-> row.cod_mat,
     ordered |-> row.qtd_ped * row.fator_conv,
     received |-> row.qtd_rec * row.fator_conv,
     unit_price |-> (row.preco_unit_centavos * Centavo) \div row.fator_conv]

\* The header is that of the first row; those of the others are not read.
GamaOrder(rows) ==
    [po_number |-> rows[1].po_number, header |-> rows[1].columns,
     items |-> [n \in DOMAIN rows |->
                  [line |-> rows[n].line, content |-> GamaContent(rows[n])]]]

ParseGama(rows) ==
    LET firsts == Selected(rows, {n \in DOMAIN rows :
                     \A m \in 1..(n - 1) : rows[m].po_number # rows[n].po_number})
    IN  IF \/ \E n \in DOMAIN rows : rows[n].po_number = Missing
           \/ \E n \in DOMAIN firsts : ~firsts[n].header_ok
           \/ \E n \in DOMAIN rows : ~rows[n].ok \/ rows[n].fator_conv <= 0
          THEN Rejected
          ELSE Parsed([n \in DOMAIN firsts |->
                         GamaOrder(RowsOf(rows, firsts[n].po_number))],
                      <<>>, <<>>)

(***************************************************************************)
(* Delta: two queries that need not agree                                  *)
(***************************************************************************)
\* An item without a header is kept, and must be sound, for the service to
\* look for its order in the database.
ParseDelta(headers, rows) ==
    LET known == Numbers(headers) \ {Missing}
        orphans == RowsIn(rows, Numbers(rows) \ known)
        mine == RowsIn(rows, known)
    IN  IF (\E n \in DOMAIN headers : ~HeaderOk(headers[n])) \/ ~AllOk(rows)
          THEN Rejected
          ELSE Parsed([n \in DOMAIN headers |->
                         Order(headers[n], RowsOf(mine, headers[n].po_number))],
                      [po \in Numbers(orphans) |-> ItemSeq(RowsOf(orphans, po))],
                      <<>>)
=============================================================================
