----------------------------- MODULE Algorithms -----------------------------
(***************************************************************************)
(* The pure parts of the system, for any inputs: the adapters, the diff of *)
(* an ingestion and the rules of a conference.  A behaviour takes one      *)
(* input and computes one result.                                          *)
(***************************************************************************)
EXTENDS ClientAdapters, IngestionDiff, InvoiceChecker

CONSTANTS
    CheckOrders, Invoices,     \* what a conference compares
    StoredOrders, SentOrders,  \* what an ingestion compares
    SameOrders,                \* orders that are sent again as they were
    Loads                      \* the rows of a load, [headers, rows]

VARIABLES input, result

vars == <<input, result>>

Computed(alg) == input.alg = alg /\ result # <<>>

Output == result[1]

(***************************************************************************)
(* The inputs the code has                                                 *)
(***************************************************************************)
\* The columns of an order are numbers, of either sign: no adapter and no
\* constraint of the database excludes the negative ones.
Amounts(content) == \A f \in Compared : content[f] \in Int

IsList(items) == Len(items) \in Nat /\ DOMAIN items = 1 .. Len(items)

IsOrder(order) == \A i \in order.items : Amounts(i.content)

\* The schema of a conference lets only positive quantities pass.
IsInvoice(invoice) ==
    /\ IsList(invoice.items)
    /\ \A n \in DOMAIN invoice.items :
         invoice.items[n].quantity \in Nat \ {0} /\ invoice.items[n].total_value \in Int

IsPayload(order) ==
    IsList(order.items) /\ \A n \in DOMAIN order.items : Amounts(order.items[n].content)

\* A row of a load.  What Beta does not have of a short one is missing in the
\* other formats too.  With a positive number of pieces in a box, the only one
\* Gama takes, the row counts whole boxes and a box costs whole centavos.
IsRow(row) ==
    LET content == row.content IN
    /\ row.short => row.po_number = Missing \/ ~row.ok
    /\ row.fator_conv \in Int
    /\ content \in [material: {content.material}, ordered: Int, received: Int, unit_price: Int]
    /\ row.fator_conv > 0 =>
         /\ content.ordered % row.fator_conv = 0 /\ content.received % row.fator_conv = 0
         /\ (content.unit_price * row.fator_conv) % Centavo = 0

\* The headers name every order once; any of them may be unsound, and one may
\* have no number.
IsLoad(load) ==
    /\ IsList(load.headers) /\ IsList(load.rows)
    /\ \A i, j \in DOMAIN load.headers :
         load.headers[i].po_number = load.headers[j].po_number => i = j
    /\ \A n \in DOMAIN load.rows : IsRow(load.rows[n])

ASSUME InputsAssumption ==
    /\ \A order \in CheckOrders : order = NotFound \/ IsOrder(order)
    /\ \A invoice \in Invoices : IsInvoice(invoice)
    /\ \A order \in StoredOrders \cup SentOrders \cup SameOrders : IsPayload(order)
    /\ \A load \in Loads : IsLoad(load)

(***************************************************************************)
(* The same orders in the four formats                                     *)
(***************************************************************************)
\* Beta and Delta send the headers and the rows as they are.
AlfaPayload(headers, rows) ==
    [n \in DOMAIN headers |->
       [po_number |-> headers[n].po_number, ok |-> headers[n].ok,
        columns |-> headers[n].columns, items |-> RowsOf(rows, headers[n].po_number)]]

\* A row without a number has no header to repeat.
NoHeader == [po_number |-> Missing, ok |-> FALSE, columns |-> <<>>]

HeaderOf(headers, po) ==
    IF po \in Numbers(headers)
      THEN CHOOSE h \in ToSet(headers) : h.po_number = po
      ELSE NoHeader

Boxes(amount, r) == IF r.fator_conv > 0 THEN amount \div r.fator_conv ELSE amount

GamaRow(r, header) ==
    [po_number |-> r.po_number, header_ok |-> header.ok, columns |-> header.columns,
     ok |-> r.ok, line |-> r.line, cod_mat |-> r.content.material, fator_conv |-> r.fator_conv,
     qtd_ped |-> Boxes(r.content.ordered, r),
     qtd_rec |-> Boxes(r.content.received, r),
     preco_unit_centavos |-> (r.content.unit_price * r.fator_conv) \div Centavo]

\* The rows that Gama can send: those of a header, which they repeat, and those
\* that lost their number.
GamaPayload(headers, rows) ==
    LET sent == RowsIn(rows, Numbers(headers) \cup {Missing})
    IN  [n \in DOMAIN sent |-> GamaRow(sent[n], HeaderOf(headers, sent[n].po_number))]

Normalised(headers, rows) ==
    [alfa  |-> ParseAlfa(AlfaPayload(headers, rows)),
     beta  |-> ParseBeta(headers, rows),
     gama  |-> ParseGama(GamaPayload(headers, rows)),
     delta |-> ParseDelta(headers, rows)]

(***************************************************************************)
(* Behaviours                                                              *)
(***************************************************************************)
Init ==
    /\ result = <<>>
    /\ \/ \E order \in CheckOrders, invoice \in Invoices :
             input = [alg |-> "check", order |-> order, invoice |-> invoice]
       \/ \E existing \in StoredOrders, sent \in SentOrders :
             input = [alg |-> "diff", existing |-> existing, sent |-> sent]
       \/ \E order \in SameOrders :
             input = [alg |-> "again", order |-> order]
       \/ \E load \in Loads :
             input = [alg |-> "parse", headers |-> load.headers, rows |-> load.rows]

Next ==
    /\ result = <<>>
    /\ \/ /\ input.alg = "check"
          /\ \E divergences \in Check(input.order, input.invoice) : result' = <<divergences>>
       \/ /\ input.alg = "diff"
          /\ result' = <<DiffOrders(input.existing, input.sent)>>
       \/ /\ input.alg = "again"
          /\ result' = <<DiffOrders(Stored(input.order), input.order)>>
       \/ /\ input.alg = "parse"
          /\ result' = <<Normalised(input.headers, input.rows)>>
    /\ UNCHANGED input

Spec == Init /\ [][Next]_vars

(***************************************************************************)
(* What a behaviour computes                                               *)
(***************************************************************************)
\* The inductive invariant: the input is one the code has, and the result one
\* of those the algorithm may give of it.
Given ==
    \/ input.alg = "check" /\ input.order \in CheckOrders /\ input.invoice \in Invoices
    \/ input.alg = "diff" /\ input.existing \in StoredOrders /\ input.sent \in SentOrders
    \/ input.alg = "again" /\ input.order \in SameOrders
    \/ input.alg = "parse" /\ IsLoad(input)

Results ==
    CASE input.alg = "check" -> Check(input.order, input.invoice)
      [] input.alg = "diff"  -> {DiffOrders(input.existing, input.sent)}
      [] input.alg = "again" -> {DiffOrders(Stored(input.order), input.order)}
      [] input.alg = "parse" -> {Normalised(input.headers, input.rows)}

AInv == Given /\ (result = <<>> \/ \E r \in Results : result = <<r>>)

(***************************************************************************)
(* Properties of the checker                                               *)
(***************************************************************************)
\* A conference approves only what the order covers: the order exists and is
\* open, the vendor is its vendor, and every line of the invoice has an item
\* of its material with enough pending and less than a cent between the unit
\* prices.
ApprovedIsCovered ==
    Computed("check") /\ Output = {} => Covers(input.order, input.invoice)

\* On an open order whose items have distinct materials the result lists
\* every rule that is broken, at its line, and no other: one divergence never
\* hides another.
EveryDivergenceListed ==
    /\ Computed("check")
    /\ input.order # NotFound
    /\ input.order.header.status = "open"
    /\ DistinctMaterials(input.order)
    => ListsAll(Output, input.order, input.invoice)

(***************************************************************************)
(* Properties of the diff                                                  *)
(***************************************************************************)
\* The changes an ingestion reports turn the stored order into the one sent:
\* its header columns, its lines, and the amounts of the lines that stay; and
\* none of them says that something became what it was.
DiffExplainsUpdate ==
    Computed("diff") => Explains(Output, input.existing, input.sent)

\* Sending an order again that did not change reports only amounts with more
\* digits than their column holds, each of them, and by at most half of its last digit.
OnlyRoundingReported ==
    Computed("again") => OnlyRounded(Output, input.order)

(***************************************************************************)
(* What the results of the adapters say                                    *)
(***************************************************************************)
\* How often an order of a parse result has a line with a content.
Occurrences(orders, max, po, line, content) ==
    Cardinality({at \in (DOMAIN orders) \X (1..max) :
        LET order == orders[at[1]] IN
        /\ order.po_number = po
        /\ at[2] \in DOMAIN order.items
        /\ order.items[at[2]] = [line |-> line, content |-> content]})

InRows(rows, po, line, content) ==
    Cardinality({n \in DOMAIN rows :
        /\ rows[n].po_number = po
        /\ rows[n].line = line
        /\ rows[n].content = content})

\* Every row with a header is in its order, in each format; one without is in
\* a warning of Beta and among the orphans of Delta: as often as it came.
CarriesRow(out, headers, rows, r) ==
    LET times == InRows(rows, r.po_number, r.line, r.content)
        all(parsed) == parsed.ok =>
            Occurrences(parsed.orders, Len(rows), r.po_number, r.line, r.content) = times
    IN  IF r.po_number \in Numbers(headers)
          THEN all(out.alfa) /\ all(out.beta) /\ all(out.gama) /\ all(out.delta)
          ELSE /\ out.beta.ok =>
                    Cardinality({n \in DOMAIN out.beta.warnings : out.beta.warnings[n] = r}) =
                    Cardinality({n \in DOMAIN rows : rows[n] = r})
               /\ out.delta.ok =>
                    Cardinality({n \in DOMAIN out.delta.orphan_items[r.po_number] :
                                   out.delta.orphan_items[r.po_number][n] =
                                     [line |-> r.line, content |-> r.content]}) = times

\* Alfa, Beta and Delta give one list of orders: numbers, header columns and
\* items in their order.  Gama gives those orders of it that have items, each
\* once: an order without rows is nowhere in its payload.  Alfa takes every
\* load that Beta or Delta takes.
SameOrdersOut(out) ==
    /\ out.beta.ok => out.alfa.ok /\ out.beta.orders = out.alfa.orders
    /\ out.delta.ok => out.alfa.ok /\ out.delta.orders = out.alfa.orders
    /\ out.gama.ok /\ out.alfa.ok =>
         /\ ToSet(out.gama.orders) = {o \in ToSet(out.alfa.orders) : DOMAIN o.items # {}}
         /\ \A i, j \in DOMAIN out.gama.orders :
              out.gama.orders[i].po_number = out.gama.orders[j].po_number => i = j

\* A load is taken when all that the format reads of it is sound.
TakenWhenSound(out, headers, rows) ==
    LET heads == \A n \in DOMAIN headers : HeaderOk(headers[n])
        sound == \A n \in DOMAIN rows : rows[n].ok
        short == \E n \in DOMAIN rows : rows[n].short
        listed == \A n \in DOMAIN rows :
                    rows[n].po_number \in Numbers(headers) => rows[n].ok
        flat == \A n \in DOMAIN rows :
                  /\ rows[n].po_number # Missing
                  /\ rows[n].po_number \in Numbers(headers) =>
                       /\ rows[n].ok /\ rows[n].fator_conv > 0
                       /\ HeaderOf(headers, rows[n].po_number).ok
    IN  /\ out.alfa.ok <=> heads /\ listed
        /\ out.beta.ok <=> heads /\ listed /\ ~short
        /\ out.gama.ok <=> flat
        /\ out.delta.ok <=> heads /\ sound

(***************************************************************************)
(* Properties of the adapters                                              *)
(***************************************************************************)
\* The formats that take a load make the same orders of it, header columns and
\* items included, whatever the order of the rows and whether they count boxes
\* or pieces, except that Gama has no order without rows; and every row is
\* somewhere: those without a header in a warning of Beta or an orphan of Delta.
FormatsAgree ==
    Computed("parse") =>
        /\ SameOrdersOut(Output)
        /\ \A n \in DOMAIN input.rows :
             CarriesRow(Output, input.headers, input.rows, input.rows[n])

\* One defect rejects the payload as a whole, and nothing else does: Beta
\* alone accepts a defect in an item it drops, if the row is not too short to
\* be named; Gama alone minds the pieces in a box, and not an order without rows.
DefectRejects ==
    Computed("parse") => TakenWhenSound(Output, input.headers, input.rows)
=============================================================================
