--------------------------- MODULE InvoiceChecker ---------------------------
(***************************************************************************)
(* InvoiceChecker.check: the rules that compare an invoice with the order  *)
(* it names.  Money and quantities are integers, scaled to the smallest    *)
(* unit the columns of the database hold.                                  *)
(***************************************************************************)
EXTENDS Integers, Sequences, FiniteSets

CONSTANTS
    PriceTolerance,  \* PRICE_TOLERANCE in that unit
    NotFound         \* the None that check receives for a missing order

ASSUME PriceToleranceAssumption == PriceTolerance \in Nat \ {0}

Pending(item) == item.content.ordered - item.content.received

Distance(a, b) == IF a < b THEN b - a ELSE a - b

\* Mutation of PriceDiffers: the tolerance itself is still accepted.
PriceDiffersStrictly(sold, item) ==
    Distance(sold.total_value, item.content.unit_price * sold.quantity)
        > PriceTolerance * sold.quantity

\* The unit price of the invoice is total_value / quantity with quantity > 0,
\* so the comparison is multiplied out.
PriceDiffers(sold, item) ==
    Distance(sold.total_value, item.content.unit_price * sold.quantity)
        >= PriceTolerance * sold.quantity

\* The dict the code builds has one item per material, the last of those
\* that share it; the query orders the items in no way, so any may be last.
ByMaterial(items) ==
    LET materials == {i.content.material : i \in items}
    IN  {f \in [materials -> items] :
            \A m \in materials : f[m].content.material = m}

\* Mutation of ItemDivergences: an exceeded quantity hides a wrong price.
FirstItemDivergence(byMaterial, sold) ==
    IF sold.material \notin DOMAIN byMaterial THEN {"material_not_found"}
    ELSE LET item == byMaterial[sold.material] IN
         IF sold.quantity > Pending(item) THEN {"quantity_exceeded"}
         ELSE {d \in {"price_mismatch"} : PriceDiffers(sold, item)}

ItemDivergences(byMaterial, sold) ==
    IF sold.material \notin DOMAIN byMaterial THEN {"material_not_found"}
    ELSE LET item == byMaterial[sold.material] IN
            {d \in {"quantity_exceeded"} : sold.quantity > Pending(item)}
       \cup {d \in {"price_mismatch"} : PriceDiffers(sold, item)}

\* The results check may return.  A result is a set of divergences
\* <<position, type>>, position 0 standing for the order as a whole.
Check(order, invoice) ==
    IF order = NotFound THEN {{<<0, "order_not_found">>}}
    ELSE IF order.header.status # "open" THEN {{<<0, "order_not_open">>}}
    ELSE {     {<<0, d>> : d \in {e \in {"vendor_mismatch"} :
                  invoice.vendor_tax_id # order.header.vendor_tax_id}}
          \cup UNION {{<<n, d>> : d \in ItemDivergences(f, invoice.items[n])} :
                        n \in DOMAIN invoice.items} :
          f \in ByMaterial(order.items)}

(***************************************************************************)
(* What a result of check says                                             *)
(***************************************************************************)
\* The order exists and is open, the vendor is its vendor, and every line of
\* the invoice has an item of its material with enough pending and less than
\* the tolerance between the unit prices.
Covers(order, invoice) ==
    /\ order # NotFound
    /\ order.header.status = "open"
    /\ invoice.vendor_tax_id = order.header.vendor_tax_id
    /\ \A n \in DOMAIN invoice.items : \E i \in order.items :
          LET sold == invoice.items[n]
              gap == sold.total_value - i.content.unit_price * sold.quantity
          IN  /\ i.content.material = sold.material
              /\ sold.quantity + i.content.received <= i.content.ordered
              /\ gap < PriceTolerance * sold.quantity
              /\ -gap < PriceTolerance * sold.quantity

DistinctMaterials(order) ==
    \A i, j \in order.items : i.content.material = j.content.material => i = j

\* Every rule that is broken, at its line, and no other.
ListsAll(divergences, order, invoice) ==
    /\ <<0, "vendor_mismatch">> \in divergences
          <=> invoice.vendor_tax_id # order.header.vendor_tax_id
    /\ \A n \in DOMAIN invoice.items :
         LET sold == invoice.items[n]
             same == {i \in order.items : i.content.material = sold.material}
         IN  /\ <<n, "material_not_found">> \in divergences <=> same = {}
             /\ <<n, "quantity_exceeded">> \in divergences
                   <=> \E i \in same : sold.quantity + i.content.received > i.content.ordered
             /\ <<n, "price_mismatch">> \in divergences
                   <=> \E i \in same : sold.total_value \notin
                         {sold.quantity * i.content.unit_price + gap :
                            gap \in (1 - sold.quantity * PriceTolerance)
                                    ..(sold.quantity * PriceTolerance - 1)}
=============================================================================
