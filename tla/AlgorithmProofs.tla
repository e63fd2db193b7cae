-------------------------- MODULE AlgorithmProofs --------------------------
(***************************************************************************)
(* Machine-checked proofs about the checker of invoices, the diff of an    *)
(* ingestion and the four adapters: what they compute of any order, any    *)
(* invoice and any load, and so of those TLC computes with.                *)
(***************************************************************************)
EXTENDS Algorithms, FiniteSetTheorems, FunctionTheorems, WellFoundedInduction, TLAPS

(***************************************************************************)
(* The checker                                                             *)
(***************************************************************************)
\* A price passes when it is less than the tolerance away, on either side.
LEMMA PricePasses ==
    ASSUME NEW sold, NEW item, sold.quantity \in Int, sold.total_value \in Int, Amounts(item.content)
    PROVE  LET gap == sold.total_value - item.content.unit_price * sold.quantity
           IN  ~PriceDiffers(sold, item) <=> /\ gap < PriceTolerance * sold.quantity
                                             /\ -gap < PriceTolerance * sold.quantity
<1> DEFINE paid == sold.total_value
           due == item.content.unit_price * sold.quantity
           limit == PriceTolerance * sold.quantity
<1>1. paid \in Int /\ due \in Int /\ limit \in Int
  BY PriceToleranceAssumption DEF Amounts, Compared
<1>2. PriceDiffers(sold, item) <=> Distance(paid, due) >= limit
  BY DEF PriceDiffers
<1> HIDE DEF paid, due, limit
<1>3. ~(Distance(paid, due) >= limit) <=> paid - due < limit /\ -(paid - due) < limit
  BY <1>1 DEF Distance
<1> QED BY <1>2, <1>3 DEF paid, due, limit

\* The result check returns for an order that is open.
LEMMA CheckedAgainstItems ==
    ASSUME NEW order, NEW invoice, order # NotFound, order.header.status = "open",
           NEW divergences \in Check(order, invoice)
    PROVE  \E f \in ByMaterial(order.items) : \A n, d :
              <<n, d>> \in divergences <=>
                 \/ n = 0 /\ d = "vendor_mismatch" /\ invoice.vendor_tax_id # order.header.vendor_tax_id
                 \/ n \in DOMAIN invoice.items /\ d \in ItemDivergences(f, invoice.items[n])
<1> DEFINE header == {<<0, d>> : d \in {e \in {"vendor_mismatch"} :
                        invoice.vendor_tax_id # order.header.vendor_tax_id}}
           lines(f) == UNION {{<<n, d>> : d \in ItemDivergences(f, invoice.items[n])} :
                                n \in DOMAIN invoice.items}
<1>1. PICK f \in ByMaterial(order.items) : divergences = header \cup lines(f)
  BY DEF Check
<1>2. \A n, d : <<n, d>> \in lines(f) <=> n \in DOMAIN invoice.items
                                          /\ d \in ItemDivergences(f, invoice.items[n])
  OBVIOUS
<1>3. \A n, d : <<n, d>> \in header <=> /\ n = 0 /\ d = "vendor_mismatch"
                                        /\ invoice.vendor_tax_id # order.header.vendor_tax_id
  OBVIOUS
<1> HIDE DEF header, lines
<1> QED BY <1>1, <1>2, <1>3

\* The item a line is compared with.
LEMMA ComparedItem ==
    ASSUME NEW items, NEW f \in ByMaterial(items), NEW sold, sold.material \in DOMAIN f
    PROVE  f[sold.material] \in items /\ f[sold.material].content.material = sold.material
BY DEF ByMaterial

LEMMA NothingToCompare ==
    ASSUME NEW items, NEW f \in ByMaterial(items), NEW material
    PROVE  material \notin DOMAIN f <=> \A i \in items : i.content.material # material
BY DEF ByMaterial

\* What check says of one line.
LEMMA LineDivergences ==
    ASSUME NEW order, IsOrder(order), NEW f \in ByMaterial(order.items),
           NEW sold, sold.quantity \in Nat \ {0}, sold.total_value \in Int
    PROVE  LET found == ItemDivergences(f, sold)
               item == f[sold.material]
           IN  \/ /\ \A i \in order.items : i.content.material # sold.material
                  /\ found = {"material_not_found"}
               \/ /\ item \in order.items /\ item.content.material = sold.material
                  /\ "material_not_found" \notin found
                  /\ "quantity_exceeded" \in found
                        <=> sold.quantity + item.content.received > item.content.ordered
                  /\ "price_mismatch" \in found <=> PriceDiffers(sold, item)
                  /\ found \subseteq {"quantity_exceeded", "price_mismatch"}
<1> DEFINE item == f[sold.material]
<1>1. CASE sold.material \notin DOMAIN f
  <2>1. \A i \in order.items : i.content.material # sold.material
    BY <1>1, NothingToCompare
  <2> QED BY <1>1, <2>1 DEF ItemDivergences
<1>2. CASE sold.material \in DOMAIN f
  <2>1. item \in order.items /\ item.content.material = sold.material
    BY <1>2, ComparedItem
  <2>2. item.content.ordered \in Int /\ item.content.received \in Int
    BY <2>1 DEF IsOrder, Amounts, Compared
  <2>3. ItemDivergences(f, sold) = {d \in {"quantity_exceeded"} : sold.quantity > Pending(item)}
                             \cup {d \in {"price_mismatch"} : PriceDiffers(sold, item)}
    BY <1>2 DEF ItemDivergences
  <2>4. sold.quantity > Pending(item) <=> sold.quantity + item.content.received > item.content.ordered
    BY <2>2 DEF Pending
  <2> HIDE DEF item
  <2> QED BY <2>1, <2>3, <2>4 DEF item
<1> QED BY <1>1, <1>2

\* Whatever the order and the invoice, and whichever of two items of one
\* material check compares a line with: it approves only what the order covers.
THEOREM ApprovalIsCovered ==
    ASSUME NEW order, order = NotFound \/ IsOrder(order),
           NEW invoice, IsInvoice(invoice), {} \in Check(order, invoice)
    PROVE  Covers(order, invoice)
<1> DEFINE divergences == {}
<1>1. order # NotFound /\ order.header.status = "open" /\ IsOrder(order)
  BY DEF Check
<1> HIDE DEF divergences
<1>2. PICK f \in ByMaterial(order.items) : \A n, d :
         <<n, d>> \in divergences <=>
            \/ n = 0 /\ d = "vendor_mismatch" /\ invoice.vendor_tax_id # order.header.vendor_tax_id
            \/ n \in DOMAIN invoice.items /\ d \in ItemDivergences(f, invoice.items[n])
  <2>1. divergences \in Check(order, invoice)
    BY DEF divergences
  <2> QED BY <1>1, <2>1, CheckedAgainstItems
<1>3. invoice.vendor_tax_id = order.header.vendor_tax_id
  BY <1>2 DEF divergences
<1>4. ASSUME NEW n \in DOMAIN invoice.items
      PROVE  LET sold == invoice.items[n] IN \E i \in order.items :
                LET gap == sold.total_value - i.content.unit_price * sold.quantity IN
                /\ i.content.material = sold.material
                /\ sold.quantity + i.content.received <= i.content.ordered
                /\ gap < PriceTolerance * sold.quantity
                /\ -gap < PriceTolerance * sold.quantity
  <2> DEFINE sold == invoice.items[n]
             item == f[sold.material]
  <2>1. ItemDivergences(f, sold) = {}
    BY <1>2 DEF divergences
  <2>2. sold.quantity \in Nat \ {0} /\ sold.total_value \in Int
    BY DEF IsInvoice, IsList
  <2> HIDE DEF sold
  <2>3. /\ item \in order.items /\ item.content.material = sold.material
        /\ ~(sold.quantity + item.content.received > item.content.ordered)
        /\ ~PriceDiffers(sold, item)
    <3> HIDE DEF item
    <3>1. LET found == ItemDivergences(f, sold)
          IN  \/ found = {"material_not_found"}
              \/ /\ item \in order.items /\ item.content.material = sold.material
                 /\ "quantity_exceeded" \in found
                       <=> sold.quantity + item.content.received > item.content.ordered
                 /\ "price_mismatch" \in found <=> PriceDiffers(sold, item)
      BY <1>1, <2>2, LineDivergences DEF item
    <3> QED BY <2>1, <3>1
  <2> HIDE DEF item
  <2>4. Amounts(item.content)
    BY <1>1, <2>3 DEF IsOrder
  <2>5. sold.quantity + item.content.received <= item.content.ordered
    BY <2>2, <2>3, <2>4 DEF Amounts, Compared
  <2>6. LET gap == sold.total_value - item.content.unit_price * sold.quantity
        IN  gap < PriceTolerance * sold.quantity /\ -gap < PriceTolerance * sold.quantity
    BY <2>2, <2>3, <2>4, PricePasses
  <2> QED BY <2>3, <2>5, <2>6 DEF sold
<1> QED BY <1>1, <1>3, <1>4 DEF Covers

\* The same gap, counted as the prices that pass.
LEMMA PriceInRange ==
    ASSUME NEW sold, NEW item, sold.quantity \in Nat \ {0}, sold.total_value \in Int,
           Amounts(item.content)
    PROVE  PriceDiffers(sold, item) <=>
              sold.total_value \notin {sold.quantity * item.content.unit_price + gap :
                 gap \in (1 - sold.quantity * PriceTolerance)..(sold.quantity * PriceTolerance - 1)}
<1> DEFINE paid == sold.total_value
           due == sold.quantity * item.content.unit_price
           limit == sold.quantity * PriceTolerance
<1>1. paid \in Int /\ due \in Int /\ limit \in Int
  BY PriceToleranceAssumption DEF Amounts, Compared
<1>2. ~PriceDiffers(sold, item) <=> paid - due < limit /\ -(paid - due) < limit
  <2>1. due = item.content.unit_price * sold.quantity /\ limit = PriceTolerance * sold.quantity
    BY PriceToleranceAssumption DEF Amounts, Compared
  <2> HIDE DEF due, limit
  <2> QED BY <2>1, PricePasses
<1> HIDE DEF paid, due, limit
<1>3. paid - due < limit /\ -(paid - due) < limit
        <=> paid \in {due + gap : gap \in (1 - limit)..(limit - 1)}
  <2>1. ASSUME paid - due < limit /\ -(paid - due) < limit
        PROVE  paid \in {due + gap : gap \in (1 - limit)..(limit - 1)}
    <3>1. paid - due \in (1 - limit)..(limit - 1) /\ paid = due + (paid - due)
      BY <1>1, <2>1
    <3> QED BY <3>1
  <2>2. ASSUME NEW gap \in (1 - limit)..(limit - 1), paid = due + gap
        PROVE  paid - due < limit /\ -(paid - due) < limit
    BY <1>1, <2>2
  <2> QED BY <2>1, <2>2
<1> QED BY <1>2, <1>3 DEF paid, due, limit

\* On an open order whose items have distinct materials check lists every rule
\* that is broken, at its line, and no other.
THEOREM DivergencesAreListed ==
    ASSUME NEW order, IsOrder(order), order # NotFound, order.header.status = "open",
           DistinctMaterials(order),
           NEW invoice, IsInvoice(invoice), NEW divergences \in Check(order, invoice)
    PROVE  ListsAll(divergences, order, invoice)
<1>1. PICK f \in ByMaterial(order.items) : \A n, d :
         <<n, d>> \in divergences <=>
            \/ n = 0 /\ d = "vendor_mismatch" /\ invoice.vendor_tax_id # order.header.vendor_tax_id
            \/ n \in DOMAIN invoice.items /\ d \in ItemDivergences(f, invoice.items[n])
  BY CheckedAgainstItems
<1>2. 0 \notin DOMAIN invoice.items
  BY DEF IsInvoice, IsList
<1>3. <<0, "vendor_mismatch">> \in divergences <=> invoice.vendor_tax_id # order.header.vendor_tax_id
  BY <1>1, <1>2
<1>4. ASSUME NEW n \in DOMAIN invoice.items
      PROVE  LET sold == invoice.items[n]
                 same == {i \in order.items : i.content.material = sold.material}
             IN  /\ <<n, "material_not_found">> \in divergences <=> same = {}
                 /\ <<n, "quantity_exceeded">> \in divergences
                       <=> \E i \in same : sold.quantity + i.content.received > i.content.ordered
                 /\ <<n, "price_mismatch">> \in divergences
                       <=> \E i \in same : sold.total_value \notin
                             {sold.quantity * i.content.unit_price + gap :
                                gap \in (1 - sold.quantity * PriceTolerance)
                                        ..(sold.quantity * PriceTolerance - 1)}
  <2> DEFINE sold == invoice.items[n]
             item == f[sold.material]
             found == ItemDivergences(f, sold)
             same == {i \in order.items : i.content.material = sold.material}
             Passes(i) == sold.total_value \in {sold.quantity * i.content.unit_price + gap :
                             gap \in (1 - sold.quantity * PriceTolerance)
                                     ..(sold.quantity * PriceTolerance - 1)}
  <2>1. \A d : <<n, d>> \in divergences <=> d \in found
    BY <1>1, <1>2
  <2>2. sold.quantity \in Nat \ {0} /\ sold.total_value \in Int
    BY DEF IsInvoice, IsList
  <2> HIDE DEF sold
  <2>3. \/ same = {} /\ found = {"material_not_found"}
        \/ /\ item \in same
           /\ "material_not_found" \notin found
           /\ "quantity_exceeded" \in found
                 <=> sold.quantity + item.content.received > item.content.ordered
           /\ "price_mismatch" \in found <=> PriceDiffers(sold, item)
    BY <2>2, LineDivergences
  <2>4. \A i \in same : PriceDiffers(sold, i) <=> ~Passes(i)
    BY <2>2, PriceInRange DEF IsOrder
  <2>5. \A i, j \in same : i = j
    BY DEF DistinctMaterials
  <2> HIDE DEF item, found, same, Passes
  <2>6. CASE same = {} /\ found = {"material_not_found"}
    <3>1. /\ <<n, "material_not_found">> \in divergences
          /\ <<n, "quantity_exceeded">> \notin divergences
          /\ <<n, "price_mismatch">> \notin divergences
      BY <2>1, <2>6
    <3> QED BY <2>6, <3>1 DEF sold, same
  <2>7. CASE /\ item \in same
             /\ "material_not_found" \notin found
             /\ "quantity_exceeded" \in found
                   <=> sold.quantity + item.content.received > item.content.ordered
             /\ "price_mismatch" \in found <=> PriceDiffers(sold, item)
    <3>1. same = {item}
      BY <2>5, <2>7
    <3>2. <<n, "material_not_found">> \in divergences <=> same = {}
      BY <2>1, <2>7
    <3>3. <<n, "quantity_exceeded">> \in divergences
             <=> \E i \in same : sold.quantity + i.content.received > i.content.ordered
      BY <2>1, <2>7, <3>1
    <3>4. <<n, "price_mismatch">> \in divergences <=> \E i \in same : ~Passes(i)
      BY <2>1, <2>4, <2>7, <3>1
    <3> QED BY <3>2, <3>3, <3>4 DEF sold, same, Passes
  <2> QED BY <2>3, <2>6, <2>7
<1> QED BY <1>3, <1>4 DEF ListsAll

(***************************************************************************)
(* The dict by line                                                        *)
(***************************************************************************)
LEMMA LeastNatural ==
    ASSUME NEW S \in SUBSET Nat, S # {}
    PROVE  \E n \in S : \A m \in S : n <= m
<1> DEFINE R == {p \in Nat \X Nat : p[1] < p[2]}
<1>1. IsWellFoundedOn(R, Nat)
  BY NatLessThanWellFounded DEF OpToRel
<1> HIDE DEF R
<1>2. S \subseteq Nat
  OBVIOUS
<1>3. \E n \in S : \A m \in S : ~ (<<m, n>> \in R)
  BY <1>1, <1>2, WFMin, Zenon
<1>4. PICK n \in S : \A m \in S : ~ (<<m, n>> \in R)
  BY <1>3
<1>5. ASSUME NEW m \in S PROVE n <= m
  <2>1. m \in Nat /\ n \in Nat /\ ~ (<<m, n>> \in R)
    BY <1>2, <1>4
  <2>2. ~ (m < n)
    BY ONLY <2>1 DEF R
  <2> QED BY <2>1, <2>2
<1> QED BY <1>4, <1>5

\* A line that a payload has, it has a last time.
LEMMA LastExists ==
    ASSUME NEW items, IsList(items), NEW l \in Lines(items)
    PROVE  \E n \in DOMAIN items :
              items[n].line = l /\ \A m \in DOMAIN items : items[m].line = l => m <= n
<1> DEFINE len == Len(items)
           at == {n \in DOMAIN items : items[n].line = l}
           left == {len - n : n \in at}
<1>1. len \in Nat /\ at \subseteq 1 .. len /\ at # {}
  BY DEF IsList, Lines
<1> HIDE DEF len, at
<1>2. left \in SUBSET Nat /\ left # {}
  <2>1. \A n \in at : n \in Nat /\ len - n \in Nat
    BY <1>1
  <2> QED BY <1>1, <2>1
<1>3. PICK d \in left : \A e \in left : d <= e
  <2> HIDE DEF left
  <2> QED BY <1>2, LeastNatural
<1>4. PICK n \in at : d = len - n
  BY <1>3
<1>5. ASSUME NEW m \in at PROVE m <= n
  <2>1. len - n <= len - m
    BY <1>3, <1>4
  <2>2. m \in Nat /\ n \in Nat
    BY <1>1
  <2> QED BY <1>1, <2>1, <2>2
<1> QED BY <1>4, <1>5 DEF at

\* The dict has the lines of the payload, each with its last item.
LEMMA ByLineIs ==
    ASSUME NEW items, IsList(items)
    PROVE  /\ DOMAIN ByLine(items) = Lines(items)
           /\ \A l \in Lines(items) :
                 /\ ByLine(items)[l] = LastOf(items, l)
                 /\ \E n \in DOMAIN items : items[n].line = l /\ LastOf(items, l) = items[n].content
<1>1. DOMAIN ByLine(items) = Lines(items)
  BY DEF ByLine, Lines
<1>2. ASSUME NEW l \in Lines(items)
      PROVE  /\ ByLine(items)[l] = LastOf(items, l)
             /\ \E n \in DOMAIN items : items[n].line = l /\ LastOf(items, l) = items[n].content
  <2> DEFINE at == {n \in DOMAIN items : items[n].line = l}
             IsLastAt(n) == n \in at /\ \A m \in at : m <= n
             p == CHOOSE n \in DOMAIN items :
                     /\ items[n].line = l
                     /\ \A m \in (n + 1)..Len(items) : items[m].line # l
             q == CHOOSE n \in at : \A m \in at : m <= n
  <2>1. PICK n \in DOMAIN items : IsLastAt(n)
    BY LastExists
  <2>2. at \subseteq Nat /\ at \subseteq 1 .. Len(items) /\ Len(items) \in Nat
    BY DEF IsList
  <2>3. IsLastAt(q)
    BY <2>1
  <2>4. items[n].line = l /\ \A m \in (n + 1)..Len(items) : items[m].line # l
    BY <2>1, <2>2 DEF IsList
  <2>5. /\ p \in DOMAIN items /\ items[p].line = l
        /\ \A m \in (p + 1)..Len(items) : items[m].line # l
    BY <2>4
  <2>6. IsLastAt(p)
    <3>1. p \in at
      BY <2>5
    <3>2. ASSUME NEW m \in at PROVE m <= p
      <4> SUFFICES ASSUME ~(m <= p) PROVE FALSE
        OBVIOUS
      <4>1. m \in (p + 1)..Len(items)
        BY <2>2, <3>1
      <4> QED BY <2>5, <4>1
    <3> QED BY <3>1, <3>2
  <2>7. p = q
    <3> HIDE DEF p, q
    <3>1. p \in at /\ q \in at /\ p <= q /\ q <= p
      BY <2>3, <2>6
    <3> HIDE DEF at
    <3> QED BY <2>2, <3>1
  <2>8. ByLine(items)[l] = items[p].content
    BY DEF ByLine, Lines
  <2>9. LastOf(items, l) = items[q].content
    BY DEF LastOf
  <2> QED BY <2>3, <2>7, <2>8, <2>9
<1> QED BY <1>1, <1>2

(***************************************************************************)
(* The diff                                                                *)
(***************************************************************************)
\* A change is a column of the header, a line that came, a column of a line
\* that stayed, or a line that went.
HeaderChange(c, was, is) ==
    \E f \in DOMAIN is.header :
       was.header[f] # is.header[f] /\ c = <<<<"header", f>>, was.header[f], is.header[f]>>

LineAdded(c, was, is) ==
    \E l \in Lines(is.items) \ Lines(was.items) :
       c = <<<<"added", l>>, <<"ausente">>, <<"adicionado", LastOf(is.items, l).material>>>>

ItemChange(c, was, is) ==
    \E l \in Lines(is.items) \cap Lines(was.items), f \in Compared :
       LET before == LastOf(was.items, l)[f]
           after == LastOf(is.items, l)[f]
       IN  before # after /\ c = <<<<"item", l, f>>, before, after>>

LineRemoved(c, was, is) ==
    \E l \in Lines(was.items) \ Lines(is.items) :
       c = <<<<"removed", l>>, <<"material", LastOf(was.items, l).material>>, <<"removido">>>>

LEMMA ChangesAre ==
    ASSUME NEW existing, NEW sent, IsList(existing.items), IsList(sent.items), NEW c
    PROVE  c \in DiffOrders(existing, sent) <=>
              \/ HeaderChange(c, existing, sent) \/ LineAdded(c, existing, sent)
              \/ ItemChange(c, existing, sent) \/ LineRemoved(c, existing, sent)
<1> DEFINE was == ByLine(existing.items)
           is == ByLine(sent.items)
           header == {<<<<"header", f>>, existing.header[f], sent.header[f]>> :
                         f \in {g \in DOMAIN sent.header : existing.header[g] # sent.header[g]}}
           added == {<<<<"added", l>>, <<"ausente">>, <<"adicionado", is[l].material>>>> : l \in DOMAIN is \ DOMAIN was}
           item == UNION {LineChanges(l, was[l], is[l]) : l \in DOMAIN is \cap DOMAIN was}
           removed == {<<<<"removed", l>>, <<"material", was[l].material>>, <<"removido">>>> : l \in DOMAIN was \ DOMAIN is}
<1>1. DiffOrders(existing, sent) = header \cup added \cup removed \cup item
  BY DEF DiffOrders
<1>2. /\ DOMAIN was = Lines(existing.items) /\ \A l \in DOMAIN was : was[l] = LastOf(existing.items, l)
      /\ DOMAIN is = Lines(sent.items) /\ \A l \in DOMAIN is : is[l] = LastOf(sent.items, l)
  BY ByLineIs
<1>3. c \in header <=> HeaderChange(c, existing, sent)
  BY DEF HeaderChange
<1> HIDE DEF was, is
<1>4. c \in added <=> LineAdded(c, existing, sent)
  BY <1>2 DEF LineAdded
<1>5. c \in item <=> ItemChange(c, existing, sent)
  BY <1>2 DEF ItemChange, LineChanges
<1>6. c \in removed <=> LineRemoved(c, existing, sent)
  BY <1>2 DEF LineRemoved
<1> HIDE DEF header, added, item, removed
<1> QED BY <1>1, <1>3, <1>4, <1>5, <1>6

\* The field a change names tells what kind it is.
LEMMA KindOfChange ==
    ASSUME NEW was, NEW is, NEW c
    PROVE  /\ HeaderChange(c, was, is) => c[1][1] = "header"
           /\ LineAdded(c, was, is) => c[1][1] = "added"
           /\ ItemChange(c, was, is) => c[1][1] = "item"
           /\ LineRemoved(c, was, is) => c[1][1] = "removed"
BY DEF HeaderChange, LineAdded, ItemChange, LineRemoved

\* Whatever was stored and whatever is sent, also with a line twice: the
\* changes an ingestion reports turn the one into the other.
THEOREM DiffsExplain ==
    ASSUME NEW existing, NEW sent, IsList(existing.items), IsList(sent.items)
    PROVE  Explains(DiffOrders(existing, sent), existing, sent)
<1> DEFINE changes == DiffOrders(existing, sent)
<1>1. \A c : c \in changes <=> \/ HeaderChange(c, existing, sent) \/ LineAdded(c, existing, sent)
                               \/ ItemChange(c, existing, sent) \/ LineRemoved(c, existing, sent)
  BY ChangesAre
<1> HIDE DEF changes
<1>2. ASSUME NEW f \in DOMAIN sent.header
      PROVE  sent.header[f] = Patched(changes, <<"header", f>>, existing.header[f])
  <2> DEFINE was == existing.header[f]
             is == sent.header[f]
  <2>1. ASSUME NEW c \in changes, c[1] = <<"header", f>> PROVE c[3] = is
    <3>1. HeaderChange(c, existing, sent)
      BY <1>1, <2>1, KindOfChange
    <3>2. PICK g \in DOMAIN sent.header : c = <<<<"header", g>>, existing.header[g], sent.header[g]>>
      BY <3>1 DEF HeaderChange
    <3>3. g = f
      BY <2>1, <3>2
    <3> QED BY <3>2, <3>3
  <2>2. (\E c \in changes : c[1] = <<"header", f>>) \/ was = is
    <3> SUFFICES ASSUME was # is PROVE \E c \in changes : c[1] = <<"header", f>>
      OBVIOUS
    <3>1. HeaderChange(<<<<"header", f>>, was, is>>, existing, sent)
      BY DEF HeaderChange
    <3> QED BY <1>1, <3>1
  <2> DEFINE field == <<"header", f>>
  <2>3. /\ \A c \in changes : c[1] = field => c[3] = is
        /\ (\E c \in changes : c[1] = field) \/ was = is
    BY <2>1, <2>2
  <2> HIDE DEF was, is, field
  <2>4. Patched(changes, field, was) = is
    BY ONLY <2>3 DEF Patched
  <2> QED BY <2>4 DEF was, is, field
<1>3. Lines(sent.items) = (Lines(existing.items) \ {c[1][2] : c \in Reported("removed", changes)})
                            \cup {c[1][2] : c \in Reported("added", changes)}
  <2>1. {c[1][2] : c \in Reported("removed", changes)} = Lines(existing.items) \ Lines(sent.items)
    <3>1. ASSUME NEW c \in Reported("removed", changes)
          PROVE  c[1][2] \in Lines(existing.items) \ Lines(sent.items)
      <4>1. LineRemoved(c, existing, sent)
        BY <1>1, <3>1, KindOfChange DEF Reported
      <4> QED BY <4>1 DEF LineRemoved
    <3>2. ASSUME NEW l \in Lines(existing.items) \ Lines(sent.items)
          PROVE  \E c \in Reported("removed", changes) : c[1][2] = l
      <4> DEFINE c == <<<<"removed", l>>, <<"material", LastOf(existing.items, l).material>>, <<"removido">>>>
      <4>1. LineRemoved(c, existing, sent)
        BY DEF LineRemoved
      <4>2. c \in Reported("removed", changes) /\ c[1][2] = l
        BY <1>1, <4>1 DEF Reported
      <4> QED BY <4>2
    <3> QED BY <3>1, <3>2
  <2>2. {c[1][2] : c \in Reported("added", changes)} = Lines(sent.items) \ Lines(existing.items)
    <3>1. ASSUME NEW c \in Reported("added", changes)
          PROVE  c[1][2] \in Lines(sent.items) \ Lines(existing.items)
      <4>1. LineAdded(c, existing, sent)
        BY <1>1, <3>1, KindOfChange DEF Reported
      <4> QED BY <4>1 DEF LineAdded
    <3>2. ASSUME NEW l \in Lines(sent.items) \ Lines(existing.items)
          PROVE  \E c \in Reported("added", changes) : c[1][2] = l
      <4> DEFINE c == <<<<"added", l>>, <<"ausente">>, <<"adicionado", LastOf(sent.items, l).material>>>>
      <4>1. LineAdded(c, existing, sent)
        BY DEF LineAdded
      <4>2. c \in Reported("added", changes) /\ c[1][2] = l
        BY <1>1, <4>1 DEF Reported
      <4> QED BY <4>2
    <3> QED BY <3>1, <3>2
  <2> QED BY <2>1, <2>2
<1>4. ASSUME NEW l \in Lines(sent.items) \cap Lines(existing.items), NEW f \in Compared
      PROVE  LastOf(sent.items, l)[f]
                = Patched(changes, <<"item", l, f>>, LastOf(existing.items, l)[f])
  <2> DEFINE was == LastOf(existing.items, l)[f]
             is == LastOf(sent.items, l)[f]
  <2>1. ASSUME NEW c \in changes, c[1] = <<"item", l, f>> PROVE c[3] = is
    <3>1. ItemChange(c, existing, sent)
      BY <1>1, <2>1, KindOfChange
    <3>2. PICK k \in Lines(sent.items) \cap Lines(existing.items), g \in Compared :
             c = <<<<"item", k, g>>, LastOf(existing.items, k)[g], LastOf(sent.items, k)[g]>>
      BY <3>1 DEF ItemChange
    <3>3. k = l /\ g = f
      BY <2>1, <3>2
    <3> QED BY <3>2, <3>3
  <2>2. (\E c \in changes : c[1] = <<"item", l, f>>) \/ was = is
    <3> SUFFICES ASSUME was # is PROVE \E c \in changes : c[1] = <<"item", l, f>>
      OBVIOUS
    <3>1. ItemChange(<<<<"item", l, f>>, was, is>>, existing, sent)
      BY DEF ItemChange
    <3> QED BY <1>1, <3>1
  <2> DEFINE field == <<"item", l, f>>
  <2>3. /\ \A c \in changes : c[1] = field => c[3] = is
        /\ (\E c \in changes : c[1] = field) \/ was = is
    BY <2>1, <2>2
  <2> HIDE DEF was, is, field
  <2>4. Patched(changes, field, was) = is
    BY ONLY <2>3 DEF Patched
  <2> QED BY <2>4 DEF was, is, field
<1>5. ASSUME NEW c \in changes PROVE c[2] # c[3]
  <2>1. CASE HeaderChange(c, existing, sent)
    BY <2>1 DEF HeaderChange
  <2>2. CASE LineAdded(c, existing, sent)
    <3>1. PICK l \in Lines(sent.items) : c = <<<<"added", l>>, <<"ausente">>, <<"adicionado", LastOf(sent.items, l).material>>>>
      BY <2>2 DEF LineAdded
    <3>2. <<"ausente">> # <<"adicionado", LastOf(sent.items, l).material>>
      OBVIOUS
    <3> QED BY <3>1, <3>2
  <2>3. CASE ItemChange(c, existing, sent)
    BY <2>3 DEF ItemChange
  <2>4. CASE LineRemoved(c, existing, sent)
    <3>1. PICK l \in Lines(existing.items) :
             c = <<<<"removed", l>>, <<"material", LastOf(existing.items, l).material>>, <<"removido">>>>
      BY <2>4 DEF LineRemoved
    <3>2. <<"material", LastOf(existing.items, l).material>> # <<"removido">>
      OBVIOUS
    <3> QED BY <3>1, <3>2
  <2> QED BY <1>1, <2>1, <2>2, <2>3, <2>4
<1> QED BY <1>2, <1>3, <1>4, <1>5 DEF Explains, changes

(***************************************************************************)
(* The rounding of the columns                                             *)
(***************************************************************************)
\* An amount that is not negative.
LEMMA RoundedUp ==
    ASSUME NEW size \in Nat, NEW unit \in Nat \ {0}
    PROVE  LET up == ((2 * size + unit) \div (2 * unit)) * unit
           IN  /\ up \in Nat
               /\ up = size <=> size % unit = 0
               /\ 2 * (up - size) <= unit
               /\ 2 * (size - up) <= unit
<1> DEFINE q == (2 * size + unit) \div (2 * unit)
           p == size \div unit
           r == size % unit
<1>1. q \in Nat /\ (2 * unit) * q <= 2 * size + unit /\ 2 * size + unit < (2 * unit) * q + 2 * unit
  OBVIOUS
<1>2. p \in Nat /\ r \in Nat /\ r < unit /\ size = unit * p + r
  OBVIOUS
<1> HIDE DEF q, p, r
<1>3. q * unit \in Nat /\ (2 * unit) * q = 2 * (q * unit)
  BY <1>1
<1>4. 2 * (q * unit - size) <= unit /\ 2 * (size - q * unit) <= unit
  BY <1>1, <1>3
<1>5. r = 0 => q * unit = size
  BY <1>1, <1>2
<1>6. q * unit = size => r = 0
  BY <1>1, <1>2
<1> QED BY <1>3, <1>4, <1>5, <1>6 DEF q, r

\* Whether a unit divides an amount does not depend on its sign.
LEMMA EitherSign ==
    ASSUME NEW amount \in Int, NEW unit \in Nat \ {0}
    PROVE  (-amount) % unit = 0 <=> amount % unit = 0
<1>1. ASSUME NEW a \in Int, a % unit = 0 PROVE (-a) % unit = 0
  <2> DEFINE p == a \div unit
             q == (-a) \div unit
             r == (-a) % unit
  <2>1. p \in Int /\ a = unit * p
    BY <1>1
  <2>2. q \in Int /\ r \in Int /\ 0 <= r /\ r < unit /\ -a = unit * q + r
    OBVIOUS
  <2> HIDE DEF p, q, r
  <2>3. -p - q \in Int /\ r = unit * (-p - q)
    BY <2>1, <2>2
  <2> DEFINE k == -p - q
  <2> HIDE DEF k
  <2>4. k \in Int /\ r = unit * k
    BY <2>3 DEF k
  <2>5. k = 0
    BY <2>2, <2>4
  <2>6. r = 0
    BY <2>4, <2>5
  <2> QED BY <2>6 DEF r
<1> DEFINE minus == -amount
<1>2. minus \in Int /\ -minus = amount
  OBVIOUS
<1>3. amount % unit = 0 => minus % unit = 0
  BY <1>1
<1> HIDE DEF minus
<1>4. minus % unit = 0 => (-minus) % unit = 0
  BY <1>1, <1>2
<1> QED BY <1>2, <1>3, <1>4 DEF minus

\* A column keeps an amount it has the digits for, and no other; and is never
\* further from it than half of its last digit.
LEMMA RoundedIs ==
    ASSUME NEW amount \in Int, NEW unit \in Nat \ {0}
    PROVE  /\ Rounded(amount, unit) = amount <=> amount % unit = 0
           /\ 2 * (Rounded(amount, unit) - amount) <= unit
           /\ 2 * (amount - Rounded(amount, unit)) <= unit
<1> DEFINE Up(size) == ((2 * size + unit) \div (2 * unit)) * unit
<1>1. \A size \in Nat : /\ Up(size) \in Nat
                        /\ Up(size) = size <=> size % unit = 0
                        /\ 2 * (Up(size) - size) <= unit
                        /\ 2 * (size - Up(size)) <= unit
  BY RoundedUp
<1>2. CASE amount < 0
  <2> DEFINE size == -amount
             up == Up(size)
  <2>1. size \in Nat /\ Rounded(amount, unit) = -up
    BY <1>2 DEF Rounded
  <2>2. /\ up \in Nat
        /\ up = size <=> size % unit = 0
        /\ 2 * (up - size) <= unit /\ 2 * (size - up) <= unit
    BY <1>1, <2>1
  <2>3. size % unit = 0 <=> amount % unit = 0
    BY EitherSign
  <2>4. amount = -size
    OBVIOUS
  <2> HIDE DEF size, up, Up
  <2> QED BY <2>1, <2>2, <2>3, <2>4
<1>3. CASE ~(amount < 0)
  <2>1. amount \in Nat /\ Rounded(amount, unit) = Up(amount)
    BY <1>3 DEF Rounded
  <2> HIDE DEF Up
  <2> QED BY <1>1, <2>1
<1> QED BY <1>2, <1>3

\* The amounts of an item as they are stored.
LEMMA StoredContentIs ==
    ASSUME NEW content
    PROVE  \A f \in Compared : StoredContent(content)[f] = Rounded(content[f], Unit(f))
<1> DEFINE o == Rounded(content.ordered, QuantityUnit)
           r == Rounded(content.received, QuantityUnit)
           p == Rounded(content.unit_price, PriceUnit)
           stored == StoredContent(content)
<1>1. stored = [material |-> content.material, ordered |-> o, received |-> r, unit_price |-> p]
  BY DEF StoredContent
<1> HIDE DEF o, r, p, stored
<1>2. stored.ordered = o /\ stored.received = r /\ stored.unit_price = p
  BY <1>1
<1> QED BY <1>2 DEF Compared, Unit, o, r, p, stored

\* An order as it is stored.
LEMMA StoredOrder ==
    ASSUME NEW order, IsPayload(order)
    PROVE  LET stored == Stored(order) IN
           /\ stored.header = order.header
           /\ IsList(stored.items)
           /\ Lines(stored.items) = Lines(order.items)
           /\ \A l \in Lines(order.items) :
                /\ Amounts(LastOf(order.items, l))
                /\ \A f \in Compared : LastOf(stored.items, l)[f]
                                          = Rounded(LastOf(order.items, l)[f], Unit(f))
<1> DEFINE items == order.items
           rounded == [n \in DOMAIN items |->
                         [line |-> items[n].line, content |-> StoredContent(items[n].content)]]
           stored == Stored(order)
<1>1. IsList(items) /\ \A n \in DOMAIN items : Amounts(items[n].content)
  BY DEF IsPayload
<1>2. stored.header = order.header /\ stored.items = rounded
  BY DEF Stored
<1>3. ASSUME NEW n \in DOMAIN items
      PROVE  /\ rounded[n].line = items[n].line
             /\ \A f \in Compared : rounded[n].content[f] = Rounded(items[n].content[f], Unit(f))
  <2>1. rounded[n].line = items[n].line /\ rounded[n].content = StoredContent(items[n].content)
    OBVIOUS
  <2> HIDE DEF rounded, items
  <2> QED BY <2>1, StoredContentIs
<1>4. DOMAIN rounded = DOMAIN items /\ IsList(rounded)
  <2>1. DOMAIN rounded = 1 .. Len(items) /\ Len(items) \in Nat
    BY <1>1 DEF IsList
  <2>2. Len(rounded) = Len(items)
    BY <2>1
  <2> QED BY <2>1, <2>2 DEF IsList
<1> HIDE DEF rounded, items
<1>5. Lines(rounded) = Lines(items)
  BY <1>3, <1>4 DEF Lines
<1>6. ASSUME NEW l \in Lines(items)
      PROVE  /\ Amounts(LastOf(items, l))
             /\ \A f \in Compared : LastOf(rounded, l)[f] = Rounded(LastOf(items, l)[f], Unit(f))
  <2> DEFINE at == {n \in DOMAIN items : items[n].line = l}
             k == CHOOSE n \in at : \A m \in at : m <= n
  <2>1. at = {n \in DOMAIN rounded : rounded[n].line = l}
    BY <1>3, <1>4
  <2>2. \E n \in at : \A m \in at : m <= n
    BY <1>1, LastExists
  <2>3. k \in DOMAIN items
    BY <2>2
  <2>4. LastOf(items, l) = items[k].content
    BY DEF LastOf
  <2>5. LastOf(rounded, l) = rounded[k].content
    BY <2>1 DEF LastOf
  <2> HIDE DEF k
  <2> QED BY <1>1, <1>3, <2>3, <2>4, <2>5
<1> QED BY <1>2, <1>4, <1>5, <1>6 DEF items

\* Whatever order is sent a second time, the answer reports the amounts that
\* have more digits than their column, all of them, and nothing else.
THEOREM RoundingIsReported ==
    ASSUME NEW order, IsPayload(order)
    PROVE  OnlyRounded(DiffOrders(Stored(order), order), order)
<1> DEFINE stored == Stored(order)
           changes == DiffOrders(stored, order)
           items == order.items
           Field(l, f) == <<"item", l, f>>
           is(l, f) == LastOf(items, l)[f]
           was(l, f) == LastOf(stored.items, l)[f]
<1>1. /\ stored.header = order.header /\ IsList(items) /\ IsList(stored.items)
      /\ Lines(stored.items) = Lines(items)
      /\ \A l \in Lines(items), f \in Compared : was(l, f) = Rounded(is(l, f), Unit(f))
      /\ \A l \in Lines(items) : Amounts(LastOf(items, l))
  BY StoredOrder DEF IsPayload
<1> HIDE DEF stored
<1>2. ASSUME NEW l \in Lines(items), NEW f \in Compared
      PROVE  /\ was(l, f) = is(l, f) <=> is(l, f) % Unit(f) = 0
             /\ 2 * (was(l, f) - is(l, f)) <= Unit(f)
             /\ 2 * (is(l, f) - was(l, f)) <= Unit(f)
  <2>1. is(l, f) \in Int
    BY <1>1 DEF Amounts
  <2>2. Unit(f) \in Nat \ {0}
    BY UnitAssumption DEF Unit
  <2>3. was(l, f) = Rounded(is(l, f), Unit(f))
    BY <1>1
  <2> HIDE DEF was, is
  <2> QED BY <2>1, <2>2, <2>3, RoundedIs
<1>3. ASSUME NEW c
      PROVE  c \in changes <=> \E l \in Lines(items), f \in Compared :
                                  was(l, f) # is(l, f) /\ c = <<Field(l, f), was(l, f), is(l, f)>>
  <2>1. ~HeaderChange(c, stored, order)
    BY <1>1 DEF HeaderChange
  <2>2. ~LineAdded(c, stored, order) /\ ~LineRemoved(c, stored, order)
    BY <1>1 DEF LineAdded, LineRemoved
  <2>3. c \in changes <=> ItemChange(c, stored, order)
    BY <1>1, <2>1, <2>2, ChangesAre
  <2> QED BY <1>1, <2>3 DEF ItemChange
<1> HIDE DEF changes, was, is, items
<1>4. {c[1] : c \in changes}
         = UNION {{Field(l, f) : f \in {g \in Compared : is(l, g) % Unit(g) # 0}} : l \in Lines(items)}
  <2>1. ASSUME NEW c \in changes
        PROVE  \E l \in Lines(items), f \in Compared : is(l, f) % Unit(f) # 0 /\ c[1] = Field(l, f)
    BY <1>2, <1>3
  <2>2. ASSUME NEW l \in Lines(items), NEW f \in Compared, is(l, f) % Unit(f) # 0
        PROVE  \E c \in changes : c[1] = Field(l, f)
    <3>1. <<Field(l, f), was(l, f), is(l, f)>> \in changes
      BY <1>2, <1>3, <2>2
    <3> QED BY <3>1
  <2> HIDE DEF Field
  <2> QED BY <2>1, <2>2
<1>5. ASSUME NEW c \in changes
      PROVE  2 * (c[2] - c[3]) <= Unit(c[1][3]) /\ 2 * (c[3] - c[2]) <= Unit(c[1][3])
  <2>1. PICK l \in Lines(items), f \in Compared : c = <<Field(l, f), was(l, f), is(l, f)>>
    BY <1>3
  <2>2. c[1][3] = f /\ c[2] = was(l, f) /\ c[3] = is(l, f)
    BY <2>1
  <2> QED BY <1>2, <2>2
<1> QED BY <1>4, <1>5 DEF OnlyRounded, changes, is, items, stored

(***************************************************************************)
(* The rows that are selected                                              *)
(***************************************************************************)
\* A finite set of positions can be run through in ascending order.
Ascends(f) == \A i, j \in DOMAIN f : i < j => f[i] < f[j]

LEMMA AscendingExists ==
    ASSUME NEW at \in SUBSET Nat, IsFiniteSet(at)
    PROVE  \E f \in [1..Cardinality(at) -> at] : Ascends(f)
<1> DEFINE Without == {k \in Nat : \E S \in SUBSET Nat :
              /\ IsFiniteSet(S) /\ Cardinality(S) = k
              /\ \A f \in [1..k -> S] : ~Ascends(f)}
<1>1. Without = {}
  <2> SUFFICES ASSUME Without # {} PROVE FALSE
    OBVIOUS
  <2>1. PICK k \in Without : \A l \in Without : k <= l
    BY LeastNatural
  <2>2. PICK S \in SUBSET Nat : /\ IsFiniteSet(S) /\ Cardinality(S) = k
                                /\ \A f \in [1..k -> S] : ~Ascends(f)
    BY <2>1
  <2>3. k \in Nat
    BY <2>1
  <2>4. S # {}
    <3> SUFFICES ASSUME S = {} PROVE FALSE
      OBVIOUS
    <3>1. k = 0
      BY <2>2, FS_EmptySet
    <3> DEFINE f == [i \in 1..k |-> 0]
    <3>2. f \in [1..k -> S] /\ Ascends(f)
      BY <3>1 DEF Ascends
    <3> QED BY <2>2, <3>2
  <2>5. PICK least \in S : \A n \in S : least <= n
    BY <2>4, LeastNatural
  <2> DEFINE T == S \ {least}
  <2>6. /\ T \in SUBSET Nat /\ IsFiniteSet(T)
        /\ Cardinality(T) = k - 1 /\ k - 1 \in Nat
    <3>1. IsFiniteSet(T) /\ Cardinality(T) = k - 1
      BY <2>2, <2>5, FS_RemoveElement
    <3> QED BY <3>1, FS_CardinalityType
  <2>7. k - 1 \notin Without
    BY <2>1, <2>3
  <2>8. PICK g \in [1..(k - 1) -> T] : Ascends(g)
    BY <2>6, <2>7
  <2> DEFINE f == [i \in 1..k |-> IF i = 1 THEN least ELSE g[i - 1]]
  <2>9. \A i \in 1..k : i # 1 => i - 1 \in 1..(k - 1) /\ g[i - 1] \in T /\ f[i] = g[i - 1]
    BY <2>3, <2>8
  <2>10. f \in [1..k -> S]
    BY <2>9
  <2>11. ASSUME NEW i \in 1..k, NEW j \in 1..k, i < j PROVE f[i] < f[j]
    <3>1. j # 1 /\ f[j] = g[j - 1] /\ g[j - 1] \in T /\ j - 1 \in 1..(k - 1)
      BY <2>3, <2>9, <2>11
    <3>2. CASE i = 1
      <4>1. f[i] = least
        BY <3>2
      <4>2. least \in Nat /\ g[j - 1] \in Nat /\ least <= g[j - 1] /\ least # g[j - 1]
        BY <2>2, <2>5, <3>1
      <4> HIDE DEF f
      <4> QED BY <3>1, <4>1, <4>2
    <3>3. CASE i # 1
      <4>1. f[i] = g[i - 1] /\ i - 1 \in 1..(k - 1) /\ i - 1 < j - 1
        BY <2>3, <2>9, <2>11, <3>3
      <4>2. g[i - 1] < g[j - 1]
        BY <2>8, <3>1, <4>1 DEF Ascends
      <4> QED BY <3>1, <4>1, <4>2
    <3> QED BY <3>2, <3>3
  <2>12. Ascends(f)
    BY <2>11 DEF Ascends
  <2> QED BY <2>2, <2>10, <2>12
<1>2. Cardinality(at) \in Nat
  BY FS_CardinalityType
<1> QED BY <1>1, <1>2

\* There is one way to do it.
LEMMA AscendingUnique ==
    ASSUME NEW at \in SUBSET Nat, NEW k \in Nat,
           NEW f \in Surjection(1..k, at), Ascends(f),
           NEW g \in Surjection(1..k, at), Ascends(g)
    PROVE  f = g
<1> DEFINE Apart == {i \in 1..k : f[i] # g[i]}
<1>1. /\ f \in [1..k -> at] /\ \A n \in at : \E i \in 1..k : f[i] = n
      /\ g \in [1..k -> at] /\ \A n \in at : \E i \in 1..k : g[i] = n
  BY DEF Surjection
<1>2. SUFFICES ASSUME Apart # {} PROVE FALSE
  BY <1>1
<1>3. Apart \in SUBSET Nat
  OBVIOUS
<1>4. PICK i \in Apart : \A m \in Apart : i <= m
  <2> HIDE DEF Apart
  <2> QED BY <1>2, <1>3, LeastNatural
<1>5. i \in 1..k /\ f[i] # g[i] /\ f[i] \in at /\ g[i] \in at /\ f[i] \in Nat /\ g[i] \in Nat
  BY <1>1, <1>4
<1>6. \A m \in 1..k : m < i => f[m] = g[m]
  BY <1>4
<1> HIDE DEF Apart
<1>7. CASE f[i] < g[i]
  <2>1. PICK m \in 1..k : g[m] = f[i]
    BY <1>1, <1>5
  <2>2. m < i
    BY <1>5, <1>7, <2>1, <1>1 DEF Ascends
  <2>3. f[m] < f[i]
    BY <1>1, <1>5, <2>2 DEF Ascends
  <2> QED BY <1>5, <1>6, <2>1, <2>2, <2>3
<1>8. CASE g[i] < f[i]
  <2>1. PICK m \in 1..k : f[m] = g[i]
    BY <1>1, <1>5
  <2>2. m < i
    BY <1>5, <1>8, <2>1, <1>1 DEF Ascends
  <2>3. g[m] < g[i]
    BY <1>1, <1>5, <2>2 DEF Ascends
  <2> QED BY <1>5, <1>6, <2>1, <2>2, <2>3
<1> QED BY <1>5, <1>7, <1>8

\* What is selected is at the positions, in their order.
Along(rows, f, k) == [i \in 1..k |-> rows[f[i]]]

LEMMA SelectedNth ==
    ASSUME NEW rows, IsList(rows), NEW at \in SUBSET DOMAIN rows
    PROVE  /\ at \in SUBSET Nat /\ IsFiniteSet(at)
           /\ Cardinality(at) \in Nat /\ Cardinality(at) <= Len(rows)
           /\ \E f \in Bijection(1..Cardinality(at), at) :
                 Ascends(f) /\ Selected(rows, at) = Along(rows, f, Cardinality(at))
<1> DEFINE k == Cardinality(at)
           nth == CHOOSE f \in [1..k -> at] : \A i, j \in DOMAIN f : i < j => f[i] < f[j]
<1>1. /\ at \in SUBSET Nat /\ IsFiniteSet(at) /\ k \in Nat /\ k <= Len(rows)
  <2>1. IsFiniteSet(1..Len(rows)) /\ Cardinality(1..Len(rows)) = Len(rows)
    BY FS_Interval DEF IsList
  <2>2. at \in SUBSET (1..Len(rows))
    BY DEF IsList
  <2>3. IsFiniteSet(at) /\ k <= Len(rows)
    BY <2>1, <2>2, FS_Subset
  <2> QED BY <2>2, <2>3, FS_CardinalityType
<1>2. nth \in [1..k -> at] /\ Ascends(nth)
  BY <1>1, AscendingExists DEF Ascends
<1>3. Selected(rows, at) = [i \in DOMAIN nth |-> rows[nth[i]]]
  BY DEF Selected
<1> HIDE DEF nth
<1>4. Selected(rows, at) = Along(rows, nth, k)
  BY <1>2, <1>3 DEF Along
<1>5. nth \in Injection(1..k, at)
  <2>1. ASSUME NEW i \in 1..k, NEW j \in 1..k, nth[i] = nth[j] PROVE i = j
    <3>1. ~(nth[i] < nth[j]) /\ ~(nth[j] < nth[i])
      <4>1. nth[i] \in Nat
        BY <1>1, <1>2
      <4> QED BY <2>1, <4>1
    <3> QED BY <1>1, <1>2, <3>1 DEF Ascends
  <2> QED BY <1>2, <2>1 DEF Injection, IsInjective
<1>6. nth \in Surjection(1..k, at)
  <2>1. Cardinality(1..k) = k
    BY <1>1, FS_Interval
  <2> QED BY <1>1, <1>5, <2>1, FS_Injection
<1>7. nth \in Bijection(1..k, at)
  BY <1>5, <1>6 DEF Bijection
<1> QED BY <1>1, <1>2, <1>4, <1>7

\* So two lists keep the same positions of theirs.
LEMMA SelectedAlong ==
    ASSUME NEW rows, IsList(rows), NEW at \in SUBSET DOMAIN rows,
           NEW k \in Nat, NEW g \in Surjection(1..k, at), Ascends(g), k = Cardinality(at)
    PROVE  Selected(rows, at) = Along(rows, g, k)
<1>1. at \in SUBSET Nat
  BY SelectedNth
<1>2. PICK f \in Bijection(1..k, at) : Ascends(f) /\ Selected(rows, at) = Along(rows, f, k)
  BY SelectedNth
<1>3. f \in Surjection(1..k, at)
  BY DEF Bijection
<1>4. f = g
  BY <1>1, <1>2, <1>3, AscendingUnique
<1> QED BY <1>2, <1>4

\* A list holds them once for each position.
Nth(s, rows, at) ==
    {f \in Bijection(1..Len(s), at) : Ascends(f) /\ \A i \in 1..Len(s) : s[i] = rows[f[i]]}

LEMMA SelectedIs ==
    ASSUME NEW rows, IsList(rows), NEW at \in SUBSET DOMAIN rows
    PROVE  /\ IsList(Selected(rows, at))
           /\ Len(Selected(rows, at)) <= Len(rows)
           /\ Nth(Selected(rows, at), rows, at) # {}
<1> DEFINE k == Cardinality(at)
           s == Selected(rows, at)
<1>1. k \in Nat /\ k <= Len(rows)
  BY SelectedNth
<1>2. PICK f \in Bijection(1..k, at) : Ascends(f) /\ s = Along(rows, f, k)
  BY SelectedNth
<1> HIDE DEF k, s
<1>3. DOMAIN s = 1..k /\ Len(s) = k /\ \A i \in 1..k : s[i] = rows[f[i]]
  BY <1>1, <1>2 DEF Along
<1>4. f \in Nth(s, rows, at)
  BY <1>2, <1>3 DEF Nth
<1> QED BY <1>1, <1>3, <1>4 DEF IsList, s

\* So a row is there when one of the positions holds it,
LEMMA SelectedRows ==
    ASSUME NEW rows, IsList(rows), NEW at \in SUBSET DOMAIN rows
    PROVE  /\ \A i \in DOMAIN Selected(rows, at) : \E n \in at : Selected(rows, at)[i] = rows[n]
           /\ \A n \in at : \E i \in DOMAIN Selected(rows, at) : Selected(rows, at)[i] = rows[n]
<1> DEFINE s == Selected(rows, at)
<1>1. IsList(s) /\ Nth(s, rows, at) # {}
  BY SelectedIs
<1> HIDE DEF s
<1>2. PICK f \in Bijection(1..Len(s), at) : \A i \in 1..Len(s) : s[i] = rows[f[i]]
  BY <1>1 DEF Nth
<1>3. f \in [1..Len(s) -> at] /\ \A n \in at : \E i \in 1..Len(s) : f[i] = n
  BY <1>2 DEF Bijection, Surjection
<1> QED BY <1>1, <1>2, <1>3 DEF IsList, s

\* and as often as they do.
Count(rows, E) == Cardinality({n \in DOMAIN rows : rows[n] \in E})

LEMMA SelectedCount ==
    ASSUME NEW rows, IsList(rows), NEW at \in SUBSET DOMAIN rows, NEW E
    PROVE  Count(Selected(rows, at), E) = Cardinality({n \in at : rows[n] \in E})
<1> DEFINE s == Selected(rows, at)
           T == {i \in DOMAIN s : s[i] \in E}
           U == {n \in at : rows[n] \in E}
<1>1. IsList(s) /\ Nth(s, rows, at) # {}
  BY SelectedIs
<1> HIDE DEF s
<1>2. PICK f \in Bijection(1..Len(s), at) : \A i \in 1..Len(s) : s[i] = rows[f[i]]
  BY <1>1 DEF Nth
<1>3. /\ f \in [1..Len(s) -> at] /\ \A n \in at : \E i \in 1..Len(s) : f[i] = n
      /\ \A i, j \in 1..Len(s) : f[i] = f[j] => i = j
  BY <1>2 DEF Bijection, Surjection, Injection, IsInjective
<1> DEFINE g == [i \in T |-> f[i]]
<1>4. g \in [T -> U]
  BY <1>1, <1>2, <1>3 DEF IsList
<1>5. g \in Bijection(T, U)
  <2>1. \A n \in U : \E i \in T : g[i] = n
    BY <1>1, <1>2, <1>3 DEF IsList
  <2>2. \A i, j \in T : g[i] = g[j] => i = j
    BY <1>1, <1>3 DEF IsList
  <2> HIDE DEF g, T, U
  <2> QED BY <1>4, <2>1, <2>2 DEF Bijection, Surjection, Injection, IsInjective
<1>6. IsFiniteSet(T)
  <2>1. IsFiniteSet(1..Len(s)) /\ T \in SUBSET (1..Len(s))
    BY <1>1, FS_Interval DEF IsList
  <2> QED BY <2>1, FS_Subset
<1> HIDE DEF T, U
<1>7. Cardinality(U) = Cardinality(T)
  <2>1. ExistsBijection(T, U)
    BY <1>5 DEF ExistsBijection
  <2> QED BY <1>6, <2>1, FS_Bijection
<1> QED BY <1>7 DEF T, U, Count, s

(***************************************************************************)
(* The adapters reject                                                     *)
(***************************************************************************)
\* The rows of some orders are those rows.
LEMMA RowsInAre ==
    ASSUME NEW rows, IsList(rows), NEW numbers
    PROVE  /\ IsList(RowsIn(rows, numbers))
           /\ Len(RowsIn(rows, numbers)) <= Len(rows)
           /\ \A i \in DOMAIN RowsIn(rows, numbers) : \E n \in DOMAIN rows :
                 rows[n].po_number \in numbers /\ RowsIn(rows, numbers)[i] = rows[n]
           /\ \A n \in DOMAIN rows : rows[n].po_number \in numbers =>
                 \E i \in DOMAIN RowsIn(rows, numbers) : RowsIn(rows, numbers)[i] = rows[n]
<1> DEFINE at == {n \in DOMAIN rows : rows[n].po_number \in numbers}
           s == Selected(rows, at)
<1>1. at \in SUBSET DOMAIN rows /\ RowsIn(rows, numbers) = s
  BY DEF RowsIn
<1>2. /\ IsList(s) /\ Len(s) <= Len(rows)
      /\ \A i \in DOMAIN s : \E n \in at : s[i] = rows[n]
      /\ \A n \in at : \E i \in DOMAIN s : s[i] = rows[n]
  <2> HIDE DEF at
  <2> QED BY <1>1, SelectedIs, SelectedRows
<1> HIDE DEF s
<1> QED BY <1>1, <1>2

\* So they are sound when each of those is.
LEMMA AllOkOf ==
    ASSUME NEW rows, IsList(rows), NEW numbers
    PROVE  AllOk(RowsIn(rows, numbers))
              <=> \A n \in DOMAIN rows : rows[n].po_number \in numbers => rows[n].ok
BY RowsInAre DEF AllOk

\* The rows of one order.
LEMMA RowsOfAre ==
    ASSUME NEW rows, IsList(rows), NEW po
    PROVE  /\ IsList(RowsOf(rows, po)) /\ Len(RowsOf(rows, po)) <= Len(rows)
           /\ \A i \in DOMAIN RowsOf(rows, po) : \E n \in DOMAIN rows :
                 rows[n].po_number = po /\ RowsOf(rows, po)[i] = rows[n]
           /\ \A n \in DOMAIN rows : rows[n].po_number = po =>
                 \E i \in DOMAIN RowsOf(rows, po) : RowsOf(rows, po)[i] = rows[n]
<1> DEFINE one == {po}
<1>1. RowsOf(rows, po) = RowsIn(rows, one) /\ \A q : q \in one <=> q = po
  BY DEF RowsOf
<1> HIDE DEF one
<1> QED BY <1>1, RowsInAre

LEMMA AlfaTakes ==
    ASSUME NEW headers, NEW rows, IsList(rows)
    PROVE  ParseAlfa(AlfaPayload(headers, rows)).ok
              <=> /\ \A k \in DOMAIN headers : HeaderOk(headers[k])
                  /\ \A n \in DOMAIN rows :
                       rows[n].po_number \in Numbers(headers) => rows[n].ok
<1> DEFINE orders == AlfaPayload(headers, rows)
<1>1. /\ DOMAIN orders = DOMAIN headers
      /\ \A k \in DOMAIN headers : /\ HeaderOk(orders[k]) <=> HeaderOk(headers[k])
                                   /\ orders[k].items = RowsOf(rows, headers[k].po_number)
  BY DEF AlfaPayload, HeaderOk
<1> HIDE DEF orders
<1>2. ParseAlfa(orders).ok <=> \A k \in DOMAIN orders : HeaderOk(orders[k]) /\ AllOk(orders[k].items)
  BY DEF ParseAlfa, Rejected, Parsed
<1>3. \A k \in DOMAIN headers : AllOk(orders[k].items)
         <=> \A n \in DOMAIN rows : rows[n].po_number = headers[k].po_number => rows[n].ok
  BY <1>1, RowsOfAre DEF AllOk
<1> QED BY <1>1, <1>2, <1>3 DEF Numbers, orders

LEMMA BetaTakes ==
    ASSUME NEW headers, NEW rows, IsList(rows)
    PROVE  ParseBeta(headers, rows).ok
              <=> /\ \A k \in DOMAIN headers : HeaderOk(headers[k])
                  /\ \A n \in DOMAIN rows :
                       rows[n].po_number \in Numbers(headers) => rows[n].ok
                  /\ \A n \in DOMAIN rows : ~rows[n].short
<1>1. ParseBeta(headers, rows).ok
        <=> /\ \A n \in DOMAIN rows : ~rows[n].short
            /\ \A k \in DOMAIN headers : HeaderOk(headers[k])
            /\ AllOk(RowsIn(rows, Numbers(headers)))
  BY DEF ParseBeta, Rejected, Parsed
<1> QED BY <1>1, AllOkOf

LEMMA DeltaTakes ==
    ASSUME NEW headers, NEW rows
    PROVE  ParseDelta(headers, rows).ok
              <=> /\ \A k \in DOMAIN headers : HeaderOk(headers[k])
                  /\ \A n \in DOMAIN rows : rows[n].ok
BY DEF ParseDelta, Rejected, Parsed, AllOk

\* The rows Gama is sent, and as it is sent them.
Sent(load) == RowsIn(load.rows, Numbers(load.headers) \cup {Missing})

Flat(load) == GamaPayload(load.headers, load.rows)

LEMMA GamaRows ==
    ASSUME NEW load, IsLoad(load)
    PROVE  /\ IsList(Sent(load)) /\ IsList(Flat(load)) /\ DOMAIN Flat(load) = DOMAIN Sent(load)
           /\ \A n \in DOMAIN Sent(load) :
                Flat(load)[n] = GamaRow(Sent(load)[n],
                                        HeaderOf(load.headers, Sent(load)[n].po_number))
           /\ \A i \in DOMAIN Sent(load) : \E n \in DOMAIN load.rows :
                 Sent(load)[i] = load.rows[n]
                 /\ Sent(load)[i].po_number \in Numbers(load.headers) \cup {Missing}
           /\ \A n \in DOMAIN load.rows :
                load.rows[n].po_number \in Numbers(load.headers) \cup {Missing} =>
                   \E i \in DOMAIN Sent(load) : Sent(load)[i] = load.rows[n]
<1> DEFINE rows == load.rows
           numbers == Numbers(load.headers) \cup {Missing}
           sent == RowsIn(rows, numbers)
           flat == Flat(load)
<1>1. IsList(rows) /\ Sent(load) = sent
  BY DEF IsLoad, Sent
<1>2. flat = [n \in DOMAIN sent |-> GamaRow(sent[n], HeaderOf(load.headers, sent[n].po_number))]
  BY DEF GamaPayload, Flat
<1> HIDE DEF rows, numbers, flat
<1>3. /\ IsList(sent)
      /\ \A i \in DOMAIN sent : \E n \in DOMAIN rows :
            rows[n].po_number \in numbers /\ sent[i] = rows[n]
      /\ \A n \in DOMAIN rows : rows[n].po_number \in numbers =>
            \E i \in DOMAIN sent : sent[i] = rows[n]
  BY <1>1, RowsInAre
<1> HIDE DEF sent
<1>4. DOMAIN flat = 1..Len(sent) /\ Len(sent) \in Nat
  BY <1>2, <1>3 DEF IsList
<1>5. Len(flat) = Len(sent)
  BY <1>2, <1>4
<1>6. IsList(flat) /\ DOMAIN flat = DOMAIN sent
  BY <1>3, <1>4, <1>5 DEF IsList
<1>7. \A i \in DOMAIN sent : \E n \in DOMAIN rows :
         sent[i] = rows[n] /\ sent[i].po_number \in numbers
  BY <1>3
<1> QED BY <1>1, <1>2, <1>3, <1>6, <1>7 DEF rows, numbers, flat

\* The first row of each order, in whose order the orders come.
FirstOf(rows) ==
    {n \in DOMAIN rows : \A m \in 1..(n - 1) : rows[m].po_number # rows[n].po_number}

\* Every order has one first row.
LEMMA FirstRows ==
    ASSUME NEW rows, IsList(rows)
    PROVE  LET firsts == Selected(rows, FirstOf(rows))
           IN  /\ \A i \in DOMAIN firsts : \E n \in DOMAIN rows : firsts[i] = rows[n]
               /\ \A n \in DOMAIN rows : \E i \in DOMAIN firsts :
                     firsts[i].po_number = rows[n].po_number
               /\ \A i, j \in DOMAIN firsts : firsts[i].po_number = firsts[j].po_number => i = j
<1> DEFINE at == FirstOf(rows)
           firsts == Selected(rows, at)
<1>1. at \in SUBSET DOMAIN rows /\ DOMAIN rows = 1..Len(rows) /\ Len(rows) \in Nat
  BY DEF FirstOf, IsList
<1> HIDE DEF at
<1>2. /\ IsList(firsts) /\ Nth(firsts, rows, at) # {}
      /\ \A i \in DOMAIN firsts : \E n \in at : firsts[i] = rows[n]
      /\ \A n \in at : \E i \in DOMAIN firsts : firsts[i] = rows[n]
  BY <1>1, SelectedIs, SelectedRows
<1> HIDE DEF firsts
<1>3. PICK f \in Bijection(1..Len(firsts), at) : \A i \in 1..Len(firsts) : firsts[i] = rows[f[i]]
  BY <1>2 DEF Nth
<1>4. /\ f \in [1..Len(firsts) -> at]
      /\ \A i, j \in 1..Len(firsts) : f[i] = f[j] => i = j
  BY <1>3 DEF Bijection, Injection, IsInjective
<1>5. ASSUME NEW n \in DOMAIN rows
      PROVE  \E i \in DOMAIN firsts : firsts[i].po_number = rows[n].po_number
  <2> DEFINE same == {m \in DOMAIN rows : rows[m].po_number = rows[n].po_number}
  <2>1. same \in SUBSET Nat /\ same # {}
    BY <1>1
  <2>2. PICK least \in same : \A m \in same : least <= m
    <3> HIDE DEF same
    <3> QED BY <2>1, LeastNatural
  <2>3. \A m \in 1..(least - 1) : m \in DOMAIN rows /\ m \notin same
    BY <1>1, <2>1, <2>2
  <2>4. least \in at
    BY <2>2, <2>3 DEF at, FirstOf
  <2> QED BY <1>2, <2>2, <2>4
<1>6. ASSUME NEW i \in DOMAIN firsts, NEW j \in DOMAIN firsts,
             firsts[i].po_number = firsts[j].po_number
      PROVE  i = j
  <2>1. i \in 1..Len(firsts) /\ j \in 1..Len(firsts)
    BY <1>2 DEF IsList
  <2>2. f[i] \in at /\ f[j] \in at /\ rows[f[i]].po_number = rows[f[j]].po_number
    BY <1>3, <1>4, <1>6, <2>1
  <2>3. f[i] \in Nat \ {0} /\ f[j] \in Nat \ {0}
    BY <1>1, <2>2
  <2>4. ~(f[i] < f[j]) /\ ~(f[j] < f[i])
    BY <2>2, <2>3 DEF at, FirstOf
  <2>5. f[i] = f[j]
    BY <2>3, <2>4
  <2> QED BY <1>4, <2>1, <2>5
<1> QED BY <1>1, <1>2, <1>5, <1>6 DEF firsts, at

\* Gama needs the number of every row, and of those of an order that the row
\* can be read, that its boxes hold something and that the header is sound.
LEMMA GamaTakes ==
    ASSUME NEW load, IsLoad(load)
    PROVE  ParseGama(GamaPayload(load.headers, load.rows)).ok
              <=> \A n \in DOMAIN load.rows :
                     /\ load.rows[n].po_number # Missing
                     /\ load.rows[n].po_number \in Numbers(load.headers) =>
                          /\ load.rows[n].ok /\ load.rows[n].fator_conv > 0
                          /\ HeaderOf(load.headers, load.rows[n].po_number).ok
<1> DEFINE rows == load.rows
           headers == load.headers
           numbers == Numbers(headers)
           sent == Sent(load)
           flat == Flat(load)
           firsts == Selected(flat, FirstOf(flat))
           Sound(r) == /\ r.po_number # Missing /\ r.ok /\ ~(r.fator_conv <= 0)
                       /\ HeaderOf(headers, r.po_number).ok
<1>1. /\ IsList(sent) /\ IsList(flat) /\ DOMAIN flat = DOMAIN sent
      /\ \A n \in DOMAIN sent : flat[n] = GamaRow(sent[n], HeaderOf(headers, sent[n].po_number))
      /\ \A i \in DOMAIN sent : \E n \in DOMAIN rows :
            sent[i] = rows[n] /\ sent[i].po_number \in numbers \cup {Missing}
      /\ \A n \in DOMAIN rows : rows[n].po_number \in numbers \cup {Missing} =>
            \E i \in DOMAIN sent : sent[i] = rows[n]
  BY GamaRows
<1>2. ParseGama(flat).ok
        <=> ~ \/ \E n \in DOMAIN flat : flat[n].po_number = Missing
              \/ \E n \in DOMAIN firsts : ~firsts[n].header_ok
              \/ \E n \in DOMAIN flat : ~flat[n].ok \/ flat[n].fator_conv <= 0
  BY DEF ParseGama, Rejected, Parsed, FirstOf
<1> HIDE DEF sent, flat
<1>3. \A n \in DOMAIN sent : /\ flat[n].po_number = sent[n].po_number /\ flat[n].ok = sent[n].ok
                             /\ flat[n].fator_conv = sent[n].fator_conv
                             /\ flat[n].header_ok = HeaderOf(headers, sent[n].po_number).ok
  BY <1>1 DEF GamaRow
<1>4. /\ \A i \in DOMAIN firsts : \E n \in DOMAIN flat : firsts[i] = flat[n]
      /\ \A n \in DOMAIN flat : \E i \in DOMAIN firsts : firsts[i].po_number = flat[n].po_number
  BY <1>1, FirstRows
<1> HIDE DEF firsts
<1>5. (\A i \in DOMAIN firsts : firsts[i].header_ok) <=> \A n \in DOMAIN flat : flat[n].header_ok
  <2>1. \A m, n \in DOMAIN flat :
           flat[m].po_number = flat[n].po_number => flat[m].header_ok = flat[n].header_ok
    BY <1>1, <1>3
  <2> QED BY <1>4, <2>1
<1>6. ParseGama(flat).ok <=> \A n \in DOMAIN sent : Sound(sent[n])
  BY <1>1, <1>2, <1>3, <1>5
<1>7. \A n \in DOMAIN rows : ~(rows[n].fator_conv <= 0) <=> rows[n].fator_conv > 0
  BY DEF IsLoad, IsRow
<1>8. (\A i \in DOMAIN sent : Sound(sent[i]))
         <=> \A n \in DOMAIN rows : rows[n].po_number \in numbers \cup {Missing} => Sound(rows[n])
  <2> HIDE DEF Sound, numbers, rows
  <2> QED BY <1>1
<1>9. (\A n \in DOMAIN rows : rows[n].po_number \in numbers \cup {Missing} => Sound(rows[n]))
         <=> \A n \in DOMAIN rows :
                /\ rows[n].po_number # Missing
                /\ rows[n].po_number \in numbers =>
                     /\ rows[n].ok /\ rows[n].fator_conv > 0
                     /\ HeaderOf(headers, rows[n].po_number).ok
  <2> HIDE DEF numbers, rows, headers
  <2> QED BY <1>7
<1> QED BY <1>6, <1>8, <1>9 DEF flat, Flat

\* Whatever load comes, each format takes it when all it reads of it is sound.
THEOREM SoundLoadsAreTaken ==
    ASSUME NEW load, IsLoad(load)
    PROVE  TakenWhenSound(Normalised(load.headers, load.rows), load.headers, load.rows)
<1>1. IsList(load.rows)
  BY DEF IsLoad
<1> QED BY <1>1, AlfaTakes, BetaTakes, GamaTakes, DeltaTakes DEF TakenWhenSound, Normalised

(***************************************************************************)
(* The adapters agree                                                      *)
(***************************************************************************)
\* The rows of some orders keep every row of each of them.
LEMMA InRowsIn ==
    ASSUME NEW rows, IsList(rows), NEW numbers, NEW po \in numbers, NEW line, NEW content
    PROVE  InRows(RowsIn(rows, numbers), po, line, content) = InRows(rows, po, line, content)
<1> DEFINE at == {n \in DOMAIN rows : rows[n].po_number \in numbers}
           Is(r) == r.po_number = po /\ r.line = line /\ r.content = content
           E == {r \in {rows[n] : n \in DOMAIN rows} : Is(r)}
           s == RowsIn(rows, numbers)
<1>1. at \in SUBSET DOMAIN rows /\ s = Selected(rows, at)
  BY DEF RowsIn
<1>2. Count(s, E) = Cardinality({n \in at : rows[n] \in E})
  <2> HIDE DEF at, E, s
  <2> QED BY <1>1, SelectedCount
<1>3. {n \in at : rows[n] \in E} = {n \in DOMAIN rows : Is(rows[n])}
  OBVIOUS
<1>4. {i \in DOMAIN s : s[i] \in E} = {i \in DOMAIN s : Is(s[i])}
  <2>1. \A i \in DOMAIN s : \E n \in DOMAIN rows : s[i] = rows[n]
    BY RowsInAre
  <2> HIDE DEF s
  <2> QED BY <2>1
<1>5. InRows(s, po, line, content) = Cardinality({i \in DOMAIN s : Is(s[i])})
  BY DEF InRows
<1>6. InRows(rows, po, line, content) = Cardinality({n \in DOMAIN rows : Is(rows[n])})
  BY DEF InRows
<1> HIDE DEF at, Is, E, s
<1>7. Count(s, E) = Cardinality({i \in DOMAIN s : Is(s[i])})
  BY <1>4 DEF Count
<1> QED BY <1>2, <1>3, <1>5, <1>6, <1>7 DEF s

\* The items made of the rows of one order.
LEMMA ItemsOfOrder ==
    ASSUME NEW rows, IsList(rows), NEW po, NEW line, NEW content
    PROVE  LET items == ItemSeq(RowsOf(rows, po))
           IN  /\ DOMAIN items = 1..Len(RowsOf(rows, po))
               /\ Len(RowsOf(rows, po)) \in Nat
               /\ Len(RowsOf(rows, po)) <= Len(rows)
               /\ Cardinality({j \in DOMAIN items : items[j] = [line |-> line, content |-> content]})
                     = InRows(rows, po, line, content)
<1> DEFINE s == RowsOf(rows, po)
           items == ItemSeq(s)
<1>1. /\ IsList(s) /\ Len(s) <= Len(rows)
      /\ \A i \in DOMAIN s : s[i].po_number = po
      /\ InRows(s, po, line, content) = InRows(rows, po, line, content)
  <2>1. s = RowsIn(rows, {po})
    BY DEF RowsOf
  <2>2. InRows(RowsIn(rows, {po}), po, line, content) = InRows(rows, po, line, content)
    <3>1. po \in {po}
      OBVIOUS
    <3> DEFINE one == {po}
    <3> HIDE DEF one
    <3>2. po \in one
      BY <3>1 DEF one
    <3>3. InRows(RowsIn(rows, one), po, line, content) = InRows(rows, po, line, content)
      BY <3>2, InRowsIn
    <3> QED BY <3>3 DEF one
  <2>3. /\ IsList(RowsIn(rows, {po})) /\ Len(RowsIn(rows, {po})) <= Len(rows)
        /\ \A i \in DOMAIN RowsIn(rows, {po}) : RowsIn(rows, {po})[i].po_number \in {po}
    BY RowsInAre
  <2> HIDE DEF s
  <2> QED BY <2>1, <2>2, <2>3
<1> HIDE DEF s
<1>2. /\ DOMAIN items = DOMAIN s
      /\ \A j \in DOMAIN s : items[j] = [line |-> s[j].line, content |-> s[j].content]
  BY DEF ItemSeq, Item
<1> HIDE DEF items
<1>3. {j \in DOMAIN items : items[j] = [line |-> line, content |-> content]}
         = {j \in DOMAIN s : s[j].po_number = po /\ s[j].line = line /\ s[j].content = content}
  <2>1. \A j \in DOMAIN s : items[j] = [line |-> line, content |-> content]
                              <=> s[j].line = line /\ s[j].content = content
    BY <1>2
  <2> QED BY <1>1, <1>2, <2>1
<1> QED BY <1>1, <1>2, <1>3 DEF IsList, InRows, items, s

\* Where one order alone has the number, its items are counted.
LEMMA OccurrencesIn ==
    ASSUME NEW orders, NEW max \in Nat, NEW po, NEW line, NEW content,
           NEW k \in DOMAIN orders, NEW len \in Nat, len <= max,
           \A l \in DOMAIN orders : orders[l].po_number = po <=> l = k,
           DOMAIN orders[k].items = 1..len
    PROVE  Occurrences(orders, max, po, line, content)
              = Cardinality({j \in DOMAIN orders[k].items :
                               orders[k].items[j] = [line |-> line, content |-> content]})
<1> DEFINE items == orders[k].items
           item == [line |-> line, content |-> content]
           T == {j \in DOMAIN items : items[j] = item}
           U == {at \in (DOMAIN orders) \X (1..max) :
                   /\ orders[at[1]].po_number = po
                   /\ at[2] \in DOMAIN orders[at[1]].items
                   /\ orders[at[1]].items[at[2]] = item}
           g == [j \in T |-> <<k, j>>]
<1>1. Occurrences(orders, max, po, line, content) = Cardinality(U)
  BY DEF Occurrences
<1> HIDE DEF item
<1>2. \A j \in T : j \in 1..max /\ <<k, j>> \in U
  OBVIOUS
<1>3. \A at \in U : at[2] \in T /\ at = <<k, at[2]>>
  OBVIOUS
<1>4. IsFiniteSet(T)
  <2>1. IsFiniteSet(1..len) /\ T \in SUBSET (1..len)
    BY FS_Interval
  <2> QED BY <2>1, FS_Subset
<1> HIDE DEF T, U
<1>5. g \in Bijection(T, U)
  <2>1. g \in [T -> U]
    BY <1>2
  <2>2. \A at \in U : \E j \in T : g[j] = at
    BY <1>3
  <2>3. \A i, j \in T : g[i] = g[j] => i = j
    OBVIOUS
  <2> HIDE DEF g
  <2> QED BY <2>1, <2>2, <2>3 DEF Bijection, Surjection, Injection, IsInjective
<1>6. Cardinality(U) = Cardinality(T)
  <2>1. ExistsBijection(T, U)
    BY <1>5 DEF ExistsBijection
  <2> QED BY <1>4, <2>1, FS_Bijection
<1> QED BY <1>1, <1>6 DEF T, item

\* So it is in the three formats whose items are the rows themselves.
LEMMA OccurrencesOfRows ==
    ASSUME NEW orders, NEW max \in Nat, NEW po, NEW line, NEW content,
           NEW rows, IsList(rows), Len(rows) <= max,
           NEW k \in DOMAIN orders,
           \A l \in DOMAIN orders : orders[l].po_number = po <=> l = k,
           orders[k].items = ItemSeq(RowsOf(rows, po))
    PROVE  Occurrences(orders, max, po, line, content) = InRows(rows, po, line, content)
<1> DEFINE len == Len(RowsOf(rows, po))
<1>1. /\ DOMAIN orders[k].items = 1..len /\ len \in Nat /\ len <= Len(rows)
      /\ Cardinality({j \in DOMAIN orders[k].items :
                        orders[k].items[j] = [line |-> line, content |-> content]})
            = InRows(rows, po, line, content)
  BY ItemsOfOrder
<1> HIDE DEF len
<1>2. len <= max
  BY <1>1 DEF IsList
<1> QED BY <1>1, <1>2, OccurrencesIn

\* The orders as three of the formats make them.
Made(headers, rows) ==
    [n \in DOMAIN headers |-> Order(headers[n], RowsOf(rows, headers[n].po_number))]

LEMMA MadeCarry ==
    ASSUME NEW load, IsLoad(load), NEW po \in Numbers(load.headers), NEW line, NEW content
    PROVE  Occurrences(Made(load.headers, load.rows), Len(load.rows), po, line, content)
              = InRows(load.rows, po, line, content)
<1> DEFINE headers == load.headers
           rows == load.rows
           orders == Made(headers, rows)
<1>1. /\ IsList(rows) /\ Len(rows) \in Nat /\ Len(rows) <= Len(rows)
      /\ \A i, j \in DOMAIN headers : headers[i].po_number = headers[j].po_number => i = j
  BY DEF IsLoad, IsList
<1>2. PICK k \in DOMAIN headers : headers[k].po_number = po
  BY DEF Numbers
<1>3. /\ DOMAIN orders = DOMAIN headers
      /\ \A l \in DOMAIN headers :
           /\ orders[l].po_number = headers[l].po_number
           /\ orders[l].items = ItemSeq(RowsOf(rows, headers[l].po_number))
  BY DEF Made, Order
<1> HIDE DEF orders, headers, rows
<1>4. k \in DOMAIN orders /\ \A l \in DOMAIN orders : orders[l].po_number = po <=> l = k
  BY <1>1, <1>2, <1>3
<1>5. orders[k].items = ItemSeq(RowsOf(rows, po))
  BY <1>2, <1>3
<1>6. Occurrences(orders, Len(rows), po, line, content) = InRows(rows, po, line, content)
  BY <1>1, <1>4, <1>5, OccurrencesOfRows
<1> QED BY <1>6 DEF orders, headers, rows

LEMMA AlfaMakes ==
    ASSUME NEW headers, NEW rows, ParseAlfa(AlfaPayload(headers, rows)).ok
    PROVE  ParseAlfa(AlfaPayload(headers, rows)).orders = Made(headers, rows)
<1> DEFINE payload == AlfaPayload(headers, rows)
<1>1. /\ DOMAIN payload = DOMAIN headers
      /\ \A n \in DOMAIN headers :
           /\ payload[n].po_number = headers[n].po_number
           /\ payload[n].columns = headers[n].columns
           /\ payload[n].items = RowsOf(rows, headers[n].po_number)
  BY DEF AlfaPayload
<1>2. ParseAlfa(payload).orders
         = [n \in DOMAIN payload |-> Order(payload[n], payload[n].items)]
  <2> HIDE DEF payload
  <2>1. ParseAlfa(payload).ok
    BY DEF payload
  <2> QED BY <2>1 DEF ParseAlfa, Rejected, Parsed
<1> HIDE DEF payload
<1>3. \A n \in DOMAIN headers :
         Order(payload[n], payload[n].items)
            = Order(headers[n], RowsOf(rows, headers[n].po_number))
  BY <1>1 DEF Order
<1> QED BY <1>1, <1>2, <1>3 DEF Made, payload

\* Beta and Delta first put the rows of other orders aside: an order has the
\* same rows without them.
LEMMA RowsOfRowsIn ==
    ASSUME NEW rows, IsList(rows), NEW numbers, NEW po \in numbers
    PROVE  RowsOf(RowsIn(rows, numbers), po) = RowsOf(rows, po)
<1> DEFINE A == {n \in DOMAIN rows : rows[n].po_number \in numbers}
           s == RowsIn(rows, numbers)
           B == {i \in DOMAIN s : s[i].po_number \in {po}}
           C == {n \in DOMAIN rows : rows[n].po_number \in {po}}
           k == Cardinality(A)
           l == Cardinality(B)
<1>1. /\ A \in SUBSET DOMAIN rows /\ B \in SUBSET DOMAIN s /\ C \in SUBSET DOMAIN rows
      /\ s = Selected(rows, A)
      /\ RowsOf(s, po) = Selected(s, B) /\ RowsOf(rows, po) = Selected(rows, C)
  BY DEF RowsIn, RowsOf
<1>2. \A n : n \in C <=> n \in A /\ rows[n].po_number = po
  OBVIOUS
<1>3. \A i : i \in B <=> i \in DOMAIN s /\ s[i].po_number = po
  OBVIOUS
<1> HIDE DEF A, B, C, s
<1>4. PICK f \in Bijection(1..k, A) : Ascends(f) /\ s = Along(rows, f, k)
  BY <1>1, SelectedNth
<1>5. IsList(s) /\ k \in Nat
  BY <1>1, SelectedIs, SelectedNth
<1>6. /\ l \in Nat /\ IsFiniteSet(B)
      /\ \E g \in Bijection(1..l, B) : Ascends(g) /\ Selected(s, B) = Along(s, g, l)
  BY <1>1, <1>5, SelectedNth
<1>7. PICK g \in Bijection(1..l, B) : Ascends(g) /\ Selected(s, B) = Along(s, g, l)
  BY <1>6
<1> HIDE DEF k, l
<1>8. /\ f \in [1..k -> A] /\ \A n \in A : \E i \in 1..k : f[i] = n
      /\ \A i, j \in 1..k : f[i] = f[j] => i = j
      /\ g \in [1..l -> B] /\ \A i \in B : \E j \in 1..l : g[j] = i
      /\ \A i, j \in 1..l : g[i] = g[j] => i = j
      /\ \A i, j \in 1..l : i < j => g[i] < g[j]
      /\ \A i, j \in 1..k : i < j => f[i] < f[j]
  BY <1>4, <1>7 DEF Bijection, Surjection, Injection, IsInjective, Ascends
<1>9. DOMAIN s = 1..k /\ \A i \in 1..k : s[i] = rows[f[i]]
  BY <1>4 DEF Along
<1> DEFINE h == [j \in 1..l |-> f[g[j]]]
<1>10. \A j \in 1..l : g[j] \in 1..k /\ h[j] = f[g[j]] /\ s[g[j]] = rows[h[j]] /\ h[j] \in C
  BY <1>2, <1>3, <1>8, <1>9
<1>11. DOMAIN h = 1..l /\ h \in [1..l -> C]
  BY <1>10
<1> HIDE DEF h
<1>12. \A n \in C : \E j \in 1..l : h[j] = n
  <2> TAKE n \in C
  <2>1. PICK i \in 1..k : f[i] = n
    BY <1>2, <1>8
  <2>2. i \in B
    BY <1>2, <1>3, <1>9, <2>1
  <2>3. PICK j \in 1..l : g[j] = i
    BY <1>8, <2>2
  <2> QED BY <1>10, <2>1, <2>3
<1>13. \A i, j \in 1..l : i < j => h[i] < h[j]
  BY <1>8, <1>10
<1>14. \A i, j \in 1..l : h[i] = h[j] => i = j
  BY <1>8, <1>10
<1>15. h \in Surjection(1..l, C) /\ h \in Bijection(1..l, C) /\ Ascends(h)
  BY <1>11, <1>12, <1>13, <1>14 DEF Bijection, Surjection, Injection, IsInjective, Ascends
<1>16. l = Cardinality(C)
  <2>1. IsFiniteSet(1..l) /\ Cardinality(1..l) = l
    BY <1>6, FS_Interval
  <2>2. ExistsBijection(1..l, C)
    BY <1>15 DEF ExistsBijection
  <2> QED BY <2>1, <2>2, FS_Bijection
<1>17. Selected(rows, C) = Along(rows, h, l)
  BY <1>1, <1>6, <1>15, <1>16, SelectedAlong
<1>18. Along(rows, h, l) = Along(s, g, l)
  BY <1>10 DEF Along
<1> QED BY <1>1, <1>7, <1>17, <1>18 DEF s

LEMMA HeadersMake ==
    ASSUME NEW headers, NEW rows, IsList(rows), NEW numbers, Numbers(headers) \subseteq numbers
    PROVE  [n \in DOMAIN headers |->
              Order(headers[n], RowsOf(RowsIn(rows, numbers), headers[n].po_number))]
              = Made(headers, rows)
<1>1. \A n \in DOMAIN headers : headers[n].po_number \in numbers
  BY DEF Numbers
<1>2. \A n \in DOMAIN headers : RowsOf(RowsIn(rows, numbers), headers[n].po_number)
                                   = RowsOf(rows, headers[n].po_number)
  BY <1>1, RowsOfRowsIn
<1> QED BY <1>2 DEF Made

LEMMA BetaMakes ==
    ASSUME NEW headers, NEW rows, IsList(rows), ParseBeta(headers, rows).ok
    PROVE  ParseBeta(headers, rows).orders = Made(headers, rows)
<1>1. ParseBeta(headers, rows).orders = [n \in DOMAIN headers |->
         Order(headers[n], RowsOf(RowsIn(rows, Numbers(headers)), headers[n].po_number))]
  BY DEF ParseBeta, Rejected, Parsed
<1> QED BY <1>1, HeadersMake

LEMMA DeltaMakes ==
    ASSUME NEW headers, NEW rows, IsList(rows), ParseDelta(headers, rows).ok
    PROVE  ParseDelta(headers, rows).orders = Made(headers, rows)
<1> DEFINE numbers == Numbers(headers) \ {Missing}
<1>1. ParseDelta(headers, rows).orders = [n \in DOMAIN headers |->
         Order(headers[n], RowsOf(RowsIn(rows, numbers), headers[n].po_number))]
  BY DEF ParseDelta, Rejected, Parsed
<1>2. Numbers(headers) \subseteq numbers
  BY DeltaTakes DEF HeaderOk, Numbers
<1> HIDE DEF numbers
<1> QED BY <1>1, <1>2, HeadersMake

\* A row without a header is in a warning of Beta
LEMMA BetaWarns ==
    ASSUME NEW load, IsLoad(load), NEW m \in DOMAIN load.rows,
           load.rows[m].po_number \notin Numbers(load.headers),
           ParseBeta(load.headers, load.rows).ok
    PROVE  LET warnings == ParseBeta(load.headers, load.rows).warnings
               r == load.rows[m]
           IN  Cardinality({n \in DOMAIN warnings : warnings[n] = r})
                  = Cardinality({n \in DOMAIN load.rows : load.rows[n] = r})
<1> DEFINE rows == load.rows
           r == rows[m]
           headers == load.headers
           warnings == ParseBeta(headers, rows).warnings
           known == Numbers(headers)
           left == Numbers(rows) \ known
           at == {n \in DOMAIN rows : rows[n].po_number \in left}
<1>1. warnings = Selected(rows, at)
  <2>1. ParseBeta(headers, rows).ok
    OBVIOUS
  <2> HIDE DEF headers, rows
  <2>2. warnings = RowsIn(rows, left)
    BY <2>1 DEF ParseBeta, Rejected, Parsed
  <2> QED BY <2>2 DEF RowsIn
<1> HIDE DEF warnings
<1>2. at \in SUBSET DOMAIN rows /\ IsList(rows)
  BY DEF IsLoad
<1>3. \A n \in DOMAIN rows : rows[n] = r => n \in at
  BY DEF Numbers
<1> HIDE DEF at, r
<1>4. Count(warnings, {r}) = Cardinality({n \in at : rows[n] \in {r}})
  BY <1>1, <1>2, SelectedCount
<1>5. {n \in at : rows[n] \in {r}} = {n \in DOMAIN rows : rows[n] = r}
  BY <1>2, <1>3
<1>6. Count(warnings, {r}) = Cardinality({n \in DOMAIN warnings : warnings[n] = r})
  <2>1. {n \in DOMAIN warnings : warnings[n] \in {r}} = {n \in DOMAIN warnings : warnings[n] = r}
    OBVIOUS
  <2> QED BY <2>1 DEF Count
<1> QED BY <1>4, <1>5, <1>6 DEF r, warnings

\* and among the orphans of Delta.
LEMMA DeltaKeeps ==
    ASSUME NEW load, IsLoad(load), NEW m \in DOMAIN load.rows,
           load.rows[m].po_number \notin Numbers(load.headers), NEW line, NEW content,
           ParseDelta(load.headers, load.rows).ok
    PROVE  LET po == load.rows[m].po_number
               orphans == ParseDelta(load.headers, load.rows).orphan_items[po]
           IN  Cardinality({n \in DOMAIN orphans :
                              orphans[n] = [line |-> line, content |-> content]})
                  = InRows(load.rows, po, line, content)
<1> DEFINE rows == load.rows
           po == rows[m].po_number
           headers == load.headers
           left == Numbers(rows) \ (Numbers(load.headers) \ {Missing})
           orphans == RowsIn(rows, left)
           kept == ParseDelta(headers, rows).orphan_items
<1>1. kept = [p \in Numbers(orphans) |-> ItemSeq(RowsOf(orphans, p))]
  <2>1. ParseDelta(headers, rows).ok
    OBVIOUS
  <2> QED BY <2>1 DEF ParseDelta, Rejected, Parsed
<1> HIDE DEF kept
<1>2. IsList(rows)
  BY DEF IsLoad
<1>3. po \in left
  BY DEF Numbers
<1> HIDE DEF left
<1>4. /\ IsList(orphans) /\ InRows(orphans, po, line, content) = InRows(rows, po, line, content)
      /\ po \in Numbers(orphans)
  <2>1. \E i \in DOMAIN orphans : orphans[i] = rows[m]
    <3>1. m \in DOMAIN rows /\ rows[m].po_number \in left
      BY <1>3
    <3> HIDE DEF rows
    <3> QED BY <1>2, <3>1, RowsInAre
  <2>2. po \in Numbers(orphans)
    <3> HIDE DEF orphans
    <3> QED BY <2>1 DEF Numbers
  <2> QED BY <1>2, <1>3, <2>2, RowsInAre, InRowsIn
<1> HIDE DEF orphans, po
<1>5. kept[po] = ItemSeq(RowsOf(orphans, po))
  BY <1>1, <1>4
<1>6. Cardinality({n \in DOMAIN ItemSeq(RowsOf(orphans, po)) :
         ItemSeq(RowsOf(orphans, po))[n] = [line |-> line, content |-> content]})
         = InRows(orphans, po, line, content)
  BY <1>4, ItemsOfOrder
<1> QED BY <1>4, <1>5, <1>6 DEF po, kept

\* A multiple of a number is what it was after the division.
LEMMA MultipleDivided ==
    ASSUME NEW a \in Int, NEW b \in Nat \ {0}, a % b = 0
    PROVE  a \div b \in Int /\ (a \div b) * b = a
<1> DEFINE q == a \div b
<1>1. q \in Int /\ a = b * q
  OBVIOUS
<1> HIDE DEF q
<1>2. b * q = q * b /\ b * q \in Int
  BY <1>1
<1> QED BY <1>1, <1>2 DEF q

LEMMA ProductDivided ==
    ASSUME NEW a \in Int, NEW b \in Nat \ {0}
    PROVE  (a * b) \div b = a
<1> DEFINE q == (a * b) \div b
           r == (a * b) % b
           d == a - q
<1>1. q \in Int /\ r \in Int /\ 0 <= r /\ r < b /\ a * b = b * q + r
  OBVIOUS
<1> HIDE DEF q, r
<1>2. d \in Int /\ r = b * d
  BY <1>1
<1> HIDE DEF d
<1>3. d = 0
  BY <1>1, <1>2
<1> QED BY <1>1, <1>3 DEF d, q

\* Boxes and centavos: what Gama sends of a row is what the row holds.
LEMMA GamaConverts ==
    ASSUME NEW row, IsRow(row), row.fator_conv > 0, NEW header
    PROVE  GamaContent(GamaRow(row, header)) = row.content
<1> DEFINE content == row.content
           pieces == row.fator_conv
           sent == GamaRow(row, header)
           price == content.unit_price
           centavos == (price * pieces) \div Centavo
<1>1. /\ content \in [material: {content.material}, ordered: Int, received: Int, unit_price: Int]
      /\ pieces \in Nat \ {0}
      /\ content.ordered % pieces = 0 /\ content.received % pieces = 0
      /\ (price * pieces) % Centavo = 0
  BY DEF IsRow
<1>2. /\ sent.cod_mat = content.material /\ sent.fator_conv = pieces
      /\ sent.qtd_ped = content.ordered \div pieces
      /\ sent.qtd_rec = content.received \div pieces
      /\ sent.preco_unit_centavos = centavos
  BY DEF GamaRow, Boxes
<1>3. price \in Int /\ price * pieces \in Int
  BY <1>1
<1> HIDE DEF sent, content, pieces, price
<1>4. /\ (content.ordered \div pieces) * pieces = content.ordered
      /\ (content.received \div pieces) * pieces = content.received
  BY <1>1, MultipleDivided
<1>5. centavos * Centavo = price * pieces
  BY <1>1, <1>3, CentavoAssumption, MultipleDivided
<1>6. (centavos * Centavo) \div pieces = price
  BY <1>1, <1>3, <1>5, ProductDivided
<1> HIDE DEF centavos
<1>7. GamaContent(sent) = [material |-> content.material, ordered |-> content.ordered,
                           received |-> content.received, unit_price |-> price]
  BY <1>2, <1>4, <1>6 DEF GamaContent
<1>8. content = [material |-> content.material, ordered |-> content.ordered,
                  received |-> content.received, unit_price |-> price]
  BY <1>1 DEF price
<1> QED BY <1>7, <1>8 DEF sent, content

\* An order of Gama is the one that the other formats make of its rows.
LEMMA GamaOrderIs ==
    ASSUME NEW load, IsLoad(load),
           \A n \in DOMAIN load.rows : load.rows[n].po_number \in Numbers(load.headers) =>
              load.rows[n].fator_conv > 0,
           NEW po \in Numbers(load.headers), NEW m \in DOMAIN Flat(load), Flat(load)[m].po_number = po
    PROVE  GamaOrder(RowsOf(Flat(load), po)) = Order(HeaderOf(load.headers, po), RowsOf(load.rows, po))
<1> DEFINE rows == load.rows
           headers == load.headers
           numbers == Numbers(headers) \cup {Missing}
           flat == Flat(load)
           sent == Sent(load)
           header == HeaderOf(headers, po)
           at == {n \in DOMAIN flat : flat[n].po_number \in {po}}
           k == Cardinality(at)
           mine == RowsOf(flat, po)
           same == RowsOf(rows, po)
<1>1. /\ IsList(sent) /\ IsList(flat) /\ DOMAIN flat = DOMAIN sent
      /\ \A n \in DOMAIN sent : flat[n] = GamaRow(sent[n], HeaderOf(headers, sent[n].po_number))
      /\ \A i \in DOMAIN sent : \E n \in DOMAIN rows : sent[i] = rows[n]
  BY GamaRows
<1>2. IsList(rows) /\ \A n \in DOMAIN rows : IsRow(rows[n])
  BY DEF IsLoad
<1>3. same = RowsOf(sent, po)
  <2>1. po \in numbers /\ sent = RowsIn(rows, numbers)
    BY DEF Sent
  <2> HIDE DEF rows, numbers
  <2> QED BY <1>2, <2>1, RowsOfRowsIn
<1> HIDE DEF flat, sent
<1>4. \A n \in DOMAIN sent : flat[n].po_number = sent[n].po_number
  <2> TAKE n \in DOMAIN sent
  <2> DEFINE h == HeaderOf(headers, sent[n].po_number)
  <2>1. flat[n] = GamaRow(sent[n], h)
    BY <1>1
  <2> HIDE DEF h
  <2> QED BY <2>1 DEF GamaRow
<1>5. at = {n \in DOMAIN sent : sent[n].po_number \in {po}}
  BY <1>1, <1>4
<1>6. mine = Selected(flat, at) /\ RowsOf(sent, po) = Selected(sent, at)
  BY <1>5 DEF RowsOf, RowsIn
<1>7. at \in SUBSET DOMAIN flat /\ m \in at /\ \A n \in at : sent[n].po_number = po
  <2>1. m \in DOMAIN flat /\ flat[m].po_number = po
    BY DEF flat
  <2> QED BY <1>5, <2>1
<1> HIDE DEF at, mine, same
<1>8. /\ k \in Nat
      /\ \E f \in Bijection(1..k, at) : Ascends(f) /\ Selected(flat, at) = Along(flat, f, k)
  BY <1>1, <1>7, SelectedNth
<1>9. PICK f \in Bijection(1..k, at) : Ascends(f) /\ mine = Along(flat, f, k)
  BY <1>6, <1>8
<1>10. same = Along(sent, f, k)
  <2>1. f \in Surjection(1..k, at)
    BY DEF Bijection
  <2> QED BY <1>1, <1>3, <1>6, <1>7, <1>8, <1>9, <2>1, SelectedAlong
<1> HIDE DEF k
<1>11. f \in [1..k -> at] /\ \E i \in 1..k : f[i] = m
  BY <1>7 DEF Bijection, Surjection
<1>12. 1 \in 1..k
  BY <1>8, <1>11
<1>13. DOMAIN mine = 1..k /\ DOMAIN same = 1..k
  BY <1>9, <1>10 DEF Along
<1>14. \A i \in 1..k : mine[i] = GamaRow(same[i], header) /\ same[i] \in {rows[n] : n \in DOMAIN rows}
                        /\ same[i].po_number = po
  BY <1>1, <1>7, <1>9, <1>10, <1>11 DEF Along
<1> HIDE DEF header
<1>15. \A i \in 1..k : mine[i].line = same[i].line /\ GamaContent(mine[i]) = same[i].content
                        /\ mine[i].columns = header.columns /\ mine[i].po_number = po
  <2> TAKE i \in 1..k
  <2>1. IsRow(same[i]) /\ same[i].fator_conv > 0
    BY <1>2, <1>14
  <2>2. GamaContent(mine[i]) = same[i].content
    BY <1>14, <2>1, GamaConverts
  <2>3. mine[i] = GamaRow(same[i], header) /\ same[i].po_number = po
    BY <1>14
  <2> HIDE DEF rows
  <2> QED BY <2>2, <2>3 DEF GamaRow
<1>16. header.po_number = po
  BY DEF header, HeaderOf, Numbers, ToSet
<1>17. [n \in DOMAIN mine |-> [line |-> mine[n].line, content |-> GamaContent(mine[n])]]
          = ItemSeq(same)
  BY <1>13, <1>15 DEF ItemSeq, Item
<1>18. GamaOrder(mine) = Order(header, same)
  BY <1>12, <1>15, <1>16, <1>17 DEF GamaOrder, Order
<1> QED BY <1>18 DEF mine, same, header, flat

\* It makes one of every number that a row has.
GamaOrders(load) == ParseGama(Flat(load)).orders

LEMMA GamaMakes ==
    ASSUME NEW load, IsLoad(load), ParseGama(Flat(load)).ok
    PROVE  /\ \A l \in DOMAIN GamaOrders(load) :
                /\ GamaOrders(load)[l].po_number \in Numbers(load.headers)
                /\ GamaOrders(load)[l] = Order(HeaderOf(load.headers, GamaOrders(load)[l].po_number),
                                     RowsOf(load.rows, GamaOrders(load)[l].po_number))
                /\ \E n \in DOMAIN load.rows : load.rows[n].po_number = GamaOrders(load)[l].po_number
           /\ \A n \in DOMAIN load.rows : load.rows[n].po_number \in Numbers(load.headers) =>
                \E l \in DOMAIN GamaOrders(load) : GamaOrders(load)[l].po_number = load.rows[n].po_number
           /\ \A k, l \in DOMAIN GamaOrders(load) : GamaOrders(load)[k].po_number = GamaOrders(load)[l].po_number => k = l
<1> DEFINE rows == load.rows
           numbers == Numbers(load.headers)
           sent == Sent(load)
           flat == Flat(load)
           firsts == Selected(flat, FirstOf(flat))
           orders == GamaOrders(load)
<1>1. \A n \in DOMAIN rows : /\ rows[n].po_number # Missing
                             /\ rows[n].po_number \in numbers => rows[n].fator_conv > 0
  BY GamaTakes DEF Flat
<1>2. /\ IsList(flat) /\ DOMAIN flat = DOMAIN sent
      /\ \A n \in DOMAIN sent :
            flat[n] = GamaRow(sent[n], HeaderOf(load.headers, sent[n].po_number))
      /\ \A i \in DOMAIN sent : \E n \in DOMAIN rows :
            sent[i] = rows[n] /\ sent[i].po_number \in numbers \cup {Missing}
      /\ \A n \in DOMAIN rows : rows[n].po_number \in numbers \cup {Missing} =>
            \E i \in DOMAIN sent : sent[i] = rows[n]
  BY GamaRows
<1> HIDE DEF sent
<1>3. /\ \A i \in DOMAIN flat : /\ flat[i].po_number \in numbers
                               /\ \E n \in DOMAIN rows : flat[i].po_number = rows[n].po_number
      /\ \A n \in DOMAIN rows : rows[n].po_number \in numbers =>
            \E i \in DOMAIN flat : flat[i].po_number = rows[n].po_number
  <2> HIDE DEF flat, numbers, rows
  <2>1. \A i \in DOMAIN sent : flat[i].po_number = sent[i].po_number
    BY <1>2 DEF GamaRow
  <2> QED BY <1>1, <1>2, <2>1
<1>4. orders = [n \in DOMAIN firsts |-> GamaOrder(RowsOf(flat, firsts[n].po_number))]
  <2>1. ParseGama(flat).ok /\ orders = ParseGama(flat).orders
    BY DEF GamaOrders
  <2> QED BY <2>1 DEF ParseGama, Rejected, Parsed, FirstOf
<1>5. /\ \A i \in DOMAIN firsts : \E n \in DOMAIN flat : firsts[i] = flat[n]
      /\ \A n \in DOMAIN flat : \E i \in DOMAIN firsts : firsts[i].po_number = flat[n].po_number
      /\ \A i, j \in DOMAIN firsts : firsts[i].po_number = firsts[j].po_number => i = j
  <2> HIDE DEF flat
  <2> QED BY <1>2, FirstRows
<1> HIDE DEF firsts, orders
<1>6. ASSUME NEW l \in DOMAIN firsts
      PROVE  /\ firsts[l].po_number \in numbers
             /\ orders[l] = Order(HeaderOf(load.headers, firsts[l].po_number),
                                  RowsOf(rows, firsts[l].po_number))
             /\ orders[l].po_number = firsts[l].po_number
  <2> DEFINE po == firsts[l].po_number
  <2>1. PICK n \in DOMAIN flat : flat[n].po_number = po
    BY <1>5
  <2>2. po \in numbers
    BY <1>3, <2>1
  <2>3. orders[l] = GamaOrder(RowsOf(flat, po))
    BY <1>4
  <2> HIDE DEF po
  <2>4. GamaOrder(RowsOf(flat, po)) = Order(HeaderOf(load.headers, po), RowsOf(rows, po))
    BY <1>1, <2>1, <2>2, GamaOrderIs
  <2>5. HeaderOf(load.headers, po).po_number = po
    BY <2>2 DEF HeaderOf, Numbers, ToSet
  <2> QED BY <2>2, <2>3, <2>4, <2>5 DEF Order, po
<1>7. DOMAIN orders = DOMAIN firsts
  BY <1>4
<1> HIDE DEF flat
<1>8. \A l \in DOMAIN firsts : \E n \in DOMAIN rows : rows[n].po_number = firsts[l].po_number
  BY <1>3, <1>5
<1>9. \A n \in DOMAIN rows : rows[n].po_number \in numbers =>
         \E l \in DOMAIN firsts : firsts[l].po_number = rows[n].po_number
  BY <1>3, <1>5
<1> QED BY <1>5, <1>6, <1>7, <1>8, <1>9 DEF orders

LEMMA GamaCarries ==
    ASSUME NEW load, IsLoad(load), NEW po \in Numbers(load.headers), NEW line, NEW content,
           \E m \in DOMAIN load.rows : load.rows[m].po_number = po,
           ParseGama(GamaPayload(load.headers, load.rows)).ok
    PROVE  Occurrences(ParseGama(GamaPayload(load.headers, load.rows)).orders, Len(load.rows),
                       po, line, content)
              = InRows(load.rows, po, line, content)
<1> DEFINE rows == load.rows
           orders == GamaOrders(load)
<1>1. /\ \A l \in DOMAIN orders :
            orders[l] = Order(HeaderOf(load.headers, orders[l].po_number),
                              RowsOf(rows, orders[l].po_number))
      /\ \E l \in DOMAIN orders : orders[l].po_number = po
      /\ \A k, l \in DOMAIN orders : orders[k].po_number = orders[l].po_number => k = l
  <2>1. ParseGama(Flat(load)).ok
    BY DEF Flat
  <2> HIDE DEF orders
  <2> QED BY <2>1, GamaMakes DEF orders
<1>2. IsList(rows) /\ Len(rows) \in Nat /\ Len(rows) <= Len(rows)
  BY DEF IsLoad, IsList
<1> HIDE DEF orders
<1>3. PICK k \in DOMAIN orders : orders[k].po_number = po
  BY <1>1
<1>4. k \in DOMAIN orders /\ \A l \in DOMAIN orders : orders[l].po_number = po <=> l = k
  BY <1>1, <1>3
<1>5. orders[k].items = ItemSeq(RowsOf(rows, po))
  BY <1>1, <1>3 DEF Order
<1> HIDE DEF rows
<1>6. Occurrences(orders, Len(rows), po, line, content) = InRows(rows, po, line, content)
  BY ONLY <1>2, <1>4, <1>5, OccurrencesOfRows
<1> QED BY <1>6 DEF orders, rows, Flat, GamaOrders

\* Whatever load comes, the formats that take it make the same orders of it.
THEOREM OrdersAgree ==
    ASSUME NEW load, IsLoad(load)
    PROVE  SameOrdersOut(Normalised(load.headers, load.rows))
<1> DEFINE headers == load.headers
           rows == load.rows
           made == Made(headers, rows)
           alfa == ParseAlfa(AlfaPayload(headers, rows))
           beta == ParseBeta(headers, rows)
           gama == ParseGama(GamaPayload(headers, rows))
           delta == ParseDelta(headers, rows)
           full == {o \in ToSet(made) : DOMAIN o.items # {}}
<1>1. IsList(rows) /\ \A i, j \in DOMAIN headers : headers[i].po_number = headers[j].po_number => i = j
  BY DEF IsLoad
<1>2. alfa.ok => alfa.orders = made
  BY AlfaMakes
<1>3. beta.ok => alfa.ok /\ beta.orders = made
  BY <1>1, AlfaTakes, BetaTakes, BetaMakes
<1>4. delta.ok => alfa.ok /\ delta.orders = made
  BY <1>1, AlfaTakes, DeltaTakes, DeltaMakes
<1>5. ASSUME gama.ok
      PROVE  /\ ToSet(gama.orders) = full
             /\ \A i, j \in DOMAIN gama.orders :
                  gama.orders[i].po_number = gama.orders[j].po_number => i = j
  <2> DEFINE orders == gama.orders
  <2>1. /\ \A l \in DOMAIN orders :
              /\ orders[l].po_number \in Numbers(headers)
              /\ orders[l] = Order(HeaderOf(headers, orders[l].po_number),
                                   RowsOf(rows, orders[l].po_number))
              /\ \E n \in DOMAIN rows : rows[n].po_number = orders[l].po_number
        /\ \A n \in DOMAIN rows : rows[n].po_number \in Numbers(headers) =>
              \E l \in DOMAIN orders : orders[l].po_number = rows[n].po_number
        /\ \A k, l \in DOMAIN orders : orders[k].po_number = orders[l].po_number => k = l
    <3>1. gama = ParseGama(Flat(load)) /\ orders = GamaOrders(load)
      BY DEF Flat, GamaOrders
    <3> HIDE DEF gama, orders
    <3> QED BY <1>5, <3>1, GamaMakes
  <2> HIDE DEF orders, gama
  <2>2. \A k \in DOMAIN headers : HeaderOf(headers, headers[k].po_number) = headers[k]
    BY <1>1 DEF HeaderOf, Numbers, ToSet
  <2>3. /\ DOMAIN made = DOMAIN headers
        /\ \A k \in DOMAIN headers :
              /\ made[k] = Order(headers[k], RowsOf(rows, headers[k].po_number))
              /\ DOMAIN made[k].items = DOMAIN RowsOf(rows, headers[k].po_number)
    BY DEF Made, Order, ItemSeq
  <2> HIDE DEF made, rows, headers
  <2>4. ASSUME NEW l \in DOMAIN orders PROVE orders[l] \in full
    <3>1. PICK k \in DOMAIN headers : headers[k].po_number = orders[l].po_number
      BY <2>1 DEF Numbers
    <3>2. orders[l] = made[k]
      BY <2>1, <2>2, <2>3, <3>1
    <3>3. DOMAIN RowsOf(rows, headers[k].po_number) # {}
      BY <1>1, <2>1, <3>1, RowsOfAre
    <3> QED BY <2>3, <3>2, <3>3 DEF ToSet
  <2>5. ASSUME NEW o \in full PROVE \E l \in DOMAIN orders : orders[l] = o
    <3>1. PICK k \in DOMAIN headers : o = made[k] /\ DOMAIN o.items # {}
      BY <2>3 DEF ToSet
    <3>2. PICK n \in DOMAIN rows : rows[n].po_number = headers[k].po_number
      BY <1>1, <2>3, <3>1, RowsOfAre
    <3>3. PICK l \in DOMAIN orders : orders[l].po_number = headers[k].po_number
      BY <2>1, <3>2 DEF Numbers
    <3>4. orders[l] = made[k]
      BY <2>1, <2>2, <2>3, <3>3
    <3> QED BY <3>1, <3>4
  <2> HIDE DEF full
  <2>6. ToSet(orders) = full
    BY <2>4, <2>5 DEF ToSet
  <2> QED BY <2>1, <2>6 DEF orders
<1> HIDE DEF alfa, beta, gama, delta, made
<1>6. Normalised(headers, rows) = [alfa |-> alfa, beta |-> beta, gama |-> gama, delta |-> delta]
  BY DEF Normalised, alfa, beta, gama, delta
<1> HIDE DEF headers, rows
<1> QED BY <1>2, <1>3, <1>4, <1>5, <1>6 DEF SameOrdersOut, headers, rows

\* Whatever load comes, no format loses, doubles or changes a row.
THEOREM RowsAreCarried ==
    ASSUME NEW load, IsLoad(load), NEW m \in DOMAIN load.rows
    PROVE  CarriesRow(Normalised(load.headers, load.rows), load.headers, load.rows, load.rows[m])
<1> DEFINE headers == load.headers
           rows == load.rows
           r == rows[m]
           out == Normalised(headers, rows)
<1>1. /\ out.alfa = ParseAlfa(AlfaPayload(headers, rows))
      /\ out.beta = ParseBeta(headers, rows)
      /\ out.gama = ParseGama(GamaPayload(headers, rows))
      /\ out.delta = ParseDelta(headers, rows)
      /\ IsList(rows)
  BY DEF Normalised, IsLoad
<1> HIDE DEF out
<1>2. CASE r.po_number \in Numbers(headers)
  <2> DEFINE po == r.po_number
             line == r.line
             content == r.content
             all(parsed) == parsed.ok =>
                Occurrences(parsed.orders, Len(rows), po, line, content)
                   = InRows(rows, po, line, content)
  <2>1. po \in Numbers(headers)
    BY <1>2
  <2> HIDE DEF line, content, po
  <2>2. all(out.gama)
    BY <1>1, <2>1, GamaCarries DEF po
  <2>3. Occurrences(Made(headers, rows), Len(rows), po, line, content)
           = InRows(rows, po, line, content)
    BY <2>1, MadeCarry
  <2> HIDE DEF headers, rows
  <2>4. all(out.alfa)
    BY <1>1, <2>3, AlfaMakes
  <2>5. all(out.beta)
    BY <1>1, <2>3, BetaMakes
  <2>6. all(out.delta)
    BY <1>1, <2>3, DeltaMakes
  <2> HIDE DEF all, r
  <2> QED BY <2>1, <2>2, <2>4, <2>5, <2>6
          DEF CarriesRow, out, all, po, line, content, r, headers, rows
<1>3. CASE r.po_number \notin Numbers(headers)
  <2>1. out.beta.ok => Cardinality({n \in DOMAIN out.beta.warnings : out.beta.warnings[n] = r})
                          = Cardinality({n \in DOMAIN rows : rows[n] = r})
    BY <1>1, <1>3, BetaWarns
  <2>2. out.delta.ok =>
          Cardinality({n \in DOMAIN out.delta.orphan_items[r.po_number] :
                         out.delta.orphan_items[r.po_number][n] =
                           [line |-> r.line, content |-> r.content]})
             = InRows(rows, r.po_number, r.line, r.content)
    BY <1>1, <1>3, DeltaKeeps
  <2> QED BY <1>3, <2>1, <2>2 DEF CarriesRow, out
<1> QED BY <1>2, <1>3

(***************************************************************************)
(* The behaviours                                                          *)
(***************************************************************************)
\* Every input is one the code has, and every result one of its results.
LEMMA AInvAlways == Spec => []AInv
<1>1. Init => AInv
  <2> SUFFICES ASSUME Init PROVE Given /\ result = <<>>
    BY DEF AInv
  <2>1. ASSUME NEW load \in Loads, input = [alg |-> "parse", headers |-> load.headers, rows |-> load.rows]
        PROVE  Given
    <3>1. IsLoad(load) /\ input.alg = "parse" /\ input.headers = load.headers /\ input.rows = load.rows
      BY <2>1, InputsAssumption
    <3>2. IsLoad(input)
      BY <3>1 DEF IsLoad
    <3> QED BY <3>1, <3>2 DEF Given
  <2> QED BY <2>1 DEF Init, Given
<1>2. AInv /\ [Next]_vars => AInv'
  <2> SUFFICES ASSUME AInv, [Next]_vars PROVE AInv'
    OBVIOUS
  <2>1. CASE Next
    <3>1. UNCHANGED input /\ Given
      BY <2>1 DEF Next, AInv
    <3>2. Given' /\ Results' = Results
      BY <3>1 DEF Given, Results
    <3>3. \E r \in Results : result' = <<r>>
      BY <2>1 DEF Next, Results
    <3> QED BY <3>2, <3>3 DEF AInv
  <2>2. CASE UNCHANGED vars
    BY <2>2 DEF vars, AInv, Given, Results
  <2> QED BY <2>1, <2>2
<1> QED BY <1>1, <1>2, PTL DEF Spec

LEMMA CheckedInput ==
    AInv /\ Computed("check") => /\ input.order \in CheckOrders /\ input.invoice \in Invoices
                                /\ Output \in Check(input.order, input.invoice)
BY DEF AInv, Given, Computed, Output, Results

\* A conference approves only what the order covers, for any orders and any
\* invoices.
THEOREM ApprovedIsAlwaysCovered == Spec => []ApprovedIsCovered
<1>1. AInv => ApprovedIsCovered
  <2> SUFFICES ASSUME AInv, Computed("check"), Output = {}
               PROVE  Covers(input.order, input.invoice)
    BY DEF ApprovedIsCovered
  <2>1. input.order \in CheckOrders /\ input.invoice \in Invoices
    BY CheckedInput
  <2>2. Output \in Check(input.order, input.invoice)
    BY CheckedInput
  <2>3. {} \in Check(input.order, input.invoice)
    BY <2>2 DEF Output
  <2> QED BY <2>1, <2>3, InputsAssumption, ApprovalIsCovered
<1> QED BY <1>1, AInvAlways, PTL

\* On an open order one divergence never hides another.
THEOREM DivergencesNeverHide == Spec => []EveryDivergenceListed
<1>1. AInv => EveryDivergenceListed
  <2> SUFFICES ASSUME AInv, Computed("check"), input.order # NotFound,
                      input.order.header.status = "open", DistinctMaterials(input.order)
               PROVE  ListsAll(Output, input.order, input.invoice)
    BY DEF EveryDivergenceListed
  <2>1. input.order \in CheckOrders /\ input.invoice \in Invoices
    BY CheckedInput
  <2>2. Output \in Check(input.order, input.invoice)
    BY CheckedInput
  <2> QED BY <2>1, <2>2, InputsAssumption, DivergencesAreListed
<1> QED BY <1>1, AInvAlways, PTL

\* The changes an ingestion reports turn the stored order into the one sent.
THEOREM DiffAlwaysExplains == Spec => []DiffExplainsUpdate
<1>1. AInv => DiffExplainsUpdate
  <2> SUFFICES ASSUME AInv, Computed("diff")
               PROVE  Explains(Output, input.existing, input.sent)
    BY DEF DiffExplainsUpdate
  <2>1. IsList(input.existing.items) /\ IsList(input.sent.items)
    BY InputsAssumption DEF AInv, Given, Computed, IsPayload
  <2>2. Output = DiffOrders(input.existing, input.sent)
    BY DEF AInv, Computed, Output, Results
  <2> QED BY <2>1, <2>2, DiffsExplain
<1> QED BY <1>1, AInvAlways, PTL

\* An order that is sent again unchanged differs by the rounding alone.
THEOREM RepeatsDifferByRounding == Spec => []OnlyRoundingReported
<1>1. AInv => OnlyRoundingReported
  <2> SUFFICES ASSUME AInv, Computed("again") PROVE OnlyRounded(Output, input.order)
    BY DEF OnlyRoundingReported
  <2>1. IsPayload(input.order)
    BY InputsAssumption DEF AInv, Given, Computed
  <2>2. Output = DiffOrders(Stored(input.order), input.order)
    BY DEF AInv, Computed, Output, Results
  <2> QED BY <2>1, <2>2, RoundingIsReported
<1> QED BY <1>1, AInvAlways, PTL

\* One defect in what a format reads rejects the load, and nothing else does.
THEOREM DefectsReject == Spec => []DefectRejects
<1>1. AInv => DefectRejects
  <2> SUFFICES ASSUME AInv, Computed("parse")
               PROVE  TakenWhenSound(Output, input.headers, input.rows)
    BY DEF DefectRejects
  <2>1. IsLoad(input)
    BY DEF AInv, Given, Computed
  <2>2. Output = Normalised(input.headers, input.rows)
    BY DEF AInv, Computed, Output, Results
  <2> QED BY <2>1, <2>2, SoundLoadsAreTaken
<1> QED BY <1>1, AInvAlways, PTL

\* The same orders come out of the four formats, and no row is lost.
THEOREM FormatsAlwaysAgree == Spec => []FormatsAgree
<1>1. AInv => FormatsAgree
  <2> SUFFICES ASSUME AInv, Computed("parse")
               PROVE  /\ SameOrdersOut(Output)
                      /\ \A n \in DOMAIN input.rows :
                           CarriesRow(Output, input.headers, input.rows, input.rows[n])
    BY DEF FormatsAgree
  <2>1. IsLoad(input)
    BY DEF AInv, Given, Computed
  <2>2. Output = Normalised(input.headers, input.rows)
    BY DEF AInv, Computed, Output, Results
  <2> QED BY <2>1, <2>2, OrdersAgree, RowsAreCarried
<1> QED BY <1>1, AInvAlways, PTL
=============================================================================
