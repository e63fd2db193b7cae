---------------------------- MODULE IngestionDiff ----------------------------
(***************************************************************************)
(* _diff_orders: what the answer to an ingestion says of an order that was *)
(* stored before, and the rounding of the columns it compares with.        *)
(***************************************************************************)
EXTENDS Integers, Sequences

CONSTANTS QuantityUnit, PriceUnit  \* the last digit of NUMERIC(15,3) and (15,4)

ASSUME UnitAssumption == QuantityUnit \in Nat \ {0} /\ PriceUnit \in Nat \ {0}

Compared == {"ordered", "received", "unit_price"}

\* The dict by line keeps the last item of a line.
ByLine(items) ==
    [l \in {items[n].line : n \in DOMAIN items} |->
        items[CHOOSE n \in DOMAIN items :
                /\ items[n].line = l
                /\ \A m \in (n + 1)..Len(items) : items[m].line # l].content]

\* Mutation of LineChanges: a line is compared by its pending quantity.
LineChangesByPending(l, was, is) ==
    {<<<<"item", l, f>>, was[f], is[f]>> :
        f \in {g \in Compared :
                 IF g = "unit_price" THEN was[g] # is[g]
                 ELSE was.ordered - was.received # is.ordered - is.received}}

LineChanges(l, was, is) ==
    {<<<<"item", l, f>>, was[f], is[f]>> : f \in {g \in Compared : was[g] # is[g]}}

\* A change is its field, what was there and what is there now; of a line
\* that came or went it says the material, with a word before it.
DiffOrders(existing, new_order) ==
    LET was == ByLine(existing.items)
        is == ByLine(new_order.items)
    IN       {<<<<"header", f>>, existing.header[f], new_order.header[f]>> :
                f \in {g \in DOMAIN new_order.header :
                          existing.header[g] # new_order.header[g]}}
        \cup {<<<<"added", l>>, <<"ausente">>, <<"adicionado", is[l].material>>>>  :
                l \in DOMAIN is \ DOMAIN was}
        \cup {<<<<"removed", l>>, <<"material", was[l].material>>, <<"removido">>>> :
                l \in DOMAIN was \ DOMAIN is}
        \cup UNION {LineChanges(l, was[l], is[l]) : l \in DOMAIN is \cap DOMAIN was}

\* Mutation of Rounded: the column cuts the digits it does not hold.
RoundedDown(amount, unit) == (amount \div unit) * unit

\* PostgreSQL rounds to the digits of the column, halves away from zero.
Rounded(amount, unit) ==
    LET Up(size) == ((2 * size + unit) \div (2 * unit)) * unit
    IN  IF amount < 0 THEN -Up(-amount) ELSE Up(amount)

\* The order as find returns it once it is stored: each amount is rounded by
\* its column.
StoredContent(content) ==
    [material |-> content.material,
     ordered |-> Rounded(content.ordered, QuantityUnit),
     received |-> Rounded(content.received, QuantityUnit),
     unit_price |-> Rounded(content.unit_price, PriceUnit)]

Stored(order) ==
    [header |-> order.header,
     items |-> [n \in DOMAIN order.items |->
                  [line |-> order.items[n].line,
                   content |-> StoredContent(order.items[n].content)]]]

(***************************************************************************)
(* What the changes of an order say                                        *)
(***************************************************************************)
Reported(kind, changes) == {c \in changes : c[1][1] = kind}

Lines(items) == {items[n].line : n \in DOMAIN items}

\* The last item a payload has of a line, which is the one the dict keeps.
LastOf(items, l) ==
    LET at == {n \in DOMAIN items : items[n].line = l}
    IN  items[CHOOSE n \in at : \A m \in at : m <= n].content

\* What a field becomes by the changes.
Patched(changes, field, value) ==
    IF \E c \in changes : c[1] = field
      THEN (CHOOSE c \in changes : c[1] = field)[3] ELSE value

\* The changes turn the one order into the other: its header columns, its
\* lines, and the amounts of the lines that stay; and none of them says that
\* something became what it was.
Explains(changes, was, is) ==
    /\ \A f \in DOMAIN is.header :
          is.header[f] = Patched(changes, <<"header", f>>, was.header[f])
    /\ Lines(is.items) = (Lines(was.items) \ {c[1][2] : c \in Reported("removed", changes)})
                           \cup {c[1][2] : c \in Reported("added", changes)}
    /\ \A l \in Lines(is.items) \cap Lines(was.items) : \A f \in Compared :
          LastOf(is.items, l)[f] = Patched(changes, <<"item", l, f>>, LastOf(was.items, l)[f])
    /\ \A c \in changes : c[2] # c[3]

Unit(f) == IF f = "unit_price" THEN PriceUnit ELSE QuantityUnit

\* The changes are the amounts of the order with more digits than their column
\* holds, each of them, and by at most half of its last digit.
OnlyRounded(changes, order) ==
    /\ {c[1] : c \in changes} =
         UNION {{<<"item", l, f>> :
                   f \in {g \in Compared : LastOf(order.items, l)[g] % Unit(g) # 0}} :
                l \in Lines(order.items)}
    /\ \A c \in changes : /\ 2 * (c[2] - c[3]) <= Unit(c[1][3])
                          /\ 2 * (c[3] - c[2]) <= Unit(c[1][3])
=============================================================================
