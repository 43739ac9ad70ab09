-------------------------------- MODULE Orders --------------------------------
(***************************************************************************)
(* An order as the writer makes it and the numbers the processor derives   *)
(* from it before it runs the script: internal/client/orders, newOrder of  *)
(* writer.go, the labels of types.go, the arguments of ApplyOrder.         *)
(* Money is in cents.  SKUs and order ids are naturals, in the order Redis *)
(* compares the strings they stand for.                                    *)
(***************************************************************************)
EXTENDS Integers, Sequences, FiniteSets, FiniteSetsExt, Functions

CONSTANTS
  Order,        \* the orders the writer may enqueue
  HoursPerDay,  \* 24
  DaysPerWeek,  \* 7
  Blank         \* the empty label, which the script keeps out of its tables

Line(o)  == DOMAIN o.items
Sku(o)   == {o.items[i].product : i \in Line(o)}
Hour     == {o.created : o \in Order}

LineSubtotal(li) == li.price * li.quantity

\* newOrder: tax is 8% of the subtotal, shipping $4.99 flat.
Subtotal(o)   == SumFunction([i \in Line(o) |-> LineSubtotal(o.items[i])])
Tax(o)        == (Subtotal(o) * 8) \div 100
Shipping      == 499
Total(o)      == Subtotal(o) + Tax(o) + Shipping

\* ApplyOrder: units over all lines and the highest unit price.
Units(o)      == SumFunction([i \in Line(o) |-> o.items[i].quantity])
MaxItem(o)    == Max({0} \cup {o.items[i].price : i \in Line(o)})

\* The bucket labels, each named by its lower end.
LargestUpTo(ends, n) == Max({e \in ends : e <= n} \cup {0})

ValueEnds    == {0, 2500, 5000, 10000, 25000, 50000, 100000}
CartSizeEnds == {1, 2, 4, 6, 11, 16}

ValueBucketLabel(cents) == LargestUpTo(ValueEnds, cents)
CartSizeBucketLabel(n)  == LargestUpTo(CartSizeEnds, Max({n, 1}))

ASSUME CalendarAssumption == {HoursPerDay, DaysPerWeek} \subseteq Nat \ {0}

HourOfDayLabel(h) == h % HoursPerDay
DayOfWeekLabel(h) == (h \div HoursPerDay) % DaysPerWeek

\* The scores of the three leaderboards of orders.
Board == {"total", "line_items", "max_item"}

Score(b, o) == CASE b = "total"      -> Total(o)
                 [] b = "line_items" -> Units(o)
                 [] b = "max_item"   -> MaxItem(o)

\* The order of a sorted set: by score, then by member.  The member is the
\* snapshot of the order, which begins with its id.
Above(b, x, y) == \/ Score(b, x) > Score(b, y)
                  \/ Score(b, x) = Score(b, y) /\ x.id > y.id

\* The pairs of different SKUs of an order, smaller first, one for every
\* two lines that hold them.
LinePair(o) == {ij \in Line(o) \X Line(o) :
                  ij[1] < ij[2] /\ o.items[ij[1]].product # o.items[ij[2]].product}

PairOf(o, ij) == LET a == o.items[ij[1]].product
                     b == o.items[ij[2]].product
                 IN IF a > b THEN <<b, a>> ELSE <<a, b>>

PairTimes(o, p) == Cardinality({ij \in LinePair(o) : PairOf(o, ij) = p})

-------------------------------------------------------------------------------
(* Tables the script keeps by label: what one order adds to each.          *)

\* Dimensions with one label per order, and with one per line.
OrderDim == {"state", "zip", "customer", "value", "cart", "hour", "day"}
LineDim  == {"product", "category"}
Dim      == OrderDim \cup LineDim

\* value and cart only count; the others sum revenue beside the count.
CountOnly == {"value", "cart"}
Side      == {"count", "revenue"}

Label(d, o) == CASE d = "state"    -> o.state
                 [] d = "zip"      -> o.zip
                 [] d = "customer" -> o.customer
                 [] d = "value"    -> ValueBucketLabel(Total(o))
                 [] d = "cart"     -> CartSizeBucketLabel(Units(o))
                 [] d = "hour"     -> HourOfDayLabel(o.created)
                 [] d = "day"      -> DayOfWeekLabel(o.created)

LabelsOf(d, o) == (IF d \in LineDim THEN {o.items[i][d] : i \in Line(o)}
                                    ELSE {Label(d, o)}) \ {Blank}

LineAmountPerLine(s, li) == IF s = "count" THEN 1 ELSE LineSubtotal(li)

LineAmount(s, li) == IF s = "count" THEN li.quantity ELSE LineSubtotal(li)

Amount(d, s, o, l) ==
  IF d \in LineDim
  THEN SumFunctionOnSet([i \in Line(o) |-> LineAmount(s, o.items[i])],
                        {i \in Line(o) : o.items[i][d] = l})
  ELSE IF s = "count" THEN 1 ELSE Total(o)

ContributionOneSided(d, s, o) ==
  [l \in (IF \/ d \in CountOnly /\ s = "revenue"
             \/ d = "customer" /\ s = "count"
          THEN {} ELSE LabelsOf(d, o)) |-> Amount(d, s, o, l)]

Contribution(d, s, o) ==
  [l \in (IF d \in CountOnly /\ s = "revenue" THEN {} ELSE LabelsOf(d, o)) |->
     Amount(d, s, o, l)]

\* Every line has a quantity and a price in cents (1 to 3 units, from $1.99) and
\* a SKU, an id names one order, and whatever an order is counted under has a
\* name.
ASSUME OrderAssumption ==
  \A o \in Order :
    /\ IsFiniteSet(Line(o))
    /\ \A i \in Line(o) : /\ o.items[i].price \in Nat \ {0}
                          /\ o.items[i].quantity \in Nat \ {0}
                          /\ o.items[i].product \in Nat
                          /\ \A d \in LineDim : o.items[i][d] # Blank
    /\ \A d \in OrderDim : Label(d, o) # Blank
    /\ o.id \in Nat /\ o.created \in Nat
    /\ \A p \in Order : p.id = o.id => p = o
===============================================================================
