----------------------------- MODULE MCAnalytics -----------------------------
(***************************************************************************)
(* Analytics for TLC: orders over two customers, three SKUs, two hours.    *)
(***************************************************************************)
EXTENDS Analytics

Item(sku, qty, price) ==
  [product |-> sku, category |-> IF sku = 3 THEN "Toys" ELSE "Books",
   quantity |-> qty, price |-> price]

MCOrder ==
  {[id |-> 1, customer |-> "ann", state |-> "NY", zip |-> "z1", created |-> 0,
    items |-> <<Item(1, 1, 2000), Item(2, 2, 900)>>],
   [id |-> 2, customer |-> "bob", state |-> "NY", zip |-> "z2", created |-> 1,
    items |-> <<Item(2, 3, 900), Item(3, 1, 9000), Item(1, 1, 2000)>>],
   [id |-> 3, customer |-> "ann", state |-> "CA", zip |-> "z1", created |-> 1,
    items |-> <<Item(2, 3, 900), Item(3, 1, 9000)>>]}

\* Two orders, an hour apart.
TwoOrders == {o \in MCOrder : o.id < 3}

AllRequests ==
  {Summary, NewVsReturningSplit, Timeseries(9), Timeseries(1), HourOfDay, CartSizeDistribution,
   RevenueConcentration, TopOrders("total"), TopPairs(2), TopProducts("units", 2),
   TopCustomers("spend", 2), ByState("orders", 3), TopZips("revenue", 1)}

NoRequests == {}
=============================================================================
