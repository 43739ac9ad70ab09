------------------------------- MODULE Analytics -------------------------------
(***************************************************************************)
(* The order analytics at work: processors apply orders to the master, an  *)
(* order possibly more than once; hour buckets expire; the replica lags    *)
(* behind; sentinels may make it the master; and one API request reads the *)
(* dataset command by command while all of that goes on.                   *)
(***************************************************************************)
EXTENDS OrderStore, SequencesExt

CONSTANTS
  MaxHours,      \* 72, the cap Timeseries puts on hours
  Request,       \* the API requests that may be made
  NoRequest,
  MaxApplies,    \* bound on the number of applied orders
  MaxClock,      \* bound on the clock, in hours
  MaxFailovers,  \* bound on failovers
  MaxEvictions,  \* bound on evictions of hour buckets
  MaxReads       \* bound on API requests

ASSUME WindowAssumption == MaxHours \in Nat /\ MaxHours <= HourBucketTTL

\* What each kind of request may be about: no ranking is by a dimension that is
\* only counted (api.go), and a timeseries shows some hours (store.go:544-546).
ASSUME RequestAssumption ==
  /\ NoRequest \notin Request
  /\ \A req \in Request :
       /\ req.kind = "top" => req.dim \in Dim \ CountOnly /\ req.side \in Side
       /\ req.kind = "heat" => req.dim \in {"hour", "day"}
       /\ req.kind = "histogram" => req.dim \in CountOnly
       /\ req.kind = "timeseries" => req.hours \in Nat \ {0}

VARIABLES
  data,      \* the dataset of the master
  log,       \* history: the orders applied to it, in order
  replica,   \* the dataset of the replica
  rlog,      \* history: the orders the replica has
  clock,     \* the hour
  failovers, \* number of failovers so far
  read       \* the API request being served

storeVars == <<data, log, replica, rlog>>
vars == <<data, log, replica, rlog, clock, failovers, read>>

-------------------------------------------------------------------------------
(* The requests, one operator per reading method of the store.             *)

Orelse(limit, default) == IF limit <= 0 THEN default ELSE limit
SideBy(by, side)        == IF by = side THEN side ELSE CHOOSE s \in Side : s # side

Ranking(d, side, limit) == [kind |-> "top", dim |-> d, side |-> side, limit |-> limit]

TopProducts(by, limit)   == Ranking("product", SideBy(by, "revenue"), Orelse(limit, 10))
TopCategories(by, limit) == Ranking("category", SideBy(by, "revenue"), Orelse(limit, 10))
ByState(by, limit)       == Ranking("state", SideBy(by, "revenue"), Orelse(limit, 20))
TopCustomers(by, limit)  == Ranking("customer", SideBy(by, "count"), Orelse(limit, 10))
TopZips(by, limit)       == Ranking("zip", SideBy(by, "revenue"), Orelse(limit, 20))

\* All states with their revenue; the limit is applied to the sorted averages.
AOVByState == Ranking("state", "count", Cardinality({o.state : o \in Order}))

TopPairs(limit)      == [kind |-> "pairs", limit |-> Orelse(limit, 20)]
TopOrders(by)        == [kind |-> "orders", board |-> by]
Timeseries(hours)    == [kind |-> "timeseries", hours |-> Orelse(hours, 24)]
RevenueConcentration == [kind |-> "curve"]
Summary              == [kind |-> "summary"]
NewVsReturningSplit  == [kind |-> "split"]
HourOfDay            == [kind |-> "heat", dim |-> "hour"]
DayOfWeek            == [kind |-> "heat", dim |-> "day"]
ValueDistribution    == [kind |-> "histogram", dim |-> "value"]
CartSizeDistribution == [kind |-> "histogram", dim |-> "cart"]

CounterReadsRevenueFirst(kind) ==
  <<Get("revenue"), Get("orders"), Get("tax"), Get("shipping"), Get("lineItems"), Uniques>>

\* NewVsReturningSplit and Summary: one pipeline of counters.
CounterReads(kind) ==
  IF kind = "summary"
  THEN <<Get("orders"), Get("revenue"), Get("tax"), Get("shipping"), Get("lineItems"), Uniques>>
  ELSE <<Get("ordersNew"), Get("ordersReturning"), Get("revenueNew"), Get("revenueReturning")>>

WindowOneEarly(now, hours) == LET n == IF hours > MaxHours THEN MaxHours ELSE hours
                              IN [i \in 1..n |-> now - n + i - 1]

\* Timeseries: the last hours buckets, oldest first, hours capped.
Window(now, hours) == LET n == IF hours > MaxHours THEN MaxHours ELSE hours
                      IN [i \in 1..n |-> now - n + i]

HourReads(now, hours) == [i \in DOMAIN Window(now, hours) |-> HGetAll(Window(now, hours)[i])]

HeatLabels(d) == IF d = "hour" THEN HoursPerDay ELSE DaysPerWeek

\* HourOfDay and DayOfWeek: count and revenue of every label in turn.
HeatReads(d) == [i \in 1..(2 * HeatLabels(d)) |->
                   ZScore(d, IF i % 2 = 1 THEN "count" ELSE "revenue", (i - 1) \div 2)]

\* ValueDistribution and CartSizeDistribution: one command per label, in the
\* order the reading side lists them.
ValueLabels    == <<0, 2500, 5000, 10000, 25000, 50000, 100000>>
CartSizeLabels == <<1, 2, 4, 6, 11, 16>>

HistogramLabels(d) == IF d = "value" THEN ValueLabels ELSE CartSizeLabels
HistogramReads(d)  == [i \in DOMAIN HistogramLabels(d) |->
                         ZScore(d, "count", HistogramLabels(d)[i])]

\* The commands of the first round trip.
First(req, now) ==
  CASE req.kind \in {"summary", "split"} -> CounterReads(req.kind)
    [] req.kind = "timeseries"           -> HourReads(now, req.hours)
    [] req.kind = "heat"                 -> HeatReads(req.dim)
    [] req.kind = "histogram"            -> HistogramReads(req.dim)
    [] req.kind = "top"                  -> <<ZRevRange(req.dim, req.side, req.limit)>>
    [] req.kind = "curve"                -> <<ZRevRange("product", "revenue",
                                                        Cardinality(UNION {Sku(o) : o \in Order}))>>
    [] req.kind = "orders"               -> <<BoardRange(req.board)>>
    [] req.kind = "pairs"                -> <<TopPairsRange(req.limit)>>

OtherSide(s) == IF s = "count" THEN "revenue" ELSE "count"

\* The metadata of the rows: one HMGET, none when there is no row.
Describe(d, labels) == IF d \in MetaDim /\ labels # {} THEN <<HMGet(d, labels)>> ELSE <<>>

\* What a ranking asks for after its first answer: the other number of every
\* row, then the metadata.
Follow(req, first) ==
  CASE req.kind = "top"   -> [i \in 1..Cardinality(DOMAIN first) |->
                                ZScore(req.dim, OtherSide(req.side),
                                       SetToSeq(DOMAIN first)[i])]
                             \o Describe(req.dim, DOMAIN first)
    [] req.kind = "pairs" -> Describe("product", UNION {{p[1], p[2]} : p \in DOMAIN first})
    [] OTHER              -> <<>>

Idle == [req |-> NoRequest, todo |-> <<>>, asked |-> <<>>, got |-> <<>>, start |-> 0,
         epoch |-> 0, dropped |-> FALSE, count |-> 0]

Reading == read.req # NoRequest /\ read.todo # <<>>
Served  == read.req # NoRequest /\ read.todo = <<>>

Close(r) == [Idle EXCEPT !.count = r.count]

-------------------------------------------------------------------------------
Init ==
  /\ data = EmptyData
  /\ log = <<>>
  /\ replica = EmptyData
  /\ rlog = <<>>
  /\ clock = 0
  /\ failovers = 0
  /\ read = Idle

\* handleOrder runs the script for an order it was delivered, perhaps not for
\* the first time.
ApplyOrder(o) ==
  /\ Len(log) < MaxApplies
  /\ o.created <= clock
  /\ data' = Apply(data, o, clock)
  /\ log' = Append(log, o)
  /\ UNCHANGED <<replica, rlog, clock, failovers, read>>

Replicate ==
  /\ replica # data
  /\ replica' = data
  /\ rlog' = log
  /\ UNCHANGED <<data, log, clock, failovers, read>>

\* The replica becomes the master with what it has.
Failover ==
  /\ failovers < MaxFailovers
  /\ failovers' = failovers + 1
  /\ data' = replica
  /\ log' = rlog
  /\ UNCHANGED <<replica, rlog, clock, read>>

Tick ==
  /\ clock < MaxClock
  /\ clock' = clock + 1
  /\ UNCHANGED <<storeVars, failovers, read>>

Expire(h) ==
  /\ h \in DOMAIN data.hours
  /\ clock >= data.hours[h].expires
  /\ data' = DropHour(data, h)
  /\ UNCHANGED <<log, replica, rlog, clock, failovers, read>>

Evict(h) ==
  /\ Cardinality(data.lost) < MaxEvictions
  /\ h \in DOMAIN data.hours
  /\ data' = LoseHour(data, h)
  /\ UNCHANGED <<log, replica, rlog, clock, failovers, read>>

StartRead(req) ==
  /\ read.req = NoRequest
  /\ read.count < MaxReads
  /\ read' = [Idle EXCEPT !.req = req, !.todo = First(req, clock), !.start = Len(log),
                          !.epoch = failovers, !.count = read.count + 1]
  /\ UNCHANGED <<storeVars, clock, failovers>>

\* The next answer; after the first one a ranking knows what else to ask.
Answer(reply) ==
  read' = [read EXCEPT !.got = Append(@, reply),
                       !.asked = Append(@, Head(read.todo)),
                       !.todo = Tail(@) \o (IF read.got = <<>>
                                            THEN Follow(read.req, reply) ELSE <<>>)]

ReadNext ==
  /\ Reading
  /\ \E reply \in Replies(data, Head(read.todo)) : Answer(reply)
  /\ UNCHANGED <<storeVars, clock, failovers>>

\* A command fails: the first round trip ends the request with status 500; the
\* errors of later ones, and those of the histograms, are dropped and the
\* command counts as answered with nothing.
ErrorDropped == \/ read.req.kind \in {"top", "pairs"} /\ read.got # <<>>
                \/ read.req.kind = "histogram"

ReadFails ==
  /\ Reading
  /\ IF ErrorDropped
     THEN read' = [read EXCEPT !.got = Append(@, IF Head(read.todo).op = "meta"
                                                 THEN {} ELSE Missing),
                               !.asked = Append(@, Head(read.todo)),
                               !.todo = Tail(@), !.dropped = TRUE]
     ELSE read' = Close(read)
  /\ UNCHANGED <<storeVars, clock, failovers>>

\* The response is made of the answers alone, so nothing that happens after
\* the last one matters to it and the model lets nothing happen.
Respond ==
  /\ Served
  /\ read' = Close(read)
  /\ UNCHANGED <<storeVars, clock, failovers>>

Step ==
  \/ \E o \in Order : ApplyOrder(o)
  \/ Replicate \/ Failover \/ Tick
  \/ \E h \in Hour : Expire(h) \/ Evict(h)
  \/ \E req \in Request : StartRead(req)
  \/ ReadNext \/ ReadFails

Next == Respond \/ (~Served /\ Step)

Spec == Init /\ [][Next]_vars

-------------------------------------------------------------------------------
(* Sums over the log, the reference the tables are compared with.          *)

SumLog(l, f(_))     == SumFunction([i \in DOMAIN l |-> f(l[i])])
Applied(l)          == {l[i] : i \in DOMAIN l}
TableSum(d, dim, s) == SumFunction(d.table[dim][s])

\* However often orders are redelivered and trimmed, each leaderboard holds
\* exactly the best TopOrdersLimit of the orders applied: none twice, none
\* better left out (store.go:192-202, the trim after every ZADD).
IsTopOf(b, B, S) ==
  /\ B \subseteq S
  /\ Cardinality(B) <= TopOrdersLimit
  /\ \A y \in S \ B : /\ Cardinality(B) = TopOrdersLimit
                      /\ \A x \in B : Above(b, x, y)

BoardsTop(d, l) == \A b \in Board : IsTopOf(b, d.board[b], Applied(l))

BoardsAreTop == BoardsTop(data, log)

\* Every number of the script agrees with the orders applied and the numbers
\* agree with each other: orders split by state, zip, hour of day and value,
\* and revenue by customer and by product plus tax and shipping, all come to
\* the totals (the atomicity of store.go:13-17).
TotalsOf(d, l) ==
  LET c == d.counter IN
  /\ c.orders = Len(l)
  /\ c.revenue = SumLog(l, Total)
  /\ c.lineItems = TableSum(d, "product", "count")
  /\ \A dim \in OrderDim : TableSum(d, dim, "count") = c.orders
  /\ \A dim \in OrderDim \ CountOnly : TableSum(d, dim, "revenue") = c.revenue
  /\ \A dim \in LineDim :
       /\ TableSum(d, dim, "count") = c.lineItems
       /\ TableSum(d, dim, "revenue") + c.tax + c.shipping = c.revenue

TotalsAgree == TotalsOf(data, log)

\* New plus returning orders are all the orders and so is their revenue, one
\* new order per customer ever seen, the customers PFCOUNT counts
\* (store.go:234-245; a redelivered first order counts as returning).
SplitOf(d, l) ==
  /\ d.counter["orders"] = Len(l)
  /\ d.counter["ordersNew"] + d.counter["ordersReturning"] = d.counter["orders"]
  /\ d.counter["revenueNew"] + d.counter["revenueReturning"] = d.counter["revenue"]
  /\ d.counter["ordersNew"] = Cardinality(d.seen)
  /\ d.customers = d.seen
  /\ d.seen = {o.customer : o \in Applied(l)}

SplitAgrees == SplitOf(data, log)

\* A bucket the timeseries can show has not expired and holds every order of
\* its hour; after an eviction it holds some of them (types.go:117-120).
InWindow(h, now) == \E i \in DOMAIN Window(now, MaxHours) : h = Window(now, MaxHours)[i]

OrdersOf(h, l) == Cardinality({i \in DOMAIN l : l[i].created = h})

HoursHold(d, l, now) ==
  \A h \in Hour :
    /\ HourOrZero(d, h).orders <= OrdersOf(h, l)
    /\ InWindow(h, now) /\ h \notin d.lost => HourOrZero(d, h).orders = OrdersOf(h, l)

WindowHoldsOrders == HoursHold(data, log, clock)

\* Until more pairs than the cap were seen the counts of pairs are exact;
\* beyond it they only ever fall short (types.go:111-115).
PairsIn(o)      == {PairOf(o, ij) : ij \in LinePair(o)}
PairCount(p, l) == SumLog(l, LAMBDA o : PairTimes(o, p))
SeenPairs(l)    == UNION {PairsIn(l[i]) : i \in DOMAIN l}

PairsExact(d, l) ==
  /\ \A p \in DOMAIN d.pairs : d.pairs[p] <= PairCount(p, l)
  /\ Cardinality(SeenPairs(l)) <= TopPairsLimit =>
       \A p \in SeenPairs(l) : p \in DOMAIN d.pairs /\ d.pairs[p] = PairCount(p, l)

PairsExactUntilCap == PairsExact(data, log)

-------------------------------------------------------------------------------
(* What a served request shows. *)

SameMaster == read.epoch = failovers

\* Summary counts orders first and adds up revenue, items and customers later:
\* while the master stays, the rest covers every order counted, so the average
\* order value is never too low for the orders it is divided by.
AnswerTo(cmd) == read.got[CHOOSE i \in DOMAIN read.asked : read.asked[i] = cmd]

SummaryCoversOrders ==
  Served /\ read.req.kind = "summary" /\ SameMaster =>
    LET counted == SubSeq(log, 1, AnswerTo(Get("orders"))) IN
    /\ AnswerTo(Get("revenue")) >= SumLog(counted, Total)
    /\ AnswerTo(Get("lineItems")) >= SumLog(counted, Units)
    /\ AnswerTo(Uniques) >= Cardinality({o.customer : o \in Applied(counted)})

\* The hours a timeseries asks for hold every order there was when it was
\* asked for, still do when it is served, and none of them was evicted.
WholeShown ==
  \A j \in 1..read.start :
    /\ clock - log[j].created < read.req.hours
    /\ clock - log[j].created < MaxHours
    /\ log[j].created \notin data.lost

\* Numbers read one after the other still add up to what the store held at
\* some time of the read: the halves of the new-versus-returning split, the
\* bars of a histogram and the cells of a heatmap sum to no fewer orders than
\* when the request came and to no more than now (store.go, NewVsReturningSplit
\* to DayOfWeek).  The buckets of a timeseries never sum to more either, and to
\* no fewer unless an order is, or became, too old for it or its hour was
\* evicted (store.go:543-592).
Counted ==
  CASE read.req.kind = "split"      -> AnswerTo(Get("ordersNew")) + AnswerTo(Get("ordersReturning"))
    [] read.req.kind = "timeseries" -> SumFunction([i \in DOMAIN read.got |-> read.got[i].orders])
    [] read.req.kind = "histogram"  -> SumFunction(read.got)
    [] read.req.kind = "heat"       -> SumFunction(
         [l \in 0..(HeatLabels(read.req.dim) - 1) |-> AnswerTo(ZScore(read.req.dim, "count", l))])

TotalsWithinReads ==
  /\ Served /\ SameMaster /\ ~read.dropped
  /\ read.req.kind \in {"split", "timeseries", "histogram", "heat"}
  => /\ Counted <= Len(log)
     /\ (read.req.kind = "timeseries" => WholeShown) => read.start <= Counted

\* A ranked row has both its numbers and its description, unless a command
\* was lost or the master changed in between (TopProducts to TopZips, TopPairs).
RowsComplete ==
  Served /\ read.req.kind \in {"top", "pairs"} /\ SameMaster /\ ~read.dropped =>
    \A i \in 2..Len(read.got) :
      IF read.asked[i].op = "meta" THEN read.got[i] = read.asked[i].labels
                                   ELSE read.got[i] # Missing

===============================================================================
