------------------------------ MODULE OrderStore ------------------------------
(***************************************************************************)
(* The dataset under analytics: and the script that applies one order to   *)
(* it (applyOrderScript, store.go).  Redis runs a script as one step and   *)
(* replicates its effects as one transaction, so Apply maps a dataset to a *)
(* dataset.  Out of memory refuses the script before its first write.      *)
(***************************************************************************)
EXTENDS Orders, Functions

CONSTANTS
  TopOrdersLimit,  \* 10
  TopPairsLimit,   \* 200
  HourBucketTTL    \* 72 hours

ASSUME LimitAssumption ==
  /\ TopOrdersLimit \in Nat \ {0}
  /\ TopPairsLimit \in Nat \ {0}
  /\ HourBucketTTL \in Nat \ {0}

Counter == {"orders", "revenue", "tax", "shipping", "lineItems", "ordersNew",
            "ordersReturning", "revenueNew", "revenueReturning"}

\* Dimensions whose labels are described in a metadata hash.
MetaDim == {"product", "customer", "zip"}

Nothing == [x \in {} |-> 0]

At(f, x)   == IF x \in DOMAIN f THEN f[x] ELSE 0
Plus(f, g) == [x \in DOMAIN f \cup DOMAIN g |-> At(f, x) + At(g, x)]

\* counter: the counters        table: sorted sets and hashes by label
\* described: labels in the metadata hashes (HSETNX: the first one stays)
\* customers: the HyperLogLog, read as exact    seen: the seen customers
\* hours: the buckets by hour, with their expiry     board, pairs: leaderboards
\* lost: history, the buckets evicted before their expiry
EmptyData ==
  [counter   |-> [c \in Counter |-> 0],
   table     |-> [d \in Dim |-> [s \in Side |-> Nothing]],
   described |-> [d \in MetaDim |-> {}],
   customers |-> {},
   seen      |-> {},
   hours     |-> [h \in {} |-> [orders |-> 0, revenue |-> 0, expires |-> 0]],
   board     |-> [b \in Board |-> {}],
   pairs     |-> Nothing,
   lost      |-> {}]

\* ZREMRANGEBYRANK 0 -(limit+1): what stays are the members with fewer than
\* limit members above them.
TrimBoardOneShort(b, B) ==
  {x \in B : Cardinality({y \in B : Above(b, y, x)}) < TopOrdersLimit - 1}

TrimBoard(b, B) ==
  {x \in B : Cardinality({y \in B : Above(b, y, x)}) < TopOrdersLimit}

PairAbove(f, p, q) == \/ f[p] > f[q]
                      \/ f[p] = f[q] /\ \/ p[1] > q[1]
                                        \/ p[1] = q[1] /\ p[2] > q[2]

TrimPairsOneShort(f) ==
  Restrict(f, {p \in DOMAIN f :
    Cardinality({q \in DOMAIN f : PairAbove(f, q, p)}) < TopPairsLimit - 1})

TrimPairs(f) ==
  Restrict(f, {p \in DOMAIN f :
    Cardinality({q \in DOMAIN f : PairAbove(f, q, p)}) < TopPairsLimit})

\* ZINCRBY for every two lines with different SKUs.
PairIncrements(o) ==
  [p \in {PairOf(o, ij) : ij \in LinePair(o)} |-> PairTimes(o, p)]

\* HINCRBY, HINCRBY, EXPIRE: every write pushes the expiry.
AddHourFromCreation(hours, o, now) ==
  [h \in DOMAIN hours \cup {o.created} |->
     IF h # o.created THEN hours[h]
     ELSE [orders  |-> (IF h \in DOMAIN hours THEN hours[h].orders ELSE 0) + 1,
           revenue |-> (IF h \in DOMAIN hours THEN hours[h].revenue ELSE 0) + Total(o),
           expires |-> o.created + HourBucketTTL - 1]]

AddHour(hours, o, now) ==
  [h \in DOMAIN hours \cup {o.created} |->
     IF h # o.created THEN hours[h]
     ELSE [orders  |-> (IF h \in DOMAIN hours THEN hours[h].orders ELSE 0) + 1,
           revenue |-> (IF h \in DOMAIN hours THEN hours[h].revenue ELSE 0) + Total(o),
           expires |-> now + HourBucketTTL]]

\* SADD answers 1 for a customer not seen before; a blank customer is neither
\* new nor returning.
IsNewEveryTime(data, o) == o.customer # Blank

IsNew(data, o)       == o.customer # Blank /\ o.customer \notin data.seen
IsReturning(data, o) == o.customer # Blank /\ o.customer \in data.seen
AddIf(cond, n)       == IF cond THEN n ELSE 0

Increment(data, o) ==
  [orders           |-> 1,
   revenue          |-> Total(o),
   tax              |-> Tax(o),
   shipping         |-> Shipping,
   lineItems        |-> Units(o),
   ordersNew        |-> AddIf(IsNew(data, o), 1),
   ordersReturning  |-> AddIf(IsReturning(data, o), 1),
   revenueNew       |-> AddIf(IsNew(data, o), Total(o)),
   revenueReturning |-> AddIf(IsReturning(data, o), Total(o))]

Apply(data, o, now) ==
  [counter   |-> [c \in Counter |-> data.counter[c] + Increment(data, o)[c]],
   table     |-> [d \in Dim |-> [s \in Side |->
                    Plus(data.table[d][s], Contribution(d, s, o))]],
   described |-> [d \in MetaDim |-> data.described[d] \cup LabelsOf(d, o)],
   customers |-> data.customers \cup ({o.customer} \ {Blank}),
   seen      |-> data.seen \cup ({o.customer} \ {Blank}),
   hours     |-> AddHour(data.hours, o, now),
   board     |-> [b \in Board |-> TrimBoard(b, data.board[b] \cup {o})],
   pairs     |-> TrimPairs(Plus(data.pairs, PairIncrements(o))),
   lost      |-> data.lost]

\* A bucket goes when its time has come, or earlier when memory is short:
\* volatile-lru evicts keys with a time to live only, and these are the only
\* ones among the analytics keys.
DropHour(data, h) == [data EXCEPT !.hours = Restrict(@, DOMAIN @ \ {h})]
LoseHour(data, h) == [DropHour(data, h) EXCEPT !.lost = @ \cup {h}]

-------------------------------------------------------------------------------
(* The commands the read paths send, and what Redis answers.               *)

Missing == 0   \* nil, which every read path turns into zero

Get(key)         == [op |-> "get", key |-> key]
Uniques          == [op |-> "pfcount"]
HGetAll(h)       == [op |-> "hour", hour |-> h]
ZScore(d, s, l)  == [op |-> "score", dim |-> d, side |-> s, label |-> l]
ZRevRange(d, s, limit) == [op |-> "range", dim |-> d, side |-> s, limit |-> limit]
HMGet(d, labels) == [op |-> "meta", dim |-> d, labels |-> labels]
BoardRange(b)          == [op |-> "board", board |-> b]
TopPairsRange(limit)   == [op |-> "pairs", limit |-> limit]

\* The first limit members of a sorted set, highest score first; equal scores
\* are ordered by member, which the model leaves open between labels.
IsTop(f, top, limit) ==
  /\ top \subseteq DOMAIN f
  /\ Cardinality(top) = (IF Cardinality(DOMAIN f) < limit
                         THEN Cardinality(DOMAIN f) ELSE limit)
  /\ \A l \in top, m \in DOMAIN f \ top : f[l] >= f[m]

Tops(f, limit) == {Restrict(f, top) : top \in {t \in SUBSET DOMAIN f : IsTop(f, t, limit)}}

HourOrZero(data, h) == IF h \in DOMAIN data.hours
                       THEN [orders |-> data.hours[h].orders,
                             revenue |-> data.hours[h].revenue]
                       ELSE [orders |-> 0, revenue |-> 0]

\* The set of answers Redis may give.
Replies(data, cmd) ==
  CASE cmd.op = "get"     -> {data.counter[cmd.key]}
    [] cmd.op = "pfcount" -> {Cardinality(data.customers)}
    [] cmd.op = "hour"    -> {HourOrZero(data, cmd.hour)}
    [] cmd.op = "score"   -> {At(data.table[cmd.dim][cmd.side], cmd.label)}
    [] cmd.op = "range"   -> Tops(data.table[cmd.dim][cmd.side], cmd.limit)
    [] cmd.op = "meta"    -> {data.described[cmd.dim] \cap cmd.labels}
    [] cmd.op = "board"   -> {data.board[cmd.board]}
    [] cmd.op = "pairs"   -> Tops(data.pairs, cmd.limit)
===============================================================================
