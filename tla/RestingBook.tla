---------------------------- MODULE RestingBook ----------------------------
(***************************************************************************)
(* The displayed half of mde::model::OrderBook (src/model/order_book.cpp): *)
(* per symbol, the live orders by id and, kept beside them and updated by  *)
(* increments only, the aggregate volume of every price level.             *)
(*                                                                         *)
(* The messages are whatever the feed sends: ids may be unknown, because   *)
(* their Add was lost, or in use, because an order was refreshed or a line *)
(* arrived twice.  The history variable conforming remembers for which     *)
(* symbols no live id has been given to a second order.                    *)
(*                                                                         *)
(* A price is a member of a set of numbers, a volume a natural number.     *)
(* Volumes are added in 64 bits by the code; sums that would not fit are   *)
(* out of the model (MaxLevel).                                            *)
(***************************************************************************)
EXTENDS Integers, FiniteSets, Maps

CONSTANTS
  Symbols, OrderIds,
  Prices,
  Volumes,       (* the volumes a message may carry                        *)
  MaxLevel,      (* bound on the volume aggregated at one price            *)
  MaxFailures    (* bound on bookBuildFailures                             *)

ASSUME BookAssumption ==
  /\ IsFiniteSet(OrderIds)
  /\ Prices \subseteq Nat
  /\ Volumes \subseteq Nat \ {0}
  /\ MaxLevel \in Nat
  /\ MaxFailures \in Nat

VARIABLES
  orders,            (* orders[s]: _orders, live orders by id              *)
  levels,            (* levels[s][side]: _bidLevels and _askLevels         *)
  bookBuildFailures, (* _bookBuildFailures                                 *)
  conforming         (* history: no live id of symbol s was given again    *)

bookVars == <<orders, levels, bookBuildFailures, conforming>>

(* 'B' is a bid; any other side is an ask.                                 *)
Sides == {"bid", "ask"}

LiveOrder == [price : Prices, volume : Nat \ {0}, side : Sides]

TypeOK ==
  /\ DOMAIN orders = Symbols /\ DOMAIN levels = Symbols
  /\ \A s \in Symbols :
       /\ IsMap(orders[s], OrderIds, LiveOrder)
       /\ DOMAIN levels[s] = Sides
       /\ \A side \in Sides : IsMap(levels[s][side], Prices, Nat)
  /\ bookBuildFailures \in Nat
  /\ conforming \in [Symbols -> BOOLEAN]

Init ==
  /\ orders = [s \in Symbols |-> Empty]
  /\ levels = [s \in Symbols |-> [side \in Sides |-> Empty]]
  /\ bookBuildFailures = 0
  /\ conforming = [s \in Symbols |-> TRUE]

-----------------------------------------------------------------------------
(* Price levels.  lv is the pair of maps of one symbol.                    *)

AddLevel(lv, side, price, volume) ==
  [lv EXCEPT ![side] = Put(@, price, CountAt(@, price) + volume)]

(* What makes RemoveLevel return true.                                     *)
CanRemove(lv, side, price, volume) ==
  /\ price \in DOMAIN lv[side]
  /\ lv[side][price] >= volume

(* Mutant: a level is erased by whichever removal finds it.                *)
RemoveWholeLevel(lv, side, price, volume) ==
  IF ~CanRemove(lv, side, price, volume) THEN lv
  ELSE [lv EXCEPT ![side] = Drop(@, price)]

RemoveLevel(lv, side, price, volume) ==
  IF ~CanRemove(lv, side, price, volume) THEN lv
  ELSE IF lv[side][price] = volume
    THEN [lv EXCEPT ![side] = Drop(@, price)]
    ELSE [lv EXCEPT ![side] = Put(@, price, @[price] - volume)]

FailureIf(b) == IF b THEN 1 ELSE 0

-----------------------------------------------------------------------------
(* The messages, for symbol s.                                             *)

Live(s, o) == o \in DOMAIN orders[s]

(* Modify, Delete and Execution stop at an id the book does not have.      *)
UnknownOrder(s, o) ==
  /\ ~Live(s, o)
  /\ bookBuildFailures' = bookBuildFailures + 1
  /\ UNCHANGED <<orders, levels, conforming>>

(* Id o of symbol s is given to an order, and was free if b.               *)
Given(s, b) == conforming' = [conforming EXCEPT ![s] = @ /\ b]

AddOrder(s, o, price, volume, side) ==
  /\ orders' = [orders EXCEPT ![s] =
       Put(@, o, [price |-> price, volume |-> volume, side |-> side])]
  /\ levels' = [levels EXCEPT ![s] = AddLevel(@, side, price, volume)]
  /\ Given(s, ~Live(s, o))
  /\ UNCHANGED bookBuildFailures

(* The book effect is that of Add Order, for an order that is live too.    *)
AddOrderRefresh(s, o, price, volume, side) ==
  AddOrder(s, o, price, volume, side)

(* The side of the message is ignored.                                     *)
ModifyOrder(s, o, price, volume) ==
  \/ UnknownOrder(s, o)
  \/ /\ Live(s, o)
     /\ LET old == orders[s][o]
        IN /\ orders' = [orders EXCEPT
                ![s][o] = [@ EXCEPT !.price = price, !.volume = volume]]
           /\ levels' = [levels EXCEPT ![s] =
                AddLevel(RemoveLevel(@, old.side, old.price, old.volume),
                         old.side, price, volume)]
           /\ bookBuildFailures' = bookBuildFailures +
                FailureIf(~CanRemove(levels[s], old.side, old.price,
                                     old.volume))
           /\ UNCHANGED conforming

DeleteOrder(s, o) ==
  \/ UnknownOrder(s, o)
  \/ /\ Live(s, o)
     /\ LET old == orders[s][o]
        IN /\ orders' = [orders EXCEPT ![s] = Drop(@, o)]
           /\ levels' = [levels EXCEPT ![s] =
                RemoveLevel(@, old.side, old.price, old.volume)]
           /\ bookBuildFailures' = bookBuildFailures +
                FailureIf(~CanRemove(levels[s], old.side, old.price,
                                     old.volume))
           /\ UNCHANGED conforming

(* Mutant: the level loses what was traded, not what was resting.          *)
ExecuteUnclipped(s, o, volume) ==
  \/ UnknownOrder(s, o)
  \/ /\ Live(s, o)
     /\ LET old == orders[s][o]
        IN /\ orders' = [orders EXCEPT ![s] =
                IF volume >= old.volume THEN Drop(@, o)
                ELSE [@ EXCEPT ![o].volume = @ - volume]]
           /\ levels' = [levels EXCEPT ![s] =
                RemoveLevel(@, old.side, old.price, volume)]
           /\ UNCHANGED <<bookBuildFailures, conforming>>

(* Mutant: an order traded to the last share stays, with nothing left.     *)
ExecuteLeavingEmpty(s, o, volume) ==
  \/ UnknownOrder(s, o)
  \/ /\ Live(s, o)
     /\ LET old == orders[s][o]
            executed == IF volume > old.volume THEN old.volume ELSE volume
        IN /\ orders' = [orders EXCEPT ![s][o].volume = @ - executed]
           /\ levels' = [levels EXCEPT ![s] =
                RemoveLevel(@, old.side, old.price, executed)]
           /\ UNCHANGED <<bookBuildFailures, conforming>>

(* An order traded to the last share, or past it, leaves the book.         *)
AfterExecution(m, o, volume) ==
  IF volume >= m[o].volume THEN Drop(m, o)
  ELSE [m EXCEPT ![o].volume = @ - volume]

(* The resting half of an Order Execution: the shares leave the level the  *)
(* order rests at, whatever the price of the execution.                    *)
OrderExecution(s, o, volume) ==
  \/ UnknownOrder(s, o)
  \/ /\ Live(s, o)
     /\ LET old == orders[s][o]
            executed == IF volume > old.volume THEN old.volume ELSE volume
        IN /\ orders' = [orders EXCEPT ![s] = AfterExecution(@, o, volume)]
           /\ levels' = [levels EXCEPT ![s] =
                RemoveLevel(@, old.side, old.price, executed)]
           /\ bookBuildFailures' = bookBuildFailures +
                FailureIf(~CanRemove(levels[s], old.side, old.price,
                                     executed))
           /\ UNCHANGED conforming

(* Mutant: the replaced order keeps its place.                             *)
ReplaceWithoutRemoval(s, o, n, price, volume, side) ==
  /\ orders' = [orders EXCEPT ![s] =
       Put(Drop(@, o), n,
           [price |-> price, volume |-> volume, side |-> side])]
  /\ levels' = [levels EXCEPT ![s] = AddLevel(@, side, price, volume)]
  /\ bookBuildFailures' = bookBuildFailures + FailureIf(~Live(s, o))
  /\ Given(s, n = o \/ ~Live(s, n))

(* An unknown order is a failure, and the new order is entered even so.    *)
ReplaceOrder(s, o, n, price, volume, side) ==
  LET new == [price |-> price, volume |-> volume, side |-> side]
      old == orders[s][o]
  IN /\ Given(s, n = o \/ ~Live(s, n))
     /\ \/ /\ ~Live(s, o)
           /\ orders' = [orders EXCEPT ![s] = Put(@, n, new)]
           /\ levels' = [levels EXCEPT ![s] =
                AddLevel(@, side, price, volume)]
           /\ bookBuildFailures' = bookBuildFailures + 1
        \/ /\ Live(s, o)
           /\ orders' = [orders EXCEPT ![s] = Put(Drop(@, o), n, new)]
           /\ levels' = [levels EXCEPT ![s] =
                AddLevel(RemoveLevel(@, old.side, old.price, old.volume),
                         side, price, volume)]
           /\ bookBuildFailures' = bookBuildFailures +
                FailureIf(~CanRemove(levels[s], old.side, old.price,
                                     old.volume))

-----------------------------------------------------------------------------
(* Messages about orders the book has or lacks, new ids aside.             *)
Amend(s, o) ==
  \/ DeleteOrder(s, o)
  \/ \E volume \in Volumes :
       \/ OrderExecution(s, o, volume)
       \/ \E price \in Prices : ModifyOrder(s, o, price, volume)

(* Messages that give an id to an order.                                   *)
Enter(s, o, price, volume, side) ==
  \/ AddOrder(s, o, price, volume, side)
  \/ AddOrderRefresh(s, o, price, volume, side)

WithinBounds ==
  /\ bookBuildFailures <= MaxFailures
  /\ \A s \in Symbols, side \in Sides :
       \A price \in DOMAIN levels[s][side] :
         levels[s][side][price] <= MaxLevel

Message(s) ==
  \/ \E o \in OrderIds : Amend(s, o)
  \/ \E o \in OrderIds, price \in Prices, volume \in Volumes, side \in Sides :
       \/ Enter(s, o, price, volume, side)
       \/ \E n \in OrderIds : ReplaceOrder(s, o, n, price, volume, side)

Next == (\E s \in Symbols : Message(s)) /\ WithinBounds'

Spec == Init /\ [][Next]_bookVars

(* A feed that never gives a live id again, except that it sends resting   *)
(* orders once more, as they are, in a refresh or a backup failover.       *)
RefreshLive(s) ==
  \E o \in DOMAIN orders[s] :
    LET order == orders[s][o]
    IN AddOrderRefresh(s, o, order.price, order.volume, order.side)

RefreshNext ==
  /\ \E s \in Symbols :
       \/ RefreshLive(s)
       \/ Message(s) /\ conforming' = conforming
  /\ WithinBounds'

RefreshSpec == Init /\ [][RefreshNext]_bookVars

-----------------------------------------------------------------------------
(* The shares resting at a price, one by one; their number is the volume   *)
(* the level should show.                                                  *)
OrdersAt(s, side, price) ==
  {o \in DOMAIN orders[s] :
     orders[s][o].side = side /\ orders[s][o].price = price}

Shares(s, side, price) ==
  UNION {{o} \X (1..orders[s][o].volume) : o \in OrdersAt(s, side, price)}

RestingVolume(s, side, price) == Cardinality(Shares(s, side, price))

(* Whatever ids the feed reuses and whatever messages were lost, a level   *)
(* shows at least the volume of the live orders at its price.              *)
LevelsCoverOrders ==
  \A s \in Symbols, side \in Sides, price \in Prices :
    CountAt(levels[s][side], price) >= RestingVolume(s, side, price)

(* Taking a live order off the book never fails for want of volume at its  *)
(* level, so that GetBookBuildFailures counts unknown ids and nothing else.*)
NoFalseAlarm ==
  \A s \in Symbols : \A o \in DOMAIN orders[s] :
    LET order == orders[s][o]
    IN CanRemove(levels[s], order.side, order.price, order.volume)

(* The levels are what recomputing them from the live orders would give.   *)
Matches(s) ==
  \A side \in Sides, price \in Prices :
    /\ price \in DOMAIN levels[s][side] <=> OrdersAt(s, side, price) # {}
    /\ CountAt(levels[s][side], price) = RestingVolume(s, side, price)

(* As long as no live id was given again, the levels, kept by increments   *)
(* through adds, modifies, partial executions and replacements, are those  *)
(* of the live orders: same prices, same volumes.                          *)
LevelsMatchOrders == \A s \in Symbols : conforming[s] => Matches(s)

(* A refresh, "sent for every order resting on the book", leaves a book    *)
(* that was right as right as it was.                                      *)
RefreshedLevelsMatch == \A s \in Symbols : Matches(s)

-----------------------------------------------------------------------------
(* GetTopOfBook: the first entry of each map, in the map's own order; the  *)
(* set of it, empty when there is none.                                    *)

(* Mutant: the bids are in the order of std::less too.                     *)
WorstBid(s) ==
  {p \in DOMAIN levels[s]["bid"] :
     \A q \in DOMAIN levels[s]["bid"] : p <= q}

BestBid(s) ==
  {p \in DOMAIN levels[s]["bid"] :
     \A q \in DOMAIN levels[s]["bid"] : p >= q}

BestAsk(s) ==
  {p \in DOMAIN levels[s]["ask"] :
     \A q \in DOMAIN levels[s]["ask"] : p <= q}

(* As long as no live id was given again, the best bid is a price some     *)
(* live bid is at and that no live bid is above, and it is missing when no *)
(* bid rests at all; likewise the best ask.                                *)
TopOfBookIsBestOrder ==
  \A s \in Symbols :
    LET PricesOf(side) == {orders[s][o].price :
                             o \in {x \in DOMAIN orders[s] :
                                      orders[s][x].side = side}}
    IN conforming[s] =>
       /\ BestBid(s) = {p \in PricesOf("bid") :
                          \A q \in PricesOf("bid") : q <= p}
       /\ BestAsk(s) = {p \in PricesOf("ask") :
                          \A q \in PricesOf("ask") : q >= p}

=============================================================================
