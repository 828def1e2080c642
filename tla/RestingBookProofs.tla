-------------------------- MODULE RestingBookProofs --------------------------
(***************************************************************************)
(* Theorems about RestingBook, for any symbols, any finite set of order    *)
(* ids, any prices and any volumes.                                        *)
(*                                                                         *)
(* Every handler takes an order off the book, enters one, or does first    *)
(* the one and then the other, so that two lemmas about the orders m and   *)
(* the levels lv of one symbol carry all of them.                          *)
(***************************************************************************)
EXTENDS RestingBook, FiniteSetTheorems, TLAPS

(* OrdersAt and Shares of RestingBook, for a map of orders.                *)
OrdersIn(m, side, price) ==
  {o \in DOMAIN m : m[o].side = side /\ m[o].price = price}

SharesIn(m, side, price) ==
  UNION {{o} \X (1..m[o].volume) : o \in OrdersIn(m, side, price)}

LevelTypes(lv) ==
  DOMAIN lv = Sides /\ \A side \in Sides : IsMap(lv[side], Prices, Nat)

BookTypes(m, lv) == IsMap(m, OrderIds, LiveOrder) /\ LevelTypes(lv)

(* A level is no less than the shares of its orders.                       *)
Covers(m, lv) ==
  \A side \in Sides, price \in Prices :
    /\ IsFiniteSet(SharesIn(m, side, price))
    /\ CountAt(lv[side], price) >= Cardinality(SharesIn(m, side, price))

(* A level is there for its orders, and is the sum of their shares.        *)
Exact(m, lv) ==
  \A side \in Sides, price \in Prices :
    /\ price \in DOMAIN lv[side] <=> OrdersIn(m, side, price) # {}
    /\ CountAt(lv[side], price) = Cardinality(SharesIn(m, side, price))

(* The inductive invariant.                                                *)
IInv ==
  /\ TypeOK
  /\ \A s \in Symbols :
       /\ Covers(orders[s], levels[s])
       /\ conforming[s] => Exact(orders[s], levels[s])

-----------------------------------------------------------------------------
(* Shares                                                                  *)

(* The shares of one order are as many as its volume says.                 *)
LEMMA OrderShares ==
  ASSUME NEW o, NEW v \in Nat
  PROVE  /\ IsFiniteSet({o} \X (1..v))
         /\ Cardinality({o} \X (1..v)) = v
<1> DEFINE f == [i \in 1..v |-> <<o, i>>]
<1>1. f \in Bijection(1..v, {o} \X (1..v))
  <2>1. f \in Injection(1..v, {o} \X (1..v))
    BY DEF Injection, IsInjective
  <2>2. f \in Surjection(1..v, {o} \X (1..v))
    <3>1. \A p \in {o} \X (1..v) : \E i \in 1..v : f[i] = p
      OBVIOUS
    <3>2. f \in [1..v -> {o} \X (1..v)]
      OBVIOUS
    <3>3. QED
      BY <3>1, <3>2 DEF Surjection
  <2>3. QED
    BY <2>1, <2>2 DEF Bijection
<1>2. ExistsBijection(1..v, {o} \X (1..v))
  BY <1>1 DEF ExistsBijection
<1>3. IsFiniteSet(1..v) /\ Cardinality(1..v) = v
  BY FS_Interval
<1>4. QED
  BY <1>2, <1>3, FS_Bijection

(* An order's shares are at its side and price, and nowhere else.          *)
LEMMA SharesOfOrder ==
  ASSUME NEW m, IsMap(m, OrderIds, LiveOrder), NEW o \in DOMAIN m,
         NEW side \in Sides, NEW price \in Prices
  PROVE  IF m[o].side = side /\ m[o].price = price
         THEN /\ SharesIn(m, side, price)
                   = SharesIn(Drop(m, o), side, price)
                       \cup ({o} \X (1..m[o].volume))
              /\ SharesIn(Drop(m, o), side, price)
                   \cap ({o} \X (1..m[o].volume)) = {}
         ELSE SharesIn(m, side, price) = SharesIn(Drop(m, o), side, price)
<1> DEFINE d == Drop(m, o)
<1>1. DOMAIN d = DOMAIN m \ {o} /\ \A x \in DOMAIN d : d[x] = m[x]
  BY DEF Drop
<1>2. OrdersIn(d, side, price) = OrdersIn(m, side, price) \ {o}
  BY <1>1 DEF OrdersIn
<1>3. \A x \in OrdersIn(d, side, price) : d[x].volume = m[x].volume
  BY <1>1 DEF OrdersIn
<1>4. SharesIn(d, side, price)
        = UNION {{x} \X (1..m[x].volume) : x \in OrdersIn(m, side, price) \ {o}}
  BY <1>2, <1>3 DEF SharesIn
<1>5. CASE m[o].side = side /\ m[o].price = price
  <2>1. o \in OrdersIn(m, side, price)
    BY <1>5 DEF OrdersIn
  <2>2. SharesIn(m, side, price)
          = SharesIn(d, side, price) \cup ({o} \X (1..m[o].volume))
    BY <1>4, <2>1 DEF SharesIn
  <2>3. SharesIn(d, side, price) \cap ({o} \X (1..m[o].volume)) = {}
    BY <1>4
  <2>4. QED
    BY <1>5, <2>2, <2>3
<1>6. CASE ~(m[o].side = side /\ m[o].price = price)
  <2>1. o \notin OrdersIn(m, side, price)
    BY <1>6 DEF OrdersIn
  <2>2. OrdersIn(m, side, price) \ {o} = OrdersIn(m, side, price)
    BY <2>1
  <2>3. SharesIn(m, side, price) = SharesIn(d, side, price)
    BY <1>4, <2>2 DEF SharesIn
  <2>4. QED
    BY <1>6, <2>3
<1>7. QED
  BY <1>5, <1>6

(* Taking an order off leaves finitely many shares, fewer by its volume.   *)
LEMMA SharesDropped ==
  ASSUME NEW m, IsMap(m, OrderIds, LiveOrder), NEW o \in DOMAIN m,
         NEW side \in Sides, NEW price \in Prices,
         IsFiniteSet(SharesIn(m, side, price))
         \/ IsFiniteSet(SharesIn(Drop(m, o), side, price))
  PROVE  /\ IsFiniteSet(SharesIn(Drop(m, o), side, price))
         /\ Cardinality(SharesIn(Drop(m, o), side, price)) \in Nat
         /\ IsFiniteSet(SharesIn(m, side, price))
         /\ Cardinality(SharesIn(m, side, price)) \in Nat
         /\ Cardinality(SharesIn(m, side, price)) =
              Cardinality(SharesIn(Drop(m, o), side, price))
              + IF m[o].side = side /\ m[o].price = price
                THEN m[o].volume ELSE 0
<1> DEFINE A == SharesIn(m, side, price)
           D == SharesIn(Drop(m, o), side, price)
           O == {o} \X (1..m[o].volume)
<1>1. m[o].volume \in Nat
  BY DEF IsMap, LiveOrder
<1>2. IsFiniteSet(O) /\ Cardinality(O) = m[o].volume
  BY <1>1, OrderShares
<1>3. CASE m[o].side = side /\ m[o].price = price
  <2>1. A = D \cup O /\ D \cap O = {}
    BY <1>3, SharesOfOrder
  <2> HIDE DEF A, D, O
  <2>2. IsFiniteSet(D)
    <3>1. CASE IsFiniteSet(A)
      BY <2>1, <3>1, FS_Subset
    <3>2. QED
      BY <3>1 DEF A, D
  <2>3. IsFiniteSet(A)
        /\ Cardinality(A) = Cardinality(D) + Cardinality(O) - Cardinality({})
    BY <1>2, <2>1, <2>2, FS_Union
  <2>4. Cardinality(D) \in Nat /\ Cardinality(A) \in Nat
    BY <2>2, <2>3, FS_CardinalityType
  <2>5. Cardinality(A) = Cardinality(D) + m[o].volume
    BY <1>1, <1>2, <2>3, <2>4, FS_EmptySet
  <2>6. QED
    BY <1>3, <2>2, <2>3, <2>4, <2>5 DEF A, D
<1>4. CASE ~(m[o].side = side /\ m[o].price = price)
  <2>1. A = D
    BY <1>4, SharesOfOrder
  <2>2. IsFiniteSet(A) /\ IsFiniteSet(D)
    BY <2>1
  <2>3. Cardinality(A) \in Nat /\ Cardinality(D) \in Nat
    BY <2>2, FS_CardinalityType
  <2>4. Cardinality(A) = Cardinality(D)
    BY <2>1
  <2> HIDE DEF A, D
  <2>5. Cardinality(A) = Cardinality(D) + 0
    BY <2>3, <2>4
  <2>6. QED
    BY <1>4, <2>2, <2>3, <2>5 DEF A, D
<1>5. QED
  BY <1>3, <1>4

(* No order is without shares.                                             *)
LEMMA OrdersHaveShares ==
  ASSUME NEW m, IsMap(m, OrderIds, LiveOrder), NEW side, NEW price
  PROVE  OrdersIn(m, side, price) = {} <=> SharesIn(m, side, price) = {}
<1>1. ASSUME NEW o \in OrdersIn(m, side, price)
      PROVE  <<o, 1>> \in SharesIn(m, side, price)
  <2>1. m[o].volume \in Nat \ {0}
    BY DEF OrdersIn, IsMap, LiveOrder
  <2>2. <<o, 1>> \in {o} \X (1..m[o].volume)
    BY <2>1
  <2>3. QED
    BY <2>2 DEF SharesIn
<1>2. OrdersIn(m, side, price) = {} => SharesIn(m, side, price) = {}
  BY DEF SharesIn
<1>3. QED
  BY <1>1, <1>2

-----------------------------------------------------------------------------
(* Levels                                                                  *)

(* Adding to a level makes it, if need be, and adds there and only there.  *)
LEMMA AddedLevel ==
  ASSUME NEW lv, LevelTypes(lv),
         NEW side \in Sides, NEW price \in Prices, NEW v \in Nat
  PROVE  /\ LevelTypes(AddLevel(lv, side, price, v))
         /\ \A sd \in Sides, p \in Prices :
              /\ CountAt(AddLevel(lv, side, price, v)[sd], p)
                   = CountAt(lv[sd], p)
                     + IF sd = side /\ p = price THEN v ELSE 0
              /\ p \in DOMAIN AddLevel(lv, side, price, v)[sd]
                   <=> p \in DOMAIN lv[sd] \/ (sd = side /\ p = price)
<1> DEFINE new == AddLevel(lv, side, price, v)
<1>1. DOMAIN new = Sides
  BY DEF AddLevel, LevelTypes
<1>2. new[side] = Put(lv[side], price, CountAt(lv[side], price) + v)
  BY DEF AddLevel, LevelTypes
<1>3. \A sd \in Sides : sd # side => new[sd] = lv[sd]
  BY DEF AddLevel, LevelTypes
<1>4. \A sd \in Sides, p \in Prices : CountAt(lv[sd], p) \in Nat
  BY DEF LevelTypes, IsMap, CountAt
<1>5. IsMap(new[side], Prices, Nat)
  BY <1>2, <1>4 DEF Put, IsMap, LevelTypes
<1>6. LevelTypes(new)
  BY <1>1, <1>3, <1>5 DEF LevelTypes
<1>7. \A p \in Prices :
        /\ CountAt(new[side], p)
             = CountAt(lv[side], p) + IF p = price THEN v ELSE 0
        /\ p \in DOMAIN new[side] <=> p \in DOMAIN lv[side] \/ p = price
  BY <1>2, <1>4 DEF Put, CountAt
<1>8. QED
  BY <1>3, <1>4, <1>6, <1>7

(* Removing from a level that has enough takes off there and only there,   *)
(* and takes the level with the last share of it.                          *)
LEMMA RemovedLevel ==
  ASSUME NEW lv, LevelTypes(lv),
         NEW side \in Sides, NEW price \in Prices, NEW v \in Nat,
         CanRemove(lv, side, price, v)
  PROVE  /\ LevelTypes(RemoveLevel(lv, side, price, v))
         /\ \A sd \in Sides, p \in Prices :
              /\ CountAt(RemoveLevel(lv, side, price, v)[sd], p)
                   = CountAt(lv[sd], p)
                     - IF sd = side /\ p = price THEN v ELSE 0
              /\ p \in DOMAIN RemoveLevel(lv, side, price, v)[sd]
                   <=> /\ p \in DOMAIN lv[sd]
                       /\ ~(sd = side /\ p = price /\ CountAt(lv[sd], p) = v)
<1> DEFINE new == RemoveLevel(lv, side, price, v)
           l == lv[side]
<1>1. /\ DOMAIN new = Sides
      /\ \A sd \in Sides : sd # side => new[sd] = lv[sd]
  BY DEF RemoveLevel, LevelTypes
<1>2. IsMap(l, Prices, Nat) /\ price \in DOMAIN l /\ l[price] >= v
  BY DEF LevelTypes, CanRemove
<1>3. \A sd \in Sides, p \in Prices : CountAt(lv[sd], p) \in Nat
  BY DEF LevelTypes, IsMap, CountAt
<1>4. new[side] = IF l[price] = v THEN Drop(l, price)
                  ELSE Put(l, price, l[price] - v)
  BY DEF RemoveLevel, LevelTypes
<1>5. /\ IsMap(new[side], Prices, Nat)
      /\ \A p \in Prices :
           /\ CountAt(new[side], p)
                = CountAt(l, p) - IF p = price THEN v ELSE 0
           /\ p \in DOMAIN new[side]
                <=> p \in DOMAIN l /\ ~(p = price /\ CountAt(l, p) = v)
  <2> HIDE DEF new, l
  <2>0. l[price] \in Nat
    BY <1>2 DEF IsMap
  <2>1. CASE l[price] = v
    <3>1. new[side] = Drop(l, price)
      BY <1>4, <2>1
    <3>2. IsMap(new[side], Prices, Nat)
      BY <1>2, <3>1 DEF Drop, IsMap
    <3>3. ASSUME NEW p \in Prices
          PROVE  /\ CountAt(new[side], p)
                      = CountAt(l, p) - IF p = price THEN v ELSE 0
                 /\ p \in DOMAIN new[side]
                      <=> p \in DOMAIN l /\ ~(p = price /\ CountAt(l, p) = v)
      BY <1>2, <2>1, <3>1 DEF Drop, CountAt, IsMap
    <3>4. QED
      BY <3>2, <3>3
  <2>2. CASE l[price] # v
    <3>1. new[side] = Put(l, price, l[price] - v)
      BY <1>4, <2>2
    <3>2. l[price] - v \in Nat
      BY <1>2, <2>0
    <3>3. IsMap(new[side], Prices, Nat)
      BY <1>2, <3>1, <3>2 DEF Put, IsMap
    <3>4. ASSUME NEW p \in Prices
          PROVE  /\ CountAt(new[side], p)
                      = CountAt(l, p) - IF p = price THEN v ELSE 0
                 /\ p \in DOMAIN new[side]
                      <=> p \in DOMAIN l /\ ~(p = price /\ CountAt(l, p) = v)
      BY <1>2, <2>2, <3>1, <3>2 DEF Put, CountAt, IsMap
    <3>5. QED
      BY <3>3, <3>4
  <2>3. QED
    BY <2>1, <2>2
<1>6. LevelTypes(new)
  BY <1>1, <1>5 DEF LevelTypes
<1>7. QED
  BY <1>1, <1>3, <1>5, <1>6

-----------------------------------------------------------------------------
(* Taking an order off, and entering one                                   *)

(* A live order's level has at least its volume.                           *)
LEMMA OrderIsCovered ==
  ASSUME NEW m, NEW lv, BookTypes(m, lv), Covers(m, lv), NEW o \in DOMAIN m
  PROVE  CanRemove(lv, m[o].side, m[o].price, m[o].volume)
<1> DEFINE side == m[o].side
           price == m[o].price
<1>1. side \in Sides /\ price \in Prices /\ m[o].volume \in Nat \ {0}
  BY DEF BookTypes, IsMap, LiveOrder
<1>2. IsFiniteSet(SharesIn(m, side, price))
      /\ CountAt(lv[side], price) >= Cardinality(SharesIn(m, side, price))
  BY <1>1 DEF Covers
<1>3. IsMap(m, OrderIds, LiveOrder)
  BY DEF BookTypes
<1>4. /\ Cardinality(SharesIn(Drop(m, o), side, price)) \in Nat
      /\ Cardinality(SharesIn(m, side, price)) \in Nat
      /\ Cardinality(SharesIn(m, side, price)) =
           Cardinality(SharesIn(Drop(m, o), side, price)) + m[o].volume
  BY <1>1, <1>2, <1>3, SharesDropped
<1>5. CountAt(lv[side], price) \in Nat
  BY <1>1 DEF BookTypes, LevelTypes, IsMap, CountAt
<1>6. CountAt(lv[side], price) >= m[o].volume
  BY <1>1, <1>2, <1>4, <1>5
<1>7. price \in DOMAIN lv[side] /\ lv[side][price] >= m[o].volume
  BY <1>1, <1>6 DEF CountAt
<1>8. QED
  BY <1>7 DEF CanRemove

LEMMA RemoveOrder ==
  ASSUME NEW m, NEW lv, BookTypes(m, lv), Covers(m, lv), NEW o \in DOMAIN m,
         NEW new, new = RemoveLevel(lv, m[o].side, m[o].price, m[o].volume)
  PROVE  /\ BookTypes(Drop(m, o), new)
         /\ Covers(Drop(m, o), new)
         /\ Exact(m, lv) => Exact(Drop(m, o), new)
<1> DEFINE side == m[o].side
           price == m[o].price
           v == m[o].volume
           d == Drop(m, o)
           At(sd, p) == sd = side /\ p = price
<1>1. /\ side \in Sides /\ price \in Prices
      /\ v \in Nat \ {0}
      /\ IsMap(m, OrderIds, LiveOrder) /\ LevelTypes(lv)
  BY DEF BookTypes, IsMap, LiveOrder
<1>2. CanRemove(lv, side, price, v)
  BY OrderIsCovered
<1>3. IsMap(d, OrderIds, LiveOrder)
  BY <1>1 DEF Drop, IsMap
<1>4. LevelTypes(new)
  BY <1>1, <1>2, RemovedLevel
<1>5. ASSUME NEW sd \in Sides, NEW p \in Prices
      PROVE  /\ IsFiniteSet(SharesIn(d, sd, p))
             /\ CountAt(new[sd], p) >= Cardinality(SharesIn(d, sd, p))
             /\ Exact(m, lv) =>
                  /\ p \in DOMAIN new[sd] <=> OrdersIn(d, sd, p) # {}
                  /\ CountAt(new[sd], p) = Cardinality(SharesIn(d, sd, p))
  <2> DEFINE c == CountAt(lv[sd], p)
             a == Cardinality(SharesIn(m, sd, p))
             b == Cardinality(SharesIn(d, sd, p))
  <2>1. c \in Nat
    BY <1>1 DEF LevelTypes, IsMap, CountAt
  <2>2. IsFiniteSet(SharesIn(m, sd, p)) /\ c >= a
    BY DEF Covers
  <2>3. /\ IsFiniteSet(SharesIn(d, sd, p))
        /\ a \in Nat /\ b \in Nat
        /\ a = b + IF At(sd, p) THEN v ELSE 0
    BY <1>1, <2>2, SharesDropped
  <2>4. /\ CountAt(new[sd], p) = c - IF At(sd, p) THEN v ELSE 0
        /\ p \in DOMAIN new[sd] <=> p \in DOMAIN lv[sd] /\ ~(At(sd, p) /\ c = v)
    BY <1>1, <1>2, RemovedLevel
  <2>5. b = 0 <=> OrdersIn(d, sd, p) = {}
    BY <1>3, <2>3, OrdersHaveShares, FS_EmptySet
  <2>6. a = 0 <=> OrdersIn(m, sd, p) = {}
    BY <1>1, <2>2, OrdersHaveShares, FS_EmptySet
  <2>7. Exact(m, lv) =>
          (p \in DOMAIN lv[sd] <=> OrdersIn(m, sd, p) # {}) /\ c = a
    BY DEF Exact
  <2> HIDE DEF a, b, c, v, At
  <2>8. v \in Nat \ {0}
    BY <1>1
  <2>9. CountAt(new[sd], p) >= b
    BY <2>1, <2>2, <2>3, <2>4, <2>8
  <2>10. ASSUME Exact(m, lv)
         PROVE  /\ p \in DOMAIN new[sd] <=> OrdersIn(d, sd, p) # {}
                /\ CountAt(new[sd], p) = b
    BY <2>1, <2>3, <2>4, <2>5, <2>6, <2>7, <2>8, <2>10
  <2>11. QED
    BY <2>3, <2>9, <2>10 DEF b
<1>6. QED
  BY <1>3, <1>4, <1>5 DEF BookTypes, Covers, Exact

LEMMA EnterOrder ==
  ASSUME NEW m, NEW lv, BookTypes(m, lv), Covers(m, lv),
         NEW o \in OrderIds, NEW x \in LiveOrder,
         NEW new, new = AddLevel(lv, x.side, x.price, x.volume)
  PROVE  /\ BookTypes(Put(m, o, x), new)
         /\ Covers(Put(m, o, x), new)
         /\ Exact(m, lv) /\ o \notin DOMAIN m => Exact(Put(m, o, x), new)
<1> DEFINE side == x.side
           price == x.price
           v == x.volume
           q == Put(m, o, x)
           d == Drop(q, o)
           At(sd, p) == sd = side /\ p = price
<1>1. /\ side \in Sides /\ price \in Prices
      /\ v \in Nat \ {0}
      /\ IsMap(m, OrderIds, LiveOrder) /\ LevelTypes(lv)
  BY DEF BookTypes, LiveOrder
<1>2. IsMap(q, OrderIds, LiveOrder)
  BY <1>1 DEF Put, IsMap
<1>3. LevelTypes(new)
  BY <1>1, AddedLevel
<1>4. o \in DOMAIN q /\ q[o] = x
  BY DEF Put
<1>5. d = IF o \in DOMAIN m THEN Drop(m, o) ELSE m
  <2>1. /\ DOMAIN d = DOMAIN m \ {o}
        /\ \A y \in DOMAIN m \ {o} : d[y] = m[y]
        /\ d = [y \in DOMAIN d |-> d[y]]
    BY DEF Put, Drop
  <2>2. Drop(m, o) = [y \in DOMAIN m \ {o} |-> m[y]]
    BY DEF Drop
  <2>3. d = [y \in DOMAIN m \ {o} |-> m[y]]
    BY <2>1
  <2>4. o \notin DOMAIN m => d = m
    BY <1>1, <2>3 DEF IsMap
  <2>5. QED
    BY <2>2, <2>3, <2>4
<1>6. ASSUME NEW sd \in Sides, NEW p \in Prices
      PROVE  /\ IsFiniteSet(SharesIn(q, sd, p))
             /\ CountAt(new[sd], p) >= Cardinality(SharesIn(q, sd, p))
             /\ Exact(m, lv) /\ o \notin DOMAIN m =>
                  /\ p \in DOMAIN new[sd] <=> OrdersIn(q, sd, p) # {}
                  /\ CountAt(new[sd], p) = Cardinality(SharesIn(q, sd, p))
  <2> DEFINE c == CountAt(lv[sd], p)
             a == Cardinality(SharesIn(m, sd, p))
             b == Cardinality(SharesIn(d, sd, p))
             e == Cardinality(SharesIn(q, sd, p))
  <2>1. c \in Nat
    BY <1>1 DEF LevelTypes, IsMap, CountAt
  <2>2. IsFiniteSet(SharesIn(m, sd, p)) /\ c >= a
    BY DEF Covers
  <2>3. a \in Nat
    BY <2>2, FS_CardinalityType
  <2>4. /\ IsFiniteSet(SharesIn(d, sd, p))
        /\ b \in Nat /\ b <= a
        /\ o \notin DOMAIN m => b = a
    <3>1. CASE o \in DOMAIN m
      <4>1. /\ IsFiniteSet(SharesIn(Drop(m, o), sd, p))
            /\ Cardinality(SharesIn(Drop(m, o), sd, p)) \in Nat
            /\ a = Cardinality(SharesIn(Drop(m, o), sd, p))
                   + IF m[o].side = sd /\ m[o].price = p
                     THEN m[o].volume ELSE 0
        BY <1>1, <2>2, <3>1, SharesDropped
      <4>2. m[o].volume \in Nat
        BY <1>1, <3>1 DEF IsMap, LiveOrder
      <4>3. d = Drop(m, o)
        BY <1>5, <3>1
      <4> HIDE DEF d, a
      <4>4. QED
        BY <2>3, <3>1, <4>1, <4>2, <4>3
    <3>2. CASE o \notin DOMAIN m
      <4>1. d = m
        BY <1>5, <3>2
      <4> HIDE DEF d
      <4>2. QED
        BY <2>2, <2>3, <3>2, <4>1
    <3>3. QED
      BY <3>1, <3>2
  <2>5. /\ IsFiniteSet(SharesIn(q, sd, p))
        /\ e \in Nat
        /\ e = b + IF At(sd, p) THEN v ELSE 0
    BY <1>2, <1>4, <2>4, SharesDropped
  <2>6. /\ CountAt(new[sd], p) = c + IF At(sd, p) THEN v ELSE 0
        /\ p \in DOMAIN new[sd] <=> p \in DOMAIN lv[sd] \/ At(sd, p)
    BY <1>1, AddedLevel
  <2>7. e = 0 <=> OrdersIn(q, sd, p) = {}
    BY <1>2, <2>5, OrdersHaveShares, FS_EmptySet
  <2>8. a = 0 <=> OrdersIn(m, sd, p) = {}
    BY <1>1, <2>2, OrdersHaveShares, FS_EmptySet
  <2>9. Exact(m, lv) =>
          (p \in DOMAIN lv[sd] <=> OrdersIn(m, sd, p) # {}) /\ c = a
    BY DEF Exact
  <2>10. v \in Nat \ {0}
    BY <1>1
  <2> HIDE DEF a, b, c, e, v, At
  <2>11. CountAt(new[sd], p) >= e
    BY <2>1, <2>2, <2>3, <2>4, <2>5, <2>6, <2>10
  <2>12. ASSUME Exact(m, lv), o \notin DOMAIN m
         PROVE  /\ p \in DOMAIN new[sd] <=> OrdersIn(q, sd, p) # {}
                /\ CountAt(new[sd], p) = e
    BY <2>1, <2>3, <2>4, <2>5, <2>6, <2>7, <2>8, <2>9, <2>10, <2>12
  <2>13. QED
    BY <2>5, <2>11, <2>12 DEF e
<1>7. QED
  BY <1>2, <1>3, <1>6 DEF BookTypes, Covers, Exact

(* A changed order is the old one taken off and the new one entered.       *)
LEMMA ChangedOrder ==
  ASSUME NEW m, NEW o \in DOMAIN m, NEW x
  PROVE  [m EXCEPT ![o] = x] = Put(Drop(m, o), o, x)
BY DEF Put, Drop

(* Taking v off a level is taking w off and putting back the difference.   *)
LEMMA RemovedPart ==
  ASSUME NEW lv, LevelTypes(lv), NEW side \in Sides, NEW price \in Prices,
         NEW w \in Nat, NEW v \in Nat, v < w, CanRemove(lv, side, price, w)
  PROVE  RemoveLevel(lv, side, price, v)
           = AddLevel(RemoveLevel(lv, side, price, w), side, price, w - v)
<1> DEFINE l == lv[side]
           part == Put(l, price, l[price] - v)
           rest == IF l[price] = w THEN Drop(l, price)
                   ELSE Put(l, price, l[price] - w)
<1>1. price \in DOMAIN l /\ l[price] \in Nat /\ l[price] >= w
  BY DEF CanRemove, LevelTypes, IsMap
<1>2. RemoveLevel(lv, side, price, v) = [lv EXCEPT ![side] = part]
  BY <1>1 DEF RemoveLevel, CanRemove
<1>3. RemoveLevel(lv, side, price, w) = [lv EXCEPT ![side] = rest]
  BY <1>1 DEF RemoveLevel, CanRemove
<1>4. Put(rest, price, CountAt(rest, price) + (w - v)) = part
  <2>1. CASE l[price] = w
    <3>1. rest = [x \in DOMAIN l \ {price} |-> l[x]]
      BY <2>1 DEF Drop
    <3>2. CountAt(rest, price) + (w - v) = l[price] - v
      BY <1>1, <2>1, <3>1 DEF CountAt
    <3>3. Put(rest, price, l[price] - v) = part
      BY <1>1, <3>1 DEF Put
    <3>4. QED
      BY <3>2, <3>3
  <2>2. CASE l[price] # w
    <3>1. rest = Put(l, price, l[price] - w)
      BY <2>2
    <3>2. DOMAIN rest = DOMAIN l /\ rest[price] = l[price] - w
          /\ \A x \in DOMAIN l : x # price => rest[x] = l[x]
      BY <1>1, <3>1 DEF Put
    <3>3. CountAt(rest, price) + (w - v) = l[price] - v
      BY <1>1, <3>2 DEF CountAt
    <3> HIDE DEF rest
    <3>4. Put(rest, price, l[price] - v) = part
      BY <1>1, <3>2 DEF Put
    <3>5. QED
      BY <3>3, <3>4
  <2>3. QED
    BY <2>1, <2>2
<1>5. AddLevel([lv EXCEPT ![side] = rest], side, price, w - v)
        = [lv EXCEPT ![side] = Put(rest, price, CountAt(rest, price) + (w - v))]
  <2> HIDE DEF rest
  <2>1. QED
    BY DEF AddLevel, LevelTypes
<1>6. QED
  BY <1>2, <1>3, <1>4, <1>5

-----------------------------------------------------------------------------
(* The handlers                                                            *)

LEMMA TypesOfBook ==
  ASSUME IInv, NEW s \in Symbols
  PROVE  BookTypes(orders[s], levels[s]) /\ Covers(orders[s], levels[s])
BY DEF IInv, TypeOK, BookTypes, LevelTypes

(* A handler that leaves its own symbol right leaves all symbols right.    *)
LEMMA SymbolStep ==
  ASSUME IInv, NEW s \in Symbols, NEW m, NEW lv, NEW c \in BOOLEAN,
         orders' = [orders EXCEPT ![s] = m],
         levels' = [levels EXCEPT ![s] = lv],
         conforming' = [conforming EXCEPT ![s] = c],
         bookBuildFailures' \in Nat,
         BookTypes(m, lv), Covers(m, lv), c => Exact(m, lv)
  PROVE  IInv'
<1>1. DOMAIN orders = Symbols /\ DOMAIN levels = Symbols
      /\ conforming \in [Symbols -> BOOLEAN]
  BY DEF IInv, TypeOK
<1>2. /\ orders'[s] = m /\ levels'[s] = lv /\ conforming'[s] = c
      /\ \A r \in Symbols : r # s =>
           /\ orders'[r] = orders[r] /\ levels'[r] = levels[r]
           /\ conforming'[r] = conforming[r]
  BY <1>1
<1>3. TypeOK'
  <2>1. /\ DOMAIN orders' = Symbols /\ DOMAIN levels' = Symbols
        /\ conforming' \in [Symbols -> BOOLEAN]
    BY <1>1
  <2>2. ASSUME NEW r \in Symbols
        PROVE  /\ IsMap(orders'[r], OrderIds, LiveOrder)
               /\ DOMAIN levels'[r] = Sides
               /\ \A side \in Sides : IsMap(levels'[r][side], Prices, Nat)
    BY <1>2 DEF IInv, TypeOK, BookTypes, LevelTypes
  <2>3. QED
    BY <2>1, <2>2 DEF TypeOK
<1>4. ASSUME NEW r \in Symbols
      PROVE  /\ Covers(orders'[r], levels'[r])
             /\ conforming'[r] => Exact(orders'[r], levels'[r])
  BY <1>2 DEF IInv
<1>5. QED
  BY <1>3, <1>4 DEF IInv

LEMMA FailureNat ==
  ASSUME IInv, NEW b
  PROVE  bookBuildFailures + FailureIf(b) \in Nat
BY DEF IInv, TypeOK, FailureIf

LEMMA AddStep ==
  ASSUME IInv, NEW s \in Symbols, NEW o \in OrderIds, NEW price \in Prices,
         NEW volume \in Volumes, NEW side \in Sides,
         AddOrder(s, o, price, volume, side)
  PROVE  IInv'
<1> DEFINE x == [price |-> price, volume |-> volume, side |-> side]
           m == Put(orders[s], o, x)
           lv == AddLevel(levels[s], side, price, volume)
           c == conforming[s] /\ ~Live(s, o)
<1>1. /\ orders' = [orders EXCEPT ![s] = m]
      /\ levels' = [levels EXCEPT ![s] = lv]
      /\ conforming' = [conforming EXCEPT ![s] = c]
      /\ bookBuildFailures' \in Nat
  BY DEF AddOrder, Given, IInv, TypeOK
<1>2. x \in LiveOrder
  BY BookAssumption DEF LiveOrder
<1>3. BookTypes(orders[s], levels[s]) /\ Covers(orders[s], levels[s])
  BY TypesOfBook
<1>4. /\ BookTypes(m, lv) /\ Covers(m, lv)
      /\ Exact(orders[s], levels[s]) /\ o \notin DOMAIN orders[s]
         => Exact(m, lv)
  BY <1>2, <1>3, EnterOrder
<1>5. c \in BOOLEAN /\ (c => Exact(m, lv))
  BY <1>4 DEF IInv, TypeOK, Live
<1> HIDE DEF m, lv, c
<1>6. QED
  BY <1>1, <1>4, <1>5, SymbolStep

LEMMA UnknownStep ==
  ASSUME IInv, NEW s, NEW o, UnknownOrder(s, o)
  PROVE  IInv'
BY DEF UnknownOrder, IInv, TypeOK

LEMMA DeleteStep ==
  ASSUME IInv, NEW s \in Symbols, NEW o, DeleteOrder(s, o)
  PROVE  IInv'
<1>1. CASE UnknownOrder(s, o)
  BY <1>1, UnknownStep
<1>2. CASE ~UnknownOrder(s, o)
  <2> DEFINE old == orders[s][o]
             m == Drop(orders[s], o)
             lv == RemoveLevel(levels[s], old.side, old.price, old.volume)
             c == conforming[s]
  <2>1. /\ o \in DOMAIN orders[s]
        /\ orders' = [orders EXCEPT ![s] = m]
        /\ levels' = [levels EXCEPT ![s] = lv]
        /\ bookBuildFailures' = bookBuildFailures +
             FailureIf(~CanRemove(levels[s], old.side, old.price, old.volume))
        /\ UNCHANGED conforming
    BY <1>2 DEF DeleteOrder, Live
  <2>2. conforming' = [conforming EXCEPT ![s] = c] /\ c \in BOOLEAN
    BY <2>1 DEF IInv, TypeOK
  <2>3. bookBuildFailures' \in Nat
    BY <2>1, FailureNat
  <2>4. BookTypes(orders[s], levels[s]) /\ Covers(orders[s], levels[s])
    BY TypesOfBook
  <2>5. /\ BookTypes(m, lv) /\ Covers(m, lv)
        /\ Exact(orders[s], levels[s]) => Exact(m, lv)
    BY <2>1, <2>4, RemoveOrder
  <2>6. c => Exact(m, lv)
    BY <2>5 DEF IInv
  <2> HIDE DEF m, lv, c
  <2>7. QED
    BY <2>1, <2>2, <2>3, <2>5, <2>6, SymbolStep
<1>3. QED
  BY <1>1, <1>2

(* A live order taken off and the same or another entered, as Modify, a    *)
(* partial Execution and Replace do.                                       *)
LEMMA ExchangeOrder ==
  ASSUME NEW m, NEW lv, BookTypes(m, lv), Covers(m, lv), NEW o \in DOMAIN m,
         NEW n \in OrderIds, NEW x \in LiveOrder
  PROVE  LET without == RemoveLevel(lv, m[o].side, m[o].price, m[o].volume)
             new == AddLevel(without, x.side, x.price, x.volume)
         IN /\ BookTypes(Put(Drop(m, o), n, x), new)
            /\ Covers(Put(Drop(m, o), n, x), new)
            /\ Exact(m, lv) /\ (n = o \/ n \notin DOMAIN m)
                 => Exact(Put(Drop(m, o), n, x), new)
<1> DEFINE without == RemoveLevel(lv, m[o].side, m[o].price, m[o].volume)
           new == AddLevel(without, x.side, x.price, x.volume)
           d == Drop(m, o)
<1>1. /\ BookTypes(d, without) /\ Covers(d, without)
      /\ Exact(m, lv) => Exact(d, without)
  BY RemoveOrder
<1>2. n = o \/ n \notin DOMAIN m => n \notin DOMAIN d
  BY DEF Drop
<1> HIDE DEF without, d
<1>3. /\ BookTypes(Put(d, n, x), new)
      /\ Covers(Put(d, n, x), new)
      /\ Exact(d, without) /\ n \notin DOMAIN d => Exact(Put(d, n, x), new)
  BY <1>1, EnterOrder
<1>4. QED
  BY <1>1, <1>2, <1>3 DEF without, d

LEMMA ModifyStep ==
  ASSUME IInv, NEW s \in Symbols, NEW o, NEW price \in Prices,
         NEW volume \in Volumes, ModifyOrder(s, o, price, volume)
  PROVE  IInv'
<1>1. CASE UnknownOrder(s, o)
  BY <1>1, UnknownStep
<1>2. CASE ~UnknownOrder(s, o)
  <2> DEFINE old == orders[s][o]
             x == [old EXCEPT !.price = price, !.volume = volume]
             m == Put(Drop(orders[s], o), o, x)
             lv == AddLevel(RemoveLevel(levels[s], old.side, old.price,
                                        old.volume),
                            x.side, x.price, x.volume)
             c == conforming[s]
  <2>1. /\ o \in DOMAIN orders[s]
        /\ orders' = [orders EXCEPT ![s] = [@ EXCEPT ![o] = x]]
        /\ levels' = [levels EXCEPT ![s] =
             AddLevel(RemoveLevel(@, old.side, old.price, old.volume),
                      old.side, price, volume)]
        /\ bookBuildFailures' = bookBuildFailures +
             FailureIf(~CanRemove(levels[s], old.side, old.price, old.volume))
        /\ UNCHANGED conforming
    BY <1>2 DEF ModifyOrder, Live
  <2>2. BookTypes(orders[s], levels[s]) /\ Covers(orders[s], levels[s])
    BY TypesOfBook
  <2>3. old \in LiveOrder /\ o \in OrderIds
    BY <2>1, <2>2 DEF BookTypes, IsMap
  <2>4. /\ x \in LiveOrder /\ x.side = old.side
        /\ x.price = price /\ x.volume = volume
    BY <2>3, BookAssumption DEF LiveOrder
  <2>5. orders' = [orders EXCEPT ![s] = m]
    <3>1. orders' = [orders EXCEPT ![s] = [orders[s] EXCEPT ![o] = x]]
      BY <2>1
    <3>2. [orders[s] EXCEPT ![o] = x] = m
      BY <2>1, ChangedOrder
    <3> HIDE DEF m, x
    <3>3. QED
      BY <3>1, <3>2
  <2>6. levels' = [levels EXCEPT ![s] = lv]
    BY <2>1, <2>4
  <2>7. conforming' = [conforming EXCEPT ![s] = c] /\ c \in BOOLEAN
    BY <2>1 DEF IInv, TypeOK
  <2>8. bookBuildFailures' \in Nat
    BY <2>1, FailureNat
  <2>9. /\ BookTypes(m, lv) /\ Covers(m, lv)
        /\ Exact(orders[s], levels[s]) => Exact(m, lv)
    BY <2>1, <2>2, <2>3, <2>4, ExchangeOrder
  <2>10. c => Exact(m, lv)
    BY <2>9 DEF IInv
  <2> HIDE DEF m, lv, c
  <2>11. QED
    BY <2>5, <2>6, <2>7, <2>8, <2>9, <2>10, SymbolStep
<1>3. QED
  BY <1>1, <1>2

LEMMA ExecutionStep ==
  ASSUME IInv, NEW s \in Symbols, NEW o, NEW volume \in Volumes,
         OrderExecution(s, o, volume)
  PROVE  IInv'
<1>1. CASE UnknownOrder(s, o)
  BY <1>1, UnknownStep
<1>2. CASE ~UnknownOrder(s, o)
  <2> DEFINE old == orders[s][o]
             executed == IF volume > old.volume THEN old.volume ELSE volume
             x == [old EXCEPT !.volume = @ - volume]
             m == IF volume >= old.volume THEN Drop(orders[s], o)
                  ELSE Put(Drop(orders[s], o), o, x)
             lv == RemoveLevel(levels[s], old.side, old.price, executed)
             c == conforming[s]
  <2>1. /\ o \in DOMAIN orders[s]
        /\ orders' = [orders EXCEPT ![s] = AfterExecution(@, o, volume)]
        /\ levels' = [levels EXCEPT ![s] = lv]
        /\ bookBuildFailures' = bookBuildFailures +
             FailureIf(~CanRemove(levels[s], old.side, old.price, executed))
        /\ UNCHANGED conforming
    BY <1>2 DEF OrderExecution, Live
  <2>2. BookTypes(orders[s], levels[s]) /\ Covers(orders[s], levels[s])
    BY TypesOfBook
  <2>3. /\ old \in LiveOrder /\ o \in OrderIds
        /\ volume \in Nat \ {0} /\ old.volume \in Nat \ {0}
        /\ old.side \in Sides /\ old.price \in Prices
    BY <2>1, <2>2, BookAssumption DEF BookTypes, IsMap, LiveOrder
  <2>4. orders' = [orders EXCEPT ![s] = m]
    <3>1. AfterExecution(orders[s], o, volume) = m
      <4>1. CASE volume >= old.volume
        BY <4>1 DEF AfterExecution
      <4>2. CASE ~(volume >= old.volume)
        <5>1. AfterExecution(orders[s], o, volume)
                = [orders[s] EXCEPT ![o] = x]
          BY <4>2 DEF AfterExecution
        <5>2. [orders[s] EXCEPT ![o] = x] = Put(Drop(orders[s], o), o, x)
          BY <2>1, ChangedOrder
        <5> HIDE DEF x
        <5>3. QED
          BY <4>2, <5>1, <5>2
      <4>3. QED
        BY <4>1, <4>2
    <3> HIDE DEF m
    <3>2. QED
      BY <2>1, <3>1
  <2>5. conforming' = [conforming EXCEPT ![s] = c] /\ c \in BOOLEAN
    BY <2>1 DEF IInv, TypeOK
  <2>6. bookBuildFailures' \in Nat
    BY <2>1, FailureNat
  <2>7. /\ BookTypes(m, lv) /\ Covers(m, lv)
        /\ Exact(orders[s], levels[s]) => Exact(m, lv)
    <3>1. CASE volume >= old.volume
      <4>1. executed = old.volume
        BY <2>3, <3>1
      <4>2. m = Drop(orders[s], o)
        BY <3>1
      <4>3. lv = RemoveLevel(levels[s], old.side, old.price, old.volume)
        BY <4>1
      <4> HIDE DEF m, lv
      <4>4. QED
        BY <2>1, <2>2, <4>2, <4>3, RemoveOrder
    <3>2. CASE ~(volume >= old.volume)
      <4>1. executed = volume /\ volume < old.volume
        BY <2>3, <3>2
      <4>2. m = Put(Drop(orders[s], o), o, x)
        BY <3>2
      <4>3. /\ x \in LiveOrder /\ x.side = old.side /\ x.price = old.price
            /\ x.volume = old.volume - volume
        BY <2>3, <4>1 DEF LiveOrder
      <4>4. CanRemove(levels[s], old.side, old.price, old.volume)
        BY <2>1, <2>2, OrderIsCovered
      <4>5. lv = AddLevel(RemoveLevel(levels[s], old.side, old.price,
                                      old.volume),
                          old.side, old.price, old.volume - volume)
        BY <2>2, <2>3, <4>1, <4>4, RemovedPart DEF BookTypes
      <4>6. lv = AddLevel(RemoveLevel(levels[s], old.side, old.price,
                                      old.volume),
                          x.side, x.price, x.volume)
        BY <4>3, <4>5
      <4> HIDE DEF m, lv, x
      <4>7. QED
        BY <2>1, <2>2, <2>3, <4>2, <4>3, <4>6, ExchangeOrder
    <3>3. QED
      BY <3>1, <3>2
  <2>8. c => Exact(m, lv)
    BY <2>7 DEF IInv
  <2> HIDE DEF m, lv, c
  <2>9. QED
    BY <2>1, <2>4, <2>5, <2>6, <2>7, <2>8, SymbolStep
<1>3. QED
  BY <1>1, <1>2

LEMMA ReplaceStep ==
  ASSUME IInv, NEW s \in Symbols, NEW o \in OrderIds, NEW n \in OrderIds,
         NEW price \in Prices, NEW volume \in Volumes, NEW side \in Sides,
         ReplaceOrder(s, o, n, price, volume, side)
  PROVE  IInv'
<1> DEFINE x == [price |-> price, volume |-> volume, side |-> side]
           old == orders[s][o]
           c == conforming[s] /\ (n = o \/ ~Live(s, n))
<1>1. x \in LiveOrder /\ x.price = price /\ x.volume = volume /\ x.side = side
  BY BookAssumption DEF LiveOrder
<1>2. BookTypes(orders[s], levels[s]) /\ Covers(orders[s], levels[s])
  BY TypesOfBook
<1>3. conforming' = [conforming EXCEPT ![s] = c] /\ c \in BOOLEAN
  BY DEF ReplaceOrder, Given, IInv, TypeOK
<1>4. c => Exact(orders[s], levels[s]) /\ (n = o \/ n \notin DOMAIN orders[s])
  BY DEF IInv, Live
<1>5. CASE Live(s, o)
  <2> DEFINE m == Put(Drop(orders[s], o), n, x)
             lv == AddLevel(RemoveLevel(levels[s], old.side, old.price,
                                        old.volume),
                            x.side, x.price, x.volume)
  <2>1. /\ orders' = [orders EXCEPT ![s] = m]
        /\ levels' = [levels EXCEPT ![s] = lv]
        /\ bookBuildFailures' = bookBuildFailures +
             FailureIf(~CanRemove(levels[s], old.side, old.price, old.volume))
    BY <1>5 DEF ReplaceOrder
  <2>2. bookBuildFailures' \in Nat
    BY <2>1, FailureNat
  <2>3. /\ BookTypes(m, lv) /\ Covers(m, lv)
        /\ Exact(orders[s], levels[s]) /\ (n = o \/ n \notin DOMAIN orders[s])
             => Exact(m, lv)
    BY <1>1, <1>2, <1>5, ExchangeOrder DEF Live
  <2> HIDE DEF m, lv, c
  <2>4. QED
    BY <1>3, <1>4, <2>1, <2>2, <2>3, SymbolStep
<1>6. CASE ~Live(s, o)
  <2> DEFINE m == Put(orders[s], n, x)
             lv == AddLevel(levels[s], x.side, x.price, x.volume)
  <2>1. /\ orders' = [orders EXCEPT ![s] = m]
        /\ levels' = [levels EXCEPT ![s] = lv]
        /\ bookBuildFailures' = bookBuildFailures + 1
    BY <1>6 DEF ReplaceOrder
  <2>2. bookBuildFailures' \in Nat
    BY <2>1 DEF IInv, TypeOK
  <2>3. /\ BookTypes(m, lv) /\ Covers(m, lv)
        /\ Exact(orders[s], levels[s]) /\ n \notin DOMAIN orders[s]
             => Exact(m, lv)
    BY <1>1, <1>2, EnterOrder
  <2>4. n = o => n \notin DOMAIN orders[s]
    BY <1>6 DEF Live
  <2> HIDE DEF m, lv, c
  <2>5. QED
    BY <1>3, <1>4, <2>1, <2>2, <2>3, <2>4, SymbolStep
<1>7. QED
  BY <1>5, <1>6

-----------------------------------------------------------------------------
(* No order, no level.                                                     *)
LEMMA InitHolds == Init => IInv
<1> SUFFICES ASSUME Init PROVE IInv
  OBVIOUS
<1>1. \A s \in Symbols : /\ orders[s] = Empty
                        /\ \A sd \in Sides : levels[s][sd] = Empty
  BY DEF Init
<1>2. DOMAIN Empty = {} /\ \A K, V : IsMap(Empty, K, V)
  BY DEF Empty, IsMap
<1>3. TypeOK
  BY <1>1, <1>2 DEF Init, TypeOK
<1>4. ASSUME NEW s \in Symbols, NEW sd \in Sides, NEW p \in Prices
      PROVE  /\ OrdersIn(orders[s], sd, p) = {}
             /\ SharesIn(orders[s], sd, p) = {}
             /\ CountAt(levels[s][sd], p) = 0
             /\ p \notin DOMAIN levels[s][sd]
  BY <1>1, <1>2 DEF OrdersIn, SharesIn, CountAt
<1>5. ASSUME NEW s \in Symbols
      PROVE  Covers(orders[s], levels[s]) /\ Exact(orders[s], levels[s])
  <2>1. IsFiniteSet({}) /\ Cardinality({}) = 0
    BY FS_EmptySet
  <2>2. ASSUME NEW sd \in Sides, NEW p \in Prices
        PROVE  /\ IsFiniteSet(SharesIn(orders[s], sd, p))
               /\ Cardinality(SharesIn(orders[s], sd, p)) = 0
               /\ CountAt(levels[s][sd], p) = 0
               /\ OrdersIn(orders[s], sd, p) = {}
               /\ p \notin DOMAIN levels[s][sd]
    <3>1. SharesIn(orders[s], sd, p) = {}
      BY <1>4
    <3>2. QED
      BY <1>4, <2>1, <3>1
  <2>3. QED
    BY <2>2 DEF Covers, Exact
<1>6. QED
  BY <1>3, <1>5 DEF IInv

(* Every message keeps the invariant.                                      *)
LEMMA StepHolds == IInv /\ [Next]_bookVars => IInv'
<1> SUFFICES ASSUME IInv, [Next]_bookVars PROVE IInv'
  OBVIOUS
<1>1. ASSUME NEW s \in Symbols, NEW o \in OrderIds, Amend(s, o) PROVE IInv'
  BY <1>1, DeleteStep, ExecutionStep, ModifyStep DEF Amend
<1>2. ASSUME NEW s \in Symbols, NEW o \in OrderIds, NEW price \in Prices,
             NEW volume \in Volumes, NEW side \in Sides,
             \/ Enter(s, o, price, volume, side)
             \/ \E n \in OrderIds : ReplaceOrder(s, o, n, price, volume, side)
      PROVE  IInv'
  BY <1>2, AddStep, ReplaceStep DEF Enter, AddOrderRefresh
<1>3. CASE UNCHANGED bookVars
  BY <1>3 DEF bookVars, IInv, TypeOK, Covers, Exact
<1>4. QED
  BY <1>1, <1>2, <1>3 DEF Next, Message

(* The invariant holds in every reachable state.                           *)
THEOREM InvariantHolds == Spec => []IInv
<1>1. QED
  BY InitHolds, StepHolds, PTL DEF Spec

(* Orders and levels stay in their types: no volume of a level or of a     *)
(* live order ever underflows.                                             *)
THEOREM TypesHold == Spec => []TypeOK
<1>1. IInv => TypeOK
  BY DEF IInv
<1>2. QED
  BY InvariantHolds, <1>1, PTL

(* Whatever the feed loses, repeats or reuses, a level shows at least the  *)
(* volume of the live orders at its price.                                 *)
THEOREM LevelsCover == Spec => []LevelsCoverOrders
<1>1. IInv => LevelsCoverOrders
  BY DEF IInv, Covers, LevelsCoverOrders, RestingVolume, Shares, SharesIn,
         OrdersAt, OrdersIn
<1>2. QED
  BY InvariantHolds, <1>1, PTL

(* Removing a live order never fails.                                      *)
THEOREM RemovalSucceeds == Spec => []NoFalseAlarm
<1>1. IInv => NoFalseAlarm
  BY TypesOfBook, OrderIsCovered DEF NoFalseAlarm
<1>2. QED
  BY InvariantHolds, <1>1, PTL

(* While no live id is given again, the incremental levels are those of    *)
(* the live orders.                                                        *)
THEOREM LevelsMatch == Spec => []LevelsMatchOrders
<1>1. IInv => LevelsMatchOrders
  BY DEF IInv, Exact, LevelsMatchOrders, Matches, RestingVolume, Shares,
         SharesIn, OrdersAt, OrdersIn
<1>2. QED
  BY InvariantHolds, <1>1, PTL

(* ... and the best bid and the best ask are those of the live orders.     *)
THEOREM TopOfBookIsRight == Spec => []TopOfBookIsBestOrder
<1>1. ASSUME IInv, NEW s \in Symbols, conforming[s], NEW side \in Sides
      PROVE  DOMAIN levels[s][side]
               = {orders[s][o].price :
                    o \in {y \in DOMAIN orders[s] : orders[s][y].side = side}}
  <2>1. \A p \in Prices :
          p \in DOMAIN levels[s][side] <=> OrdersIn(orders[s], side, p) # {}
    BY <1>1 DEF IInv, Exact
  <2>2. /\ DOMAIN levels[s][side] \subseteq Prices
        /\ \A o \in DOMAIN orders[s] : orders[s][o].price \in Prices
    BY <1>1 DEF IInv, TypeOK, IsMap, LiveOrder
  <2>3. QED
    BY <2>1, <2>2 DEF OrdersIn
<1>2. ASSUME IInv PROVE TopOfBookIsBestOrder
  <2>1. ASSUME NEW s \in Symbols, conforming[s]
        PROVE  LET PricesOf(side) ==
                     {orders[s][o].price :
                        o \in {y \in DOMAIN orders[s] :
                                 orders[s][y].side = side}}
               IN /\ BestBid(s) = {p \in PricesOf("bid") :
                                     \A q \in PricesOf("bid") : q <= p}
                  /\ BestAsk(s) = {p \in PricesOf("ask") :
                                     \A q \in PricesOf("ask") : q >= p}
    <3> DEFINE bids == DOMAIN levels[s]["bid"]
               asks == DOMAIN levels[s]["ask"]
    <3>1. bids \subseteq Nat /\ asks \subseteq Nat
      BY <1>2, <2>1, BookAssumption DEF IInv, TypeOK, IsMap, Sides
    <3>2. /\ BestBid(s) = {p \in bids : \A q \in bids : q <= p}
          /\ BestAsk(s) = {p \in asks : \A q \in asks : q >= p}
      BY <3>1 DEF BestBid, BestAsk
    <3>3. /\ bids = {orders[s][o].price :
                 o \in {y \in DOMAIN orders[s] : orders[s][y].side = "bid"}}
          /\ asks = {orders[s][o].price :
                 o \in {y \in DOMAIN orders[s] : orders[s][y].side = "ask"}}
      BY <1>1, <1>2, <2>1 DEF Sides
    <3> HIDE DEF bids, asks
    <3>4. QED
      BY <3>2, <3>3
  <2>2. QED
    BY <2>1 DEF TopOfBookIsBestOrder
<1>3. QED
  BY InvariantHolds, <1>2, PTL

=============================================================================
