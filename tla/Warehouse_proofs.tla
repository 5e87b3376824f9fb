--------------------------- MODULE Warehouse_proofs --------------------------
(***************************************************************************)
(* Machine-checked proofs about Warehouse, for any number of loads, faults *)
(* and retries, and slices of every size.                                  *)
(***************************************************************************)
EXTENDS Warehouse, SequenceTheorems, FiniteSetTheorems, TLAPS

-----------------------------------------------------------------------------
(* Flattening the sequences of this size.                                  *)

Cat(s, t) == s \o t

(* Five sequences, as there are tables.                                    *)
LEMMA FlattenFive ==
    ASSUME NEW f, DOMAIN f = 1 .. 5, Len(f) = 5
    PROVE  FlattenSeq(f) = (((f[1] \o f[2]) \o f[3]) \o f[4]) \o f[5]
  <1>. DEFINE step(g) == [i \in 1 .. Len(f) |-> IF i = 1 THEN f[i] ELSE Cat(g[i - 1], f[i])]
              a == f[1]
              b == Cat(a, f[2])
              c == Cat(b, f[3])
              d == Cat(c, f[4])
              e == Cat(d, f[5])
              w == [i \in 1 .. 5 |-> IF i = 1 THEN a ELSE IF i = 2 THEN b ELSE
                                     IF i = 3 THEN c ELSE IF i = 4 THEN d ELSE e]
              h == CHOOSE g : g = step(g)
  <1>1. FlattenSeq(f) = h[5]
    BY DEF FlattenSeq, Cat
  <1>2. w = step(w)
    <2>. HIDE DEF e
    <2>. SUFFICES ASSUME NEW i \in 1 .. 5
                  PROVE  w[i] = IF i = 1 THEN f[i] ELSE Cat(w[i - 1], f[i])
      OBVIOUS
    <2>1. CASE i = 1
      BY <2>1
    <2>2. CASE i = 2
      BY <2>2
    <2>3. CASE i = 3
      BY <2>3
    <2>4. CASE i = 4
      BY <2>4
    <2>5. CASE i = 5
      BY <2>5 DEF e
    <2>. QED
      BY <2>1, <2>2, <2>3, <2>4, <2>5
  <1>3. h = step(h)
    BY <1>2
  <1>. HIDE DEF h
  <1>4. \A i \in 1 .. 5 : h[i] = IF i = 1 THEN f[i] ELSE Cat(h[i - 1], f[i])
    BY <1>3
  <1>5. /\ h[1] = f[1] /\ h[2] = Cat(h[1], f[2]) /\ h[3] = Cat(h[2], f[3])
        /\ h[4] = Cat(h[3], f[4]) /\ h[5] = Cat(h[4], f[5])
    BY <1>4
  <1>. QED
    BY <1>1, <1>5 DEF Cat

(* At most two, as a table has chunks.                                     *)
LEMMA FlattenFew ==
    /\ FlattenSeq(<<>>) = <<>>
    /\ \A x : FlattenSeq(<<x>>) = x
    /\ \A x, y : FlattenSeq(<<x, y>>) = x \o y
  <1>1. FlattenSeq(<<>>) = <<>>
    BY DEF FlattenSeq
  <1>2. ASSUME NEW x
        PROVE  FlattenSeq(<<x>>) = x
    <2>. DEFINE w == [i \in 1 .. 1 |-> x]
                t == <<x>>
                next(g) == [i \in 1 .. Len(t) |-> IF i = 1 THEN t[i] ELSE Cat(g[i - 1], t[i])]
                k == CHOOSE g : g = next(g)
    <2>2. FlattenSeq(<<x>>) = k[1]
      BY DEF FlattenSeq, Cat
    <2>3. w = next(w)
      OBVIOUS
    <2>4. k = next(k)
      BY <2>3
    <2>. HIDE DEF k
    <2>5. k[1] = x
      BY <2>4
    <2>. QED
      BY <2>2, <2>5
  <1>3. ASSUME NEW x, NEW y
        PROVE  FlattenSeq(<<x, y>>) = x \o y
    <2>. DEFINE t == <<x, y>>
                next(g) == [i \in 1 .. Len(t) |-> IF i = 1 THEN t[i] ELSE Cat(g[i - 1], t[i])]
                k == CHOOSE g : g = next(g)
                z == Cat(x, y)
                w == [i \in 1 .. 2 |-> IF i = 1 THEN x ELSE z]
    <2>1. FlattenSeq(<<x, y>>) = k[2]
      BY DEF FlattenSeq, Cat
    <2>2. w = next(w)
      <3>1. \A i \in 1 .. 2 : w[i] = IF i = 1 THEN t[i] ELSE Cat(w[i - 1], t[i])
        OBVIOUS
      <3>. QED
        BY <3>1
    <2>3. k = next(k)
      BY <2>2
    <2>. HIDE DEF k
    <2>4. k[1] = x /\ k[2] = Cat(k[1], y)
      BY <2>3
    <2>. QED
      BY <2>1, <2>4 DEF Cat
  <1>. QED
    BY <1>1, <1>2, <1>3

-----------------------------------------------------------------------------
(* The slices of the copy.                                                 *)

(* The tables are five, and all but the subscribers have a sequence.       *)
LEMMA TheTables ==
    /\ Tables = {"subscribers", "subscription_events", "sessions", "payments",
                 "support_tickets"}
    /\ SerialTables = {"subscription_events", "sessions", "payments", "support_tickets"}
  <1>. DEFINE T == {"subscribers", "subscription_events", "sessions", "payments",
                    "support_tickets"}
  <1>1. Tables = T
    <2>1. DOMAIN EVENT_TABLES = 1 .. 5
      BY DEF EVENT_TABLES
    <2>. QED
      BY <2>1 DEF Tables, Range, EVENT_TABLES
  <1>2. SerialTables = {"subscription_events", "sessions", "payments", "support_tickets"}
    BY <1>1 DEF SerialTables
  <1>. QED
    BY <1>1, <1>2

Slice == [table : Tables, low : Nat, high : Nat]

(* What the slices of a set of tables have to be: each begins where the    *)
(* one before it ended, or its table does, and the last one of a table     *)
(* ends with the table.                                                    *)
Bounds(p) ==
    \A i \in 1 .. Len(p) : p[i].low < p[i].high /\ p[i].high <= Len(rows[p[i].table])

Adjacent(p) ==
    \A i \in 1 .. Len(p) :
        \/ p[i].low = 0 /\ \A j \in 1 .. i - 1 : p[j].table # p[i].table
        \/ i > 1 /\ p[i - 1].table = p[i].table /\ p[i - 1].high = p[i].low

CoversTable(p, t) ==
    \/ rows[t] = <<>>
    \/ \E i \in 1 .. Len(p) :
          /\ p[i].table = t /\ p[i].high = Len(rows[t])
          /\ \A j \in i + 1 .. Len(p) : p[j].table # t

Plan(p, T) ==
    /\ p \in Seq(Slice)
    /\ \A i \in 1 .. Len(p) : p[i].table \in T
    /\ Bounds(p) /\ Adjacent(p)
    /\ \A t \in T : CoversTable(p, t)

(* The slices of one table.                                                *)
LEMMA SliceArithmetic ==
    ASSUME NEW len \in Nat \ {0}, NEW size \in Nat \ {0}
    PROVE  LET n == (len - 1 + size) \div size
           IN  /\ n \in Nat \ {0}
               /\ n * size >= len
               /\ (n - 1) * size < len
               /\ \A k \in 1 .. n - 1 : k * size < len
  <1>. DEFINE m == len - 1 + size
              n == m \div size
  <1>0. m \in Nat
    OBVIOUS
  <1>1. n \in Nat /\ n * size <= m /\ m < n * size + size
    <2>. HIDE DEF m
    <2>. QED
      BY <1>0, SMTT(30)
  <1>. HIDE DEF n
  <1>2. n * size >= len /\ n * size \in Nat
    BY <1>1
  <1>3. n # 0
    BY <1>1, <1>2
  <1>4. (n - 1) * size = n * size - size
    BY <1>1
  <1>5. (n - 1) * size < len
    BY <1>1, <1>2, <1>4
  <1>6. ASSUME NEW k \in 1 .. n - 1
        PROVE  k * size < len
    <2>1. k * size <= (n - 1) * size
      BY <1>1, <1>3, <1>6
    <2>. QED
      BY <1>1, <1>3, <1>5, <2>1
  <1>. QED
    BY <1>1, <1>2, <1>3, <1>5, <1>6 DEF n

(* A slice of a table, and all of them.                                    *)
SliceAt(t, k) ==
    [table |-> t, low |-> (k - 1) * SliceSize,
     high |-> IF k * SliceSize < Len(rows[t]) THEN k * SliceSize ELSE Len(rows[t])]

SliceCount(t) ==
    IF rows[t] = <<>> THEN 0 ELSE (Len(rows[t]) - 1 + SliceSize) \div SliceSize

(* Slices divides a table into as many slices as are needed to cover it.   *)
LEMMA SlicesAre ==
    ASSUME rows \in [Tables -> Seq(Row)], NEW t \in Tables
    PROVE  /\ SliceCount(t) \in Nat
           /\ SlicesOf(t) = [k \in 1 .. SliceCount(t) |-> SliceAt(t, k)]
  <1>0. rows[t] \in Seq(Row) /\ SliceSize \in Nat \ {0} /\ Len(rows[t]) \in Nat
    BY WarehouseAssumption
  <1>1. CASE rows[t] = <<>>
    BY <1>1 DEF SlicesOf, SliceCount
  <1>2. CASE rows[t] # <<>>
    <2>. DEFINE len == Len(rows[t])
                n == (len - 1 + SliceSize) \div SliceSize
    <2>1. len \in Nat \ {0}
      BY <1>0, <1>2
    <2>2. n \in Nat
      BY <1>0, <2>1, SliceArithmetic
    <2>3. SliceCount(t) = n
      BY <1>2 DEF SliceCount
    <2>4. \A k \in 1 .. n : (k - 1) * SliceSize \in Nat /\ k * SliceSize \in Nat
      BY <1>0, <2>2
    <2>5. Slices(1, len, SliceSize) =
             [k \in 1 .. n |-> <<(k - 1) * SliceSize,
                                 IF k * SliceSize < len THEN k * SliceSize ELSE len>>]
      <3>. HIDE DEF len
      <3>1. \A k \in 1 .. n :
               /\ 1 - 1 + (k - 1) * SliceSize = (k - 1) * SliceSize
               /\ 1 - 1 + k * SliceSize = k * SliceSize
        BY <2>4
      <3>. QED
        BY <3>1 DEF Slices
    <2>. DEFINE ranges == Slices(1, len, SliceSize)
    <2>6. SlicesOf(t) = [k \in DOMAIN ranges |->
                           [table |-> t, low |-> ranges[k][1], high |-> ranges[k][2]]]
      BY <1>2 DEF SlicesOf
    <2>. HIDE DEF ranges, n
    <2>7. SlicesOf(t) = [k \in 1 .. n |-> SliceAt(t, k)]
      <3>1. DOMAIN ranges = 1 .. n
        BY <2>5 DEF ranges
      <3>2. \A k \in 1 .. n : [table |-> t, low |-> ranges[k][1], high |-> ranges[k][2]]
                                 = SliceAt(t, k)
        <4>. TAKE k \in 1 .. n
        <4>. DEFINE a == (k - 1) * SliceSize
                    b == IF k * SliceSize < len THEN k * SliceSize ELSE len
        <4>1. ranges[k] = <<a, b>>
          BY <2>5 DEF ranges
        <4>2. SliceAt(t, k) = [table |-> t, low |-> a, high |-> b]
          BY DEF SliceAt
        <4>. HIDE DEF a, b
        <4>. QED
          BY <4>1, <4>2
      <3>. QED
        BY <2>6, <3>1, <3>2
    <2>. QED
      BY <2>2, <2>3, <2>7
  <1>. QED
    BY <1>1, <1>2

(* The slices of a table are a plan for it: they meet end to end, from its *)
(* first row to its last.                                                  *)
LEMMA TablePlanned ==
    ASSUME rows \in [Tables -> Seq(Row)], NEW t \in Tables
    PROVE  Plan(SlicesOf(t), {t})
  <1>. DEFINE p == SlicesOf(t)
              n == SliceCount(t)
              len == Len(rows[t])
  <1>0. /\ n \in Nat /\ p = [k \in 1 .. n |-> SliceAt(t, k)]
        /\ SliceSize \in Nat \ {0} /\ len \in Nat
    BY SlicesAre, WarehouseAssumption
  <1>1. CASE rows[t] = <<>>
    <2>1. n = 0
      BY <1>1 DEF SliceCount
    <2>2. p = <<>>
      BY <1>0, <2>1
    <2>. HIDE DEF p
    <2>3. p \in Seq(Slice) /\ Len(p) = 0
      BY <2>2
    <2>4. Plan(p, {t})
      BY <1>1, <2>3 DEF Plan, Bounds, Adjacent, CoversTable
    <2>. QED
      BY <2>4 DEF p
  <1>2. CASE rows[t] # <<>>
    <2>1. len \in Nat \ {0} /\ n = (len - 1 + SliceSize) \div SliceSize
      BY <1>0, <1>2 DEF SliceCount
    <2>. HIDE DEF len, n
    <2>2. /\ n \in Nat \ {0} /\ n * SliceSize >= len
          /\ (n - 1) * SliceSize < len
          /\ \A k \in 1 .. n - 1 : k * SliceSize < len
      BY <1>0, <2>1, SliceArithmetic
    <2>. DEFINE low(k) == (k - 1) * SliceSize
                high(k) == IF k * SliceSize < len THEN k * SliceSize ELSE len
    <2>3. \A k \in 1 .. n : SliceAt(t, k) = [table |-> t, low |-> low(k), high |-> high(k)]
      BY DEF SliceAt, len
    <2>4. \A k \in 1 .. n : /\ low(k) \in Nat /\ high(k) \in Nat /\ high(k) <= len
                            /\ k * SliceSize = low(k) + SliceSize
      BY <1>0, <2>1
    <2>5. \A k \in 1 .. n : low(k) < len
      <3>. TAKE k \in 1 .. n
      <3>1. CASE k = 1
        BY <1>0, <2>1, <3>1
      <3>2. CASE k # 1
        <4>1. k - 1 \in 1 .. n - 1
          BY <1>0, <3>2
        <4>. QED
          BY <2>2, <4>1
      <3>. QED
        BY <3>1, <3>2
    <2>6. \A k \in 1 .. n : low(k) < high(k)
      <3>. TAKE k \in 1 .. n
      <3>. HIDE DEF low
      <3>. QED
        BY <1>0, <2>1, <2>4, <2>5
    <2>7. low(1) = 0
      BY <1>0
    <2>8. \A k \in 2 .. n : high(k - 1) = low(k)
      <3>. TAKE k \in 2 .. n
      <3>1. k - 1 \in 1 .. n - 1
        BY <1>0
      <3>. QED
        BY <2>2, <3>1
    <2>9. high(n) = len
      <3>1. n * SliceSize \in Nat
        BY <1>0
      <3>. QED
        BY <2>1, <2>2, <3>1
    <2>. HIDE DEF low, high, p
    <2>10. /\ Len(p) = n /\ p \in Seq(Slice)
           /\ \A k \in 1 .. n : p[k].table = t /\ p[k].low = low(k) /\ p[k].high = high(k)
      <3>1. \A k \in 1 .. n : SliceAt(t, k) \in Slice
        BY <2>3, <2>4 DEF Slice
      <3>. QED
        BY <1>0, <2>3, <3>1
    <2>11. Bounds(p)
      BY <2>4, <2>6, <2>10 DEF Bounds, len
    <2>12. Adjacent(p)
      <3>. SUFFICES ASSUME NEW i \in 1 .. n
                    PROVE  \/ p[i].low = 0 /\ \A j \in 1 .. i - 1 : p[j].table # p[i].table
                           \/ /\ i > 1 /\ p[i - 1].table = p[i].table
                              /\ p[i - 1].high = p[i].low
        BY <2>10 DEF Adjacent
      <3>1. CASE i = 1
        BY <2>7, <2>10, <3>1
      <3>2. CASE i # 1
        <4>1. i \in 2 .. n /\ i - 1 \in 1 .. n /\ i > 1
          BY <1>0, <3>2
        <4>. QED
          BY <2>8, <2>10, <4>1
      <3>. QED
        BY <3>1, <3>2
    <2>13. CoversTable(p, t)
      <3>1. n \in 1 .. n /\ n + 1 .. n = {}
        BY <2>2
      <3>. QED
        BY <2>9, <2>10, <3>1 DEF CoversTable, len
    <2>14. Plan(p, {t})
      BY <2>10, <2>11, <2>12, <2>13 DEF Plan
    <2>. QED
      BY <2>14 DEF p
  <1>. QED
    BY <1>1, <1>2

(* The slices of some tables, and then those of others.                    *)
LEMMA PlansConcat ==
    ASSUME NEW T, NEW U, T \cap U = {}, T \subseteq Tables, U \subseteq Tables,
           NEW p, NEW q, Plan(p, T), Plan(q, U), rows \in [Tables -> Seq(Row)]
    PROVE  Plan(p \o q, T \cup U)
  <1>. DEFINE r == p \o q
              n == Len(p)
              m == Len(q)
  <1>0. /\ p \in Seq(Slice) /\ q \in Seq(Slice) /\ n \in Nat /\ m \in Nat
        /\ \A i \in 1 .. n : p[i].table \in T
        /\ \A i \in 1 .. m : q[i].table \in U
    BY DEF Plan
  <1>1. /\ r \in Seq(Slice) /\ Len(r) = n + m
        /\ \A i \in 1 .. n : r[i] = p[i]
        /\ \A i \in n + 1 .. n + m : r[i] = q[i - n] /\ i - n \in 1 .. m
    BY <1>0, ConcatProperties
  <1>. HIDE DEF r
  <1>1a. \A i \in 1 .. n : r[i].table \in T
    BY <1>0, <1>1
  <1>1b. \A i \in n + 1 .. n + m : r[i].table \in U
    <2>. TAKE i \in n + 1 .. n + m
    <2>. DEFINE k == i - n
    <2>1. k \in 1 .. m /\ r[i] = q[k]
      BY <1>1
    <2>. QED
      BY <1>0, <2>1
  <1>2. \A i \in 1 .. Len(r) : r[i].table \in T \cup U
    BY <1>0, <1>1, <1>1a, <1>1b
  <1>3. Bounds(r)
    <2>. SUFFICES ASSUME NEW i \in 1 .. n + m
                  PROVE  r[i].low < r[i].high /\ r[i].high <= Len(rows[r[i].table])
      BY <1>1 DEF Bounds
    <2>1. CASE i <= n
      BY <1>0, <1>1, <2>1 DEF Plan, Bounds
    <2>2. CASE i > n
      <3>. DEFINE k == i - n
      <3>1. k \in 1 .. m /\ r[i] = q[k]
        BY <1>0, <1>1, <2>2
      <3>. QED
        BY <3>1 DEF Plan, Bounds
    <2>. QED
      BY <1>0, <2>1, <2>2
  <1>4. Adjacent(r)
    <2>. SUFFICES ASSUME NEW i \in 1 .. n + m
                  PROVE  \/ r[i].low = 0 /\ \A j \in 1 .. i - 1 : r[j].table # r[i].table
                         \/ i > 1 /\ r[i - 1].table = r[i].table /\ r[i - 1].high = r[i].low
      BY <1>1 DEF Adjacent
    <2>1. CASE i <= n
      <3>1. i \in 1 .. n /\ r[i] = p[i] /\ \A j \in 1 .. i - 1 : j \in 1 .. n /\ r[j] = p[j]
        BY <1>0, <1>1, <2>1
      <3>2. i > 1 => i - 1 \in 1 .. i - 1
        BY <1>0
      <3>. QED
        BY <3>1, <3>2 DEF Plan, Adjacent
    <2>2. CASE i > n
      <3>. DEFINE k == i - n
      <3>1. k \in 1 .. m /\ i = k + n /\ r[i] = q[k] /\ i \in n + 1 .. n + m
        BY <1>0, <1>1, <2>2
      <3>. HIDE DEF k
      <3>2. CASE k > 1 /\ q[k - 1].table = q[k].table /\ q[k - 1].high = q[k].low
        <4>1. i - 1 \in n + 1 .. n + m /\ (i - 1) - n = k - 1 /\ i > 1
          BY <1>0, <3>1, <3>2
        <4>2. r[i - 1] = q[k - 1]
          BY <1>1, <4>1
        <4>. QED
          BY <3>1, <3>2, <4>1, <4>2
      <3>3. CASE q[k].low = 0 /\ \A j \in 1 .. k - 1 : q[j].table # q[k].table
        <4>1. ASSUME NEW j \in 1 .. i - 1
              PROVE  r[j].table # r[i].table
          <5>1. CASE j <= n
            <6>1. r[j].table \in T /\ r[i].table \in U
              BY <1>0, <1>1a, <1>1b, <3>1, <5>1
            <6>. QED
              BY <6>1
          <5>2. CASE j > n
            <6>1. j - n \in 1 .. k - 1 /\ j \in n + 1 .. n + m
              BY <1>0, <3>1, <5>2
            <6>2. r[j] = q[j - n]
              BY <1>1, <6>1
            <6>. QED
              BY <3>1, <3>3, <6>1, <6>2
          <5>. QED
            BY <1>0, <5>1, <5>2
        <4>. QED
          BY <3>1, <3>3, <4>1
      <3>. QED
        BY <3>1, <3>2, <3>3 DEF Plan, Adjacent
    <2>. QED
      BY <1>0, <2>1, <2>2
  <1>5. ASSUME NEW t \in T \cup U
        PROVE  CoversTable(r, t)
    <2>. SUFFICES ASSUME rows[t] # <<>>
                  PROVE  \E i \in 1 .. Len(r) :
                            /\ r[i].table = t /\ r[i].high = Len(rows[t])
                            /\ \A j \in i + 1 .. Len(r) : r[j].table # t
      BY DEF CoversTable
    <2>1. CASE t \in T
      <3>1. PICK i \in 1 .. n : /\ p[i].table = t /\ p[i].high = Len(rows[t])
                                /\ \A j \in i + 1 .. n : p[j].table # t
        BY <2>1 DEF Plan, CoversTable
      <3>2. i \in 1 .. Len(r) /\ r[i] = p[i]
        BY <1>0, <1>1
      <3>3. ASSUME NEW j \in i + 1 .. Len(r)
            PROVE  r[j].table # t
        <4>1. CASE j <= n
          BY <1>0, <1>1, <3>1, <4>1
        <4>2. CASE j > n
          <5>1. r[j].table \in U
            BY <1>0, <1>1, <1>1b, <4>2
          <5>. QED
            BY <2>1, <5>1
        <4>. QED
          BY <1>0, <1>1, <4>1, <4>2
      <3>. QED
        BY <3>1, <3>2, <3>3
    <2>2. CASE t \in U
      <3>1. PICK k \in 1 .. m : /\ q[k].table = t /\ q[k].high = Len(rows[t])
                                /\ \A j \in k + 1 .. m : q[j].table # t
        BY <2>2 DEF Plan, CoversTable
      <3>. DEFINE i == k + n
      <3>2. i \in n + 1 .. n + m /\ i - n = k /\ i \in 1 .. Len(r)
        BY <1>0, <1>1
      <3>. HIDE DEF i
      <3>3. r[i] = q[k]
        BY <1>1, <3>2
      <3>4. ASSUME NEW j \in i + 1 .. Len(r)
            PROVE  r[j].table # t
        <4>1. j \in n + 1 .. n + m /\ j - n \in k + 1 .. m
          BY <1>0, <1>1, <3>2
        <4>2. r[j] = q[j - n]
          BY <1>1, <4>1
        <4>. QED
          BY <3>1, <4>1, <4>2
      <3>. QED
        BY <3>1, <3>2, <3>3, <3>4
    <2>. QED
      BY <2>1, <2>2
  <1>6. Plan(r, T \cup U)
    BY <1>1, <1>2, <1>3, <1>4, <1>5 DEF Plan
  <1>. QED
    BY <1>6 DEF r

(* Prepare plans every table, the subscribers first.                       *)
AllSlices == FlattenSeq([i \in 1..5 |-> SlicesOf(EVENT_TABLES[i])])

(* A plan that is prefixed keeps the beginning of the prefix.              *)
LEMMA FirstOfConcat ==
    ASSUME NEW p \in Seq(Slice), p # <<>>, NEW q \in Seq(Slice)
    PROVE  p \o q \in Seq(Slice) /\ p \o q # <<>> /\ (p \o q)[1] = p[1]
  OBVIOUS

(* What Prepare plans covers every table, and takes the subscribers first  *)
(* unless there are none.                                                  *)
LEMMA AllPlanned ==
    ASSUME rows \in [Tables -> Seq(Row)]
    PROVE  /\ Plan(AllSlices, Tables)
           /\ rows["subscribers"] # <<>> => AllSlices # <<>>
                                            /\ AllSlices[1].table = "subscribers"
  <1>. DEFINE f == [i \in 1..5 |-> SlicesOf(EVENT_TABLES[i])]
              a == SlicesOf("subscribers")
              b == SlicesOf("subscription_events")
              c == SlicesOf("sessions")
              d == SlicesOf("payments")
              e == SlicesOf("support_tickets")
  <1>1. f[1] = a /\ f[2] = b /\ f[3] = c /\ f[4] = d /\ f[5] = e
    BY DEF EVENT_TABLES
  <1>2. DOMAIN f = 1 .. 5 /\ Len(f) = 5
    OBVIOUS
  <1>3. AllSlices = FlattenSeq(f)
    BY DEF AllSlices
  <1>. DEFINE A == {"subscribers"}
              B == {"subscription_events"}
              C == {"sessions"}
              D == {"payments"}
              E == {"support_tickets"}
  <1>4. Plan(a, A) /\ Plan(b, B) /\ Plan(c, C) /\ Plan(d, D) /\ Plan(e, E)
    BY TheTables, TablePlanned
  <1>4a. /\ A \cap B = {} /\ (A \cup B) \cap C = {} /\ (A \cup B \cup C) \cap D = {}
         /\ (A \cup B \cup C \cup D) \cap E = {}
    OBVIOUS
  <1>4b. Tables = A \cup B \cup C \cup D \cup E
    BY TheTables
  <1>. HIDE DEF f, a, b, c, d, e, A, B, C, D, E
  <1>5. AllSlices = (((a \o b) \o c) \o d) \o e
    BY <1>1, <1>2, <1>3, FlattenFive
  <1>6. Plan(a \o b, A \cup B)
    BY <1>4, <1>4a, <1>4b, PlansConcat
  <1>7. Plan((a \o b) \o c, A \cup B \cup C)
    BY <1>4, <1>4a, <1>4b, <1>6, PlansConcat
  <1>8. Plan(((a \o b) \o c) \o d, A \cup B \cup C \cup D)
    BY <1>4, <1>4a, <1>4b, <1>7, PlansConcat
  <1>9. Plan((((a \o b) \o c) \o d) \o e, Tables)
    BY <1>4, <1>4a, <1>4b, <1>8, PlansConcat
  <1>10. ASSUME rows["subscribers"] # <<>>
         PROVE  AllSlices # <<>> /\ AllSlices[1].table = "subscribers"
    <2>1. a # <<>> /\ a[1].table = "subscribers"
      <3>1. CoversTable(a, "subscribers")
        BY <1>4 DEF Plan, A
      <3>2. PICK i \in 1 .. Len(a) : a[i].table = "subscribers"
        BY <1>10, <3>1 DEF CoversTable
      <3>3. a \in Seq(Slice) /\ \A k \in 1 .. Len(a) : a[k].table \in {"subscribers"}
        BY <1>4 DEF Plan, A
      <3>4. Len(a) \in Nat /\ 1 \in 1 .. Len(a)
        BY <3>2, <3>3
      <3>. QED
        BY <3>3, <3>4
    <2>2. /\ a \in Seq(Slice) /\ b \in Seq(Slice) /\ c \in Seq(Slice)
          /\ d \in Seq(Slice) /\ e \in Seq(Slice)
      BY <1>4 DEF Plan
    <2>3. a \o b \in Seq(Slice) /\ a \o b # <<>> /\ (a \o b)[1] = a[1]
      BY <2>1, <2>2, FirstOfConcat
    <2>4. /\ (a \o b) \o c \in Seq(Slice) /\ (a \o b) \o c # <<>>
          /\ ((a \o b) \o c)[1] = a[1]
      BY <2>2, <2>3, FirstOfConcat
    <2>5. /\ ((a \o b) \o c) \o d \in Seq(Slice) /\ ((a \o b) \o c) \o d # <<>>
          /\ (((a \o b) \o c) \o d)[1] = a[1]
      BY <2>2, <2>4, FirstOfConcat
    <2>6. AllSlices # <<>> /\ AllSlices[1] = a[1]
      BY <1>5, <2>2, <2>5, FirstOfConcat
    <2>. QED
      BY <2>1, <2>6
  <1>. QED
    BY <1>5, <1>9, <1>10

-----------------------------------------------------------------------------
(* Progress of the copy.                                                   *)

(* The first k slices of the plan p end, for table t, at row c.            *)
CopiedTo(p, k, t, c) ==
    \/ c = 0 /\ \A i \in 1 .. k : p[i].table # t
    \/ \E i \in 1 .. k : /\ p[i].table = t /\ p[i].high = c
                         /\ \A j \in i + 1 .. k : p[j].table # t

Progress(p, k, content) ==
    \A t \in Tables : \E c \in 0 .. Len(rows[t]) :
        CopiedTo(p, k, t, c) /\ content[t] = SubSeq(rows[t], 1, c)

(* The next slice begins where its table stands.                           *)
LEMMA NextSliceFits ==
    ASSUME NEW p, Plan(p, Tables), NEW k \in 0 .. Len(p) - 1, NEW c \in Nat,
           CopiedTo(p, k, p[k + 1].table, c)
    PROVE  p[k + 1].low = c
  <1>. DEFINE n == k + 1
  <1>1. n \in 1 .. Len(p) /\ n - 1 = k /\ k \in Nat
    BY DEF Plan
  <1>. HIDE DEF n
  <1>2. CASE p[n].low = 0 /\ \A j \in 1 .. n - 1 : p[j].table # p[n].table
    BY <1>1, <1>2 DEF CopiedTo, n
  <1>3. CASE n > 1 /\ p[n - 1].table = p[n].table /\ p[n - 1].high = p[n].low
    <2>1. k \in 1 .. k
      BY <1>1, <1>3
    <2>2. PICK i \in 1 .. k : /\ p[i].table = p[n].table /\ p[i].high = c
                              /\ \A j \in i + 1 .. k : p[j].table # p[n].table
      BY <1>1, <1>3, <2>1 DEF CopiedTo, n
    <2>3. i = k
      BY <1>1, <1>3, <2>2
    <2>. QED
      BY <1>1, <1>3, <2>2, <2>3 DEF n
  <1>. QED
    BY <1>1, <1>2, <1>3 DEF Plan, Adjacent, n

(* Copying it takes its table to its end and leaves the others.            *)
LEMMA CopyProgress ==
    ASSUME rows \in [Tables -> Seq(Row)], NEW p, Plan(p, Tables), NEW k \in 0 .. Len(p) - 1,
           NEW content \in [Tables -> Seq(Row)], Progress(p, k, content)
    PROVE  LET s == p[k + 1]
           IN  Progress(p, k + 1, [content EXCEPT ![s.table] =
                                     @ \o SubSeq(rows[s.table], s.low + 1, s.high)])
  <1>. DEFINE n == k + 1
              s == p[n]
              u == s.table
              new == [content EXCEPT ![u] = content[u] \o SubSeq(rows[u], s.low + 1, s.high)]
  <1>0. p \in Seq(Slice) /\ n \in 1 .. Len(p) /\ k \in Nat /\ n = k + 1
    BY DEF Plan
  <1>1. s \in Slice /\ u \in Tables /\ s.low < s.high /\ s.high <= Len(rows[u])
    <2>1. s \in Slice
      BY <1>0
    <2>. QED
      BY <1>0, <2>1 DEF Plan, Bounds, Slice
  <1>. HIDE DEF n, s, u
  <1>2. ASSUME NEW t \in Tables, t # u
        PROVE  \E c \in 0 .. Len(rows[t]) :
                  CopiedTo(p, n, t, c) /\ new[t] = SubSeq(rows[t], 1, c)
    <2>1. PICK c \in 0 .. Len(rows[t]) : /\ CopiedTo(p, k, t, c)
                                         /\ content[t] = SubSeq(rows[t], 1, c)
      BY DEF Progress
    <2>2. p[n].table # t
      BY <1>2 DEF u, s
    <2>3. CopiedTo(p, n, t, c)
      <3>1. CASE c = 0 /\ \A i \in 1 .. k : p[i].table # t
        BY <1>0, <2>2, <3>1 DEF CopiedTo
      <3>2. CASE \E i \in 1 .. k : /\ p[i].table = t /\ p[i].high = c
                                   /\ \A j \in i + 1 .. k : p[j].table # t
        BY <1>0, <2>2, <3>2 DEF CopiedTo
      <3>. QED
        BY <2>1, <3>1, <3>2 DEF CopiedTo
    <2>4. new[t] = content[t]
      BY <1>2
    <2>. QED
      BY <2>1, <2>3, <2>4
  <1>3. \E c \in 0 .. Len(rows[u]) : CopiedTo(p, n, u, c) /\ new[u] = SubSeq(rows[u], 1, c)
    <2>1. PICK c \in 0 .. Len(rows[u]) : /\ CopiedTo(p, k, u, c)
                                         /\ content[u] = SubSeq(rows[u], 1, c)
      BY <1>1 DEF Progress
    <2>2. c \in Nat
      OBVIOUS
    <2>3. s.low = c
      BY <1>0, <2>1, <2>2, NextSliceFits DEF n, s, u
    <2>4. s.low \in Nat /\ s.high \in Nat /\ rows[u] \in Seq(Row)
      BY <1>1 DEF Slice
    <2>5. SubSeq(rows[u], 1, s.low) \o SubSeq(rows[u], s.low + 1, s.high)
             = SubSeq(rows[u], 1, s.high)
      <3>1. /\ 1 \in 1 .. Len(rows[u]) + 1 /\ s.low \in 1 - 1 .. Len(rows[u])
            /\ s.high \in s.low .. Len(rows[u])
        BY <1>1, <2>4
      <3>. QED
        BY <2>4, <3>1, ConcatAdjacentSubSeq
    <2>6. new[u] = SubSeq(rows[u], 1, s.high)
      BY <1>1, <2>1, <2>3, <2>5
    <2>7. CopiedTo(p, n, u, s.high)
      <3>1. n \in 1 .. n /\ n + 1 .. n = {}
        BY <1>0
      <3>. QED
        BY <3>1 DEF CopiedTo, s, u
    <2>8. s.high \in 0 .. Len(rows[u])
      BY <1>1, <2>4
    <2>. QED
      BY <2>6, <2>7, <2>8
  <1>4. Progress(p, n, new)
    BY <1>2, <1>3 DEF Progress
  <1>. QED
    BY <1>4 DEF n, s, u

(* When the plan is done, everything is copied.                            *)
LEMMA PlanComplete ==
    ASSUME rows \in [Tables -> Seq(Row)], NEW p, Plan(p, Tables),
           NEW content \in [Tables -> Seq(Row)], Progress(p, Len(p), content)
    PROVE  content = rows
  <1>1. ASSUME NEW t \in Tables
        PROVE  content[t] = rows[t]
    <2>1. PICK c \in 0 .. Len(rows[t]) : /\ CopiedTo(p, Len(p), t, c)
                                         /\ content[t] = SubSeq(rows[t], 1, c)
      BY DEF Progress
    <2>2. rows[t] \in Seq(Row) /\ p \in Seq(Slice) /\ Len(p) \in Nat
      BY DEF Plan
    <2>3. c = Len(rows[t])
      <3>1. CASE rows[t] = <<>>
        BY <2>2, <3>1
      <3>2. CASE rows[t] # <<>>
        <4>1. PICK i \in 1 .. Len(p) : /\ p[i].table = t /\ p[i].high = Len(rows[t])
                                       /\ \A j \in i + 1 .. Len(p) : p[j].table # t
          BY <3>2 DEF Plan, CoversTable
        <4>2. PICK h \in 1 .. Len(p) : /\ p[h].table = t /\ p[h].high = c
                                       /\ \A j \in h + 1 .. Len(p) : p[j].table # t
          BY <2>1, <4>1 DEF CopiedTo
        <4>3. h = i
          BY <2>2, <4>1, <4>2
        <4>. QED
          BY <4>1, <4>2, <4>3
      <3>. QED
        BY <3>1, <3>2
    <2>. QED
      BY <2>1, <2>2, <2>3, SubSeqFull
  <1>. QED
    BY <1>1

(* Nothing is copied at first.                                             *)
LEMMA NothingCopied ==
    ASSUME rows \in [Tables -> Seq(Row)], NEW p
    PROVE  Progress(p, 0, Empty)
  <1>. SUFFICES ASSUME NEW t \in Tables
                PROVE  \E c \in 0 .. Len(rows[t]) :
                          CopiedTo(p, 0, t, c) /\ Empty[t] = SubSeq(rows[t], 1, c)
    BY DEF Progress
  <1>1. rows[t] \in Seq(Row) /\ 0 \in 0 .. Len(rows[t])
    OBVIOUS
  <1>2. CopiedTo(p, 0, t, 0)
    BY DEF CopiedTo
  <1>3. Empty[t] = SubSeq(rows[t], 1, 0)
    BY <1>1, SubSeqEmpty DEF Empty
  <1>. QED
    BY <1>1, <1>2, <1>3

-----------------------------------------------------------------------------
(* The batches of a load.                                                  *)

(* Short tuples one after the other.                                       *)
LEMMA TuplesJoin ==
    ASSUME NEW S, NEW v \in S, NEW w \in S, NEW x \in S
    PROVE  /\ <<v>> \o <<w>> = <<v, w>>
           /\ <<v, w>> \o <<x>> = <<v, w, x>>
  <1>1. <<v>> \o <<w>> = <<v, w>>
    <2>. DEFINE a == <<v>> \o <<w>>
                b == <<v, w>>
    <2>1. a \in Seq(S) /\ b \in Seq(S) /\ Len(a) = 2 /\ Len(b) = 2
      OBVIOUS
    <2>2. \A i \in 1 .. 2 : a[i] = b[i]
      OBVIOUS
    <2>. HIDE DEF a, b
    <2>3. a = b
      BY <2>1, <2>2, SeqEqual
    <2>. QED
      BY <2>3 DEF a, b
  <1>2. <<v, w>> \o <<x>> = <<v, w, x>>
    <2>. DEFINE a == <<v, w>> \o <<x>>
                b == <<v, w, x>>
    <2>1. a \in Seq(S) /\ b \in Seq(S) /\ Len(a) = 3 /\ Len(b) = 3
      OBVIOUS
    <2>2. \A i \in 1 .. 3 : a[i] = b[i]
      OBVIOUS
    <2>. HIDE DEF a, b
    <2>3. a = b
      BY <2>1, <2>2, SeqEqual
    <2>. QED
      BY <2>3 DEF a, b
  <1>. QED
    BY <1>1, <1>2

(* Three and two are five.                                                 *)
LEMMA FiveJoin ==
    ASSUME NEW S, NEW v \in S, NEW w \in S, NEW x \in S, NEW y \in S, NEW z \in S
    PROVE  <<v, w, x>> \o <<y, z>> = <<v, w, x, y, z>>
  <1>. DEFINE a == <<v, w, x>> \o <<y, z>>
              b == <<v, w, x, y, z>>
  <1>1. a \in Seq(S) /\ b \in Seq(S) /\ Len(a) = 5 /\ Len(b) = 5
    OBVIOUS
  <1>2. \A i \in 1 .. 5 : a[i] = b[i]
    OBVIOUS
  <1>. HIDE DEF a, b
  <1>3. a = b
    BY <1>1, <1>2, SeqEqual
  <1>. QED
    BY <1>3 DEF a, b

BatchType == [table : Tables, chunk : {1, 2}]

SimulatedList ==
    <<Batch("subscribers", 1), Batch("subscription_events", 1), Batch("sessions", 1),
      Batch("payments", 1), Batch("support_tickets", 1)>>

ExportList ==
    <<Batch("subscribers", 1), Batch("subscription_events", 1), Batch("payments", 1),
      Batch("sessions", 1), Batch("sessions", 2)>>

(* The batches of a simulation, listed.                                    *)
LEMMA TheSimulatedBatches == SimulatedBatches = SimulatedList
  BY DEF SimulatedBatches, SimulatedList, EVENT_TABLES

(* The batches of an export, listed.                                       *)
LEMMA TheExportBatches == ExportBatches = ExportList
  <1>. DEFINE batches(t) == [k \in DOMAIN ChunksOf(t) |-> Batch(t, ChunksOf(t)[k])]
              f == [i \in DOMAIN TABLES |-> batches(TABLES[i])]
  <1>1. ExportBatches = FlattenSeq(f)
    BY DEF ExportBatches
  <1>2. DOMAIN TABLES = 1 .. 5 /\ DOMAIN f = 1 .. 5 /\ Len(f) = 5
    BY DEF TABLES
  <1>3. /\ f[1] = batches("subscribers") /\ f[2] = batches("subscription_events")
        /\ f[3] = batches("payments") /\ f[4] = batches("sessions")
        /\ f[5] = batches("support_tickets")
    BY <1>2 DEF TABLES
  <1>4. /\ ChunksOf("subscribers") = <<1>> /\ ChunksOf("subscription_events") = <<1>>
        /\ ChunksOf("payments") = <<1>> /\ ChunksOf("sessions") = <<1, 2>>
        /\ ChunksOf("support_tickets") = <<>>
    BY DEF ChunksOf
  <1>5. \A t : ChunksOf(t) = << 1 >> => batches(t) = <<Batch(t, 1)>>
    OBVIOUS
  <1>6. batches("sessions") = <<Batch("sessions", 1), Batch("sessions", 2)>>
    BY <1>4
  <1>7. batches("support_tickets") = <<>>
    BY <1>4
  <1>. HIDE DEF batches, f
  <1>. DEFINE v == Batch("subscribers", 1)
              w == Batch("subscription_events", 1)
              x == Batch("payments", 1)
              y == Batch("sessions", 1)
              z == Batch("sessions", 2)
  <1>8. f[1] = <<v>> /\ f[2] = <<w>> /\ f[3] = <<x>> /\ f[4] = <<y, z>> /\ f[5] = <<>>
    BY <1>3, <1>4, <1>5, <1>6, <1>7
  <1>9. FlattenSeq(f) = (((f[1] \o f[2]) \o f[3]) \o f[4]) \o f[5]
    BY <1>2, FlattenFive
  <1>10. /\ v \in BatchType /\ w \in BatchType /\ x \in BatchType
         /\ y \in BatchType /\ z \in BatchType
    BY TheTables DEF Batch, BatchType
  <1>11. ExportList = <<v, w, x, y, z>>
    BY DEF ExportList
  <1>. HIDE DEF v, w, x, y, z
  <1>12. <<v>> \o <<w>> = <<v, w>>
    BY <1>10, TuplesJoin
  <1>13. <<v, w>> \o <<x>> = <<v, w, x>>
    BY <1>10, TuplesJoin
  <1>14. <<v, w, x>> \o <<y, z>> = <<v, w, x, y, z>>
    BY <1>10, FiveJoin
  <1>15. <<v, w, x, y, z>> \o <<>> = <<v, w, x, y, z>>
    <2>1. <<v, w, x, y, z>> \in Seq(BatchType)
      BY <1>10
    <2>. QED
      BY <2>1, ConcatEmptySeq
  <1>16. FlattenSeq(f) = (((<<v>> \o <<w>>) \o <<x>>) \o <<y, z>>) \o <<>>
    BY <1>8, <1>9, Zenon
  <1>17. FlattenSeq(f) = <<v, w, x, y, z>>
    BY <1>12, <1>13, <1>14, <1>15, <1>16, Zenon
  <1>. QED
    BY <1>1, <1>11, <1>17

(* What matters of them: the subscribers come first, no batch comes twice, *)
(* and the chunks of a table come in order.                                *)
InOrder(B) ==
    /\ B \in Seq(BatchType) /\ Len(B) = 5
    /\ B[1] = Batch("subscribers", 1)
    /\ \A i, j \in 1 .. 5 : B[i] = B[j] => i = j
    /\ \A i, j \in 1 .. 5 : B[i].table = B[j].table /\ B[i].chunk < B[j].chunk => i < j
    /\ \A i \in 1 .. 5 : B[i].chunk = 2 => B[i].table = "sessions"

(* Both kinds of load have their batches in that order.                    *)
LEMMA BatchesOrdered ==
    ASSUME NEW s
    PROVE  /\ InOrder(Batches(s))
           /\ s.export => \A i \in 1 .. 5 : Batches(s)[i] \in Range(ExportBatches)
  <1>1. CASE s.export
    <2>. DEFINE B == ExportList
    <2>1. Batches(s) = B
      BY <1>1, TheExportBatches DEF Batches
    <2>2. B \in Seq(BatchType) /\ Len(B) = 5 /\ B[1] = Batch("subscribers", 1)
      BY TheTables DEF ExportList, BatchType, Batch
    <2>3. \A i, j \in 1 .. 5 : B[i] = B[j] => i = j
      BY DEF ExportList, Batch
    <2>4. \A i, j \in 1 .. 5 : B[i].table = B[j].table /\ B[i].chunk < B[j].chunk => i < j
      BY DEF ExportList, Batch
    <2>5. \A i \in 1 .. 5 : B[i].chunk = 2 => B[i].table = "sessions"
      BY DEF ExportList, Batch
    <2>6. DOMAIN ExportBatches = 1 .. 5
      BY TheExportBatches DEF ExportList
    <2>7. \A i \in 1 .. 5 : B[i] \in Range(ExportBatches)
      BY <2>6, TheExportBatches DEF Range
    <2>. HIDE DEF B
    <2>. QED
      BY <2>1, <2>2, <2>3, <2>4, <2>5, <2>7 DEF InOrder
  <1>2. CASE ~s.export
    <2>. DEFINE B == SimulatedList
    <2>1. Batches(s) = B
      BY <1>2, TheSimulatedBatches DEF Batches
    <2>2. B \in Seq(BatchType) /\ Len(B) = 5 /\ B[1] = Batch("subscribers", 1)
      BY TheTables DEF SimulatedList, BatchType, Batch
    <2>3. \A i, j \in 1 .. 5 : B[i] = B[j] => i = j
      BY DEF SimulatedList, Batch
    <2>4. \A i, j \in 1 .. 5 : B[i].table = B[j].table /\ B[i].chunk < B[j].chunk => i < j
      BY DEF SimulatedList, Batch
    <2>5. \A i \in 1 .. 5 : B[i].chunk = 2 => B[i].table = "sessions"
      BY DEF SimulatedList, Batch
    <2>. HIDE DEF B
    <2>. QED
      BY <1>2, <2>1, <2>2, <2>3, <2>4, <2>5 DEF InOrder
  <1>. QED
    BY <1>1, <1>2

(* The rows of a batch: each of its load, its chunk and a kind of its own. *)
OfBatch(r, s, n, b) ==
    /\ r \in Seq(Row)
    /\ \A i \in 1 .. Len(r) : r[i].load = n /\ r[i].chunk = b.chunk
    /\ \A i, j \in 1 .. Len(r) : r[i].kind = r[j].kind => i = j
    /\ \A i \in 1 .. Len(r) : /\ r[i].kind = "orphan" => Orphans(s, b)
                              /\ r[i].kind = "broken" => b \in s.broken

(* RowsOf gives a batch at least one row, and rows of that description     *)
(* only.                                                                   *)
LEMMA RowsOfBatch ==
    ASSUME NEW s, NEW n \in 1 .. MaxLoads, NEW b, b.chunk \in {1, 2}
    PROVE  OfBatch(RowsOf(s, n, b), s, n, b) /\ RowsOf(s, n, b) # <<>>
  <1>. DEFINE row(k) == [load |-> n, chunk |-> b.chunk, kind |-> k]
              g == row("good")
              o == row("orphan")
              x == row("broken")
  <1>1. /\ g \in Row /\ o \in Row /\ x \in Row
        /\ g.load = n /\ o.load = n /\ x.load = n
        /\ g.chunk = b.chunk /\ o.chunk = b.chunk /\ x.chunk = b.chunk
        /\ g.kind = "good" /\ o.kind = "orphan" /\ x.kind = "broken"
    BY DEF Row, Kinds
  <1>2. RowsOf(s, n, b) = (<<g>> \o (IF Orphans(s, b) THEN <<o>> ELSE <<>>))
                             \o (IF b \in s.broken THEN <<x>> ELSE <<>>)
    BY DEF RowsOf
  <1>. HIDE DEF g, o, x
  <1>3. CASE Orphans(s, b) /\ b \in s.broken
    <2>1. RowsOf(s, n, b) = <<g, o, x>>
      BY <1>1, <1>2, <1>3, TuplesJoin
    <2>. QED
      BY <1>1, <1>3, <2>1 DEF OfBatch
  <1>4. CASE Orphans(s, b) /\ b \notin s.broken
    <2>0. <<g, o>> \in Seq(Row) /\ <<g, o>> \o <<>> = <<g, o>>
      <3>1. <<g, o>> \in Seq(Row)
        BY <1>1
      <3>. QED
        BY <3>1, ConcatEmptySeq
    <2>0a. RowsOf(s, n, b) = (<<g>> \o <<o>>) \o <<>>
      BY <1>2, <1>4, Zenon
    <2>0b. <<g>> \o <<o>> = <<g, o>>
      BY <1>1, TuplesJoin
    <2>1. RowsOf(s, n, b) = <<g, o>>
      BY <2>0, <2>0a, <2>0b, Zenon
    <2>. QED
      BY <1>1, <1>4, <2>1 DEF OfBatch
  <1>5. CASE ~Orphans(s, b) /\ b \in s.broken
    <2>0. <<g, x>> \in Seq(Row) /\ <<g, x>> \o <<>> = <<g, x>>
      <3>1. <<g, x>> \in Seq(Row)
        BY <1>1
      <3>. QED
        BY <3>1, ConcatEmptySeq
    <2>0a. RowsOf(s, n, b) = (<<g>> \o <<>>) \o <<x>>
      BY <1>2, <1>5, Zenon
    <2>0b. <<g>> \o <<>> = <<g>>
      <3>1. <<g>> \in Seq(Row)
        BY <1>1
      <3>. QED
        BY <3>1, ConcatEmptySeq
    <2>0c. <<g>> \o <<x>> = <<g, x>>
      BY <1>1, TuplesJoin
    <2>1. RowsOf(s, n, b) = <<g, x>>
      BY <2>0a, <2>0b, <2>0c, Zenon
    <2>. QED
      BY <1>1, <1>5, <2>1 DEF OfBatch
  <1>6. CASE ~Orphans(s, b) /\ b \notin s.broken
    <2>1. RowsOf(s, n, b) = <<g>>
      BY <1>2, <1>6
    <2>. QED
      BY <1>1, <1>6, <2>1 DEF OfBatch
  <1>. QED
    BY <1>3, <1>4, <1>5, <1>6

-----------------------------------------------------------------------------
(* Progress of a load.                                                     *)

(* What load n of s has left after its first k batches.                    *)
Done(s, k) == {Batches(s)[i] : i \in 1 .. k}

Part(s, n, k, t, c) ==
    IF Batch(t, c) \in Done(s, k) THEN RowsOf(s, n, Batch(t, c)) ELSE <<>>

Filled(s, n, k) == [t \in Tables |-> Part(s, n, k, t, 1) \o Part(s, n, k, t, 2)]

(* The rows of a part.                                                     *)
LEMMA PartRows ==
    ASSUME NEW s, NEW n \in 1 .. MaxLoads, NEW k \in 0 .. 5, NEW t \in Tables,
           NEW c \in {1, 2}
    PROVE  /\ OfBatch(Part(s, n, k, t, c), s, n, Batch(t, c))
           /\ Batch(t, c) \in Done(s, k) <=> Part(s, n, k, t, c) # <<>>
  <1>. DEFINE b == Batch(t, c)
  <1>1. b.chunk \in {1, 2}
    BY DEF Batch
  <1>2. OfBatch(RowsOf(s, n, b), s, n, b) /\ RowsOf(s, n, b) # <<>>
    BY <1>1, RowsOfBatch
  <1>. HIDE DEF b
  <1>3. OfBatch(<<>>, s, n, b)
    BY DEF OfBatch
  <1>. QED
    BY <1>2, <1>3 DEF Part, b

(* The rows of a table: each of the load, and none twice.                  *)
OfLoad(r, s, n, k, t) ==
    /\ r \in Seq(Row)
    /\ \A i \in 1 .. Len(r) : r[i].load = n
    /\ \A i, j \in 1 .. Len(r) : r[i] = r[j] => i = j
    /\ \A i \in 1 .. Len(r) :
          /\ Batch(t, r[i].chunk) \in Done(s, k)
          /\ r[i].kind = "orphan" => Orphans(s, Batch(t, r[i].chunk))
          /\ r[i].kind = "broken" => Batch(t, r[i].chunk) \in s.broken

(* What a load has left in a table answers that description.               *)
LEMMA FilledRows ==
    ASSUME NEW s, NEW n \in 1 .. MaxLoads, NEW k \in 0 .. 5, NEW t \in Tables
    PROVE  OfLoad(Filled(s, n, k)[t], s, n, k, t)
  <1>. DEFINE a == Part(s, n, k, t, 1)
              b == Part(s, n, k, t, 2)
              r == Filled(s, n, k)[t]
  <1>1. r = a \o b
    BY DEF Filled
  <1>1a. /\ OfBatch(a, s, n, Batch(t, 1)) /\ (Batch(t, 1) \in Done(s, k) <=> a # <<>>)
         /\ OfBatch(b, s, n, Batch(t, 2)) /\ (Batch(t, 2) \in Done(s, k) <=> b # <<>>)
    BY PartRows
  <1>1b. Batch(t, 1).chunk = 1 /\ Batch(t, 2).chunk = 2
    BY DEF Batch
  <1>. HIDE DEF a, b
  <1>2. /\ a \in Seq(Row) /\ b \in Seq(Row)
        /\ \A i \in 1 .. Len(a) : a[i].load = n /\ a[i].chunk = 1
        /\ \A i \in 1 .. Len(b) : b[i].load = n /\ b[i].chunk = 2
        /\ \A i, j \in 1 .. Len(a) : a[i].kind = a[j].kind => i = j
        /\ \A i, j \in 1 .. Len(b) : b[i].kind = b[j].kind => i = j
    BY <1>1a, <1>1b DEF OfBatch
  <1>3. /\ Batch(t, 1) \in Done(s, k) <=> a # <<>>
        /\ Batch(t, 2) \in Done(s, k) <=> b # <<>>
        /\ \A i \in 1 .. Len(a) : /\ a[i].kind = "orphan" => Orphans(s, Batch(t, 1))
                                  /\ a[i].kind = "broken" => Batch(t, 1) \in s.broken
        /\ \A i \in 1 .. Len(b) : /\ b[i].kind = "orphan" => Orphans(s, Batch(t, 2))
                                  /\ b[i].kind = "broken" => Batch(t, 2) \in s.broken
    BY <1>1a DEF OfBatch
  <1>. HIDE DEF r
  <1>4. /\ r \in Seq(Row) /\ Len(r) = Len(a) + Len(b)
        /\ Len(a) \in Nat /\ Len(b) \in Nat
        /\ \A i \in 1 .. Len(r) : r[i] = IF i <= Len(a) THEN a[i] ELSE b[i - Len(a)]
    BY <1>1, <1>2, ConcatProperties
  <1>5. ASSUME NEW i \in 1 .. Len(r)
        PROVE  \/ /\ i <= Len(a) /\ i \in 1 .. Len(a) /\ r[i] = a[i]
                  /\ r[i].load = n /\ r[i].chunk = 1
               \/ /\ i > Len(a) /\ i - Len(a) \in 1 .. Len(b) /\ r[i] = b[i - Len(a)]
                  /\ r[i].load = n /\ r[i].chunk = 2
    <2>1. CASE i <= Len(a)
      BY <1>2, <1>4, <2>1
    <2>2. CASE i > Len(a)
      <3>. DEFINE j == i - Len(a)
      <3>1. j \in 1 .. Len(b) /\ r[i] = b[j]
        BY <1>4, <2>2
      <3>. QED
        BY <1>2, <2>2, <3>1
    <2>. QED
      BY <1>4, <2>1, <2>2
  <1>6. ASSUME NEW i \in 1 .. Len(r), NEW j \in 1 .. Len(r), r[i] = r[j]
        PROVE  i = j
    <2>1. CASE i <= Len(a)
      <3>1. i \in 1 .. Len(a) /\ r[i] = a[i] /\ r[i].chunk = 1
        BY <1>4, <1>5, <2>1
      <3>2. r[j].chunk = 1
        BY <1>6, <3>1
      <3>3. j \in 1 .. Len(a) /\ r[j] = a[j]
        BY <1>5, <3>2
      <3>4. a[i].kind = a[j].kind
        BY <1>6, <3>1, <3>3
      <3>. QED
        BY <1>2, <3>1, <3>3, <3>4
    <2>2. CASE i > Len(a)
      <3>. DEFINE x == i - Len(a)
                  y == j - Len(a)
      <3>1. x \in 1 .. Len(b) /\ y \in 1 .. Len(b) /\ b[x] = b[y]
        BY <1>4, <1>5, <1>6, <2>2
      <3>2. x = y
        <4>. HIDE DEF x, y
        <4>. QED
          BY <1>2, <3>1
      <3>. QED
        BY <1>4, <3>2
    <2>. QED
      BY <1>4, <2>1, <2>2
  <1>7. ASSUME NEW i \in 1 .. Len(r)
        PROVE  /\ Batch(t, r[i].chunk) \in Done(s, k)
               /\ r[i].kind = "orphan" => Orphans(s, Batch(t, r[i].chunk))
               /\ r[i].kind = "broken" => Batch(t, r[i].chunk) \in s.broken
    <2>1. CASE i <= Len(a)
      <3>1. i \in 1 .. Len(a) /\ r[i] = a[i] /\ r[i].chunk = 1
        BY <1>4, <1>5, <2>1
      <3>2. a # <<>>
        BY <3>1
      <3>. QED
        BY <1>3, <3>1, <3>2
    <2>2. CASE i > Len(a)
      <3>. DEFINE j == i - Len(a)
      <3>1. j \in 1 .. Len(b) /\ r[i] = b[j] /\ r[i].chunk = 2
        BY <1>4, <1>5, <2>2
      <3>. HIDE DEF j
      <3>2. b # <<>>
        BY <3>1
      <3>. QED
        BY <1>3, <3>1, <3>2
    <2>. QED
      BY <1>4, <2>1, <2>2
  <1>8. \A i \in 1 .. Len(r) : r[i].load = n
    BY <1>5
  <1>9. OfLoad(r, s, n, k, t)
    BY <1>4, <1>6, <1>7, <1>8 DEF OfLoad
  <1>. QED
    BY <1>9 DEF r

(* A load begins with empty tables, and the subscribers are its first.     *)
LEMMA FilledFirst ==
    ASSUME NEW s, NEW n
    PROVE  /\ Filled(s, n, 0) = Empty
           /\ \A k \in 1 .. 5 : n \in 1 .. MaxLoads => Filled(s, n, k)["subscribers"] # <<>>
  <1>1. Filled(s, n, 0) = Empty
    <2>1. Done(s, 0) = {}
      BY DEF Done
    <2>2. \A t \in Tables : Part(s, n, 0, t, 1) \o Part(s, n, 0, t, 2) = <<>>
      BY <2>1 DEF Part
    <2>. QED
      BY <2>2 DEF Filled, Empty
  <1>2. ASSUME NEW k \in 1 .. 5, n \in 1 .. MaxLoads
        PROVE  Filled(s, n, k)["subscribers"] # <<>>
    <2>. DEFINE a == Part(s, n, k, "subscribers", 1)
                b == Part(s, n, k, "subscribers", 2)
    <2>1. Batch("subscribers", 1) \in Done(s, k)
      <3>1. 1 \in 1 .. k /\ Batches(s)[1] = Batch("subscribers", 1)
        BY BatchesOrdered DEF InOrder
      <3>. QED
        BY <3>1 DEF Done
    <2>2. "subscribers" \in Tables /\ k \in 0 .. 5
      BY TheTables
    <2>3. a \in Seq(Row) /\ b \in Seq(Row) /\ a # <<>>
      <3>1. /\ OfBatch(a, s, n, Batch("subscribers", 1))
            /\ (Batch("subscribers", 1) \in Done(s, k) <=> a # <<>>)
            /\ OfBatch(b, s, n, Batch("subscribers", 2))
        BY <1>2, <2>2, PartRows
      <3>. HIDE DEF a, b
      <3>. QED
        BY <2>1, <3>1 DEF OfBatch
    <2>4. Filled(s, n, k)["subscribers"] = a \o b
      BY <2>2 DEF Filled
    <2>. HIDE DEF a, b
    <2>. QED
      BY <2>3, <2>4
  <1>. QED
    BY <1>1, <1>2

(* One more batch is appended to its table.                                *)
LEMMA FilledNext ==
    ASSUME NEW s, NEW n \in 1 .. MaxLoads, NEW k \in 0 .. 4
    PROVE  /\ Batches(s)[k + 1] \in BatchType
           /\ Filled(s, n, k + 1) = [Filled(s, n, k) EXCEPT ![Batches(s)[k + 1].table] =
                                       @ \o RowsOf(s, n, Batches(s)[k + 1])]
  <1>. DEFINE B == Batches(s)
              m == k + 1
              b == B[m]
              q == RowsOf(s, n, b)
              before == Filled(s, n, k)
              after == Filled(s, n, m)
  <1>0. m \in 1 .. 5 /\ k \in 0 .. 5 /\ m \in 0 .. 5 /\ 1 .. m = 1 .. k \cup {m}
        /\ \A i \in 1 .. k : i \in 1 .. 5 /\ i # m /\ ~(m < i)
    OBVIOUS
  <1>1. /\ B \in Seq(BatchType) /\ Len(B) = 5
        /\ \A i, j \in 1 .. 5 : B[i] = B[j] => i = j
        /\ \A i, j \in 1 .. 5 : B[i].table = B[j].table /\ B[i].chunk < B[j].chunk => i < j
    BY BatchesOrdered DEF InOrder
  <1>. HIDE DEF m, B
  <1>2. b \in BatchType /\ b.table \in Tables /\ b.chunk \in {1, 2}
    <2>1. b \in BatchType
      <3>1. m \in 1 .. Len(B)
        BY <1>0, <1>1
      <3>2. B[m] \in BatchType
        BY <1>1, <3>1, ElementOfSeq
      <3>. QED
        BY <3>2
    <2>. QED
      BY <2>1 DEF BatchType
  <1>3. b = Batch(b.table, b.chunk)
    BY <1>2 DEF BatchType, Batch
  <1>4. Done(s, m) = Done(s, k) \cup {b}
    BY <1>0 DEF Done, B
  <1>5. b \notin Done(s, k)
    BY <1>0, <1>1 DEF Done, B
  <1>6. b.chunk = 1 => Batch(b.table, 2) \notin Done(s, k)
    <2>. SUFFICES ASSUME b.chunk = 1, NEW i \in 1 .. k, B[i] = Batch(b.table, 2)
                  PROVE  FALSE
      BY DEF Done, B
    <2>1. B[i].table = b.table /\ B[i].chunk = 2
      BY DEF Batch
    <2>2. m < i
      BY <1>0, <1>1, <2>1
    <2>. QED
      BY <1>0, <2>2
  <1>7. ASSUME NEW t \in Tables, NEW c \in {1, 2}, Batch(t, c) # b
        PROVE  Part(s, n, m, t, c) = Part(s, n, k, t, c)
    BY <1>4, <1>7 DEF Part
  <1>8. Part(s, n, m, b.table, b.chunk) = q /\ Part(s, n, k, b.table, b.chunk) = <<>>
    <2>1. Batch(b.table, b.chunk) \in Done(s, m) /\ Batch(b.table, b.chunk) \notin Done(s, k)
      BY <1>3, <1>4, <1>5
    <2>. QED
      BY <1>3, <2>1 DEF Part
  <1>9. ASSUME NEW t \in Tables, t # b.table
        PROVE  after[t] = before[t]
    <2>1. Batch(t, 1) # b /\ Batch(t, 2) # b
      BY <1>9 DEF Batch
    <2>. QED
      BY <1>7, <2>1 DEF Filled
  <1>10. after[b.table] = before[b.table] \o q
    <2>. DEFINE a1 == Part(s, n, k, b.table, 1)
                a2 == Part(s, n, k, b.table, 2)
    <2>0. q \in Seq(Row) /\ a1 \in Seq(Row) /\ a2 \in Seq(Row)
      <3>1. OfBatch(q, s, n, b)
        BY <1>2, RowsOfBatch
      <3>2. OfBatch(a1, s, n, Batch(b.table, 1)) /\ OfBatch(a2, s, n, Batch(b.table, 2))
        BY <1>0, <1>2, PartRows
      <3>. HIDE DEF q, a1, a2
      <3>. QED
        BY <3>1, <3>2 DEF OfBatch
    <2>1. before[b.table] = a1 \o a2
      BY <1>2 DEF Filled
    <2>2. after[b.table] = Part(s, n, m, b.table, 1) \o Part(s, n, m, b.table, 2)
      BY <1>2 DEF Filled
    <2>3. CASE b.chunk = 1
      <3>1. a1 = <<>> /\ a2 = <<>>
        BY <1>6, <1>8, <2>3 DEF Part
      <3>2. Part(s, n, m, b.table, 1) = q
        BY <1>8, <2>3
      <3>3. Batch(b.table, 2) # b
        BY <2>3 DEF Batch
      <3>4. Part(s, n, m, b.table, 2) = <<>>
        BY <1>2, <1>7, <3>1, <3>3
      <3>5. after[b.table] = q \o <<>> /\ before[b.table] = <<>> \o <<>>
        BY <2>1, <2>2, <3>1, <3>2, <3>4
      <3>. HIDE DEF q, after, before
      <3>. QED
        BY <2>0, <3>5
    <2>4. CASE b.chunk = 2
      <3>1. a2 = <<>> /\ Part(s, n, m, b.table, 2) = q
        BY <1>8, <2>4
      <3>2. Batch(b.table, 1) # b
        BY <2>4 DEF Batch
      <3>3. Part(s, n, m, b.table, 1) = a1
        BY <1>2, <1>7, <3>2
      <3>4. after[b.table] = a1 \o q /\ before[b.table] = a1 \o <<>>
        BY <2>1, <2>2, <3>1, <3>3
      <3>. HIDE DEF q, after, before, a1
      <3>. QED
        BY <2>0, <3>4
    <2>. QED
      BY <1>2, <2>3, <2>4
  <1>11. after = [before EXCEPT ![b.table] = before[b.table] \o q]
    <2>1. DOMAIN after = Tables /\ DOMAIN before = Tables /\ after = [t \in Tables |-> after[t]]
      BY DEF Filled
    <2>. HIDE DEF after, before, q
    <2>. QED
      BY <1>2, <1>9, <1>10, <2>1
  <1>. QED
    BY <1>2, <1>11 DEF m, B

-----------------------------------------------------------------------------
(* The invariant.                                                          *)

Types ==
    /\ rows \in [Tables -> Seq(Row)]
    /\ source \in Sources
    /\ loads \in 0 .. MaxLoads
    /\ job \in [at : Steps \cup {"none"}, regenerate : BOOLEAN, tries : 0 .. Retries,
                src : Sources, todo : Seq(BatchType \cup Slice)]
    /\ torn \in BOOLEAN
    /\ pg \in [rows : [Tables -> Seq(Row)], indexed : BOOLEAN, next : [SerialTables -> Nat]]
    /\ faults \in 0 .. MaxFaults

Loading == {"ensure", "truncate", "insert", "count"}
Copying == {"prepare", "copy", "index", "compare"}

(* A job that loads is counted; only the ingest task is run again.         *)
UnderWay ==
    /\ job.at = "none" => job = NoJob
    /\ job.at \in Loading => loads \in 1 .. MaxLoads
    /\ job.at \in Copying => job.tries = 0
    /\ job.at = "ensure" => ~job.regenerate

(* What may be loaded without an operator who forces it.                   *)
Admitted(s) == s = Simulation \/ Valid(s) \/ s.force

(* The warehouse holds the first batches of a load; while one inserts, of  *)
(* that one, and what is left to do are the others.                        *)
Standing ==
    /\ Admitted(source) /\ Admitted(job.src)
    /\ rows = Empty \/ \E n \in 1 .. loads, k \in 0 .. 5 : rows = Filled(source, n, k)
    /\ job.at = "insert" =>
          /\ source = job.src
          /\ \E k \in 0 .. 5 : /\ job.todo = SubSeq(Batches(source), k + 1, 5)
                               /\ rows = Filled(source, loads, k)

(* All of them, unless an attempt died on the way.                         *)
Completed ==
    /\ ~torn /\ job.at # "insert" =>
          rows = Empty \/ \E n \in 1 .. loads : rows = Filled(source, n, 5)
    /\ job.at = "count" =>
          /\ rows["subscribers"] # <<>>
          /\ job.regenerate => rows = Filled(source, loads, 5)

(* The copy has followed its plan so far; when it has none it is of one    *)
(* load, though it need not be the one the warehouse holds.                *)
OfOneLoad(db) ==
    /\ Cardinality(Loads(db)) <= 1
    /\ \A t \in Tables : IsInjective(db[t])
    /\ ParentsFirst(db)

Followed ==
    /\ job.at = "copy" =>
          \E k \in 0 .. Len(AllSlices) :
             /\ job.todo = SubSeq(AllSlices, k + 1, Len(AllSlices))
             /\ Progress(AllSlices, k, pg.rows)
    /\ job.at \in {"index", "compare"} => pg.rows = rows
    /\ job.at = "compare" =>
          pg.indexed /\ \A t \in SerialTables : pg.next[t] > Len(pg.rows[t])

LoadInv == Types /\ UnderWay /\ Standing

Inv == LoadInv /\ Completed /\ Followed /\ OfOneLoad(pg.rows)

-----------------------------------------------------------------------------
(* The steps that move rows.                                               *)

(* What a load has left is well typed.                                     *)
LEMMA FilledType ==
    ASSUME NEW s, NEW n \in 1 .. MaxLoads, NEW k \in 0 .. 5
    PROVE  Filled(s, n, k) \in [Tables -> Seq(Row)]
  <1>1. ASSUME NEW t \in Tables PROVE Filled(s, n, k)[t] \in Seq(Row)
    <2>1. OfLoad(Filled(s, n, k)[t], s, n, k, t)
      BY FilledRows
    <2>. QED
      BY <2>1 DEF OfLoad
  <1>2. Filled(s, n, k) = [t \in Tables |-> Filled(s, n, k)[t]]
    BY DEF Filled
  <1>. QED
    BY <1>1, <1>2

(* What remains to be done of a sequence, and its next element.            *)
LEMMA Remaining ==
    ASSUME NEW S, NEW p \in Seq(S), NEW k \in 0 .. Len(p), NEW todo,
           todo = SubSeq(p, k + 1, Len(p))
    PROVE  /\ todo \in Seq(S)
           /\ todo = <<>> <=> k = Len(p)
           /\ todo # <<>> => /\ k \in 0 .. Len(p) - 1
                             /\ Head(todo) = p[k + 1]
                             /\ p[k + 1] \in S
                             /\ Tail(todo) = SubSeq(p, k + 2, Len(p))
  <1>1. todo \in Seq(S) /\ Len(todo) = Len(p) - k
    <2>1. k + 1 \in Int /\ Len(p) \in Int /\ \A i \in k + 1 .. Len(p) : p[i] \in S
      OBVIOUS
    <2>2. /\ SubSeq(p, k + 1, Len(p)) \in Seq(S)
          /\ Len(SubSeq(p, k + 1, Len(p))) =
                IF k + 1 <= Len(p) THEN Len(p) - (k + 1) + 1 ELSE 0
      BY <2>1, SubSeqProperties
    <2>. QED
      BY <2>2
  <1>2. todo = <<>> <=> k = Len(p)
    <2>1. todo = <<>> <=> Len(todo) = 0
      BY <1>1, EmptySeq
    <2>2. Len(todo) = 0 <=> k = Len(p)
      <3>. DEFINE l == Len(p)
      <3>1. k \in Nat /\ l \in Nat /\ Len(todo) = l - k
        BY <1>1
      <3>. HIDE DEF l
      <3>2. Len(todo) = 0 <=> k = l
        BY <3>1
      <3>. QED
        BY <3>2 DEF l
    <2>. QED
      BY <2>1, <2>2
  <1>3. ASSUME todo # <<>>
        PROVE  /\ k \in 0 .. Len(p) - 1
               /\ Head(todo) = p[k + 1] /\ p[k + 1] \in S
               /\ Tail(todo) = SubSeq(p, k + 2, Len(p))
    <2>. DEFINE m == k + 1
    <2>1. k \in 0 .. Len(p) - 1 /\ m \in 1 .. Len(p) /\ Len(p) \in m .. Len(p)
      BY <1>2, <1>3
    <2>2. m + 1 = k + 2
      OBVIOUS
    <2>3. Head(SubSeq(p, m, Len(p))) = p[m] /\ Tail(SubSeq(p, m, Len(p))) = SubSeq(p, m + 1, Len(p))
      <3>. HIDE DEF m
      <3>. QED
        BY <2>1, HeadTailOfSubSeq
    <2>. QED
      BY <2>1, <2>2, <2>3, ElementOfSeq
  <1>. QED
    BY <1>1, <1>2, <1>3

(* A load that is to insert its next batch.                                *)
Insertion(k) ==
    /\ job.at = "insert"
    /\ rows = Filled(source, loads, k)
    /\ rows' = Filled(source, loads, k + 1)
    /\ job'.todo = SubSeq(Batches(source), k + 2, 5)

(* Insert takes a load from its first k batches to its first k + 1.        *)
LEMMA InsertsNext ==
    ASSUME Types, UnderWay, Standing, Insert
    PROVE  /\ \E k \in 0 .. 4 : Insertion(k)
           /\ job'.todo \in Seq(BatchType)
  <1>. DEFINE B == Batches(source)
              q(k) == RowsOf(source, loads, B[k + 1])
  <1>. DEFINE todo == job.todo
  <1>1. PICK k \in 0 .. 5 : todo = SubSeq(B, k + 1, 5) /\ rows = Filled(source, loads, k)
    BY DEF Standing, Insert
  <1>2. B \in Seq(BatchType) /\ Len(B) = 5
    BY BatchesOrdered DEF InOrder
  <1>3. loads \in 1 .. MaxLoads /\ source = job.src /\ job.at = "insert" /\ todo # <<>>
    BY DEF UnderWay, Standing, Insert, Loading
  <1>. HIDE DEF B, todo
  <1>4. /\ todo \in Seq(BatchType)
        /\ k \in 0 .. 4 /\ Head(todo) = B[k + 1] /\ Tail(todo) = SubSeq(B, k + 2, 5)
    <2>1. k \in 0 .. Len(B) /\ todo = SubSeq(B, k + 1, Len(B))
      BY <1>1, <1>2
    <2>2. /\ todo \in Seq(BatchType)
          /\ k \in 0 .. Len(B) - 1 /\ Head(todo) = B[k + 1] /\ Tail(todo) = SubSeq(B, k + 2, Len(B))
      BY <1>2, <1>3, <2>1, Remaining
    <2>. QED
      BY <1>2, <2>2
  <1>5. rows' = [rows EXCEPT ![B[k + 1].table] = @ \o q(k)]
    BY <1>3, <1>4 DEF Insert, todo
  <1>6. Filled(source, loads, k + 1) = [Filled(source, loads, k) EXCEPT ![B[k + 1].table] = @ \o q(k)]
    <2>1. loads \in 1 .. MaxLoads /\ k \in 0 .. 4
      BY <1>3, <1>4
    <2>. QED
      BY <2>1, FilledNext, Zenon DEF B
  <1>7. rows' = Filled(source, loads, k + 1)
    <2>. HIDE DEF q
    <2>. QED
      BY <1>1, <1>5, <1>6, Zenon
  <1>8. job'.todo = Tail(todo)
    BY DEF Insert, todo, Types
  <1>9. Tail(todo) \in Seq(BatchType)
    BY <1>3, <1>4 DEF todo
  <1>. QED
    BY <1>1, <1>3, <1>4, <1>7, <1>8, <1>9 DEF Insertion, B

(* All of it has been inserted.                                            *)
LEMMA InsertsAll ==
    ASSUME Types, UnderWay, Standing, Inserted
    PROVE  rows = Filled(source, loads, 5)
  <1>. DEFINE B == Batches(source)
              todo == job.todo
  <1>1. PICK k \in 0 .. 5 : todo = SubSeq(B, k + 1, 5) /\ rows = Filled(source, loads, k)
    BY DEF Standing, Inserted
  <1>2. B \in Seq(BatchType) /\ Len(B) = 5 /\ todo = <<>>
    BY BatchesOrdered DEF InOrder, Inserted
  <1>. HIDE DEF B, todo
  <1>3. k = 5
    BY <1>1, <1>2, Remaining
  <1>. QED
    BY <1>1, <1>3

(* A copy that is to take its next slice.                                  *)
Slicing(k) ==
    /\ job.at = "copy"
    /\ Progress(AllSlices, k, pg.rows)
    /\ Progress(AllSlices, k + 1, pg'.rows)
    /\ job'.todo = SubSeq(AllSlices, k + 2, Len(AllSlices))

(* The content a plan has copied is well typed.                            *)
LEMMA ProgressType ==
    ASSUME rows \in [Tables -> Seq(Row)], NEW p, NEW k, NEW content,
           Progress(p, k, content), content = [t \in Tables |-> content[t]]
    PROVE  content \in [Tables -> Seq(Row)]
  <1>1. ASSUME NEW t \in Tables PROVE content[t] \in Seq(Row)
    <2>. DEFINE r == rows[t]
    <2>1. PICK c \in 0 .. Len(r) : content[t] = SubSeq(r, 1, c)
      BY DEF Progress
    <2>2. r \in Seq(Row)
      OBVIOUS
    <2>. HIDE DEF r
    <2>3. \A i \in 1 .. c : r[i] \in Row
      BY <2>1, <2>2
    <2>4. 1 \in Int /\ c \in Int
      BY <2>1, <2>2
    <2>5. SubSeq(r, 1, c) \in Seq(Row)
      BY <2>3, <2>4, SubSeqProperties
    <2>. QED
      BY <2>1, <2>5
  <1>. QED
    BY <1>1

(* CopySlice takes a copy from its first k slices to its first k + 1.      *)
LEMMA CopiesNext ==
    ASSUME Types, Followed, CopySlice
    PROVE  /\ \E k \in 0 .. Len(AllSlices) - 1 : Slicing(k)
           /\ job'.todo \in Seq(Slice)
           /\ pg' = [pg EXCEPT !.rows = pg'.rows]
           /\ pg'.rows \in [Tables -> Seq(Row)]
  <1>. DEFINE p == AllSlices
              todo == job.todo
              content == pg.rows
              new(s) == [content EXCEPT ![s.table] =
                           @ \o SubSeq(rows[s.table], s.low + 1, s.high)]
  <1>0. rows \in [Tables -> Seq(Row)] /\ content \in [Tables -> Seq(Row)]
    BY DEF Types
  <1>1. PICK k \in 0 .. Len(p) : todo = SubSeq(p, k + 1, Len(p)) /\ Progress(p, k, content)
    BY DEF Followed, CopySlice
  <1>2. Plan(p, Tables) /\ p \in Seq(Slice)
    BY <1>0, AllPlanned DEF Plan
  <1>3. job.at = "copy" /\ todo # <<>> /\ job'.todo = Tail(todo)
    BY DEF CopySlice, Types
  <1>4. pg' = [pg EXCEPT !.rows = new(Head(todo))]
    BY DEF CopySlice, Types
  <1>5. pg'.rows = new(Head(todo)) /\ pg' = [pg EXCEPT !.rows = pg'.rows]
    <2>. HIDE DEF new, todo, content
    <2>. QED
      BY <1>4 DEF Types
  <1>. HIDE DEF p, todo, content
  <1>6. /\ todo \in Seq(Slice)
        /\ k \in 0 .. Len(p) - 1 /\ Head(todo) = p[k + 1] /\ p[k + 1] \in Slice
        /\ Tail(todo) = SubSeq(p, k + 2, Len(p))
    BY <1>1, <1>2, <1>3, Remaining
  <1>7. Progress(p, k + 1, new(p[k + 1]))
    BY <1>0, <1>1, <1>2, <1>6, CopyProgress
  <1>8. new(p[k + 1]) = [t \in Tables |-> new(p[k + 1])[t]]
    BY <1>0, <1>6
  <1>9. pg'.rows = new(p[k + 1])
    <2>. HIDE DEF new
    <2>. QED
      BY <1>5, <1>6
  <1>10. pg'.rows \in [Tables -> Seq(Row)]
    <2>. HIDE DEF new
    <2>. QED
      BY <1>0, <1>7, <1>8, <1>9, ProgressType
  <1>11. Tail(todo) \in Seq(Slice)
    BY <1>3, <1>6
  <1>. QED
    <2>. HIDE DEF new
    <2>1. Slicing(k)
      BY <1>1, <1>3, <1>6, <1>7, <1>9 DEF Slicing, p, content
    <2>. QED
      BY <1>3, <1>5, <1>6, <1>10, <1>11, <2>1 DEF p

(* All of it has been copied.                                              *)
LEMMA CopiesAll ==
    ASSUME Types, Followed, Copied
    PROVE  pg.rows = rows
  <1>. DEFINE p == AllSlices
              todo == job.todo
              content == pg.rows
  <1>0. rows \in [Tables -> Seq(Row)] /\ content \in [Tables -> Seq(Row)]
    BY DEF Types
  <1>1. PICK k \in 0 .. Len(p) : todo = SubSeq(p, k + 1, Len(p)) /\ Progress(p, k, content)
    BY DEF Followed, Copied
  <1>2. Plan(p, Tables) /\ p \in Seq(Slice) /\ todo = <<>>
    BY <1>0, AllPlanned DEF Plan, Copied
  <1>. HIDE DEF p, todo, content
  <1>3. k = Len(p)
    BY <1>1, <1>2, Remaining
  <1>4. content = rows
    BY <1>0, <1>1, <1>2, <1>3, PlanComplete
  <1>. QED
    BY <1>4 DEF content

-----------------------------------------------------------------------------
(* The invariant holds at first and is kept.                               *)

Job == [at : Steps \cup {"none"}, regenerate : BOOLEAN, tries : 0 .. Retries,
        src : Sources, todo : Seq(BatchType \cup Slice)]

(* No job is a job, and so is any that has just been started.              *)
LEMMA JobsStart ==
    /\ NoJob \in Job /\ Simulation \in Sources /\ Empty \in [Tables -> Seq(Row)]
    /\ 0 \in 0 .. Retries /\ Retries \in 0 .. Retries
    /\ Admitted(Simulation)
  BY WarehouseAssumption DEF Job, NoJob, Steps, Sources, Empty, Admitted

(* An empty warehouse satisfies the invariant.                             *)
LEMMA Begins == Init => Inv
  <1>. SUFFICES ASSUME Init PROVE Inv
    OBVIOUS
  <1>1. Types
    <2>1. pg \in [rows : [Tables -> Seq(Row)], indexed : BOOLEAN, next : [SerialTables -> Nat]]
      BY JobsStart DEF Init
    <2>2. job \in Job
      <3>1. job = NoJob
        BY DEF Init
      <3>. QED
        BY <3>1, JobsStart
    <2>2a. source \in Sources /\ rows \in [Tables -> Seq(Row)]
      BY JobsStart DEF Init
    <2>3. loads \in 0 .. MaxLoads /\ faults \in 0 .. MaxFaults /\ torn \in BOOLEAN
      <3>1. loads = 0 /\ faults = 0
        BY Zenon DEF Init
      <3>2. loads \in 0 .. MaxLoads /\ faults \in 0 .. MaxFaults
        BY <3>1, WarehouseAssumption
      <3>3. torn \in BOOLEAN
        BY Zenon DEF Init
      <3>. QED
        BY <3>2, <3>3
    <2>. QED
      BY <2>1, <2>2, <2>2a, <2>3 DEF Types, Job
  <1>2. UnderWay /\ Standing /\ Completed /\ Followed
    BY JobsStart DEF Init, UnderWay, Standing, Completed, Followed, NoJob, Loading, Copying
  <1>3. OfOneLoad(Empty)
    <2>1. \A t \in Tables : Range(Empty[t]) = {} /\ IsInjective(Empty[t])
      BY DEF Empty, Range, IsInjective
    <2>2. Loads(Empty) = {}
      BY <2>1 DEF Loads
    <2>3. Cardinality({}) = 0
      BY FS_EmptySet
    <2>. QED
      BY <2>1, <2>2, <2>3 DEF OfOneLoad, ParentsFirst
  <1>4. pg.rows = Empty
    BY DEF Init
  <1>. QED
    BY <1>1, <1>2, <1>3, <1>4 DEF Inv, LoadInv

(* Every step keeps the types.                                             *)
LEMMA TypesKept == Inv /\ [Next]_vars => Types'
  <1>. SUFFICES ASSUME Inv, [Next]_vars PROVE Types'
    OBVIOUS
  <1>. USE DEF Inv, LoadInv
  <1>0. /\ rows \in [Tables -> Seq(Row)] /\ source \in Sources /\ loads \in 0 .. MaxLoads
        /\ job \in Job /\ torn \in BOOLEAN /\ faults \in 0 .. MaxFaults
        /\ pg \in [rows : [Tables -> Seq(Row)], indexed : BOOLEAN, next : [SerialTables -> Nat]]
        /\ MaxLoads \in Nat /\ MaxFaults \in Nat /\ Retries \in Nat
    BY WarehouseAssumption DEF Types, Job
  <1>a. \A at \in Steps : [job EXCEPT !.at = at] \in Job
    BY <1>0 DEF Job
  <1>1. ASSUME NEW regenerate \in BOOLEAN, NEW tries \in {0, Retries}, Ingest(regenerate, tries)
        PROVE  Types'
    <2>1. loads' \in 0 .. MaxLoads
      BY <1>0, <1>1 DEF Ingest
    <2>2. job' \in Job
      BY <1>1, JobsStart DEF Ingest, Job, Steps
    <2>. QED
      BY <1>0, <1>1, <2>1, <2>2 DEF Ingest, Types, Job
  <1>2. ASSUME NEW s \in Exports, IngestExport(s)
        PROVE  Types'
    <2>1. loads' \in 0 .. MaxLoads
      BY <1>0, <1>2 DEF IngestExport
    <2>2. s \in Sources
      BY DEF Sources
    <2>3. job' \in Job
      BY <1>2, <2>2, JobsStart DEF IngestExport, Job, Steps
    <2>. QED
      BY <1>0, <1>2, <2>1, <2>3 DEF IngestExport, Types, Job
  <1>3. CASE CopyToPostgres
    <2>1. job' \in Job
      BY <1>3, JobsStart DEF CopyToPostgres, Job, Steps
    <2>. QED
      BY <1>0, <1>3, <2>1 DEF CopyToPostgres, Types, Job
  <1>4. CASE Ensure
    <2>1. job' \in Job
      BY <1>4, <1>a DEF Ensure, Steps
    <2>. QED
      BY <1>0, <1>4, <2>1 DEF Ensure, Types, Job
  <1>5. CASE Truncate
    <2>1. Batches(job.src) \in Seq(BatchType \cup Slice) /\ job.src \in Sources
      <3>1. Batches(job.src) \in Seq(BatchType)
        BY BatchesOrdered DEF InOrder
      <3>. QED
        BY <1>0, <3>1 DEF Job
    <2>2. job' \in Job
      <3>. DEFINE b == Batches(job.src)
      <3>1. job' = [job EXCEPT !.at = "insert", !.todo = b]
        BY <1>5 DEF Truncate
      <3>. HIDE DEF b
      <3>. QED
        BY <1>0, <2>1, <3>1 DEF Job, Steps, b
    <2>. QED
      BY <1>0, <1>5, <2>1, <2>2, JobsStart DEF Truncate, Types, Job
  <1>6. CASE Insert
    <2>1. PICK k \in 0 .. 4 : Insertion(k)
      BY <1>6, InsertsNext
    <2>2. rows' \in [Tables -> Seq(Row)]
      <3>1. k + 1 \in 0 .. 5 /\ loads \in 1 .. MaxLoads
        BY <1>6 DEF Insert, UnderWay, Loading
      <3>2. rows' = Filled(source, loads, k + 1)
        BY <2>1 DEF Insertion
      <3>. QED
        BY <3>1, <3>2, FilledType
    <2>3. job' = [job EXCEPT !.todo = job'.todo] /\ job'.todo \in Seq(BatchType \cup Slice)
      <3>1. job' = [job EXCEPT !.todo = Tail(job.todo)]
        BY <1>6 DEF Insert
      <3>2. job'.todo \in Seq(BatchType)
        BY <1>6, InsertsNext
      <3>3. job'.todo = Tail(job.todo)
        BY <1>0, <3>1 DEF Job
      <3>. QED
        BY <3>1, <3>2, <3>3
    <2>4. job' \in Job
      BY <1>0, <2>3 DEF Job
    <2>. QED
      BY <1>0, <1>6, <2>2, <2>4 DEF Insert, Types, Job
  <1>7. CASE Inserted
    <2>1. job' \in Job
      BY <1>7, <1>a DEF Inserted, Steps
    <2>. QED
      BY <1>0, <1>7, <2>1 DEF Inserted, Types, Job
  <1>8. CASE Return \/ Compare
    <2>1. job' \in Job
      BY <1>8, JobsStart DEF Return, Compare
    <2>. QED
      BY <1>0, <1>8, <2>1 DEF Return, Compare, Types, Job
  <1>9. CASE Prepare
    <2>1. AllSlices \in Seq(Slice) /\ AllSlices \in Seq(BatchType \cup Slice)
      <3>1. AllSlices \in Seq(Slice)
        BY <1>0, AllPlanned DEF Plan
      <3>. QED
        BY <3>1
    <2>2. job' = [job EXCEPT !.at = "copy", !.todo = AllSlices]
      BY <1>9 DEF Prepare, AllSlices
    <2>3. job' \in Job
      BY <1>0, <2>1, <2>2 DEF Job, Steps
    <2>4. pg' \in [rows : [Tables -> Seq(Row)], indexed : BOOLEAN, next : [SerialTables -> Nat]]
      BY <1>9, JobsStart DEF Prepare
    <2>. QED
      BY <1>0, <1>9, <2>3, <2>4 DEF Prepare, Types, Job
  <1>10. CASE CopySlice
    <2>1. /\ job'.todo \in Seq(Slice) /\ pg' = [pg EXCEPT !.rows = pg'.rows]
          /\ pg'.rows \in [Tables -> Seq(Row)]
      BY <1>10, CopiesNext
    <2>2. job' = [job EXCEPT !.todo = job'.todo] /\ job'.todo \in Seq(BatchType \cup Slice)
      <3>1. job' = [job EXCEPT !.todo = Tail(job.todo)]
        BY <1>10 DEF CopySlice
      <3>2. job'.todo = Tail(job.todo)
        BY <1>0, <3>1 DEF Job
      <3>. QED
        BY <2>1, <3>1, <3>2
    <2>3. job' \in Job
      BY <1>0, <2>2 DEF Job
    <2>4. pg' \in [rows : [Tables -> Seq(Row)], indexed : BOOLEAN, next : [SerialTables -> Nat]]
      BY <1>0, <2>1
    <2>. QED
      BY <1>0, <1>10, <2>3, <2>4 DEF CopySlice, Types, Job
  <1>11. CASE Copied
    <2>1. job' \in Job
      BY <1>11, <1>a DEF Copied, Steps
    <2>. QED
      BY <1>0, <1>11, <2>1 DEF Copied, Types, Job
  <1>12. CASE Index
    <2>1. job' \in Job
      BY <1>12, <1>a DEF Index, Steps
    <2>2. pg' \in [rows : [Tables -> Seq(Row)], indexed : BOOLEAN, next : [SerialTables -> Nat]]
      <3>. DEFINE next == [t \in SerialTables |-> Len(pg.rows[t]) + 1]
      <3>1. next \in [SerialTables -> Nat]
        BY <1>0, TheTables
      <3>2. pg' = [pg EXCEPT !.indexed = TRUE, !.next = next]
        BY <1>12 DEF Index
      <3>. HIDE DEF next
      <3>. QED
        BY <1>0, <3>1, <3>2
    <2>. QED
      BY <1>0, <1>12, <2>1, <2>2 DEF Index, Types, Job
  <1>13. CASE Fails
    <2>1. job' \in Job
      <3>1. CASE job.tries > 0
        <4>1. job.tries - 1 \in 0 .. Retries
          BY <1>0, <3>1 DEF Job
        <4>. DEFINE at == IF job.regenerate THEN "truncate" ELSE "ensure"
                    tries == job.tries - 1
        <4>2. at \in Steps /\ tries \in 0 .. Retries
          BY <4>1 DEF Steps
        <4>3. job' = [job EXCEPT !.at = at, !.tries = tries, !.todo = <<>>]
          BY <1>0, <1>13, <3>1 DEF Fails, Job
        <4>. HIDE DEF at, tries
        <4>. DEFINE T == Seq(BatchType \cup Slice)
        <4>4. <<>> \in T /\ job \in [at : Steps \cup {"none"}, regenerate : BOOLEAN,
                                     tries : 0 .. Retries, src : Sources, todo : T]
          BY <1>0 DEF Job
        <4>. HIDE DEF T
        <4>5. job' \in [at : Steps \cup {"none"}, regenerate : BOOLEAN,
                        tries : 0 .. Retries, src : Sources, todo : T]
          BY <4>2, <4>3, <4>4
        <4>. QED
          BY <4>5 DEF Job, T
      <3>2. CASE ~(job.tries > 0)
        BY <1>13, <3>2, JobsStart DEF Fails
      <3>. QED
        BY <3>1, <3>2
    <2>2. faults' \in 0 .. MaxFaults /\ torn' \in BOOLEAN
      BY <1>0, <1>13 DEF Fails, Died
    <2>. QED
      BY <1>0, <1>13, <2>1, <2>2 DEF Fails, Types, Job
  <1>14. CASE Killed
    <2>1. faults' \in 0 .. MaxFaults /\ torn' \in BOOLEAN /\ job' \in Job
      BY <1>0, <1>14, JobsStart DEF Killed, Died
    <2>. QED
      BY <1>0, <1>14, <2>1 DEF Killed, Types, Job
  <1>15. CASE UNCHANGED vars
    BY <1>0, <1>15 DEF vars, Types, Job
  <1>. QED
    BY <1>1, <1>2, <1>3, <1>4, <1>5, <1>6, <1>7, <1>8, <1>9, <1>10, <1>11, <1>12, <1>13,
       <1>14, <1>15 DEF Next, JobStep

(* Every step keeps the job one the code has.                              *)
LEMMA UnderWayKept == Inv /\ [Next]_vars => UnderWay'
  <1>. SUFFICES ASSUME Inv, [Next]_vars PROVE UnderWay'
    OBVIOUS
  <1>0. UnderWay /\ job \in Job /\ loads \in 0 .. MaxLoads /\ MaxLoads \in Nat
    BY WarehouseAssumption DEF Inv, LoadInv, Types, Job
  <1>. USE DEF UnderWay, Loading, Copying
  <1>1. ASSUME NEW regenerate \in BOOLEAN, NEW tries \in {0, Retries}, Ingest(regenerate, tries)
        PROVE  UnderWay'
    <2>1. loads' \in 1 .. MaxLoads
      BY <1>0, <1>1 DEF Ingest
    <2>2. job'.at = (IF regenerate THEN "truncate" ELSE "ensure") /\ job'.regenerate = regenerate
      BY <1>1 DEF Ingest, NoJob
    <2>. QED
      BY <2>1, <2>2
  <1>2. ASSUME NEW s \in Exports, IngestExport(s)
        PROVE  UnderWay'
    <2>1. loads' \in 1 .. MaxLoads
      BY <1>0, <1>2 DEF IngestExport
    <2>2. job'.at = "truncate"
      BY <1>2 DEF IngestExport, NoJob
    <2>. QED
      BY <2>1, <2>2
  <1>3. CASE CopyToPostgres
    <2>1. job'.at = "prepare" /\ job'.tries = 0
      BY <1>3 DEF CopyToPostgres, NoJob
    <2>. QED
      BY <2>1
  <1>4. CASE Ensure
    <2>1. job'.at \in {"count", "truncate"} /\ job.at = "ensure" /\ loads' = loads
      BY <1>0, <1>4 DEF Ensure, Job
    <2>. QED
      BY <1>0, <2>1
  <1>5. CASE Truncate
    <2>1. job'.at = "insert" /\ job.at = "truncate" /\ loads' = loads
      BY <1>0, <1>5 DEF Truncate, Job
    <2>. QED
      BY <1>0, <2>1
  <1>6. CASE Insert
    <2>1. job'.at = "insert" /\ job.at = "insert" /\ loads' = loads
      BY <1>0, <1>6 DEF Insert, Job
    <2>. QED
      BY <1>0, <2>1
  <1>7. CASE Inserted
    <2>1. job'.at = "count" /\ job.at = "insert" /\ loads' = loads
      BY <1>0, <1>7 DEF Inserted, Job
    <2>. QED
      BY <1>0, <2>1
  <1>8. CASE Return \/ Compare \/ Killed
    <2>1. job' = NoJob
      BY <1>8 DEF Return, Compare, Killed
    <2>. QED
      BY <2>1 DEF NoJob
  <1>9. CASE Prepare
    <2>1. job'.at = "copy" /\ job.at = "prepare" /\ job'.tries = job.tries
      BY <1>0, <1>9 DEF Prepare, Job
    <2>. QED
      BY <1>0, <2>1
  <1>10. CASE CopySlice
    <2>1. job'.at = "copy" /\ job.at = "copy" /\ job'.tries = job.tries
      BY <1>0, <1>10 DEF CopySlice, Job
    <2>. QED
      BY <1>0, <2>1
  <1>11. CASE Copied
    <2>1. job'.at = "index" /\ job.at = "copy" /\ job'.tries = job.tries
      BY <1>0, <1>11 DEF Copied, Job
    <2>. QED
      BY <1>0, <2>1
  <1>12. CASE Index
    <2>1. job'.at = "compare" /\ job.at = "index" /\ job'.tries = job.tries
      BY <1>0, <1>12 DEF Index, Job
    <2>. QED
      BY <1>0, <2>1
  <1>13. CASE Fails
    <2>1. CASE job.tries > 0
      <3>1. /\ job'.at = (IF job.regenerate THEN "truncate" ELSE "ensure")
            /\ job'.regenerate = job.regenerate /\ loads' = loads
        BY <1>0, <1>13, <2>1 DEF Fails, Job
      <3>2. job.at \in Loading
        <4>1. job.tries # 0 /\ job # NoJob /\ job.at \in Steps \cup {"none"}
          BY <1>0, <1>13, <2>1 DEF Fails, Job
        <4>. QED
          BY <1>0, <4>1 DEF Steps
      <3>. QED
        BY <1>0, <3>1, <3>2
    <2>2. CASE ~(job.tries > 0)
      <3>1. job' = NoJob
        BY <1>13, <2>2 DEF Fails
      <3>. QED
        BY <3>1 DEF NoJob
    <2>. QED
      BY <2>1, <2>2
  <1>14. CASE UNCHANGED vars
    BY <1>0, <1>14 DEF vars
  <1>. QED
    BY <1>1, <1>2, <1>3, <1>4, <1>5, <1>6, <1>7, <1>8, <1>9, <1>10, <1>11, <1>12, <1>13,
       <1>14 DEF Next, JobStep

(* A step that moves no rows changes none of the first two parts.          *)
LEMMA StandingStays ==
    ASSUME Types, UnderWay, Standing, UNCHANGED <<rows, source>>,
           loads' \in loads .. MaxLoads, Admitted(job'.src), job'.at # "insert"
    PROVE  Standing'
  <1>1. loads \in Nat /\ loads' \in Nat /\ \A n \in 1 .. loads : n \in 1 .. loads'
    BY WarehouseAssumption DEF Types
  <1>2. rows = Empty \/ \E n \in 1 .. loads', k \in 0 .. 5 : rows = Filled(source, n, k)
    BY <1>1 DEF Standing
  <1>3. \A n \in 1 .. loads', k \in 0 .. 5 : Filled(source, n, k)' = Filled(source, n, k)
    OBVIOUS
  <1>. QED
    BY <1>2 DEF Standing, Empty

(* Every step leaves the first batches of one admitted load: only          *)
(* truncate_all begins another, and only Insert adds to it.                *)
LEMMA StandingKept == Inv /\ [Next]_vars => Standing'
  <1>. SUFFICES ASSUME Inv, [Next]_vars PROVE Standing'
    OBVIOUS
  <1>0. /\ Types /\ UnderWay /\ Standing /\ job \in Job
        /\ loads \in 0 .. MaxLoads /\ MaxLoads \in Nat
        /\ Admitted(source) /\ Admitted(job.src)
    BY WarehouseAssumption DEF Inv, LoadInv, Types, Job, Standing
  <1>1. ASSUME UNCHANGED <<rows, source, loads>>, Admitted(job'.src), job'.at # "insert"
        PROVE  Standing'
    <2>1. loads' \in loads .. MaxLoads
      BY <1>0, <1>1
    <2>. QED
      BY <1>0, <1>1, <2>1, StandingStays
  <1>2. ASSUME job' = NoJob, UNCHANGED <<rows, source, loads>>
        PROVE  Standing'
    BY <1>1, <1>2, JobsStart DEF NoJob
  <1>3. ASSUME NEW regenerate \in BOOLEAN, NEW tries \in {0, Retries}, Ingest(regenerate, tries)
        PROVE  Standing'
    <2>1. loads' \in loads .. MaxLoads
      BY <1>0, <1>3 DEF Ingest
    <2>2. job'.src = Simulation /\ job'.at # "insert"
      BY <1>3 DEF Ingest, NoJob
    <2>3. UNCHANGED <<rows, source>>
      BY <1>3 DEF Ingest
    <2>. QED
      BY <1>0, <2>1, <2>2, <2>3, JobsStart, StandingStays
  <1>4. ASSUME NEW s \in Exports, IngestExport(s)
        PROVE  Standing'
    <2>1. loads' \in loads .. MaxLoads
      BY <1>0, <1>4 DEF IngestExport
    <2>2. job'.src = s /\ job'.at # "insert"
      BY <1>4 DEF IngestExport, NoJob
    <2>3. UNCHANGED <<rows, source>> /\ Admitted(s)
      BY <1>4 DEF IngestExport, Admitted
    <2>. QED
      BY <1>0, <2>1, <2>2, <2>3, StandingStays
  <1>5. CASE CopyToPostgres
    <2>1. job'.src = Simulation /\ job'.at # "insert"
      BY <1>5 DEF CopyToPostgres, NoJob
    <2>. QED
      BY <1>1, <1>5, <2>1, JobsStart DEF CopyToPostgres
  <1>6. CASE Ensure \/ Inserted \/ Copied \/ Index
    <2>1. /\ job'.src = job.src /\ job'.at # "insert"
          /\ UNCHANGED <<rows, source, loads>>
      BY <1>0, <1>6 DEF Ensure, Inserted, Copied, Index, Job
    <2>. QED
      BY <1>0, <1>1, <2>1
  <1>7. CASE Prepare \/ CopySlice
    <2>1. /\ job'.src = job.src /\ job'.at # "insert"
          /\ UNCHANGED <<rows, source, loads>>
      BY <1>0, <1>7 DEF Prepare, CopySlice, Job
    <2>. QED
      BY <1>0, <1>1, <2>1
  <1>8. CASE Truncate
    <2>. DEFINE B == Batches(job.src)
    <2>1. /\ rows' = Empty /\ source' = job.src /\ loads' = loads
          /\ job' = [job EXCEPT !.at = "insert", !.todo = B]
      BY <1>8 DEF Truncate
    <2>2. SubSeq(B, 1, 5) = B
      <3>1. B \in Seq(BatchType) /\ Len(B) = 5
        BY BatchesOrdered DEF InOrder
      <3>. HIDE DEF B
      <3>. QED
        BY <3>1, SubSeqFull
    <2>. HIDE DEF B
    <2>3. job'.at = "insert" /\ job'.todo = B /\ job'.src = job.src
      BY <1>0, <2>1 DEF Job
    <2>4. Filled(source', loads', 0) = Empty
      BY FilledFirst
    <2>5. 0 \in 0 .. 5 /\ job'.todo = SubSeq(Batches(source'), 0 + 1, 5)
      BY <2>1, <2>2, <2>3 DEF B
    <2>6. rows' = Filled(source', loads', 0)
      BY <2>1, <2>4
    <2>7. Empty' = Empty
      BY DEF Empty
    <2>. QED
      BY <1>0, <2>1, <2>3, <2>5, <2>6, <2>7 DEF Standing
  <1>9. CASE Insert
    <2>1. PICK k \in 0 .. 4 : Insertion(k)
      BY <1>0, <1>9, InsertsNext
    <2>2. /\ source' = source /\ loads' = loads /\ job'.at = "insert" /\ job'.src = job.src
          /\ job.at = "insert"
      BY <1>0, <1>9 DEF Insert, Job
    <2>. DEFINE m == k + 1
    <2>3. m \in 0 .. 5 /\ m + 1 = k + 2
      OBVIOUS
    <2>. HIDE DEF m
    <2>4. rows' = Filled(source', loads', m) /\ job'.todo = SubSeq(Batches(source'), m + 1, 5)
      BY <2>1, <2>2, <2>3 DEF Insertion, m
    <2>5. loads \in 1 .. loads
      BY <1>0, <2>2 DEF UnderWay, Loading
    <2>6. source = job.src
      BY <1>0, <2>2 DEF Standing
    <2>. QED
      BY <1>0, <2>2, <2>3, <2>4, <2>5, <2>6 DEF Standing
  <1>10. CASE Return \/ Compare \/ Killed
    BY <1>2, <1>10 DEF Return, Compare, Killed
  <1>11. CASE Fails
    <2>1. UNCHANGED <<rows, source, loads>>
      BY <1>11 DEF Fails
    <2>2. CASE job.tries > 0
      <3>1. job'.at # "insert" /\ job'.src = job.src
        BY <1>0, <1>11, <2>2 DEF Fails, Job
      <3>. QED
        BY <1>0, <1>1, <2>1, <3>1
    <2>3. CASE ~(job.tries > 0)
      <3>1. job' = NoJob
        BY <1>11, <2>3 DEF Fails
      <3>. QED
        BY <1>2, <2>1, <3>1
    <2>. QED
      BY <2>2, <2>3
  <1>12. CASE UNCHANGED vars
    BY <1>0, <1>12 DEF vars, Standing, Empty
  <1>. QED
    BY <1>3, <1>4, <1>5, <1>6, <1>7, <1>8, <1>9, <1>10, <1>11, <1>12 DEF Next, JobStep

(* A load that is not complete has been torn, or is still inserting.       *)
LEMMA CompletedKept == Inv /\ [Next]_vars => Completed'
  <1>. SUFFICES ASSUME Inv, [Next]_vars PROVE Completed'
    OBVIOUS
  <1>. DEFINE Some == rows = Empty \/ \E n \in 1 .. loads : rows = Filled(source, n, 5)
  <1>0. /\ Types /\ UnderWay /\ Standing /\ job \in Job
        /\ loads \in 0 .. MaxLoads /\ MaxLoads \in Nat
        /\ ~torn /\ job.at # "insert" => Some
        /\ job.at = "count" => /\ rows["subscribers"] # <<>>
                               /\ job.regenerate => rows = Filled(source, loads, 5)
    BY WarehouseAssumption DEF Inv, LoadInv, Types, Job, Completed
  <1>1. ASSUME UNCHANGED <<rows, source>>, loads' \in loads .. MaxLoads, job'.at # "count",
               ~torn' /\ job'.at # "insert" => ~torn /\ job.at # "insert"
        PROVE  Completed'
    <2>1. loads \in Nat /\ loads' \in Nat /\ \A n \in 1 .. loads : n \in 1 .. loads'
      BY <1>0, <1>1
    <2>2. Some => Some'
      BY <1>1, <2>1 DEF Empty
    <2>. HIDE DEF Some
    <2>3. ~torn' /\ job'.at # "insert" => Some'
      BY <1>0, <1>1, <2>2
    <2>. QED
      BY <1>1, <2>3 DEF Completed, Some
  <1>2. ASSUME UNCHANGED <<rows, source, loads>>, job'.at # "count",
               ~torn' /\ job'.at # "insert" => ~torn /\ job.at # "insert"
        PROVE  Completed'
    <2>1. loads' \in loads .. MaxLoads
      BY <1>0, <1>2
    <2>. QED
      BY <1>1, <1>2, <2>1
  <1>3. ASSUME NEW regenerate \in BOOLEAN, NEW tries \in {0, Retries}, Ingest(regenerate, tries)
        PROVE  Completed'
    <2>1. loads' \in loads .. MaxLoads
      BY <1>0, <1>3 DEF Ingest
    <2>2. job'.at # "count" /\ job.at # "insert"
      BY <1>3 DEF Ingest, NoJob
    <2>3. UNCHANGED <<rows, source, torn>>
      BY <1>3 DEF Ingest
    <2>. QED
      BY <1>1, <2>1, <2>2, <2>3
  <1>4. ASSUME NEW s \in Exports, IngestExport(s)
        PROVE  Completed'
    <2>1. loads' \in loads .. MaxLoads
      BY <1>0, <1>4 DEF IngestExport
    <2>2. job'.at # "count" /\ job.at # "insert"
      BY <1>4 DEF IngestExport, NoJob
    <2>3. UNCHANGED <<rows, source, torn>>
      BY <1>4 DEF IngestExport
    <2>. QED
      BY <1>1, <2>1, <2>2, <2>3
  <1>5. CASE CopyToPostgres
    <2>1. job'.at # "count" /\ job.at # "insert"
      BY <1>5 DEF CopyToPostgres, NoJob
    <2>. QED
      BY <1>2, <1>5, <2>1 DEF CopyToPostgres
  <1>6. CASE Ensure
    <2>1. UNCHANGED <<rows, source, loads, torn>> /\ job.at = "ensure"
      BY <1>6 DEF Ensure
    <2>2. CASE rows["subscribers"] # <<>>
      <3>1. ~job'.regenerate
        BY <1>0, <1>6, <2>1 DEF Ensure, Job, UnderWay
      <3>2. job'.at # "insert" /\ (~torn' => Some')
        BY <1>0, <1>6, <2>1, <2>2 DEF Ensure, Job, Empty
      <3>. QED
        BY <2>1, <2>2, <3>1, <3>2 DEF Completed
    <2>3. CASE rows["subscribers"] = <<>>
      <3>1. job'.at = "truncate"
        BY <1>0, <1>6, <2>3 DEF Ensure, Job
      <3>. QED
        BY <1>2, <2>1, <3>1
    <2>. QED
      BY <2>2, <2>3
  <1>7. CASE Truncate \/ Insert
    <2>1. job'.at = "insert"
      BY <1>0, <1>7 DEF Truncate, Insert, Job
    <2>. QED
      BY <2>1 DEF Completed
  <1>8. CASE Inserted
    <2>1. rows = Filled(source, loads, 5) /\ UNCHANGED <<rows, source, loads>>
      BY <1>0, <1>8, InsertsAll DEF Inserted
    <2>2. loads \in 1 .. MaxLoads /\ loads \in 1 .. loads
      BY <1>0, <1>8 DEF Inserted, UnderWay, Loading
    <2>3. Filled(source, loads, 5)["subscribers"] # <<>>
      BY <2>2, FilledFirst
    <2>. QED
      BY <2>1, <2>2, <2>3 DEF Completed, Empty
  <1>9. CASE Return \/ Compare
    <2>1. job'.at = "none" /\ job.at # "insert" /\ UNCHANGED <<rows, source, loads, torn>>
      BY <1>9 DEF Return, Compare, NoJob
    <2>. QED
      BY <1>2, <2>1
  <1>10. CASE Prepare \/ CopySlice
    <2>1. /\ job'.at # "count" /\ job.at # "insert" /\ UNCHANGED <<rows, source, loads, torn>>
      BY <1>0, <1>10 DEF Prepare, CopySlice, Job
    <2>. QED
      BY <1>2, <2>1
  <1>11. CASE Copied \/ Index
    <2>1. /\ job'.at # "count" /\ job.at # "insert" /\ UNCHANGED <<rows, source, loads, torn>>
      BY <1>0, <1>11 DEF Copied, Index, Job
    <2>. QED
      BY <1>2, <2>1
  <1>12. CASE Fails \/ Killed
    <2>1. UNCHANGED <<rows, source, loads>> /\ (~torn' => ~torn /\ job.at # "insert")
      BY <1>12 DEF Fails, Killed, Died
    <2>2. job'.at # "count"
      <3>1. CASE Fails /\ job.tries > 0
        BY <1>0, <3>1 DEF Fails, Job
      <3>2. CASE ~(Fails /\ job.tries > 0)
        BY <1>12, <3>2 DEF Fails, Killed, NoJob
      <3>. QED
        BY <3>1, <3>2
    <2>. QED
      BY <1>2, <2>1, <2>2
  <1>13. CASE UNCHANGED vars
    BY <1>0, <1>13 DEF vars, Completed, Empty
  <1>. QED
    BY <1>3, <1>4, <1>5, <1>6, <1>7, <1>8, <1>9, <1>10, <1>11, <1>12, <1>13 DEF Next, JobStep

-----------------------------------------------------------------------------
(* Rows of one load.                                                       *)

(* Each row of every table came with load n.                               *)
CameWith(db, n) == \A t \in Tables : \A i \in 1 .. Len(db[t]) : db[t][i].load = n

(* Rows that came with one load are of at most one load.                   *)
LEMMA LoadsAreOne ==
    ASSUME NEW db \in [Tables -> Seq(Row)], NEW n, CameWith(db, n)
    PROVE  Cardinality(Loads(db)) <= 1
  <1>1. Loads(db) \subseteq {n}
    <2>1. ASSUME NEW t \in Tables, NEW row \in Range(db[t]) PROVE row.load = n
      <3>1. db[t] \in Seq(Row)
        OBVIOUS
      <3>2. PICK i \in 1 .. Len(db[t]) : db[t][i] = row
        BY <3>1 DEF Range
      <3>. QED
        BY <3>2 DEF CameWith
    <2>. QED
      BY <2>1 DEF Loads
  <1>2. Loads(db) = {} \/ Loads(db) = {n}
    BY <1>1
  <1>3. Cardinality({}) = 0 /\ Cardinality({n}) = 1
    BY FS_EmptySet, FS_Singleton
  <1>4. Cardinality(Loads(db)) = 0 \/ Cardinality(Loads(db)) = 1
    BY <1>2, <1>3, Zenon
  <1>. QED
    BY <1>4

(* What the warehouse holds came with one load, each row once, and the     *)
(* subscribers before anything else.                                       *)
LEMMA WarehouseOfOneLoad ==
    ASSUME Types, Standing
    PROVE  OfOneLoad(rows) /\ \E n : CameWith(rows, n)
  <1>0. rows \in [Tables -> Seq(Row)] /\ loads \in 0 .. MaxLoads /\ MaxLoads \in Nat
    BY WarehouseAssumption DEF Types
  <1>1. CASE rows = Empty
    <2>1. \A t \in Tables : rows[t] = <<>>
      BY <1>1 DEF Empty
    <2>2. CameWith(rows, 0)
      BY <2>1 DEF CameWith
    <2>3. \A t \in Tables : IsInjective(rows[t])
      BY <2>1 DEF IsInjective
    <2>. QED
      BY <1>0, <1>1, <2>2, <2>3, LoadsAreOne DEF OfOneLoad, ParentsFirst
  <1>2. CASE rows # Empty
    <2>1. PICK n \in 1 .. loads, k \in 0 .. 5 : rows = Filled(source, n, k)
      BY <1>2 DEF Standing
    <2>2. n \in 1 .. MaxLoads
      BY <1>0
    <2>3. \A t \in Tables : OfLoad(rows[t], source, n, k, t)
      BY <2>1, <2>2, FilledRows
    <2>4. CameWith(rows, n)
      BY <2>3 DEF OfLoad, CameWith
    <2>5. \A t \in Tables : IsInjective(rows[t])
      BY <1>0, <2>3 DEF OfLoad, IsInjective
    <2>6. rows["subscribers"] # <<>>
      <3>1. k \in 1 .. 5
        BY <1>2, <2>1, FilledFirst
      <3>. QED
        BY <2>1, <2>2, <3>1, FilledFirst
    <2>. QED
      BY <1>0, <2>4, <2>5, <2>6, LoadsAreOne DEF OfOneLoad, ParentsFirst
  <1>. QED
    BY <1>1, <1>2

(* A copy on its way holds a beginning of each table, and of the           *)
(* subscribers first.                                                      *)
LEMMA CopyOfOneLoad ==
    ASSUME Types, Standing, NEW content \in [Tables -> Seq(Row)],
           NEW k \in 1 .. Len(AllSlices), Progress(AllSlices, k, content)
    PROVE  OfOneLoad(content)
  <1>. DEFINE p == AllSlices
              r(t) == rows[t]
  <1>0. /\ rows \in [Tables -> Seq(Row)] /\ \A t \in Tables : r(t) \in Seq(Row)
        /\ OfOneLoad(rows) /\ "subscribers" \in Tables
    BY WarehouseOfOneLoad, TheTables DEF Types
  <1>1. PICK n : CameWith(rows, n)
    BY WarehouseOfOneLoad
  <1>2. /\ Plan(p, Tables)
        /\ rows["subscribers"] # <<>> => p # <<>> /\ p[1].table = "subscribers"
    BY <1>0, AllPlanned
  <1>3. \A t \in Tables : \E c \in 0 .. Len(r(t)) :
           CopiedTo(p, k, t, c) /\ content[t] = SubSeq(r(t), 1, c)
    BY DEF Progress
  <1>4. k \in 1 .. Len(p)
    OBVIOUS
  <1>. HIDE DEF p, r
  <1>5. ASSUME NEW t \in Tables
        PROVE  \E c \in 0 .. Len(r(t)) :
                  /\ CopiedTo(p, k, t, c)
                  /\ content[t] \in Seq(Row) /\ Len(content[t]) = c
                  /\ \A i \in 1 .. c : content[t][i] = r(t)[i]
    <2>1. PICK c \in 0 .. Len(r(t)) : CopiedTo(p, k, t, c) /\ content[t] = SubSeq(r(t), 1, c)
      BY <1>3
    <2>. DEFINE q == r(t)
    <2>2. q \in Seq(Row) /\ c \in 0 .. Len(q)
      BY <1>0
    <2>. HIDE DEF q
    <2>3. 1 \in Int /\ c \in Int /\ \A i \in 1 .. c : q[i] \in Row
      BY <2>2
    <2>4. /\ Len(SubSeq(q, 1, c)) = IF 1 <= c THEN c - 1 + 1 ELSE 0
          /\ \A i \in 1 .. c - 1 + 1 : SubSeq(q, 1, c)[i] = q[1 + i - 1]
      BY <2>3, SubSeqProperties
    <2>5. Len(SubSeq(q, 1, c)) = c /\ \A i \in 1 .. c : SubSeq(q, 1, c)[i] = q[i]
      BY <2>2, <2>4
    <2>6. content[t] \in Seq(Row)
      OBVIOUS
    <2>. QED
      BY <2>1, <2>5, <2>6 DEF q
  <1>6. ASSUME NEW t \in Tables
        PROVE  /\ IsInjective(content[t])
               /\ \A i \in 1 .. Len(content[t]) : content[t][i].load = n
    <2>1. PICK c \in 0 .. Len(r(t)) :
                  /\ content[t] \in Seq(Row) /\ Len(content[t]) = c
                  /\ \A i \in 1 .. c : content[t][i] = r(t)[i]
      BY <1>5
    <2>2. /\ r(t) \in Seq(Row)
          /\ \A i, j \in 1 .. Len(r(t)) : r(t)[i] = r(t)[j] => i = j
          /\ \A i \in 1 .. Len(r(t)) : r(t)[i].load = n
      BY <1>0, <1>1 DEF OfOneLoad, IsInjective, CameWith, r
    <2>3. \A i \in 1 .. c : i \in 1 .. Len(r(t))
      BY <2>2
    <2>4. DOMAIN content[t] = 1 .. c
      BY <2>1
    <2>. QED
      BY <2>1, <2>2, <2>3, <2>4 DEF IsInjective
  <1>7. Cardinality(Loads(content)) <= 1
    <2>1. CameWith(content, n)
      BY <1>6 DEF CameWith
    <2>. QED
      BY <2>1, LoadsAreOne
  <1>8. ASSUME content["subscribers"] = <<>>
        PROVE  content = Empty
    <2>1. PICK c \in 0 .. Len(r("subscribers")) :
             CopiedTo(p, k, "subscribers", c) /\ Len(content["subscribers"]) = c
      BY <1>0, <1>5
    <2>2. c = 0
      BY <1>8, <2>1
    <2>3. rows["subscribers"] = <<>>
      <3>. SUFFICES ASSUME rows["subscribers"] # <<>> PROVE FALSE
        OBVIOUS
      <3>1. p[1].table = "subscribers" /\ 1 \in 1 .. k
        BY <1>2, <1>4
      <3>2. PICK i \in 1 .. k : p[i].high = 0
        BY <2>1, <2>2, <3>1 DEF CopiedTo
      <3>3. i \in 1 .. Len(p) /\ p \in Seq(Slice) /\ p[i].low < p[i].high
        BY <1>2, <1>4 DEF Plan, Bounds
      <3>4. p[i] \in Slice
        BY <3>3, ElementOfSeq
      <3>. QED
        BY <3>2, <3>3, <3>4 DEF Slice
    <2>4. rows = Empty
      BY <1>0, <2>3 DEF OfOneLoad, ParentsFirst
    <2>5. ASSUME NEW t \in Tables PROVE content[t] = <<>>
      <3>1. r(t) = <<>>
        BY <2>4 DEF Empty, r
      <3>2. content[t] \in Seq(Row) /\ Len(content[t]) = 0
        BY <1>5, <3>1
      <3>. QED
        BY <3>2
    <2>6. content = [t \in Tables |-> content[t]]
      OBVIOUS
    <2>. QED
      BY <2>5, <2>6 DEF Empty
  <1>. QED
    BY <1>6, <1>7, <1>8 DEF OfOneLoad, ParentsFirst

-----------------------------------------------------------------------------
(* The copy follows its plan.                                              *)

(* A copy is at every step a beginning of its plan, and complete when the  *)
(* plan is done.                                                           *)
LEMMA FollowedKept == Inv /\ [Next]_vars => Followed'
  <1>. SUFFICES ASSUME Inv, [Next]_vars PROVE Followed'
    OBVIOUS
  <1>0. Types /\ Followed /\ job \in Job
    BY DEF Inv, LoadInv, Types, Job
  <1>1. ASSUME job'.at \notin {"copy", "index", "compare"}
        PROVE  Followed'
    BY <1>1 DEF Followed
  <1>2. ASSUME NEW regenerate \in BOOLEAN, NEW tries \in {0, Retries}, Ingest(regenerate, tries)
        PROVE  Followed'
    <2>1. job'.at \in {"ensure", "truncate"}
      BY <1>2 DEF Ingest, NoJob
    <2>. QED
      BY <1>1, <2>1
  <1>3. ASSUME NEW s \in Exports, IngestExport(s)
        PROVE  Followed'
    <2>1. job'.at = "truncate"
      BY <1>3 DEF IngestExport, NoJob
    <2>. QED
      BY <1>1, <2>1
  <1>4. CASE CopyToPostgres
    <2>1. job'.at = "prepare"
      BY <1>4 DEF CopyToPostgres, NoJob
    <2>. QED
      BY <1>1, <2>1
  <1>5. CASE Ensure \/ Truncate \/ Insert \/ Inserted
    <2>1. job'.at \in {"count", "truncate", "insert"}
      BY <1>0, <1>5 DEF Ensure, Truncate, Insert, Inserted, Job
    <2>. QED
      BY <1>1, <2>1
  <1>6. CASE Return \/ Compare \/ Killed
    <2>1. job'.at = "none"
      BY <1>6 DEF Return, Compare, Killed, NoJob
    <2>. QED
      BY <1>1, <2>1
  <1>7. CASE Prepare
    <2>1. AllSlices' = AllSlices
      BY <1>7 DEF Prepare, AllSlices, SlicesOf
    <2>2. rows' = rows /\ rows \in [Tables -> Seq(Row)]
      BY <1>0, <1>7 DEF Prepare, Types
    <2>. DEFINE p == AllSlices
    <2>3. p \in Seq(Slice)
      BY <2>2, AllPlanned DEF Plan
    <2>4. job'.todo = p /\ job'.at = "copy" /\ pg'.rows = Empty
      BY <1>0, <1>7 DEF Prepare, Job, AllSlices
    <2>5. Progress(p, 0, Empty)
      BY <2>2, NothingCopied
    <2>6. Progress(p, 0, pg.rows)'
      BY <2>1, <2>2, <2>4, <2>5 DEF Progress, CopiedTo
    <2>. HIDE DEF p
    <2>7. 0 \in 0 .. Len(p) /\ job'.todo = SubSeq(p, 0 + 1, Len(p))
      BY <2>3, <2>4, SubSeqFull
    <2>8. p' = p
      BY <2>1 DEF p
    <2>. QED
      BY <2>4, <2>6, <2>7, <2>8 DEF Followed, p
  <1>8. CASE CopySlice
    <2>1. PICK k \in 0 .. Len(AllSlices) - 1 : Slicing(k)
      BY <1>0, <1>8, CopiesNext
    <2>2. AllSlices' = AllSlices /\ rows' = rows
      BY <1>8 DEF CopySlice, AllSlices, SlicesOf
    <2>. DEFINE p == AllSlices
                m == k + 1
    <2>3. p \in Seq(Slice)
      BY <1>0, AllPlanned DEF Plan, Types
    <2>4. Progress(p, m, pg.rows)'
      <3>1. Progress(p, m, pg'.rows)
        BY <2>1 DEF Slicing
      <3>2. p' = p /\ m' = m
        BY <2>2
      <3>. HIDE DEF p, m
      <3>. QED
        BY <2>2, <3>1, <3>2 DEF Progress, CopiedTo
    <2>5. job'.at = "copy"
      BY <1>0, <1>8 DEF CopySlice, Job
    <2>. HIDE DEF p
    <2>6. m \in 0 .. Len(p) /\ m + 1 = k + 2
      BY <2>3 DEF p
    <2>7. job'.todo = SubSeq(p, m + 1, Len(p))
      BY <2>1, <2>6 DEF Slicing, p
    <2>8. p' = p /\ m' = m
      BY <2>2 DEF p
    <2>. HIDE DEF m
    <2>. QED
      BY <2>4, <2>5, <2>6, <2>7, <2>8 DEF Followed, p
  <1>9. CASE Copied
    <2>1. pg.rows = rows /\ UNCHANGED <<rows, pg>>
      BY <1>0, <1>9, CopiesAll DEF Copied
    <2>2. job'.at = "index"
      BY <1>0, <1>9 DEF Copied, Job
    <2>. QED
      BY <2>1, <2>2 DEF Followed
  <1>10. CASE Index
    <2>. DEFINE r == pg.rows
                next == [t \in SerialTables |-> Len(r[t]) + 1]
    <2>1. /\ pg' = [pg EXCEPT !.indexed = TRUE, !.next = next]
          /\ r = rows /\ rows' = rows /\ r \in [Tables -> Seq(Row)]
      BY <1>0, <1>10 DEF Index, Followed, Types
    <2>2. job'.at = "compare"
      BY <1>0, <1>10 DEF Index, Job
    <2>. HIDE DEF next, r
    <2>3. pg'.rows = r /\ pg'.indexed /\ pg'.next = next
      BY <1>0, <2>1 DEF Types, r
    <2>4. \A t \in SerialTables : next[t] > Len(r[t])
      BY <2>1, TheTables DEF next
    <2>. QED
      BY <2>1, <2>2, <2>3, <2>4 DEF Followed
  <1>11. CASE Fails
    <2>1. job'.at \in {"truncate", "ensure", "none"}
      <3>1. CASE job.tries > 0
        BY <1>0, <1>11, <3>1 DEF Fails, Job
      <3>2. CASE ~(job.tries > 0)
        BY <1>11, <3>2 DEF Fails, NoJob
      <3>. QED
        BY <3>1, <3>2
    <2>. QED
      BY <1>1, <2>1
  <1>12. CASE UNCHANGED vars
    <2>1. AllSlices' = AllSlices /\ rows' = rows /\ job' = job /\ pg' = pg
      BY <1>12 DEF vars, AllSlices, SlicesOf
    <2>. QED
      BY <1>0, <2>1 DEF Followed, Progress
  <1>. QED
    BY <1>2, <1>3, <1>4, <1>5, <1>6, <1>7, <1>8, <1>9, <1>10, <1>11, <1>12 DEF Next, JobStep

(* The Postgres copy is of one load whether or not a copy is under way.    *)
LEMMA CopyKept == Inv /\ [Next]_vars => OfOneLoad(pg.rows)'
  <1>. SUFFICES ASSUME Inv, [Next]_vars PROVE OfOneLoad(pg.rows)'
    OBVIOUS
  <1>0. Types /\ Standing /\ Followed /\ job \in Job /\ OfOneLoad(pg.rows)
    BY DEF Inv, LoadInv, Types, Job
  <1>1. ASSUME pg'.rows = pg.rows
        PROVE  OfOneLoad(pg.rows)'
    BY <1>0, <1>1 DEF OfOneLoad, Loads, ParentsFirst, Empty
  <1>2. CASE Prepare
    <2>1. pg'.rows = Empty
      BY <1>2 DEF Prepare
    <2>2. \A t \in Tables : Empty[t] = <<>>
      BY DEF Empty
    <2>3. CameWith(Empty, 0) /\ \A t \in Tables : IsInjective(Empty[t])
      BY <2>2 DEF CameWith, IsInjective
    <2>4. Cardinality(Loads(Empty)) <= 1
      BY <2>3, JobsStart, LoadsAreOne
    <2>5. OfOneLoad(Empty)
      BY <2>3, <2>4 DEF OfOneLoad, ParentsFirst
    <2>. QED
      BY <2>1, <2>5 DEF OfOneLoad, Loads, ParentsFirst, Empty
  <1>3. CASE CopySlice
    <2>1. PICK k \in 0 .. Len(AllSlices) - 1 : Slicing(k)
      BY <1>0, <1>3, CopiesNext
    <2>2. AllSlices \in Seq(Slice) /\ pg'.rows \in [Tables -> Seq(Row)]
      BY <1>0, <1>3, AllPlanned, CopiesNext DEF Plan, Types
    <2>. DEFINE content == pg'.rows
                m == k + 1
    <2>3. m \in 1 .. Len(AllSlices) /\ Progress(AllSlices, m, content)
      BY <2>1, <2>2 DEF Slicing
    <2>. HIDE DEF content, m
    <2>4. OfOneLoad(content)
      BY <1>0, <2>2, <2>3, CopyOfOneLoad DEF content
    <2>. QED
      BY <2>4 DEF OfOneLoad, Loads, ParentsFirst, Empty, content
  <1>4. CASE Index
    BY <1>0, <1>1, <1>4 DEF Index, Types
  <1>5. ASSUME UNCHANGED pg
        PROVE  OfOneLoad(pg.rows)'
    BY <1>1, <1>5
  <1>6. ASSUME ~Prepare, ~CopySlice, ~Index
        PROVE  UNCHANGED pg
    BY <1>6 DEF Next, vars, JobStep, Ingest, IngestExport, CopyToPostgres, Ensure, Truncate,
                Insert, Inserted, Return, Copied, Compare, Fails, Killed
  <1>. QED
    BY <1>2, <1>3, <1>4, <1>5, <1>6

(* After its last batch a load has written every chunk of every table.     *)
LEMMA AllDone ==
    ASSUME NEW s, NEW t \in Tables, NEW c \in {1, 2}
    PROVE  Batch(t, c) \in Done(s, 5) <=>
              IF s.export THEN t = "sessions" \/ (t # "support_tickets" /\ c = 1)
              ELSE c = 1
  <1>1. Done(s, 5) = {Batches(s)[1], Batches(s)[2], Batches(s)[3], Batches(s)[4], Batches(s)[5]}
    BY DEF Done
  <1>2. CASE s.export
    <2>. DEFINE B == ExportList
    <2>1. Batches(s) = B
      BY <1>2, TheExportBatches DEF Batches
    <2>2. /\ B[1] = Batch("subscribers", 1) /\ B[2] = Batch("subscription_events", 1)
          /\ B[3] = Batch("payments", 1) /\ B[4] = Batch("sessions", 1)
          /\ B[5] = Batch("sessions", 2)
      BY DEF ExportList
    <2>. HIDE DEF B
    <2>3. Done(s, 5) = {Batch("subscribers", 1), Batch("subscription_events", 1),
                        Batch("payments", 1), Batch("sessions", 1), Batch("sessions", 2)}
      BY <1>1, <2>1, <2>2
    <2>. QED
      BY <1>2, <2>3, TheTables DEF Batch
  <1>3. CASE ~s.export
    <2>. DEFINE B == SimulatedList
    <2>1. Batches(s) = B
      BY <1>3, TheSimulatedBatches DEF Batches
    <2>2. /\ B[1] = Batch("subscribers", 1) /\ B[2] = Batch("subscription_events", 1)
          /\ B[3] = Batch("sessions", 1) /\ B[4] = Batch("payments", 1)
          /\ B[5] = Batch("support_tickets", 1)
      BY DEF SimulatedList
    <2>. HIDE DEF B
    <2>3. Done(s, 5) = {Batch("subscribers", 1), Batch("subscription_events", 1),
                        Batch("sessions", 1), Batch("payments", 1), Batch("support_tickets", 1)}
      BY <1>1, <2>1, <2>2
    <2>. QED
      BY <1>3, <2>3, TheTables DEF Batch
  <1>. QED
    BY <1>2, <1>3

(* A load whose five batches are in has left what it was to leave.         *)
LEMMA FilledIsWhole ==
    ASSUME NEW n \in 1 .. MaxLoads, rows = Filled(source, n, 5)
    PROVE  Whole(n)
  <1>. DEFINE chunks(t) == IF source.export THEN ChunksOf(t) ELSE <<1>>
              part(t, c) == RowsOf(source, n, Batch(t, c))
              parts(t) == [k \in DOMAIN chunks(t) |-> part(t, chunks(t)[k])]
  <1>. SUFFICES ASSUME NEW t \in Tables PROVE rows[t] = FlattenSeq(parts(t))
    BY DEF Whole
  <1>1. rows[t] = Part(source, n, 5, t, 1) \o Part(source, n, 5, t, 2)
    BY DEF Filled
  <1>2. part(t, 1) \in Seq(Row) /\ part(t, 2) \in Seq(Row)
    <2>1. Batch(t, 1).chunk \in {1, 2} /\ Batch(t, 2).chunk \in {1, 2}
      BY DEF Batch
    <2>2. /\ OfBatch(part(t, 1), source, n, Batch(t, 1))
          /\ OfBatch(part(t, 2), source, n, Batch(t, 2))
      BY <2>1, RowsOfBatch
    <2>. HIDE DEF part
    <2>. QED
      BY <2>2 DEF OfBatch
  <1>3. CASE source.export /\ t = "sessions"
    <2>1. Batch(t, 1) \in Done(source, 5) /\ Batch(t, 2) \in Done(source, 5)
      BY <1>3, AllDone
    <2>2. rows[t] = part(t, 1) \o part(t, 2)
      BY <1>1, <2>1 DEF Part
    <2>3. chunks(t) = <<1, 2>>
      BY <1>3 DEF ChunksOf
    <2>4. parts(t) = <<part(t, 1), part(t, 2)>>
      <3>. HIDE DEF chunks, part
      <3>. QED
        BY <2>3
    <2>. HIDE DEF parts, part
    <2>. QED
      BY <2>2, <2>4, FlattenFew
  <1>4. CASE source.export /\ t = "support_tickets"
    <2>1. Batch(t, 1) \notin Done(source, 5) /\ Batch(t, 2) \notin Done(source, 5)
      BY <1>4, AllDone
    <2>2. rows[t] = <<>> \o <<>>
      BY <1>1, <2>1 DEF Part
    <2>3. chunks(t) = <<>>
      BY <1>4 DEF ChunksOf
    <2>4. parts(t) = <<>>
      <3>. HIDE DEF chunks, part
      <3>. QED
        BY <2>3
    <2>. HIDE DEF parts, part
    <2>. QED
      BY <2>2, <2>4, FlattenFew
  <1>5. CASE ~source.export \/ t \notin {"sessions", "support_tickets"}
    <2>1. Batch(t, 1) \in Done(source, 5) /\ Batch(t, 2) \notin Done(source, 5)
      BY <1>5, AllDone
    <2>2. rows[t] = part(t, 1) \o <<>>
      BY <1>1, <2>1 DEF Part
    <2>3. chunks(t) = <<1>>
      BY <1>5, TheTables DEF ChunksOf
    <2>4. parts(t) = <<part(t, 1)>>
      <3>. HIDE DEF chunks, part
      <3>. QED
        BY <2>3
    <2>. HIDE DEF parts, part
    <2>5. rows[t] = part(t, 1)
      BY <1>2, <2>2
    <2>. QED
      BY <2>4, <2>5, FlattenFew
  <1>. QED
    BY <1>3, <1>4, <1>5

-----------------------------------------------------------------------------
(* The theorems.                                                           *)

(* Every reachable state satisfies the invariant.                          *)
THEOREM InvariantHolds == Spec => []Inv
  <1>1. Inv /\ [Next]_vars => Inv'
    <2>1. Inv /\ [Next]_vars => LoadInv'
      BY TypesKept, UnderWayKept, StandingKept DEF LoadInv
    <2>2. Inv /\ [Next]_vars => Completed' /\ Followed' /\ OfOneLoad(pg.rows)'
      BY CompletedKept, FollowedKept, CopyKept
    <2>. QED
      BY <2>1, <2>2 DEF Inv
  <1>. QED
    BY <1>1, Begins, PTL DEF Spec

(* Whatever is loaded, copied, retried, failed or killed, the warehouse    *)
(* and its copy hold rows, and the job is one the code has.                *)
THEOREM WarehouseTypeCorrect == Spec => []WarehouseTypeOK
  <1>1. Inv => WarehouseTypeOK
    BY DEF Inv, LoadInv, Types, WarehouseTypeOK
  <1>. QED
    BY <1>1, InvariantHolds, PTL

(* Each database only ever holds rows of one load, each of them once, and  *)
(* no event of a subscriber table that is still empty: truncate_all and    *)
(* the drop of Prepare are never undone by a retry, for any number of      *)
(* loads, failures and retries and slices of any size.                     *)
THEOREM LoadsDoNotMix == Spec => []OneLoad
  <1>1. Inv => OneLoad
    BY WarehouseOfOneLoad DEF Inv, LoadInv, OfOneLoad, OneLoad
  <1>. QED
    BY <1>1, InvariantHolds, PTL

(* A row the contract would refuse got into the warehouse only by force or *)
(* in a chunk of sessions that validate does not read, and an orphan only  *)
(* where it was not asked to be dropped.                                   *)
THEOREM BadRowsAreAccountedFor == Spec => []BadRowsAccountedFor
  <1>1. Inv => BadRowsAccountedFor
    <2>. SUFFICES ASSUME Inv, NEW t \in Tables, NEW row \in Range(rows[t]), row.kind # "good"
                  PROVE  /\ source.force \/ (t = "sessions" /\ row.chunk > 1)
                         /\ row.kind = "orphan" => ~source.drop_orphans
      BY DEF BadRowsAccountedFor
    <2>. DEFINE b == Batch(t, row.chunk)
                r == rows[t]
    <2>0. /\ rows \in [Tables -> Seq(Row)] /\ source \in Sources /\ Admitted(source)
          /\ loads \in 0 .. MaxLoads /\ MaxLoads \in Nat
      BY WarehouseAssumption DEF Inv, LoadInv, Types, Standing
    <2>1. r \in Seq(Row)
      BY <2>0
    <2>2. PICK i \in 1 .. Len(r) : row = r[i]
      BY <2>1 DEF Range
    <2>3. rows # Empty
      <3>. SUFFICES ASSUME rows = Empty PROVE FALSE
        OBVIOUS
      <3>1. r = <<>>
        BY DEF Empty
      <3>. HIDE DEF r
      <3>. QED
        BY <2>2, <3>1
    <2>4. PICK n \in 1 .. loads, k \in 0 .. 5 : rows = Filled(source, n, k)
      BY <2>3 DEF Inv, LoadInv, Standing
    <2>5. OfLoad(r, source, n, k, t)
      <3>1. n \in 1 .. MaxLoads
        BY <2>0
      <3>. QED
        BY <2>4, <3>1, FilledRows
    <2>. HIDE DEF r
    <2>6. row \in Row
      BY <2>1, <2>2, ElementOfSeq
    <2>7. /\ b \in Done(source, k)
          /\ row.kind = "orphan" => Orphans(source, b)
          /\ row.kind = "broken" => b \in source.broken
      BY <2>2, <2>5 DEF OfLoad
    <2>8. Orphans(source, b) \/ b \in source.broken
      BY <2>6, <2>7 DEF Row, Kinds
    <2>9. row.chunk \in {1, 2} /\ b.chunk = row.chunk /\ b.table = t
      BY <2>6 DEF Row, Batch
    <2>. HIDE DEF b
    <2>10. source # Simulation
      BY <2>8 DEF Simulation, Orphans
    <2>11. source.export
      BY <2>0, <2>10 DEF Sources, Exports
    <2>12. b \in Range(ExportBatches) /\ (b.chunk = 2 => t = "sessions")
      <3>1. PICK j \in 1 .. 5 : b = Batches(source)[j]
        BY <2>7 DEF Done
      <3>. QED
        BY <2>9, <2>11, <3>1, BatchesOrdered DEF InOrder
    <2>13. ~source.force => t = "sessions" /\ row.chunk > 1
      <3>. SUFFICES ASSUME ~source.force PROVE t = "sessions" /\ row.chunk > 1
        OBVIOUS
      <3>1. Valid(source)
        BY <2>0, <2>10 DEF Admitted
      <3>2. b \notin Sample
        BY <2>8, <3>1 DEF Valid
      <3>3. b.chunk # 1
        BY <2>12, <3>2 DEF Sample
      <3>. QED
        BY <2>9, <2>12, <3>3
    <2>14. row.kind = "orphan" => ~source.drop_orphans
      BY <2>7 DEF Orphans
    <2>. QED
      BY <2>13, <2>14
  <1>. QED
    BY <1>1, InvariantHolds, PTL

(* A copy that reaches its comparison is the SQLite warehouse, row for     *)
(* row, indexed, with every sequence past the ids copied, for slices of    *)
(* every size and tables of every length.                                  *)
THEOREM CopiesAreFaithful == Spec => []CopyIsFaithful
  <1>1. Inv => CopyIsFaithful
    BY DEF Inv, Followed, CopyIsFaithful
  <1>. QED
    BY <1>1, InvariantHolds, PTL

(* A load that reports success wrote all it was given; a job that found    *)
(* subscribers and generated nothing returns over a partial warehouse only *)
(* if an attempt died partway and no load has completed since.             *)
THEOREM LoadsReportTheWhole == Spec => LoadedWhole
  <1>. DEFINE Reported == \/ Whole(loads)
                          \/ ~job.regenerate /\ (torn \/ \E n \in 1..loads : Whole(n))
  <1>1. Inv /\ Return => Reported
    <2>. SUFFICES ASSUME Inv, Return PROVE Reported
      OBVIOUS
    <2>1. /\ job.at = "count" /\ loads \in 1 .. MaxLoads /\ job.regenerate \in BOOLEAN
          /\ MaxLoads \in Nat
      BY WarehouseAssumption DEF Inv, LoadInv, UnderWay, Loading, Return, Types
    <2>2. /\ rows["subscribers"] # <<>>
          /\ job.regenerate => rows = Filled(source, loads, 5)
          /\ ~torn => rows = Empty \/ \E n \in 1 .. loads : rows = Filled(source, n, 5)
      BY <2>1 DEF Inv, Completed
    <2>3. rows # Empty
      BY <2>2, TheTables DEF Empty
    <2>4. CASE job.regenerate
      <3>1. Whole(loads)
        BY <2>1, <2>2, <2>4, FilledIsWhole
      <3>. QED
        BY <3>1
    <2>5. CASE ~job.regenerate /\ ~torn
      <3>1. PICK n \in 1 .. loads : rows = Filled(source, n, 5)
        BY <2>2, <2>3, <2>5
      <3>2. n \in 1 .. MaxLoads
        BY <2>1
      <3>3. Whole(n)
        BY <3>1, <3>2, FilledIsWhole
      <3>. QED
        BY <2>5, <3>3
    <2>. QED
      BY <2>1, <2>4, <2>5
  <1>2. Inv /\ [Next]_vars => [Return => Reported]_vars
    BY <1>1
  <1>3. Spec => [][Return => Reported]_vars
    BY <1>2, InvariantHolds, PTL DEF Spec
  <1>. QED
    BY <1>3 DEF LoadedWhole

=============================================================================
