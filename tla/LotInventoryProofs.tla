--------------------------- MODULE LotInventoryProofs --------------------------
(***************************************************************************)
(* The lots of a position under broker snapshots, for any number of        *)
(* executions, shares and days. The invariant LotInv says what the lots    *)
(* are after the executions known so far: the parts of one purchase have   *)
(* names of which none begins with another (SoundLots, Apart), every share *)
(* of a purchase is live, sold or lost (Booked), under complete snapshots  *)
(* the lots let sell just what T+1 lets the broker sell (Timely), and the  *)
(* lots are in the state the last accepted snapshot left, split and dated  *)
(* by age (AlignedInv, OldFirst). The splits of the alignment, the         *)
(* consumption of a sale or a deficit and the import of executions are     *)
(* taken one after the other, then the steps of the model, then the four   *)
(* theorems.                                                               *)
(***************************************************************************)
EXTENDS LotInventory, SequenceTheorems, SumTheorems

--------------------------------------------------------------------------------
(* The invariant *)

Trades == [side : {"BUY", "SELL"}, day : 1 .. MaxDay, shares : 1 .. MaxShares,
           kind : {"SATELLITE", "CORE", "FIFO", "RISK_PRIORITY"}, stem : Int]
FileRecords == [asOf : Nat, n : Nat, listed : Nat, withheld : Nat]

TypeInv ==
    /\ careful \in BOOLEAN /\ refused \in BOOLEAN
    /\ day \in 1 .. MaxDay
    /\ truth \in Seq(Trades) /\ Len(truth) <= MaxFills
    /\ tried \in FileRecords
    /\ asOf \in 0 .. day
    /\ known \in 0 .. Len(truth)
    /\ lost \in [Ids -> Nat]

\* The broker trades day by day, and sells what T+1 allows.
TruthInv ==
    /\ \A k \in DOMAIN truth : truth[k].day <= day
    /\ \A j, k \in DOMAIN truth : j <= k => truth[j].day <= truth[k].day
    /\ \A k \in DOMAIN truth :
          truth[k].side = "SELL" => /\ truth[k].kind \in {"FIFO", "RISK_PRIORITY"}
                                    /\ truth[k].shares <= SellableAt(k - 1, truth[k].day)

\* Two names of which neither is a part of the other.
Apart(p, q) == \E i \in 1 .. Len(p) : i <= Len(q) /\ p[i] # q[i]

LotRecords(n) ==
    [fill : Executed("BUY", n), path : Seq({0, 1}), shares : Nat \ {0}, from : Nat]
SoundLots(ls, n) ==
    /\ IsFiniteSet(ls)
    /\ ls \subseteq LotRecords(n)
    /\ \A a, b \in ls : a.fill = b.fill /\ a # b => Apart(a.path, b.path)

OfFill(ls, b) == {l \in ls : l.fill = b}
SumIds(f) == Sum(LAMBDA b : f[b], Ids)

\* After the first n executions: the books of a working copy.
Booked(st, n) ==
    /\ SoundLots(st.lots, n)
    /\ st.sold \in [Ids -> Nat] /\ st.degraded \in [Ids -> Nat]
    /\ \A b \in Executed("BUY", n) :
          Total(OfFill(st.lots, b)) + st.sold[b] + lost[b] = truth[b].shares
    /\ \A b \in Ids \ Executed("BUY", n) : st.sold[b] = 0 /\ lost[b] = 0
    /\ \A b \in Ids : b > n => st.degraded[b] = 0
    /\ SumIds(st.sold) + SumIds(st.degraded) = SharesOf(Executed("SELL", n))

\* On every day on which nothing more can be missing, what the lots let sell is what T+1 lets
\* the broker sell.
Timely(ls, n) ==
    \A d \in Nat : (d >= asOf /\ \A k \in 1 .. n : truth[k].day <= d)
                      => Total(EligibleOn(ls, d)) = SellableAt(n, d)

Copy == [lots |-> lots, sold |-> sold, degraded |-> degraded]

CarefulInv ==
    /\ degraded = NoShares /\ lost = NoShares
    /\ Timely(lots, known)
    /\ \A k \in DOMAIN truth : k > known => truth[k].day >= asOf

\* The ids of two lots do not begin with one another, unless they are parts of one purchase.
Plain(a, b) == (Entry(a) = Entry(b) /\ Stem(a) = Stem(b)) => a.fill = b.fill

\* What the last accepted snapshot left.
AlignedInv ==
    /\ known >= tried.listed /\ asOf = tried.asOf /\ tried.n <= Len(truth)
    /\ Total(lots) = Held(tried)
    /\ \A l \in lots : l.from \in {asOf, asOf + 1}
    /\ Total(EligibleOn(lots, asOf)) = Sellable(tried)
    /\ \A a, b \in lots : a.from = asOf /\ b.from = asOf + 1 /\ Plain(a, b) => ByAge(a, b)

RefusedInv ==
    /\ asOf <= tried.asOf
    /\ tried.listed = tried.n /\ known <= tried.n => lost # NoShares

OldFirst(ls) == \A a, b \in ls : Entry(a) < Entry(b) => a.from <= b.from

LotInv ==
    /\ TypeInv /\ TruthInv
    /\ Booked(Copy, known)
    /\ careful => CarefulInv
    /\ \A k \in 1 .. known : truth[k].day <= asOf
    /\ tried # NoFile /\ ~refused => AlignedInv
    /\ refused => RefusedInv
    /\ OldFirst(lots)

--------------------------------------------------------------------------------
(* Shares of lots and executions *)

LotShares(h, S) ==
    h = [s \in SUBSET S |->
            IF s = {} THEN 0 ELSE First(s).shares + h[s \ {First(s)}]]
LotTotal(S) == (CHOOSE h : LotShares(h, S))[S]

ListShares(h, t, S) ==
    h = [s \in SUBSET S |->
            IF s = {} THEN 0 ELSE t[First(s)].shares + h[s \ {First(s)}]]
ListTotal(t, S) == (CHOOSE h : ListShares(h, t, S))[S]

LEMMA TotalUnfolds == \A ls : Total(ls) = LotTotal(ls)
BY DEF Total, Sum, MapThenSumSet, MapThenFoldSet, LotTotal, LotShares, First

LEMMA SharesUnfold ==
    \A ks : SharesOf(ks) = ListTotal(truth, ks) /\ SharesOf(ks)' = ListTotal(truth', ks')
BY DEF SharesOf, Sum, MapThenSumSet, MapThenFoldSet, ListTotal, ListShares, First

LEMMA SumIdsIs == \A f : SumIds(f) = SumOf(f, Ids)
BY DEF SumIds, Sum, MapThenSumSet, MapThenFoldSet, SumOf, Sums, First

LEMMA TakenIs == \A take, ls : Sum(LAMBDA l : take[l], ls) = SumOf(take, ls)
BY DEF Sum, MapThenSumSet, MapThenFoldSet, SumOf, Sums, First

LEMMA PerFillIs ==
    \A take, ls : PerFill(take, ls) = [k \in Ids |-> SumOf(take, OfFill(ls, k))]
BY DEF PerFill, OfFill, Sum, MapThenSumSet, MapThenFoldSet, SumOf, Sums, First

\* The shares of some of a finite set of lots are a sum of the weights of the set.
LEMMA TotalIn ==
    ASSUME NEW S, IsFiniteSet(S), NEW T \in SUBSET S
    PROVE  Total(T) = SumOf([l \in S |-> l.shares], T)
<1> DEFINE w == [l \in S |-> l.shares]
<1>1. \A s \in SUBSET T : s # {} => w[First(s)] = First(s).shares
    <2>1. \A s \in SUBSET T : s # {} => First(s) \in S
        BY DEF First
    <2> QED  BY <2>1
<1>2. \A h : LotShares(h, T) <=> Sums(h, w, T)
    <2> TAKE h
    <2> DEFINE a == [s \in SUBSET T |->
                        IF s = {} THEN 0 ELSE First(s).shares + h[s \ {First(s)}]]
               b == [s \in SUBSET T |->
                        IF s = {} THEN 0 ELSE w[First(s)] + h[s \ {First(s)}]]
    <2> HIDE DEF w
    <2>1. a = b
        BY <1>1
    <2> QED  BY <2>1 DEF LotShares, Sums
<1> HIDE DEF w
<1> DEFINE g == CHOOSE h : LotShares(h, T)
<1>3. IsFiniteSet(T)
    BY FS_Subset
<1>4. LotShares(g, T)
    BY <1>2, <1>3, SumsExist
<1>5. PICK h : Sums(h, w, T) /\ SumOf(w, T) = h[T]
    BY <1>3, SumExists
<1>6. Sums(g, w, T)
    BY <1>2, <1>4
<1>7. LotTotal(T) = g[T]
    BY DEF LotTotal
<1> HIDE DEF g
<1>8. LotTotal(T) = SumOf(w, T)
    BY <1>3, <1>5, <1>6, <1>7, SumsUnique
<1> QED  BY <1>8, TotalUnfolds DEF w

LEMMA ListTotalIs ==
    ASSUME NEW t, NEW S, IsFiniteSet(S), NEW T \in SUBSET S
    PROVE  ListTotal(t, T) = SumOf([k \in S |-> t[k].shares], T)
<1> DEFINE w == [k \in S |-> t[k].shares]
<1>1. \A s \in SUBSET T : s # {} => w[First(s)] = t[First(s)].shares
    <2>1. \A s \in SUBSET T : s # {} => First(s) \in S
        BY DEF First
    <2> QED  BY <2>1
<1>2. \A h : ListShares(h, t, T) <=> Sums(h, w, T)
    <2> TAKE h
    <2> DEFINE a == [s \in SUBSET T |->
                        IF s = {} THEN 0 ELSE t[First(s)].shares + h[s \ {First(s)}]]
               b == [s \in SUBSET T |->
                        IF s = {} THEN 0 ELSE w[First(s)] + h[s \ {First(s)}]]
    <2> HIDE DEF w
    <2>1. a = b
        BY <1>1
    <2> QED  BY <2>1 DEF ListShares, Sums
<1> HIDE DEF w
<1> DEFINE g == CHOOSE h : ListShares(h, t, T)
<1>3. IsFiniteSet(T)
    BY FS_Subset
<1>4. ListShares(g, t, T)
    BY <1>2, <1>3, SumsExist
<1>5. PICK h : Sums(h, w, T) /\ SumOf(w, T) = h[T]
    BY <1>3, SumExists
<1>6. Sums(g, w, T)
    BY <1>2, <1>4
<1>7. ListTotal(t, T) = g[T]
    BY DEF ListTotal
<1> HIDE DEF g
<1>8. ListTotal(t, T) = SumOf(w, T)
    BY <1>3, <1>5, <1>6, <1>7, SumsUnique
<1> QED  BY <1>8 DEF w

\* Parts of a finite set of lots, each of which has shares.
LEMMA TotalParts ==
    ASSUME NEW S, IsFiniteSet(S), \A l \in S : l.shares \in Nat
    PROVE  /\ Total({}) = 0
           /\ \A T \in SUBSET S : Total(T) \in Nat /\ Total(T) <= Total(S) /\ IsFiniteSet(T)
           /\ \A T \in SUBSET S, R \in SUBSET S :
                 T \cap R = {} => Total(T \cup R) = Total(T) + Total(R)
           /\ \A l \in S : Total({l}) = l.shares
           /\ \A T \in SUBSET S : \A l \in T : Total(T) = l.shares + Total(T \ {l})
<1> DEFINE w == [l \in S |-> l.shares]
<1>1. \A l \in S : w[l] = l.shares /\ w[l] \in Nat
    OBVIOUS
<1>2. \A T \in SUBSET S : Total(T) = SumOf(w, T)
    BY TotalIn
<1>3. \A T \in SUBSET S : IsFiniteSet(T)
    BY FS_Subset
<1> HIDE DEF w
<1>4. Total({}) = 0
    BY <1>2, SumEmpty
<1>5. \A T \in SUBSET S : Total(T) \in Nat /\ Total(T) <= Total(S) /\ IsFiniteSet(T)
    BY <1>1, <1>2, <1>3, SumPart
<1>6. ASSUME NEW T \in SUBSET S, NEW R \in SUBSET S, T \cap R = {}
      PROVE  Total(T \cup R) = Total(T) + Total(R)
    <2>1. SumOf(w, T \cup R) = SumOf(w, T) + SumOf(w, R)
        BY <1>1, <1>3, <1>6, SumDisjoint
    <2>2. T \cup R \in SUBSET S
        OBVIOUS
    <2> QED  BY <1>2, <2>1, <2>2
<1>7. ASSUME NEW T \in SUBSET S, NEW l \in T PROVE Total(T) = l.shares + Total(T \ {l})
    <2>1. IsFiniteSet(T) /\ \A x \in T : w[x] \in Nat
        BY <1>1, <1>3
    <2>2. SumOf(w, T) = w[l] + SumOf(w, T \ {l})
        BY <2>1, SumRemove
    <2>3. T \ {l} \in SUBSET S /\ w[l] = l.shares
        BY <1>1
    <2> QED  BY <1>2, <2>2, <2>3
<1>8. ASSUME NEW l \in S PROVE Total({l}) = l.shares
    <2>1. {l} \in SUBSET S /\ l \in {l} /\ {l} \ {l} = {}
        OBVIOUS
    <2>2. Total({l}) = l.shares + Total({l} \ {l})
        BY <1>7, <2>1
    <2> QED  BY <1>4, <2>1, <2>2
<1> QED  BY <1>4, <1>5, <1>6, <1>7, <1>8

--------------------------------------------------------------------------------
(* The orders of lots *)

\* The first place at which two names differ decides.
Ahead(p, q) ==
    \E i \in 1 .. Len(p) : /\ i <= Len(q) /\ p[i] < q[i]
                           /\ \A j \in 1 .. i - 1 : p[j] = q[j]

LEMMA SamePart ==
    ASSUME NEW p \in Seq({0, 1}), NEW q \in Seq({0, 1}), NEW i \in Nat, i <= Len(p), i <= Len(q)
    PROVE  SubSeq(p, 1, i) = SubSeq(q, 1, i) <=> \A j \in 1 .. i : p[j] = q[j]
<1>1. (\A j \in 1 .. i : p[j] \in {0, 1}) /\ \A j \in 1 .. i : q[j] \in {0, 1}
    OBVIOUS
<1>2. /\ SubSeq(p, 1, i) \in Seq({0, 1}) /\ Len(SubSeq(p, 1, i)) = i
      /\ \A j \in 1 .. i : SubSeq(p, 1, i)[j] = p[j]
    OBVIOUS
<1>3. /\ SubSeq(q, 1, i) \in Seq({0, 1}) /\ Len(SubSeq(q, 1, i)) = i
      /\ \A j \in 1 .. i : SubSeq(q, 1, i)[j] = q[j]
    OBVIOUS
<1> QED  BY <1>2, <1>3, SeqEqual

LEMMA PathAhead ==
    ASSUME NEW p \in Seq({0, 1}), NEW q \in Seq({0, 1}), Apart(p, q)
    PROVE  PathBefore(p, q) <=> Ahead(p, q)
<1>1. ASSUME PathBefore(p, q) PROVE Ahead(p, q)
    <2>1. PICK i \in 1 .. Len(q) : /\ SubSeq(p, 1, i - 1) = SubSeq(q, 1, i - 1)
                                   /\ Len(p) >= i => p[i] < q[i]
                                   /\ Len(p) >= i - 1
        BY <1>1 DEF PathBefore
    <2>2. i - 1 \in Nat /\ i - 1 <= Len(p) /\ i - 1 <= Len(q) /\ Len(p) \in Nat
        BY <2>1
    <2>3. \A j \in 1 .. i - 1 : p[j] = q[j]
        BY <2>1, <2>2, SamePart
    <2>4. i <= Len(p)
        <3> SUFFICES ASSUME i > Len(p) PROVE FALSE
            BY <2>2
        <3>1. Len(p) = i - 1
            BY <2>2
        <3> QED  BY <2>3, <3>1 DEF Apart
    <2> QED  BY <2>1, <2>3, <2>4 DEF Ahead
<1>2. ASSUME Ahead(p, q) PROVE PathBefore(p, q)
    <2>1. PICK i \in 1 .. Len(p) : /\ i <= Len(q) /\ p[i] < q[i]
                                   /\ \A j \in 1 .. i - 1 : p[j] = q[j]
        BY <1>2 DEF Ahead
    <2>2. i - 1 \in Nat /\ i - 1 <= Len(p) /\ i - 1 <= Len(q) /\ i \in 1 .. Len(q)
        BY <2>1
    <2>3. SubSeq(p, 1, i - 1) = SubSeq(q, 1, i - 1)
        BY <2>1, <2>2, SamePart
    <2> QED  BY <2>1, <2>2, <2>3 DEF PathBefore
<1> QED  BY <1>1, <1>2

LEMMA AheadOrders ==
    ASSUME NEW p \in Seq({0, 1}), NEW q \in Seq({0, 1})
    PROVE  /\ Apart(p, q) => Apart(q, p) /\ p # << >> /\ q # << >>
           /\ Apart(p, q) => Ahead(p, q) \/ Ahead(q, p)
           /\ Ahead(p, q) => ~Ahead(q, p)
           /\ \A r \in Seq({0, 1}) : Ahead(p, q) /\ Ahead(q, r) => Ahead(p, r)
           /\ ~PathBefore(p, p)
<1>1. Len(p) \in Nat /\ Len(q) \in Nat
      /\ (\A i \in 1 .. Len(p) : p[i] \in {0, 1}) /\ \A i \in 1 .. Len(q) : q[i] \in {0, 1}
    OBVIOUS
<1>2. ASSUME Apart(p, q) PROVE Apart(q, p) /\ p # << >> /\ q # << >>
    BY <1>1, <1>2 DEF Apart
<1>3. ASSUME Apart(p, q) PROVE Ahead(p, q) \/ Ahead(q, p)
    <2> DEFINE U == {i \in 0 .. Len(p) : i >= 1 /\ i <= Len(q) /\ p[i] # q[i]}
    <2>1. U # {} /\ U \in SUBSET (0 .. Len(p))
        BY <1>1, <1>3 DEF Apart
    <2>2. PICK i \in U : \A k \in U : i <= k
        <3> HIDE DEF U
        <3> QED  BY <1>1, <2>1, SmallestNumber
    <2>3. i \in 1 .. Len(p) /\ i \in 1 .. Len(q) /\ p[i] # q[i]
        BY <1>1
    <2>4. \A j \in 1 .. i - 1 : p[j] = q[j]
        <3> SUFFICES ASSUME NEW j \in 1 .. i - 1, p[j] # q[j] PROVE FALSE
            OBVIOUS
        <3>1. j \in U /\ j < i
            BY <1>1, <2>3
        <3> HIDE DEF U
        <3> QED  BY <2>2, <2>3, <3>1
    <2>5. p[i] < q[i] \/ q[i] < p[i]
        BY <1>1, <2>3
    <2> QED  BY <2>3, <2>4, <2>5 DEF Ahead
<1>4. Ahead(p, q) => ~Ahead(q, p)
    BY <1>1 DEF Ahead
<1>5. ASSUME NEW r \in Seq({0, 1}), Ahead(p, q), Ahead(q, r) PROVE Ahead(p, r)
    <2>1. PICK i \in 1 .. Len(p) : /\ i <= Len(q) /\ p[i] < q[i]
                                   /\ \A j \in 1 .. i - 1 : p[j] = q[j]
        BY <1>5 DEF Ahead
    <2>2. PICK k \in 1 .. Len(q) : /\ k <= Len(r) /\ q[k] < r[k]
                                   /\ \A j \in 1 .. k - 1 : q[j] = r[j]
        BY <1>5 DEF Ahead
    <2>3. \A j \in 1 .. Len(r) : r[j] \in {0, 1}
        OBVIOUS
    <2> QED  BY <1>1, <2>1, <2>2, <2>3 DEF Ahead
<1>6. ~PathBefore(p, p)
    BY <1>1 DEF PathBefore
<1> QED  BY <1>2, <1>3, <1>4, <1>5, <1>6

LEMMA TruthShape ==
    ASSUME TypeInv
    PROVE  /\ Len(truth) \in Nat /\ DOMAIN truth = 1 .. Len(truth)
           /\ \A k \in DOMAIN truth :
                 /\ truth[k].side \in {"BUY", "SELL"} /\ truth[k].day \in 1 .. MaxDay
                 /\ truth[k].shares \in Nat \ {0}
                 /\ truth[k].kind \in {"SATELLITE", "CORE", "FIFO", "RISK_PRIORITY"}
                 /\ truth[k].stem \in Int /\ k \in Ids
<1>1. Len(truth) \in Nat /\ DOMAIN truth = 1 .. Len(truth) /\ Len(truth) <= MaxFills
    BY DEF TypeInv
<1>2. \A k \in DOMAIN truth : truth[k] \in Trades
    BY DEF TypeInv
<1>3. \A t \in Trades : /\ t.side \in {"BUY", "SELL"} /\ t.day \in 1 .. MaxDay
                        /\ t.shares \in Nat \ {0}
                        /\ t.kind \in {"SATELLITE", "CORE", "FIFO", "RISK_PRIORITY"}
                        /\ t.stem \in Int
    BY LotAssumption DEF Trades
<1> QED  BY <1>1, <1>2, <1>3, LotAssumption DEF Ids

\* In a set of lots the text of the ids is a strict order.
LEMMA IdsOrdered ==
    ASSUME TypeInv, NEW n \in 0 .. Len(truth), NEW ls, SoundLots(ls, n), NEW a \in ls, NEW b \in ls
    PROVE  /\ ~IdBefore(a, a)
           /\ a # b => IdBefore(a, b) \/ IdBefore(b, a)
           /\ IdBefore(a, b) => ~IdBefore(b, a)
           /\ \A c \in ls : IdBefore(a, b) /\ IdBefore(b, c) => IdBefore(a, c)
<1> DEFINE Num == 1 .. n
<1>1. \A x \in ls : x.fill \in Num /\ x.path \in Seq({0, 1})
    BY DEF SoundLots, LotRecords, Executed
<1>2. \A x \in ls, y \in ls : x.fill = y.fill /\ x # y => Apart(x.path, y.path)
    BY DEF SoundLots
<1>3. \A x \in Num : x \in Int
    OBVIOUS
<1>s. \A x \in ls : Stem(x) \in Int
    <2>1. \A x \in ls : x.fill \in DOMAIN truth
        BY DEF SoundLots, LotRecords, Executed, TypeInv
    <2> QED  BY <2>1, TruthShape DEF Stem
<1>t. \A x \in ls, y \in ls : x.fill = y.fill => Stem(x) = Stem(y)
    BY DEF Stem
<1> HIDE DEF Num
<1>4. \A x \in ls, y \in ls :
         x.fill = y.fill /\ x # y =>
            /\ x.path # << >> /\ y.path # << >>
            /\ PathBefore(x.path, y.path) <=> Ahead(x.path, y.path)
            /\ PathBefore(x.path, y.path) \/ PathBefore(y.path, x.path)
            /\ ~(PathBefore(x.path, y.path) /\ PathBefore(y.path, x.path))
    <2> TAKE x \in ls, y \in ls
    <2> SUFFICES ASSUME x.fill = y.fill, x # y
                 PROVE  /\ x.path # << >> /\ y.path # << >>
                        /\ PathBefore(x.path, y.path) <=> Ahead(x.path, y.path)
                        /\ PathBefore(x.path, y.path) \/ PathBefore(y.path, x.path)
                        /\ ~(PathBefore(x.path, y.path) /\ PathBefore(y.path, x.path))
        OBVIOUS
    <2>1. Apart(x.path, y.path) /\ x.path \in Seq({0, 1}) /\ y.path \in Seq({0, 1})
        BY <1>1, <1>2
    <2>2. Apart(y.path, x.path) /\ x.path # << >> /\ y.path # << >>
        BY <2>1, AheadOrders
    <2>3. PathBefore(x.path, y.path) <=> Ahead(x.path, y.path)
        BY <2>1, PathAhead
    <2>4. PathBefore(y.path, x.path) <=> Ahead(y.path, x.path)
        BY <2>1, <2>2, PathAhead
    <2>5. /\ Ahead(x.path, y.path) \/ Ahead(y.path, x.path)
          /\ Ahead(x.path, y.path) => ~Ahead(y.path, x.path)
        BY <2>1, AheadOrders
    <2> QED  BY <2>2, <2>3, <2>4, <2>5
<1>5. \A x \in ls : ~PathBefore(x.path, x.path)
    BY <1>1, AheadOrders
<1>6. ~IdBefore(a, a)
    BY <1>5 DEF IdBefore
<1>7. a # b => IdBefore(a, b) \/ IdBefore(b, a)
    BY <1>1, <1>3, <1>4, <1>s, <1>t DEF IdBefore
<1>8. IdBefore(a, b) => ~IdBefore(b, a)
    BY <1>1, <1>3, <1>4, <1>s, <1>t, <1>5 DEF IdBefore
<1>9. ASSUME NEW c \in ls, IdBefore(a, b), IdBefore(b, c) PROVE IdBefore(a, c)
    <2>1. a # b /\ b # c /\ a # c
        BY <1>6, <1>8, <1>9, <1>5 DEF IdBefore
    <2>2. CASE a.fill = b.fill /\ b.fill = c.fill
        <3>1. PathBefore(a.path, b.path) /\ PathBefore(b.path, c.path)
            BY <1>9, <2>2 DEF IdBefore
        <3>2. Ahead(a.path, b.path) /\ Ahead(b.path, c.path)
            BY <1>4, <2>1, <2>2, <3>1
        <3>3. Ahead(a.path, c.path)
            BY <1>1, <3>2, AheadOrders
        <3>4. PathBefore(a.path, c.path)
            BY <1>4, <2>1, <2>2, <3>3
        <3> QED  BY <2>2, <3>4 DEF IdBefore
    <2>3. CASE a.fill = b.fill /\ b.fill # c.fill
        BY <1>1, <1>3, <1>4, <1>s, <1>t, <1>9, <2>1, <2>3 DEF IdBefore
    <2>4. CASE a.fill # b.fill /\ b.fill = c.fill
        BY <1>1, <1>3, <1>4, <1>s, <1>t, <1>9, <2>1, <2>4 DEF IdBefore
    <2>5. CASE a.fill # b.fill /\ b.fill # c.fill
        BY <1>1, <1>3, <1>4, <1>s, <1>t, <1>9, <2>1, <2>5 DEF IdBefore
    <2> QED  BY <2>2, <2>3, <2>4, <2>5
<1> QED  BY <1>6, <1>7, <1>8, <1>9

SaleOrders == {"FIFO", "RISK_PRIORITY", "AGE"}

\* Each of the three orders is a strict order on a set of lots.
LEMMA LotsOrdered ==
    ASSUME TypeInv, NEW n \in 0 .. Len(truth), NEW ls, SoundLots(ls, n), NEW order \in SaleOrders,
           NEW a \in ls, NEW b \in ls
    PROVE  /\ ~Before(a, a, order)
           /\ a # b => Before(a, b, order) \/ Before(b, a, order)
           /\ Before(a, b, order) => ~Before(b, a, order)
           /\ \A c \in ls : Before(a, b, order) /\ Before(b, c, order) => Before(a, c, order)
<1>1. \A x \in ls : Entry(x) \in Int /\ x.from \in Int /\ Rank(x) \in {0, 1}
    <2> TAKE x \in ls
    <2>1. x.fill \in DOMAIN truth /\ x.from \in Nat
        BY DEF SoundLots, LotRecords, Executed, TypeInv
    <2>2. truth[x.fill].day \in 1 .. MaxDay
        BY <2>1, TruthShape
    <2> QED  BY <2>1, <2>2, LotAssumption DEF Entry, Rank
<1>2. /\ \A x \in ls : ~IdBefore(x, x)
      /\ \A x \in ls, y \in ls : x # y => IdBefore(x, y) \/ IdBefore(y, x)
      /\ \A x \in ls, y \in ls : IdBefore(x, y) => ~IdBefore(y, x)
      /\ \A x \in ls, y \in ls, z \in ls : IdBefore(x, y) /\ IdBefore(y, z) => IdBefore(x, z)
    BY IdsOrdered
<1>3. /\ \A x \in ls : ~ByAge(x, x)
      /\ \A x \in ls, y \in ls : x # y => ByAge(x, y) \/ ByAge(y, x)
      /\ \A x \in ls, y \in ls : ByAge(x, y) => ~ByAge(y, x)
      /\ \A x \in ls, y \in ls, z \in ls : ByAge(x, y) /\ ByAge(y, z) => ByAge(x, z)
    BY <1>1, <1>2 DEF ByAge
<1>4. /\ \A x \in ls : ~FifoBefore(x, x)
      /\ \A x \in ls, y \in ls : x # y => FifoBefore(x, y) \/ FifoBefore(y, x)
      /\ \A x \in ls, y \in ls : FifoBefore(x, y) => ~FifoBefore(y, x)
      /\ \A x \in ls, y \in ls, z \in ls : FifoBefore(x, y) /\ FifoBefore(y, z) => FifoBefore(x, z)
    BY <1>1, <1>3 DEF FifoBefore
<1>5. /\ \A x \in ls : ~RiskBefore(x, x)
      /\ \A x \in ls, y \in ls : x # y => RiskBefore(x, y) \/ RiskBefore(y, x)
      /\ \A x \in ls, y \in ls : RiskBefore(x, y) => ~RiskBefore(y, x)
      /\ \A x \in ls, y \in ls, z \in ls : RiskBefore(x, y) /\ RiskBefore(y, z) => RiskBefore(x, z)
    BY <1>1, <1>4 DEF RiskBefore
<1> QED  BY <1>3, <1>4, <1>5 DEF Before, SaleOrders

LEMMA LastLot ==
    ASSUME TypeInv, NEW n \in 0 .. Len(truth), NEW ls, SoundLots(ls, n), NEW order \in SaleOrders,
           NEW T \in SUBSET ls, T # {}
    PROVE  \E m \in T : \A x \in T : x # m => Before(x, m, order)
<1> DEFINE Has(t) == \E m \in t : \A x \in t : x # m => Before(x, m, order)
           U == {t \in SUBSET T : t # {} /\ ~Has(t)}
<1> SUFFICES ASSUME U # {} PROVE FALSE
    OBVIOUS
<1>1. PICK t \in U : \A u \in U : u \subseteq t => u = t
    <2>1. U \in SUBSET SUBSET T /\ IsFiniteSet(T)
        BY FS_Subset DEF SoundLots
    <2> HIDE DEF U
    <2> QED  BY <2>1, SmallestSubset
<1>2. t \subseteq T /\ t # {} /\ ~Has(t)
    BY <1>1
<1>3. PICK y \in t : TRUE
    BY <1>2
<1> DEFINE r == t \ {y}
<1>4. r \notin U /\ r \subseteq T
    <2>1. r \subseteq t /\ r # t /\ r \subseteq T
        BY <1>2, <1>3
    <2> HIDE DEF U, r
    <2> QED  BY <1>1, <2>1
<1>5. CASE r = {}
    <2>1. \A x \in t : x = y
        BY <1>5
    <2> QED  BY <1>2, <2>1
<1>6. CASE Has(r)
    <2>1. PICK m \in r : \A x \in r : x # m => Before(x, m, order)
        BY <1>6
    <2>2. m \in ls /\ y \in ls /\ m # y /\ r \subseteq ls
        BY <1>2, <2>1
    <2>3. Before(m, y, order) \/ Before(y, m, order)
        BY <2>2, LotsOrdered
    <2>4. CASE Before(y, m, order)
        BY <1>2, <2>1, <2>4
    <2>5. CASE Before(m, y, order)
        <3>1. \A x \in r : x # m => Before(x, y, order)
            BY <2>1, <2>2, <2>5, LotsOrdered
        <3>2. \A x \in t : x # y => Before(x, y, order)
            BY <2>5, <3>1
        <3> QED  BY <1>2, <3>2
    <2> QED  BY <2>3, <2>4, <2>5
<1> QED  BY <1>4, <1>5, <1>6

\* What is taken from one lot is no more than the lot has.
LEMMA GivenBounds ==
    ASSUME NEW ls, IsFiniteSet(ls), \A l \in ls : l.shares \in Nat, NEW n \in Int, NEW order,
           NEW l \in ls
    PROVE  /\ Given(l, ls, n, order) \in 0 .. l.shares
           /\ n <= 0 => Given(l, ls, n, order) = 0
           /\ Total({x \in ls : Before(x, l, order)}) \in Nat
<1>1. Total({x \in ls : Before(x, l, order)}) \in Nat
    BY TotalParts
<1> QED  BY <1>1 DEF Given, Clip

LEMMA SoundShares ==
    ASSUME NEW n, NEW ls, SoundLots(ls, n)
    PROVE  IsFiniteSet(ls) /\ \A l \in ls : l.shares \in Nat \ {0} /\ l.shares \in Nat
BY DEF SoundLots, LotRecords

\* Together the lots give what is asked for, as far as it goes.
LEMMA GivenSum ==
    ASSUME TypeInv, NEW k \in 0 .. Len(truth), NEW ls, SoundLots(ls, k), NEW order \in SaleOrders,
           NEW E \in SUBSET ls, NEW n \in Nat
    PROVE  SumOf([l \in E |-> Given(l, E, n, order)], E) = IF n <= Total(E) THEN n ELSE Total(E)
<1> DEFINE G(t) == SumOf([l \in t |-> Given(l, t, n, order)], t)
           U == {t \in SUBSET E : G(t) # IF n <= Total(t) THEN n ELSE Total(t)}
<1> SUFFICES ASSUME U # {} PROVE FALSE
    OBVIOUS
<1>1. PICK t \in U : \A u \in U : u \subseteq t => u = t
    <2>1. U \in SUBSET SUBSET E /\ IsFiniteSet(E)
        BY FS_Subset DEF SoundLots
    <2> HIDE DEF U
    <2> QED  BY <2>1, SmallestSubset
<1>2. t \subseteq E /\ G(t) # IF n <= Total(t) THEN n ELSE Total(t)
    BY <1>1
<1>3. IsFiniteSet(t) /\ \A l \in t : l.shares \in Nat
    BY <1>2, SoundShares, FS_Subset
<1>4. t # {}
    <2> SUFFICES ASSUME t = {} PROVE FALSE
        OBVIOUS
    <2>1. Total(t) = 0
        BY <1>3, TotalParts
    <2>2. G(t) = 0
        BY SumEmpty
    <2> HIDE DEF G, U
    <2> QED  BY <1>2, <2>1, <2>2
<1>5. PICK m \in t : \A x \in t : x # m => Before(x, m, order)
    <2>1. t \in SUBSET ls
        BY <1>2
    <2> HIDE DEF U, G
    <2> QED  BY <1>4, <2>1, LastLot
<1> DEFINE r == t \ {m}
<1>6. r \notin U /\ r \subseteq E
    <2>1. r \subseteq t /\ r # t /\ r \subseteq E
        BY <1>2, <1>5
    <2> HIDE DEF U, r
    <2> QED  BY <1>1, <2>1
<1>7. G(r) = IF n <= Total(r) THEN n ELSE Total(r)
    BY <1>6
<1> HIDE DEF U
<1> DEFINE w == [l \in t |-> Given(l, t, n, order)]
           v == [l \in r |-> Given(l, r, n, order)]
<1>8. {x \in t : Before(x, m, order)} = r
    <2>1. ~Before(m, m, order)
        BY <1>2, <1>5, LotsOrdered
    <2> QED  BY <1>5, <2>1
<1>9. \A l \in r : {x \in t : Before(x, l, order)} = {x \in r : Before(x, l, order)}
    <2>1. \A l \in r : Before(l, m, order) /\ l \in ls /\ m \in ls
        BY <1>2, <1>5
    <2>2. \A l \in r : ~Before(m, l, order)
        BY <2>1, LotsOrdered
    <2> QED  BY <2>2
<1>10. \A l \in r : w[l] = v[l]
    <2>1. \A l \in r : Given(l, t, n, order) = Given(l, r, n, order)
        BY <1>9 DEF Given
    <2>2. \A l \in r : l \in t
        OBVIOUS
    <2> QED  BY <2>1, <2>2
<1>11. w[m] = Clip(n - Total(r), m.shares)
    <2>1. w[m] = Given(m, t, n, order)
        OBVIOUS
    <2> QED  BY <1>8, <2>1 DEF Given
<1>12. \A l \in t : w[l] \in Nat
    <2>1. \A l \in t : Given(l, t, n, order) \in 0 .. l.shares
        <3>1. n \in Int
            OBVIOUS
        <3> HIDE DEF r, w, v, G
        <3> QED  BY <1>3, <3>1, GivenBounds
    <2> HIDE DEF r
    <2> QED  BY <1>3, <2>1
<1>13. G(t) = SumOf(w, t) /\ G(r) = SumOf(v, r)
    OBVIOUS
<1>14. Total(t) = m.shares + Total(r) /\ Total(r) \in Nat /\ m.shares \in Nat
    BY <1>3, TotalParts
<1>15. IsFiniteSet(r)
    BY <1>3, FS_Subset
<1>16. SumOf(w, t) = w[m] + SumOf(w, r)
    <2> HIDE DEF w, G
    <2> QED  BY <1>3, <1>12, SumRemove
<1> HIDE DEF w, v, G, r
<1>17. SumOf(w, r) = SumOf(v, r)
    BY <1>10, <1>15, SumSame
<1> QED  BY <1>2, <1>7, <1>11, <1>13, <1>14, <1>16, <1>17 DEF Clip

--------------------------------------------------------------------------------
(* Taking shares from lots *)

\* The shares of a set of lots that is cut into parts.
LEMMA TotalUnion ==
    ASSUME NEW S, NEW v, NEW P, NEW f \in [S -> SUBSET P], IsFiniteSet(S),
           \A z \in P : \E x \in S : z \in f[x],
           \A x \in S : IsFiniteSet(f[x]) /\ v[x] = Total(f[x]),
           \A x \in S : \A z \in f[x] : z.shares \in Nat,
           \A x \in S, y \in S : x # y => f[x] \cap f[y] = {}
    PROVE  IsFiniteSet(P) /\ Total(P) = SumOf(v, S)
<1> DEFINE w == [z \in P |-> z.shares]
           u == [x \in S |-> SumOf(w, f[x])]
<1>1. \A x \in S : f[x] \in SUBSET P
    OBVIOUS
<1>2. \A z \in P : w[z] = z.shares /\ w[z] \in Nat
    OBVIOUS
<1>3. \A x \in S : IsFiniteSet(f[x]) /\ u[x] = SumOf(w, f[x])
    OBVIOUS
<1>4. \A x \in S : \A z \in f[x] : w[z] \in Nat
    BY <1>1, <1>2
<1> HIDE DEF w, u
<1>5. IsFiniteSet(P) /\ SumOf(w, P) = SumOf(u, S)
    BY <1>3, <1>4, SumUnion
<1>6. \A x \in S : u[x] = v[x]
    <2>1. \A T \in SUBSET P : Total(T) = SumOf(w, T)
        BY <1>5, TotalIn DEF w
    <2> QED  BY <1>1, <1>3, <2>1
<1>7. Total(P) = SumOf(w, P)
    <2>1. P \in SUBSET P
        OBVIOUS
    <2> QED  BY <1>5, <2>1, TotalIn DEF w
<1>8. SumOf(u, S) = SumOf(v, S)
    BY <1>6, SumSame
<1> QED  BY <1>5, <1>7, <1>8

\* A lot with fewer shares is the same lot.
LEMMA CutLot ==
    ASSUME NEW n, NEW l \in LotRecords(n), NEW x \in Nat \ {0}
    PROVE  LET z == [l EXCEPT !.shares = x]
           IN  /\ z \in LotRecords(n) /\ z.shares = x
               /\ z.fill = l.fill /\ z.path = l.path /\ z.from = l.from
BY DEF LotRecords

LEMMA SameLot ==
    ASSUME NEW n, NEW ls, SoundLots(ls, n), NEW a \in ls, NEW b \in ls,
           a.fill = b.fill, a.path = b.path
    PROVE  a = b
<1>1. ~Apart(b.path, b.path)
    BY DEF Apart
<1> QED  BY <1>1 DEF SoundLots

Cut(l, take) ==
    IF take[l] < l.shares THEN {[l EXCEPT !.shares = l.shares - take[l]]} ELSE {}

LEMMA CutShape ==
    ASSUME NEW n, NEW l \in LotRecords(n), NEW take, take[l] \in 0 .. l.shares
    PROVE  /\ IsFiniteSet(Cut(l, take))
           /\ Total(Cut(l, take)) = l.shares - take[l]
           /\ \A z \in Cut(l, take) :
                 /\ z \in LotRecords(n) /\ z.shares = l.shares - take[l] /\ z.shares \in Nat
                 /\ z.fill = l.fill /\ z.path = l.path /\ z.from = l.from
<1>1. l.shares \in Nat \ {0}
    BY DEF LotRecords
<1>2. CASE take[l] < l.shares
    <2> DEFINE x == l.shares - take[l]
               z == [l EXCEPT !.shares = x]
    <2>1. Cut(l, take) = {z}
        BY <1>2 DEF Cut
    <2>2. x \in Nat \ {0}
        BY <1>1, <1>2
    <2> HIDE DEF x
    <2>3. z \in LotRecords(n) /\ z.shares = x /\ z.fill = l.fill /\ z.path = l.path /\ z.from = l.from
        BY <2>2, CutLot
    <2> HIDE DEF z
    <2>4. IsFiniteSet({z})
        BY FS_Singleton
    <2>5. Total({z}) = z.shares
        <3>1. \A y \in {z} : y.shares \in Nat
            BY <2>2, <2>3
        <3> QED  BY <2>4, <3>1, TotalParts
    <2> QED  BY <2>1, <2>2, <2>3, <2>4, <2>5 DEF x
<1>3. CASE ~(take[l] < l.shares)
    <2>1. Cut(l, take) = {} /\ l.shares - take[l] = 0
        BY <1>1, <1>3 DEF Cut
    <2>2. Total({}) = 0 /\ IsFiniteSet({})
        BY FS_EmptySet, TotalParts
    <2> QED  BY <2>1, <2>2
<1> QED  BY <1>2, <1>3

LEMMA WithoutIs ==
    ASSUME NEW ls, NEW take
    PROVE  /\ Without(ls, take) = UNION {Cut(l, take) : l \in ls}
           /\ \A z \in Without(ls, take) : \E l \in ls : z \in Cut(l, take)
BY DEF Without, Cut

\* A sale leaves sound lots; of any part of them it leaves what it did not take.
LEMMA WithoutSound ==
    ASSUME NEW n, NEW ls, SoundLots(ls, n), NEW take, \A l \in ls : take[l] \in 0 .. l.shares
    PROVE  /\ SoundLots(Without(ls, take), n)
           /\ \A T \in SUBSET ls :
                 /\ SumOf(take, T) \in Nat
                 /\ Total(Without(T, take)) = Total(T) - SumOf(take, T)
           /\ \A b : OfFill(Without(ls, take), b) = Without(OfFill(ls, b), take)
           /\ \A d : EligibleOn(Without(ls, take), d) = Without(EligibleOn(ls, d), take)
<1> DEFINE f == [l \in ls |-> Cut(l, take)]
<1>1. \A l \in ls : l \in LotRecords(n) /\ f[l] = Cut(l, take) /\ take[l] \in Nat
                    /\ l.shares \in Nat
    BY DEF SoundLots, LotRecords
<1>2. \A l \in ls :
         /\ IsFiniteSet(f[l]) /\ Total(f[l]) = l.shares - take[l]
         /\ \A z \in f[l] : /\ z \in LotRecords(n) /\ z.shares \in Nat
                            /\ z.fill = l.fill /\ z.path = l.path /\ z.from = l.from
    BY <1>1, CutShape
<1>3. \A l \in ls, m \in ls : l # m => f[l] \cap f[m] = {}
    <2> SUFFICES ASSUME NEW l \in ls, NEW m \in ls, NEW z \in f[l], z \in f[m] PROVE l = m
        OBVIOUS
    <2>1. l.fill = m.fill /\ l.path = m.path
        <3> HIDE DEF f
        <3> QED  BY <1>2
    <2> QED  BY <2>1, SameLot
<1>4. \A T \in SUBSET ls : /\ Without(T, take) = UNION {f[l] : l \in T}
                           /\ \A z \in Without(T, take) : \E l \in T : z \in f[l]
    <2> TAKE T \in SUBSET ls
    <2>1. \A l \in T : f[l] = Cut(l, take)
        OBVIOUS
    <2> HIDE DEF f
    <2> QED  BY <2>1, WithoutIs
<1> HIDE DEF f
<1>5. IsFiniteSet(ls)
    BY DEF SoundLots
<1>6. ASSUME NEW T \in SUBSET ls
      PROVE  /\ IsFiniteSet(Without(T, take)) /\ SumOf(take, T) \in Nat
             /\ Total(Without(T, take)) = Total(T) - SumOf(take, T)
    <2> DEFINE v == [l \in T |-> l.shares - take[l]]
               w == [l \in T |-> l.shares]
    <2>1. IsFiniteSet(T)
        BY <1>5, FS_Subset
    <2>2. \A l \in T : /\ v[l] = l.shares - take[l] /\ w[l] = l.shares
                       /\ take[l] \in Nat /\ v[l] \in Nat /\ w[l] = take[l] + v[l]
        BY <1>1
    <2>3. Total(T) = SumOf(w, T)
        <3>1. T \in SUBSET T
            OBVIOUS
        <3> QED  BY <2>1, <3>1, TotalIn
    <2> HIDE DEF v, w
    <2>4. SumOf(w, T) = SumOf(take, T) + SumOf(v, T)
        BY <2>1, <2>2, SumPlus
    <2>5. IsFiniteSet(Without(T, take)) /\ Total(Without(T, take)) = SumOf(v, T)
        <3> DEFINE g == [l \in T |-> f[l]]
        <3>1. \A l \in T : IsFiniteSet(g[l]) /\ v[l] = Total(g[l])
            BY <1>2, <2>2
        <3>2. \A l \in T : \A z \in g[l] : z.shares \in Nat
            BY <1>2
        <3>3. \A l \in T, m \in T : l # m => g[l] \cap g[m] = {}
            BY <1>3
        <3>4. \A z \in Without(T, take) : \E l \in T : z \in g[l]
            BY <1>4
        <3>5. g \in [T -> SUBSET Without(T, take)]
            BY <1>4
        <3> HIDE DEF g
        <3> QED  BY <2>1, <3>1, <3>2, <3>3, <3>4, <3>5, TotalUnion
    <2>6. SumOf(take, T) \in Nat /\ SumOf(v, T) \in Nat
        BY <2>1, <2>2, SumNat
    <2> QED  BY <2>3, <2>4, <2>5, <2>6
<1>7. \A z \in Without(ls, take) : \E l \in ls : z \in f[l]
    BY <1>4
<1>8. SoundLots(Without(ls, take), n)
    <2>1. IsFiniteSet(Without(ls, take))
        BY <1>6
    <2>2. Without(ls, take) \subseteq LotRecords(n)
        BY <1>2, <1>7
    <2>3. ASSUME NEW a \in Without(ls, take), NEW b \in Without(ls, take), a.fill = b.fill, a # b
          PROVE  Apart(a.path, b.path)
        <3>1. PICK l \in ls : a \in f[l]
            BY <1>7
        <3>2. PICK m \in ls : b \in f[m]
            BY <1>7
        <3>3. l.fill = m.fill /\ a.path = l.path /\ b.path = m.path
            BY <1>2, <2>3, <3>1, <3>2
        <3>4. l # m
            <4>1. f[l] = Cut(l, take)
                BY <1>1
            <4>2. \A y \in Cut(l, take), z \in Cut(l, take) : y = z
                BY DEF Cut
            <4> QED  BY <2>3, <3>1, <3>2, <4>1, <4>2
        <3> QED  BY <3>3, <3>4 DEF SoundLots
    <2> QED  BY <2>1, <2>2, <2>3 DEF SoundLots
<1>9. \A b : OfFill(Without(ls, take), b) = Without(OfFill(ls, b), take)
    <2> TAKE b
    <2>1. OfFill(ls, b) \in SUBSET ls
        BY DEF OfFill
    <2>2. \A z : z \in Without(OfFill(ls, b), take) <=> \E l \in OfFill(ls, b) : z \in f[l]
        BY <1>4, <2>1
    <2>3. \A z : z \in Without(ls, take) <=> \E l \in ls : z \in f[l]
        BY <1>4
    <2> QED  BY <1>2, <2>2, <2>3 DEF OfFill
<1>10. \A d : EligibleOn(Without(ls, take), d) = Without(EligibleOn(ls, d), take)
    <2> TAKE d
    <2>1. EligibleOn(ls, d) \in SUBSET ls
        BY DEF EligibleOn
    <2>2. \A z : z \in Without(EligibleOn(ls, d), take) <=> \E l \in EligibleOn(ls, d) : z \in f[l]
        BY <1>4, <2>1
    <2>3. \A z : z \in Without(ls, take) <=> \E l \in ls : z \in f[l]
        BY <1>4
    <2> QED  BY <1>2, <2>2, <2>3 DEF EligibleOn
<1> QED  BY <1>6, <1>8, <1>9, <1>10

\* n shares, or as many as there are, taken from the lots of E, a part of ls.
Takes(take, ls, E, n) ==
    /\ \A l \in ls : take[l] \in 0 .. l.shares
    /\ \A l \in ls \ E : take[l] = 0
    /\ n <= 0 => \A l \in ls : take[l] = 0
    /\ n >= 0 => SumOf(take, ls) = IF n <= Total(E) THEN n ELSE Total(E)

\* The shares taken from a set of lots.
LEMMA TakenSound ==
    ASSUME TypeInv, NEW k \in 0 .. Len(truth), NEW ls, SoundLots(ls, k), NEW order \in SaleOrders,
           NEW E \in SUBSET ls, NEW n \in Int, NEW take, take = Taken(ls, E, n, order)
    PROVE  Takes(take, ls, E, n)
<1>1. /\ \A l \in E : take[l] = Given(l, E, n, order)
      /\ \A l \in ls \ E : take[l] = 0
    BY DEF Taken
<1>2. /\ IsFiniteSet(ls) /\ \A l \in ls : l.shares \in Nat
      /\ IsFiniteSet(E) /\ \A l \in E : l.shares \in Nat
    BY SoundShares, FS_Subset
<1>3. /\ \A l \in E : Given(l, E, n, order) \in 0 .. l.shares
      /\ n <= 0 => \A l \in E : Given(l, E, n, order) = 0
    BY <1>2, GivenBounds
<1>4. \A l \in ls : take[l] \in 0 .. l.shares /\ take[l] \in Nat
    BY <1>1, <1>2, <1>3
<1>5. ASSUME n >= 0 PROVE SumOf(take, ls) = IF n <= Total(E) THEN n ELSE Total(E)
    <2> DEFINE w == [l \in E |-> Given(l, E, n, order)]
               R == ls \ E
    <2>1. SumOf(w, E) = IF n <= Total(E) THEN n ELSE Total(E)
        <3>1. n \in Nat
            BY <1>5
        <3> QED  BY <3>1, GivenSum
    <2>2. \A l \in E : take[l] = w[l]
        BY <1>1
    <2>3. E \cup R = ls /\ E \cap R = {} /\ IsFiniteSet(R) /\ \A l \in R : take[l] = 0
        BY <1>1, <1>2, FS_Subset
    <2>4. \A l \in E \cup R : take[l] \in Nat
        BY <1>4
    <2> HIDE DEF w, R
    <2>5. SumOf(take, E) = SumOf(w, E)
        BY <1>2, <2>2, SumSame
    <2>6. SumOf(take, R) = 0
        BY <2>3, SumZero
    <2>7. SumOf(take, E \cup R) = SumOf(take, E) + SumOf(take, R)
        BY <1>2, <2>3, <2>4, SumDisjoint
    <2>8. SumOf(take, ls) = SumOf(take, E \cup R)
        BY <2>3, Zenon
    <2>9. Total(E) \in Nat
        BY <1>2, TotalParts
    <2> QED  BY <1>5, <2>1, <2>5, <2>6, <2>7, <2>8, <2>9
<1> QED  BY <1>1, <1>3, <1>4, <1>5 DEF Takes

--------------------------------------------------------------------------------
(* Splitting lots by what is sellable *)

Extends(p, q) == Len(q) <= Len(p) /\ \A i \in 1 .. Len(q) : p[i] = q[i]

LEMMA AppendShape ==
    ASSUME NEW p \in Seq({0, 1}), NEW c \in {0, 1}
    PROVE  /\ Append(p, c) \in Seq({0, 1}) /\ Len(Append(p, c)) = Len(p) + 1
           /\ Append(p, c)[Len(p) + 1] = c
           /\ Extends(Append(p, c), p) /\ Extends(p, p)
BY DEF Extends

\* Longer names of different lots are as different, and in the same order.
LEMMA ExtendedApart ==
    ASSUME NEW p \in Seq({0, 1}), NEW q \in Seq({0, 1}), Apart(p, q),
           NEW x \in Seq({0, 1}), NEW y \in Seq({0, 1}), Extends(x, p), Extends(y, q)
    PROVE  Apart(x, y) /\ (PathBefore(p, q) => PathBefore(x, y))
<1>1. Len(p) \in Nat /\ Len(q) \in Nat /\ Len(x) \in Nat /\ Len(y) \in Nat
    OBVIOUS
<1>2. Apart(x, y)
    BY <1>1 DEF Apart, Extends
<1>3. Ahead(p, q) => Ahead(x, y)
    BY <1>1 DEF Ahead, Extends
<1> QED  BY <1>2, <1>3, PathAhead

LEMMA PieceRecord ==
    ASSUME NEW n, NEW l \in LotRecords(n), NEW x \in Nat, NEW e \in Nat, NEW p \in Seq({0, 1})
    PROVE  LET z == [l EXCEPT !.shares = x, !.from = e, !.path = p]
           IN  /\ z.fill = l.fill /\ z.shares = x /\ z.from = e /\ z.path = p
               /\ x # 0 => z \in LotRecords(n)
BY DEF LotRecords

LEMMA SameRecord ==
    ASSUME NEW n, NEW l \in LotRecords(n)
    PROVE  [l EXCEPT !.shares = l.shares, !.from = l.from, !.path = l.path] = l
BY DEF LotRecords

LEMMA PieceShape ==
    ASSUME NEW n, NEW l \in LotRecords(n), NEW g \in 0 .. l.shares, NEW d \in Nat
    PROVE  /\ IsFiniteSet(Pieces(l, g, d))
           /\ Total(Pieces(l, g, d)) = l.shares
           /\ Total(EligibleOn(Pieces(l, g, d), d)) = g
           /\ \A z \in Pieces(l, g, d) :
                 /\ z \in LotRecords(n) /\ z.shares \in Nat /\ z.fill = l.fill
                 /\ z.from \in {d, d + 1}
                 /\ z.from = d => g > 0
                 /\ z.from = d + 1 => g < l.shares
                 /\ Extends(z.path, l.path)
           /\ \A a \in Pieces(l, g, d), b \in Pieces(l, g, d) :
                 /\ a # b => Apart(a.path, b.path)
                 /\ a.from = d /\ b.from = d + 1 => PathBefore(a.path, b.path)
           /\ (g = 0 /\ l.from = d + 1) \/ (g = l.shares /\ l.from = d) => Pieces(l, g, d) = {l}
<1> DEFINE split == g \in 1 .. (l.shares - 1)
           P(c) == IF split THEN Append(l.path, c) ELSE l.path
           s == [l EXCEPT !.shares = g, !.from = d, !.path = P(0)]
           w == [l EXCEPT !.shares = l.shares - g, !.from = d + 1, !.path = P(1)]
<1>1. l.shares \in Nat \ {0} /\ l.path \in Seq({0, 1}) /\ g \in Nat /\ l.shares - g \in Nat
      /\ d + 1 \in Nat /\ l.from \in Nat /\ l.shares \in Nat
    BY DEF LotRecords
<1>2. /\ P(0) \in Seq({0, 1}) /\ P(1) \in Seq({0, 1})
      /\ Extends(P(0), l.path) /\ Extends(P(1), l.path)
      /\ split => Len(P(0)) = Len(l.path) + 1 /\ Len(P(1)) = Len(l.path) + 1
                  /\ P(0)[Len(l.path) + 1] = 0 /\ P(1)[Len(l.path) + 1] = 1
    BY <1>1, AppendShape
<1>3. split => Apart(P(0), P(1)) /\ Apart(P(1), P(0)) /\ PathBefore(P(0), P(1))
    <2> SUFFICES ASSUME split PROVE Apart(P(0), P(1)) /\ Apart(P(1), P(0)) /\ PathBefore(P(0), P(1))
        OBVIOUS
    <2> HIDE DEF split, P
    <2>1. Len(l.path) \in Nat
        BY <1>1
    <2>2. Apart(P(0), P(1)) /\ Apart(P(1), P(0))
        BY <1>2, <2>1 DEF Apart
    <2>3. Ahead(P(0), P(1))
        BY <1>2, <2>1 DEF Ahead, Extends
    <2> QED  BY <1>2, <2>2, <2>3, PathAhead
<1>4. /\ s.fill = l.fill /\ s.shares = g /\ s.from = d /\ s.path = P(0)
      /\ g # 0 => s \in LotRecords(n)
    <2> HIDE DEF P, split
    <2> QED  BY <1>1, <1>2, PieceRecord
<1>5. /\ w.fill = l.fill /\ w.shares = l.shares - g /\ w.from = d + 1 /\ w.path = P(1)
      /\ l.shares - g # 0 => w \in LotRecords(n)
    <2> HIDE DEF P, split
    <2> QED  BY <1>1, <1>2, PieceRecord
<1>6. Pieces(l, g, d) = {z \in {s, w} : z.shares > 0}
    BY DEF Pieces
<1>7. /\ g = 0 => P(1) = l.path
      /\ g = l.shares => P(0) = l.path
    BY <1>1
<1>8. split <=> g # 0 /\ g # l.shares
    BY <1>1
<1>9. (g = 0 /\ l.from = d + 1 => w = l) /\ (g = l.shares /\ l.from = d => s = l)
    <2>1. g = 0 /\ l.from = d + 1 => l.shares - g = l.shares /\ P(1) = l.path /\ d + 1 = l.from
        BY <1>1, <1>7
    <2>2. g = l.shares /\ l.from = d => P(0) = l.path
        BY <1>1, <1>7
    <2> HIDE DEF P
    <2> QED  BY <2>1, <2>2, SameRecord
<1> HIDE DEF s, w, P, split
<1>10. d # d + 1
    OBVIOUS
<1>11. /\ \A z \in Pieces(l, g, d) :
             /\ z \in LotRecords(n) /\ z.shares \in Nat /\ z.fill = l.fill
             /\ z.from \in {d, d + 1}
             /\ z.from = d => g > 0
             /\ z.from = d + 1 => g < l.shares
             /\ Extends(z.path, l.path)
    <2> SUFFICES ASSUME NEW z \in Pieces(l, g, d)
                 PROVE  /\ z \in LotRecords(n) /\ z.shares \in Nat /\ z.fill = l.fill
                        /\ z.from \in {d, d + 1}
                        /\ z.from = d => g > 0
                        /\ z.from = d + 1 => g < l.shares
                        /\ Extends(z.path, l.path)
        OBVIOUS
    <2>1. CASE z = s /\ g # 0
        BY <1>1, <1>2, <1>4, <1>10, <2>1
    <2>2. CASE z = w /\ l.shares - g # 0
        BY <1>1, <1>2, <1>5, <1>10, <2>2
    <2> QED  BY <1>1, <1>4, <1>5, <1>6, <2>1, <2>2
<1>12. ASSUME NEW a \in Pieces(l, g, d), NEW b \in Pieces(l, g, d)
       PROVE  /\ a # b => Apart(a.path, b.path)
              /\ a.from = d /\ b.from = d + 1 => PathBefore(a.path, b.path)
    <2>1. a \in {s, w} /\ b \in {s, w} /\ a.shares > 0 /\ b.shares > 0
        BY <1>6
    <2>2. a # b => split
        BY <1>1, <1>4, <1>5, <1>8, <2>1
    <2> QED  BY <1>3, <1>4, <1>5, <1>10, <2>1, <2>2
<1>13. IsFiniteSet(Pieces(l, g, d)) /\ Total(Pieces(l, g, d)) = l.shares
       /\ Total(EligibleOn(Pieces(l, g, d), d)) = g
    <2>0. \A S : IsFiniteSet(S) /\ (\A z \in S : z.shares \in Nat) =>
             /\ Total({}) = 0
             /\ \A z \in S : Total({z}) = z.shares
             /\ \A T \in SUBSET S : \A z \in T : Total(T) = z.shares + Total(T \ {z})
        BY TotalParts
    <2>1. IsFiniteSet({s, w}) /\ s.shares \in Nat /\ w.shares \in Nat /\ s # w
        <3>1. {s, w} = {s} \cup {w} /\ IsFiniteSet({s}) /\ IsFiniteSet({w})
            BY FS_Singleton
        <3>2. IsFiniteSet({s} \cup {w})
            BY <3>1, FS_Union
        <3>3. IsFiniteSet({s, w})
            BY <3>1, <3>2
        <3> QED  BY <1>1, <1>4, <1>5, <1>10, <3>3
    <2>2. Total({}) = 0 /\ Total({s}) = g /\ Total({w}) = l.shares - g /\ Total({s, w}) = l.shares
        <3>1. Total({}) = 0 /\ Total({s}) = s.shares /\ Total({w}) = w.shares
              /\ Total({s, w}) = s.shares + Total({s, w} \ {s})
            BY <2>0, <2>1
        <3>2. {s, w} \ {s} = {w}
            BY <2>1
        <3>3. Total({s, w} \ {s}) = Total({w})
            BY <3>2
        <3>4. s.shares = g /\ w.shares = l.shares - g
            BY <1>4, <1>5
        <3> HIDE DEF s, w
        <3> QED  BY <1>1, <3>1, <3>3, <3>4
    <2>3. CASE g = 0
        <3>1. Pieces(l, g, d) = {w}
            BY <1>1, <1>4, <1>5, <1>6, <2>3
        <3>2. EligibleOn({w}, d) = {}
            BY <1>5 DEF EligibleOn
        <3>3. Total(Pieces(l, g, d)) = Total({w}) /\ Total(EligibleOn(Pieces(l, g, d), d)) = Total({})
              /\ IsFiniteSet(Pieces(l, g, d))
            BY <3>1, <3>2, FS_Singleton
        <3> QED  BY <1>1, <2>2, <2>3, <3>3
    <2>4. CASE g = l.shares
        <3>1. Pieces(l, g, d) = {s}
            BY <1>1, <1>4, <1>5, <1>6, <2>4
        <3>2. EligibleOn({s}, d) = {s}
            BY <1>4 DEF EligibleOn
        <3>3. Total(Pieces(l, g, d)) = Total({s}) /\ Total(EligibleOn(Pieces(l, g, d), d)) = Total({s})
              /\ IsFiniteSet(Pieces(l, g, d))
            BY <3>1, <3>2, FS_Singleton
        <3> QED  BY <1>1, <2>2, <2>4, <3>3
    <2>5. CASE g # 0 /\ g # l.shares
        <3>1. Pieces(l, g, d) = {s, w}
            BY <1>1, <1>4, <1>5, <1>6, <2>5
        <3>2. EligibleOn({s, w}, d) = {s}
            BY <1>4, <1>5 DEF EligibleOn
        <3> QED  BY <1>1, <2>1, <2>2, <3>1, <3>2
    <2> QED  BY <2>3, <2>4, <2>5
<1>14. (g = 0 /\ l.from = d + 1) \/ (g = l.shares /\ l.from = d) => Pieces(l, g, d) = {l}
    BY <1>1, <1>4, <1>5, <1>6, <1>9
<1> QED  BY <1>11, <1>12, <1>13, <1>14

\* Where the lots before in age are not exhausted, later ones give nothing.
LEMMA OldestGive ==
    ASSUME TypeInv, NEW k \in 0 .. Len(truth), NEW ls, SoundLots(ls, k), NEW n \in Nat,
           NEW a \in ls, NEW b \in ls, ByAge(a, b), Given(a, ls, n, "AGE") < a.shares
    PROVE  Given(b, ls, n, "AGE") = 0
<1> DEFINE A == {x \in ls : Before(x, a, "AGE")}
           B == {x \in ls : Before(x, b, "AGE")}
<1>1. \A x \in ls, y \in ls : Before(x, y, "AGE") <=> ByAge(x, y)
    BY DEF Before
<1>2. A \cup {a} \subseteq B /\ A \cap {a} = {}
    <2>1. "AGE" \in SaleOrders
        BY DEF SaleOrders
    <2>2. \A x \in A : Before(x, b, "AGE")
        BY <1>1, <2>1, LotsOrdered
    <2>3. ~Before(a, a, "AGE")
        BY <2>1, LotsOrdered
    <2> QED  BY <1>1, <2>2, <2>3
<1>3. A \in SUBSET ls /\ B \in SUBSET ls /\ {a} \in SUBSET ls /\ A \cup {a} \in SUBSET B
    BY <1>2
<1>4. IsFiniteSet(ls) /\ (\A l \in ls : l.shares \in Nat) /\ a.shares \in Nat
    BY SoundShares
<1>5. Given(a, ls, n, "AGE") = Clip(n - Total(A), a.shares)
      /\ Given(b, ls, n, "AGE") = Clip(n - Total(B), b.shares)
    BY DEF Given
<1> HIDE DEF A, B
<1>6. Total(A \cup {a}) = Total(A) + Total({a}) /\ Total({a}) = a.shares
    BY <1>2, <1>3, <1>4, TotalParts
<1>7. IsFiniteSet(B) /\ Total(A) \in Nat /\ Total(B) \in Nat /\ \A l \in B : l.shares \in Nat
    BY <1>3, <1>4, TotalParts
<1>8. Total(A \cup {a}) <= Total(B)
    BY <1>3, <1>7, TotalParts
<1>9. b.shares \in Nat
    BY <1>4
<1> QED  BY <1>4, <1>5, <1>6, <1>7, <1>8, <1>9 DEF Clip

Split(T, g, d) == UNION {Pieces(l, g[l], d) : l \in T}

\* Splitting lots does not change what they are made of.
LEMMA PiecesSum ==
    ASSUME NEW k, NEW ls, SoundLots(ls, k), NEW d \in Nat,
           NEW g, \A l \in ls : g[l] \in 0 .. l.shares
    PROVE  \A T \in SUBSET ls :
              /\ IsFiniteSet(Split(T, g, d))
              /\ Total(Split(T, g, d)) = Total(T)
              /\ Total(EligibleOn(Split(T, g, d), d)) = SumOf(g, T)
<1> TAKE T \in SUBSET ls
<1> DEFINE f == [l \in T |-> Pieces(l, g[l], d)]
           e == [l \in T |-> EligibleOn(Pieces(l, g[l], d), d)]
           P == Split(T, g, d)
           E == EligibleOn(P, d)
           v == [l \in T |-> l.shares]
<1>1. \A l \in T : l \in LotRecords(k) /\ g[l] \in 0 .. l.shares
    BY DEF SoundLots
<1>2. \A l \in T : /\ IsFiniteSet(f[l]) /\ Total(f[l]) = l.shares
                   /\ \A z \in f[l] : z.shares \in Nat /\ z.fill = l.fill /\ Extends(z.path, l.path)
                                      /\ z.path \in Seq({0, 1})
    <2>1. \A z \in LotRecords(k) : z.path \in Seq({0, 1})
        BY DEF LotRecords
    <2> QED  BY <1>1, <2>1, PieceShape
<1>3. \A l \in T, m \in T : l # m => f[l] \cap f[m] = {}
    <2> SUFFICES ASSUME NEW l \in T, NEW m \in T, l # m, NEW z \in f[l], z \in f[m] PROVE FALSE
        OBVIOUS
    <2> HIDE DEF f
    <2>1. l.fill = m.fill /\ Extends(z.path, l.path) /\ Extends(z.path, m.path)
          /\ z.path \in Seq({0, 1})
        BY <1>2
    <2>2. Apart(l.path, m.path) /\ l.path \in Seq({0, 1}) /\ m.path \in Seq({0, 1})
        BY <2>1 DEF SoundLots, LotRecords
    <2>3. Apart(z.path, z.path)
        BY <2>1, <2>2, ExtendedApart
    <2> QED  BY <2>3 DEF Apart
<1>4. /\ f \in [T -> SUBSET P] /\ \A z \in P : \E l \in T : z \in f[l]
      /\ e \in [T -> SUBSET E] /\ \A z \in E : \E l \in T : z \in e[l]
    BY DEF EligibleOn, Split
<1>5. \A l \in T : /\ e[l] \in SUBSET f[l]
                   /\ IsFiniteSet(e[l]) /\ Total(e[l]) = g[l]
                   /\ \A z \in e[l] : z.shares \in Nat
    <2> TAKE l \in T
    <2>1. e[l] \in SUBSET f[l]
        BY DEF EligibleOn
    <2>2. Total(e[l]) = g[l]
        BY <1>1, PieceShape
    <2> HIDE DEF e, f
    <2>3. IsFiniteSet(e[l])
        BY <1>2, <2>1, FS_Subset
    <2> QED  BY <1>2, <2>1, <2>2, <2>3
<1>6. \A l \in T : v[l] = l.shares
    OBVIOUS
<1>7. IsFiniteSet(T)
    BY FS_Subset DEF SoundLots
<1> HIDE DEF f, e, P, E
<1>8. Total(T) = SumOf(v, T)
    <2>1. T \in SUBSET T
        OBVIOUS
    <2> QED  BY <1>7, <2>1, TotalIn
<1> HIDE DEF v
<1>9. IsFiniteSet(P) /\ Total(P) = SumOf(v, T)
    <2>1. \A l \in T : IsFiniteSet(f[l]) /\ v[l] = Total(f[l])
        BY <1>2, <1>6
    <2>2. \A l \in T : \A z \in f[l] : z.shares \in Nat
        BY <1>2
    <2>3. f \in [T -> SUBSET P] /\ \A z \in P : \E l \in T : z \in f[l]
        BY <1>4
    <2> QED  BY <1>3, <1>7, <2>1, <2>2, <2>3, TotalUnion
<1>10. IsFiniteSet(E) /\ Total(E) = SumOf(g, T)
    <2>1. \A l \in T : IsFiniteSet(e[l]) /\ g[l] = Total(e[l])
        BY <1>5
    <2>2. \A l \in T : \A z \in e[l] : z.shares \in Nat
        BY <1>5
    <2>3. \A l \in T, m \in T : l # m => e[l] \cap e[m] = {}
        BY <1>3, <1>5
    <2>4. e \in [T -> SUBSET E] /\ \A z \in E : \E l \in T : z \in e[l]
        BY <1>4
    <2> QED  BY <1>7, <2>1, <2>2, <2>3, <2>4, TotalUnion
<1> QED  BY <1>8, <1>9, <1>10 DEF P, E

\* Aligned lots: as sound as before, with as many shares, of which those of the oldest lots
\* are sellable.
LEMMA AlignedSound ==
    ASSUME TypeInv, NEW k \in 0 .. Len(truth), NEW ls, SoundLots(ls, k), NEW d \in Nat,
           NEW n \in Nat, n <= Total(ls), NEW A, A = Aligned(ls, n, d)
    PROVE  /\ SoundLots(A, k)
           /\ Total(A) = Total(ls) /\ Total(EligibleOn(A, d)) = n
           /\ \A b : Total(OfFill(A, b)) = Total(OfFill(ls, b))
           /\ \A z \in A : z.from \in {d, d + 1}
           /\ OldFirst(A)
           /\ \A a \in A, b \in A : a.from = d /\ b.from = d + 1 /\ Plain(a, b) => ByAge(a, b)
<1> DEFINE g == [l \in ls |-> Given(l, ls, n, "AGE")]
           f(l) == Pieces(l, g[l], d)
<1>0. IsFiniteSet(ls) /\ (\A l \in ls : l.shares \in Nat) /\ "AGE" \in SaleOrders
    BY SoundShares DEF SaleOrders
<1>1. \A l \in ls : g[l] \in 0 .. l.shares /\ g[l] = Given(l, ls, n, "AGE")
    <2>1. n \in Int
        OBVIOUS
    <2>2. \A l \in ls : Given(l, ls, n, "AGE") \in 0 .. l.shares
        BY <1>0, <2>1, GivenBounds
    <2> QED  BY <2>2
<1>2. A = Split(ls, g, d) /\ \A T, z : z \in Split(T, g, d) <=> \E l \in T : z \in f(l)
    BY DEF Aligned, Split
<1>3. SumOf(g, ls) = n
    <2>1. SumOf(g, ls) = IF n <= Total(ls) THEN n ELSE Total(ls)
        <3>1. ls \in SUBSET ls
            OBVIOUS
        <3> QED  BY <1>0, <3>1, GivenSum
    <2> QED  BY <2>1
<1> HIDE DEF g
<1>4. \A l \in ls : /\ l \in LotRecords(k) /\ l.path \in Seq({0, 1})
                    /\ \A z \in f(l) :
                         /\ z \in LotRecords(k) /\ z.path \in Seq({0, 1}) /\ z.fill = l.fill
                         /\ z.from \in {d, d + 1}
                         /\ z.from = d => g[l] > 0
                         /\ z.from = d + 1 => g[l] < l.shares
                         /\ Extends(z.path, l.path)
                    /\ \A a \in f(l), b \in f(l) :
                         /\ a # b => Apart(a.path, b.path)
                         /\ a.from = d /\ b.from = d + 1 => PathBefore(a.path, b.path)
    <2>1. \A l \in ls : l \in LotRecords(k) /\ g[l] \in 0 .. l.shares
        BY <1>1 DEF SoundLots
    <2>2. \A z \in LotRecords(k) : z.path \in Seq({0, 1})
        BY DEF LotRecords
    <2> QED  BY <2>1, <2>2, PieceShape
<1>14. \A T \in SUBSET ls :
          /\ IsFiniteSet(Split(T, g, d)) /\ Total(Split(T, g, d)) = Total(T)
          /\ Total(EligibleOn(Split(T, g, d), d)) = SumOf(g, T)
    <2>1. SoundLots(ls, k) /\ d \in Nat /\ \A l \in ls : g[l] \in 0 .. l.shares
        BY <1>1
    <2> HIDE DEF f
    <2> QED  BY <2>1, PiecesSum, SMTT(30)
<1>5. /\ IsFiniteSet(A) /\ Total(A) = Total(ls) /\ Total(EligibleOn(A, d)) = n
    <2>1. ls \in SUBSET ls
        OBVIOUS
    <2> QED  BY <1>2, <1>3, <1>14, <2>1
<1>6. \A b : Total(OfFill(A, b)) = Total(OfFill(ls, b))
    <2> TAKE b
    <2>1. OfFill(ls, b) \in SUBSET ls
        BY DEF OfFill
    <2>2. Total(Split(OfFill(ls, b), g, d)) = Total(OfFill(ls, b))
        BY <1>14, <2>1
    <2>3. OfFill(A, b) = Split(OfFill(ls, b), g, d)
        <3>1. \A z : z \in A <=> \E l \in ls : z \in f(l)
            BY <1>2
        <3>2. \A z : z \in Split(OfFill(ls, b), g, d) <=> \E l \in OfFill(ls, b) : z \in f(l)
            BY <1>2
        <3>3. \A l \in ls : \A z \in f(l) : z.fill = l.fill
            BY <1>4
        <3> HIDE DEF f
        <3> QED  BY <3>1, <3>2, <3>3 DEF OfFill
    <2> QED  BY <2>2, <2>3
<1>7. \A z \in A : \E l \in ls : z \in f(l)
    BY <1>2
<1> HIDE DEF f
<1>8. SoundLots(A, k)
    <2>1. A \subseteq LotRecords(k)
        BY <1>4, <1>7
    <2>2. ASSUME NEW a \in A, NEW b \in A, a.fill = b.fill, a # b PROVE Apart(a.path, b.path)
        <3>1. PICK l \in ls : a \in f(l)
            BY <1>7
        <3>2. PICK m \in ls : b \in f(m)
            BY <1>7
        <3>3. CASE l = m
            BY <1>4, <2>2, <3>1, <3>2, <3>3
        <3>4. CASE l # m
            <4>1. l.fill = m.fill
                BY <1>4, <2>2, <3>1, <3>2
            <4>2. Apart(l.path, m.path)
                BY <3>4, <4>1 DEF SoundLots
            <4>3. /\ l.path \in Seq({0, 1}) /\ m.path \in Seq({0, 1}) /\ a.path \in Seq({0, 1})
                  /\ b.path \in Seq({0, 1}) /\ Extends(a.path, l.path) /\ Extends(b.path, m.path)
                BY <1>4, <3>1, <3>2
            <4> QED  BY <4>2, <4>3, ExtendedApart
        <3> QED  BY <3>3, <3>4
    <2> QED  BY <1>5, <2>1, <2>2 DEF SoundLots
<1>9. \A z \in A : z.from \in {d, d + 1}
    BY <1>4, <1>7
\* What is not sellable is not of an older lot than what is.
<1>10. ASSUME NEW a \in A, NEW b \in A, a.from = d, b.from = d + 1,
              NEW l \in ls, a \in f(l), NEW m \in ls, b \in f(m)
       PROVE  l = m \/ ByAge(l, m)
    <2>1. g[l] > 0 /\ g[m] < m.shares
        BY <1>4, <1>10
    <2>2. ~ByAge(m, l)
        <3>1. ByAge(m, l) => g[l] = 0
            BY <1>1, <2>1, OldestGive
        <3> QED  BY <2>1, <3>1
    <2>3. l # m => Before(l, m, "AGE") \/ Before(m, l, "AGE")
        BY <1>0, LotsOrdered
    <2> QED  BY <2>2, <2>3 DEF Before
<1>11. \A x \in ls : Entry(x) \in Int
    <2> TAKE x \in ls
    <2>1. x.fill \in DOMAIN truth
        BY DEF SoundLots, LotRecords, Executed, TypeInv
    <2> QED  BY <2>1, TruthShape DEF Entry
<1>12. OldFirst(A)
    <2> SUFFICES ASSUME NEW a \in A, NEW b \in A, Entry(a) < Entry(b), ~(a.from <= b.from)
                 PROVE  FALSE
        BY DEF OldFirst
    <2>1. a.from = d + 1 /\ b.from = d
        BY <1>9
    <2>2. PICK m \in ls : a \in f(m)
        BY <1>7
    <2>3. PICK l \in ls : b \in f(l)
        BY <1>7
    <2>4. l = m \/ ByAge(l, m)
        BY <1>10, <2>1, <2>2, <2>3
    <2>5. Entry(a) = Entry(m) /\ Entry(b) = Entry(l)
        BY <1>4, <2>2, <2>3 DEF Entry
    <2> QED  BY <1>11, <2>4, <2>5 DEF ByAge
<1>13. ASSUME NEW a \in A, NEW b \in A, a.from = d, b.from = d + 1, Plain(a, b)
       PROVE  ByAge(a, b)
    <2>1. PICK l \in ls : a \in f(l)
        BY <1>7
    <2>2. PICK m \in ls : b \in f(m)
        BY <1>7
    <2>3. /\ Entry(a) = Entry(l) /\ Entry(b) = Entry(m) /\ a.fill = l.fill /\ b.fill = m.fill
          /\ Stem(a) = Stem(l) /\ Stem(b) = Stem(m)
        BY <1>4, <2>1, <2>2 DEF Entry, Stem
    <2>4. CASE l = m
        <3>1. PathBefore(a.path, b.path)
            BY <1>4, <1>13, <2>1, <2>2, <2>4
        <3> QED  BY <2>3, <2>4, <3>1 DEF ByAge, IdBefore
    <2>5. CASE l # m
        <3>1. ByAge(l, m)
            BY <1>10, <1>13, <2>1, <2>2, <2>5
        <3>2. l.fill = m.fill => Apart(l.path, m.path)
            BY <2>5 DEF SoundLots
        <3>3. l.fill = m.fill => (PathBefore(l.path, m.path) => PathBefore(a.path, b.path))
            <4>1. /\ l.path \in Seq({0, 1}) /\ m.path \in Seq({0, 1}) /\ a.path \in Seq({0, 1})
                  /\ b.path \in Seq({0, 1}) /\ Extends(a.path, l.path) /\ Extends(b.path, m.path)
                BY <1>4, <2>1, <2>2
            <4> QED  BY <3>2, <4>1, ExtendedApart
        <3> QED  BY <1>13, <2>3, <3>1, <3>3 DEF ByAge, IdBefore, Plain
    <2> QED  BY <2>4, <2>5
<1> QED  BY <1>5, <1>6, <1>8, <1>9, <1>12, <1>13

\* Lots that are aligned already are not split again.
LEMMA AlignedAgain ==
    ASSUME TypeInv, NEW k \in 0 .. Len(truth), NEW ls, SoundLots(ls, k), NEW d \in Nat,
           \A z \in ls : z.from \in {d, d + 1},
           \A a \in ls, b \in ls : a.from = d /\ b.from = d + 1 => ByAge(a, b)
    PROVE  Aligned(ls, Total(EligibleOn(ls, d)), d) = ls
<1> DEFINE E == EligibleOn(ls, d)
           n == Total(E)
           S(l) == {x \in ls : ByAge(x, l)}
<1>0. IsFiniteSet(ls) /\ (\A l \in ls : l.shares \in Nat) /\ "AGE" \in SaleOrders
    BY SoundShares DEF SaleOrders
<1>1. E \in SUBSET ls /\ \A l \in ls : l \in E <=> l.from = d
    <2>1. d <= d /\ ~(d + 1 <= d)
        OBVIOUS
    <2> QED  BY <2>1 DEF EligibleOn
<1>2. \A l \in ls : Given(l, ls, n, "AGE") = Clip(n - Total(S(l)), l.shares)
    BY DEF Given, Before
<1>3. \A l \in ls : S(l) \in SUBSET ls /\ l \notin S(l)
    <2>1. \A l \in ls : ~Before(l, l, "AGE")
        BY <1>0, LotsOrdered
    <2> QED  BY <2>1 DEF Before
<1>4. \A l \in ls, x \in ls : x \in S(l) <=> ByAge(x, l)
    OBVIOUS
<1>5. \A x \in ls, y \in ls : ByAge(x, y) => ~ByAge(y, x)
    <2>1. \A x \in ls, y \in ls : Before(x, y, "AGE") => ~Before(y, x, "AGE")
        BY <1>0, LotsOrdered
    <2> QED  BY <2>1 DEF Before
<1> HIDE DEF E, S
<1>6. Total(E) \in Nat /\ IsFiniteSet(E) /\ \A l \in E : l.shares \in Nat
    BY <1>0, <1>1, TotalParts
<1>7. ASSUME NEW l \in E PROVE Given(l, ls, n, "AGE") = l.shares
    <2>1. l \in ls /\ S(l) \in SUBSET E
        <3>1. \A x \in S(l) : x.from = d
            BY <1>1, <1>3, <1>4, <1>5
        <3> QED  BY <1>1, <1>3, <3>1
    <2>2. S(l) \cup {l} \in SUBSET E /\ S(l) \in SUBSET ls /\ {l} \in SUBSET ls
        BY <1>1, <1>3, <2>1
    <2>3. S(l) \cap {l} = {}
        BY <1>3, <2>1
    <2>7. \A T \in SUBSET ls, R \in SUBSET ls :
             T \cap R = {} => Total(T \cup R) = Total(T) + Total(R)
        BY <1>0, TotalParts
    <2>8. Total({l}) = l.shares
        BY <1>0, <2>1, TotalParts
    <2>4. Total(S(l) \cup {l}) = Total(S(l)) + Total({l}) /\ Total({l}) = l.shares
        BY <2>2, <2>3, <2>7, <2>8
    <2>5. Total(S(l) \cup {l}) <= Total(E)
        BY <1>6, <2>2, TotalParts
    <2>6. Total(S(l)) \in Nat /\ l.shares \in Nat
        BY <1>0, <2>1, <2>2, TotalParts
    <2> QED  BY <1>2, <1>6, <2>1, <2>4, <2>5, <2>6 DEF Clip
<1>8. ASSUME NEW l \in ls, l \notin E PROVE Given(l, ls, n, "AGE") = 0
    <2>1. l.from = d + 1
        BY <1>1, <1>8
    <2>2. E \in SUBSET S(l)
        BY <1>1, <1>4, <2>1
    <2>3. IsFiniteSet(S(l)) /\ \A x \in S(l) : x.shares \in Nat
        BY <1>0, <1>3, FS_Subset
    <2>4. Total(E) <= Total(S(l)) /\ Total(S(l)) \in Nat
        BY <2>2, <2>3, TotalParts
    <2>5. l.shares \in Nat
        BY <1>0
    <2> QED  BY <1>2, <1>6, <2>4, <2>5 DEF Clip
<1>9. ASSUME NEW l \in ls PROVE Pieces(l, Given(l, ls, n, "AGE"), d) = {l}
    <2>1. l \in LotRecords(k) /\ l.shares \in Nat
        BY <1>0 DEF SoundLots
    <2>2. CASE l \in E
        <3>1. l.from = d /\ l.shares \in 0 .. l.shares /\ Given(l, ls, n, "AGE") = l.shares
            BY <1>1, <1>7, <2>1, <2>2
        <3> QED  BY <2>1, <3>1, PieceShape
    <2>3. CASE l \notin E
        <3>1. l.from = d + 1 /\ 0 \in 0 .. l.shares /\ Given(l, ls, n, "AGE") = 0
            BY <1>1, <1>8, <2>1, <2>3
        <3> QED  BY <2>1, <3>1, PieceShape
    <2> QED  BY <2>2, <2>3
<1>10. Aligned(ls, n, d) = ls
    BY <1>9 DEF Aligned
<1> QED  BY <1>10 DEF E
--------------------------------------------------------------------------------
(* What the broker holds *)

BoughtOn(n, d) == {k \in Executed("BUY", n) : truth[k].day = d}
Weight(n) == [k \in 1 .. n |-> truth[k].shares]

\* The executions up to n, and those that came before.
LEMMA ExecutedShape ==
    ASSUME TypeInv, NEW n \in 0 .. Len(truth)
    PROVE  /\ \A side : Executed(side, n) \in SUBSET (1 .. n) /\ Executed(side, n) \subseteq Ids
           /\ \A d : BoughtOn(n, d) \in SUBSET Executed("BUY", n)
           /\ Executed("BUY", n) \cap Executed("SELL", n) = {}
           /\ n > 0 => \A side : Executed(side, n) =
                          IF truth[n].side = side THEN Executed(side, n - 1) \cup {n}
                          ELSE Executed(side, n - 1)
           /\ n > 0 => \A d : BoughtOn(n, d) =
                          IF truth[n].side = "BUY" /\ truth[n].day = d THEN BoughtOn(n - 1, d) \cup {n}
                          ELSE BoughtOn(n - 1, d)
<1>1. 1 .. n \subseteq Ids /\ n \in Int
    BY LotAssumption DEF Ids, TypeInv
<1>2. n > 0 => 1 .. n = (1 .. (n - 1)) \cup {n}
    BY <1>1
<1>3. n > 0 => \A side : Executed(side, n) =
                          IF truth[n].side = side THEN Executed(side, n - 1) \cup {n}
                          ELSE Executed(side, n - 1)
    BY <1>2 DEF Executed
<1>4. n > 0 => \A d : BoughtOn(n, d) =
                          IF truth[n].side = "BUY" /\ truth[n].day = d THEN BoughtOn(n - 1, d) \cup {n}
                          ELSE BoughtOn(n - 1, d)
    BY <1>3 DEF BoughtOn
<1> QED  BY <1>1, <1>3, <1>4 DEF Executed, BoughtOn

\* The sums over some of the first n executions.
LEMMA SharesParts ==
    ASSUME TypeInv, NEW n \in 0 .. Len(truth)
    PROVE  /\ \A T \in SUBSET (1 .. n) :
                 /\ SharesOf(T) \in Nat /\ IsFiniteSet(T)
                 /\ SharesOf(T) = SumOf(Weight(n), T)
                 /\ \A R \in SUBSET T : SharesOf(R) <= SharesOf(T)
                 /\ \A k \in 1 .. n : k \notin T => SharesOf(T \cup {k}) = truth[k].shares + SharesOf(T)
           /\ SharesOf({}) = 0
<1>1. IsFiniteSet(1 .. n) /\ \A k \in 1 .. n : Weight(n)[k] = truth[k].shares /\ Weight(n)[k] \in Nat
    <2>1. \A k \in 1 .. n : k \in DOMAIN truth
        BY TruthShape
    <2>2. n \in Nat
        BY TruthShape
    <2>3. IsFiniteSet(1 .. n)
        BY <2>2, FS_Interval
    <2>4. \A k \in 1 .. n : truth[k].shares \in Nat
        BY <2>1, TruthShape
    <2> QED  BY <2>3, <2>4 DEF Weight
<1>2. \A T \in SUBSET (1 .. n) : SharesOf(T) = SumOf(Weight(n), T) /\ IsFiniteSet(T)
    BY <1>1, SharesUnfold, ListTotalIs, FS_Subset DEF Weight
<1>3. ASSUME NEW T \in SUBSET (1 .. n), NEW R \in SUBSET T PROVE SharesOf(T) \in Nat /\ SharesOf(R) <= SharesOf(T)
    <2>1. \A x \in T : Weight(n)[x] \in Nat
        BY <1>1
    <2>2. IsFiniteSet(T) /\ SharesOf(T) = SumOf(Weight(n), T) /\ SharesOf(R) = SumOf(Weight(n), R)
        BY <1>2
    <2>3. SumOf(Weight(n), R) <= SumOf(Weight(n), T) /\ SumOf(Weight(n), T) \in Nat
        BY <2>1, <2>2, SumPart
    <2> QED  BY <2>2, <2>3
<1>4. ASSUME NEW T \in SUBSET (1 .. n), NEW k \in 1 .. n, k \notin T
      PROVE  SharesOf(T \cup {k}) = truth[k].shares + SharesOf(T)
    <2>1. \A x \in T \cup {k} : Weight(n)[x] \in Nat
        BY <1>1
    <2>2. SumOf(Weight(n), T \cup {k}) = Weight(n)[k] + SumOf(Weight(n), T)
        BY <1>2, <1>4, <2>1, SumAdd
    <2>3. T \cup {k} \in SUBSET (1 .. n) /\ Weight(n)[k] = truth[k].shares
        BY <1>1
    <2> QED  BY <1>2, <2>2, <2>3
<1>5. SharesOf({}) = 0
    <2>1. {} \in SUBSET (1 .. n)
        OBVIOUS
    <2> QED  BY <1>2, <2>1, SumEmpty
<1> QED  BY <1>2, <1>3, <1>4, <1>5

\* One more execution.
LEMMA HeldStep ==
    ASSUME TypeInv, NEW n \in 1 .. Len(truth), NEW d
    PROVE  /\ HeldAt(n) = IF truth[n].side = "BUY" THEN HeldAt(n - 1) + truth[n].shares
                          ELSE HeldAt(n - 1) - truth[n].shares
           /\ SellableAt(n, d) =
                IF truth[n].side = "BUY"
                THEN IF truth[n].day = d THEN SellableAt(n - 1, d)
                     ELSE SellableAt(n - 1, d) + truth[n].shares
                ELSE SellableAt(n - 1, d) - truth[n].shares
           /\ SharesOf(Executed("SELL", n)) =
                IF truth[n].side = "BUY" THEN SharesOf(Executed("SELL", n - 1))
                ELSE SharesOf(Executed("SELL", n - 1)) + truth[n].shares
<1> DEFINE B == Executed("BUY", n - 1)
           S == Executed("SELL", n - 1)
           O == BoughtOn(n - 1, d)
<1>1. n \in 0 .. Len(truth) /\ n - 1 \in 0 .. Len(truth) /\ n \in Int /\ n \in 1 .. n
    BY DEF TypeInv
<1>2. /\ B \in SUBSET (1 .. n) /\ S \in SUBSET (1 .. n) /\ O \in SUBSET (1 .. n)
      /\ n \notin B /\ n \notin S /\ n \notin O
    <2>1. /\ B \in SUBSET (1 .. (n - 1)) /\ S \in SUBSET (1 .. (n - 1)) /\ O \in SUBSET (1 .. (n - 1))
        BY <1>1, ExecutedShape
    <2>2. \A k \in 1 .. (n - 1) : k \in 1 .. n /\ k # n
        BY <1>1
    <2> QED  BY <2>1, <2>2
<1>3. /\ SharesOf(B) \in Nat /\ SharesOf(S) \in Nat /\ SharesOf(O) \in Nat
      /\ SharesOf(B \cup {n}) = truth[n].shares + SharesOf(B)
      /\ SharesOf(S \cup {n}) = truth[n].shares + SharesOf(S)
      /\ SharesOf(O \cup {n}) = truth[n].shares + SharesOf(O)
    BY <1>1, <1>2, SharesParts
<1>4. truth[n].side \in {"BUY", "SELL"} /\ truth[n].shares \in Nat
    BY TruthShape
<1>5. /\ Executed("BUY", n) = IF truth[n].side = "BUY" THEN B \cup {n} ELSE B
      /\ Executed("SELL", n) = IF truth[n].side = "SELL" THEN S \cup {n} ELSE S
      /\ BoughtOn(n, d) = IF truth[n].side = "BUY" /\ truth[n].day = d THEN O \cup {n} ELSE O
    BY <1>1, ExecutedShape
<1>6. /\ HeldAt(n) = SharesOf(Executed("BUY", n)) - SharesOf(Executed("SELL", n))
      /\ HeldAt(n - 1) = SharesOf(B) - SharesOf(S)
      /\ SellableAt(n, d) = HeldAt(n) - SharesOf(BoughtOn(n, d))
      /\ SellableAt(n - 1, d) = HeldAt(n - 1) - SharesOf(O)
    BY DEF HeldAt, SellableAt, BoughtOn
<1>7. /\ SharesOf(Executed("BUY", n)) =
            IF truth[n].side = "BUY" THEN SharesOf(B \cup {n}) ELSE SharesOf(B)
      /\ SharesOf(Executed("SELL", n)) =
            IF truth[n].side = "SELL" THEN SharesOf(S \cup {n}) ELSE SharesOf(S)
      /\ SharesOf(BoughtOn(n, d)) =
            IF truth[n].side = "BUY" /\ truth[n].day = d THEN SharesOf(O \cup {n}) ELSE SharesOf(O)
    BY <1>5
<1>8. CASE truth[n].side = "BUY" /\ truth[n].day = d
    BY <1>3, <1>4, <1>6, <1>7, <1>8
<1>9. CASE truth[n].side = "BUY" /\ truth[n].day # d
    BY <1>3, <1>4, <1>6, <1>7, <1>9
<1>10. CASE truth[n].side = "SELL"
    BY <1>3, <1>4, <1>6, <1>7, <1>10
<1> QED  BY <1>4, <1>8, <1>9, <1>10

LEMMA HeldBounds ==
    ASSUME TypeInv, NEW n \in 0 .. Len(truth), NEW d
    PROVE  /\ HeldAt(n) \in Int /\ SellableAt(n, d) \in Int /\ SellableAt(n, d) <= HeldAt(n)
           /\ SharesOf(Executed("BUY", n)) \in Nat /\ SharesOf(Executed("SELL", n)) \in Nat
           /\ HeldAt(n) = SharesOf(Executed("BUY", n)) - SharesOf(Executed("SELL", n))
           /\ (\A k \in 1 .. n : truth[k].day # d) => SellableAt(n, d) = HeldAt(n)
           /\ n = 0 => HeldAt(n) = 0 /\ SellableAt(n, d) = 0
<1>1. /\ Executed("BUY", n) \in SUBSET (1 .. n) /\ Executed("SELL", n) \in SUBSET (1 .. n)
      /\ BoughtOn(n, d) \in SUBSET (1 .. n)
    BY ExecutedShape
<1>2. /\ SharesOf(Executed("BUY", n)) \in Nat /\ SharesOf(Executed("SELL", n)) \in Nat
      /\ SharesOf(BoughtOn(n, d)) \in Nat /\ SharesOf({}) = 0
    BY <1>1, SharesParts
<1>3. /\ HeldAt(n) = SharesOf(Executed("BUY", n)) - SharesOf(Executed("SELL", n))
      /\ SellableAt(n, d) = HeldAt(n) - SharesOf(BoughtOn(n, d))
    BY DEF HeldAt, SellableAt, BoughtOn
<1>4. (\A k \in 1 .. n : truth[k].day # d) => BoughtOn(n, d) = {}
    BY DEF BoughtOn, Executed
<1>5. (\A k \in 1 .. n : truth[k].day # d) => SharesOf(BoughtOn(n, d)) = 0
    BY <1>2, <1>4
<1>6. n = 0 => SharesOf(Executed("BUY", n)) = 0 /\ SharesOf(Executed("SELL", n)) = 0 /\ SharesOf(BoughtOn(n, d)) = 0
    <2> HAVE n = 0
    <2>1. 1 .. n = {}
        OBVIOUS
    <2>2. Executed("BUY", n) = {} /\ Executed("SELL", n) = {} /\ BoughtOn(n, d) = {}
        BY <1>1, <2>1
    <2> QED  BY <1>2, <2>2
<1> QED  BY <1>2, <1>3, <1>5, <1>6

\* Lots by fill.
LEMMA FillParts ==
    ASSUME TypeInv, NEW n \in 0 .. Len(truth), NEW ls, SoundLots(ls, n)
    PROVE  /\ IsFiniteSet(Ids)
           /\ \A b : /\ OfFill(ls, b) \in SUBSET ls /\ IsFiniteSet(OfFill(ls, b))
                     /\ Total(OfFill(ls, b)) \in Nat
                     /\ b \notin Executed("BUY", n) => OfFill(ls, b) = {} /\ Total(OfFill(ls, b)) = 0
           /\ Total(ls) = SumOf([b \in Ids |-> Total(OfFill(ls, b))], Ids)
<1> DEFINE f == [b \in Ids |-> OfFill(ls, b)]
           v == [b \in Ids |-> Total(OfFill(ls, b))]
<1>0. IsFiniteSet(Ids)
    BY LotAssumption, FS_Interval DEF Ids
<1>1. IsFiniteSet(ls) /\ (\A l \in ls : l.shares \in Nat) /\ ls \in SUBSET ls
    BY SoundShares
<1>2. /\ Total({}) = 0
      /\ \A T \in SUBSET ls : Total(T) \in Nat /\ IsFiniteSet(T)
    BY <1>1, TotalParts
<1>3. \A l \in ls : l.fill \in Executed("BUY", n)
    BY DEF SoundLots, LotRecords
<1>4. \A b : OfFill(ls, b) \in SUBSET ls /\ IsFiniteSet(OfFill(ls, b)) /\ Total(OfFill(ls, b)) \in Nat
    <2>1. \A b : OfFill(ls, b) \in SUBSET ls
        BY DEF OfFill
    <2> QED  BY <1>2, <2>1
<1>5. \A b : b \notin Executed("BUY", n) => OfFill(ls, b) = {} /\ Total(OfFill(ls, b)) = 0
    <2>1. \A b : b \notin Executed("BUY", n) => OfFill(ls, b) = {}
        BY <1>3 DEF OfFill
    <2> QED  BY <1>2, <2>1
<1>6. /\ f \in [Ids -> SUBSET ls]
      /\ \A l \in ls : \E b \in Ids : l \in f[b]
      /\ \A b \in Ids, c \in Ids : b # c => f[b] \cap f[c] = {}
      /\ \A b \in Ids : f[b] = OfFill(ls, b)
    <2>1. \A l \in ls : l.fill \in Ids
        BY <1>3, ExecutedShape
    <2>2. f \in [Ids -> SUBSET ls] /\ \A b \in Ids : f[b] = OfFill(ls, b)
        BY <1>4
    <2>3. \A l \in ls : \E b \in Ids : l \in f[b]
        BY <2>1, <2>2 DEF OfFill
    <2>4. \A b \in Ids, c \in Ids : b # c => f[b] \cap f[c] = {}
        BY <2>2 DEF OfFill
    <2> QED  BY <2>2, <2>3, <2>4
<1> HIDE DEF f
<1>7. Total(ls) = SumOf(v, Ids)
    <2>1. \A b \in Ids : IsFiniteSet(f[b]) /\ v[b] = Total(f[b])
        BY <1>4, <1>6
    <2>2. \A b \in Ids : \A z \in f[b] : z.shares \in Nat
        BY <1>1, <1>4, <1>6
    <2> HIDE DEF v
    <2> QED  BY <1>0, <1>6, <2>1, <2>2, TotalUnion
<1> QED  BY <1>0, <1>4, <1>5, <1>7

\* What is given up, by fill.
LEMMA PerFillSum ==
    ASSUME TypeInv, NEW n \in 0 .. Len(truth), NEW ls, SoundLots(ls, n),
           NEW take, \A l \in ls : take[l] \in Nat
    PROVE  /\ \A b : SumOf(take, OfFill(ls, b)) \in Nat
           /\ PerFill(take, ls) \in [Ids -> Nat]
           /\ \A b \in Ids : PerFill(take, ls)[b] = SumOf(take, OfFill(ls, b))
           /\ SumIds(PerFill(take, ls)) = SumOf(take, ls)
<1> DEFINE f == [b \in Ids |-> OfFill(ls, b)]
           u == PerFill(take, ls)
<1>1. /\ IsFiniteSet(Ids)
      /\ \A b : OfFill(ls, b) \in SUBSET ls /\ IsFiniteSet(OfFill(ls, b))
    BY FillParts
<1>2. /\ f \in [Ids -> SUBSET ls]
      /\ \A l \in ls : \E b \in Ids : l \in f[b]
      /\ \A b \in Ids, c \in Ids : b # c => f[b] \cap f[c] = {}
      /\ \A b \in Ids : f[b] = OfFill(ls, b)
    <2>1. \A l \in ls : l.fill \in Ids
        BY ExecutedShape DEF SoundLots, LotRecords
    <2>2. f \in [Ids -> SUBSET ls] /\ \A b \in Ids : f[b] = OfFill(ls, b)
        BY <1>1
    <2>3. \A l \in ls : \E b \in Ids : l \in f[b]
        BY <2>1, <2>2 DEF OfFill
    <2>4. \A b \in Ids, c \in Ids : b # c => f[b] \cap f[c] = {}
        BY <2>2 DEF OfFill
    <2> QED  BY <2>2, <2>3, <2>4
<1> HIDE DEF f
<1>3. \A b : SumOf(take, OfFill(ls, b)) \in Nat
    <2> TAKE b
    <2>1. IsFiniteSet(OfFill(ls, b)) /\ \A l \in OfFill(ls, b) : take[l] \in Nat
        BY <1>1
    <2> QED  BY <2>1, SumNat
<1>4. u = [b \in Ids |-> SumOf(take, OfFill(ls, b))]
    BY PerFillIs
<1> HIDE DEF u
<1>5. u \in [Ids -> Nat] /\ \A b \in Ids : u[b] = SumOf(take, OfFill(ls, b))
    BY <1>3, <1>4
<1>6. \A b \in Ids : IsFiniteSet(f[b]) /\ u[b] = SumOf(take, f[b])
    BY <1>1, <1>2, <1>5
<1>7. \A b \in Ids : \A z \in f[b] : take[z] \in Nat
    BY <1>1, <1>2
<1>8. SumOf(take, ls) = SumOf(u, Ids)
    BY <1>1, <1>2, <1>6, <1>7, SumUnion
<1> QED  BY <1>3, <1>5, <1>8, SumIdsIs DEF u

\* What the lots have is what the broker holds, less what was lost, and what was sold without a lot.
LEMMA Accounted ==
    ASSUME TypeInv, NEW n \in 0 .. Len(truth), NEW st, Booked(st, n)
    PROVE  /\ Total(st.lots) \in Nat /\ SumIds(lost) \in Nat /\ SumIds(st.degraded) \in Nat
           /\ Total(st.lots) + SumIds(lost) = HeldAt(n) + SumIds(st.degraded)
<1> DEFINE B == Executed("BUY", n)
           t == [b \in Ids |-> Total(OfFill(st.lots, b))]
           s == [b \in Ids |-> t[b] + st.sold[b]]
           w == [b \in Ids |-> s[b] + lost[b]]
<1>1. SoundLots(st.lots, n) /\ IsFiniteSet(Ids) /\ B \in SUBSET Ids /\ B \in SUBSET (1 .. n)
    BY FillParts, ExecutedShape DEF Booked
<1>2. \A b \in Ids : t[b] = Total(OfFill(st.lots, b)) /\ t[b] \in Nat /\ (b \notin B => t[b] = 0)
    BY <1>1, FillParts
<1>3. Total(st.lots) = SumOf(t, Ids)
    BY <1>1, FillParts
<1> HIDE DEF t
<1>4. \A b \in Ids : st.sold[b] \in Nat /\ st.degraded[b] \in Nat /\ lost[b] \in Nat
    BY DEF Booked, TypeInv
<1>5. \A b \in Ids : s[b] = t[b] + st.sold[b] /\ s[b] \in Nat
    BY <1>2, <1>4
<1> HIDE DEF s
<1>6. \A b \in Ids : w[b] = s[b] + lost[b] /\ w[b] \in Nat
    BY <1>4, <1>5
<1>7. /\ \A b \in B : w[b] = truth[b].shares
      /\ \A b \in Ids \ B : w[b] = 0
    <2>1. ASSUME NEW b \in B PROVE w[b] = truth[b].shares
        <3>1. b \in Ids /\ Total(OfFill(st.lots, b)) + st.sold[b] + lost[b] = truth[b].shares
            BY <1>1 DEF Booked
        <3> QED  BY <1>2, <1>5, <1>6, <3>1
    <2>2. ASSUME NEW b \in Ids \ B PROVE w[b] = 0
        <3>1. b \in Ids /\ st.sold[b] = 0 /\ lost[b] = 0
            BY DEF Booked
        <3> QED  BY <1>2, <1>5, <1>6, <3>1
    <2> QED  BY <2>1, <2>2
<1> HIDE DEF w
<1>8. SumOf(s, Ids) = SumOf(t, Ids) + SumOf(st.sold, Ids)
    BY <1>1, <1>2, <1>4, <1>5, SumPlus
<1>9. SumOf(w, Ids) = SumOf(s, Ids) + SumOf(lost, Ids)
    BY <1>1, <1>4, <1>5, <1>6, SumPlus
<1>10. SumOf(w, Ids) = SharesOf(B)
    <2>1. SumOf(w, Ids) = SumOf(w, B) + SumOf(w, Ids \ B)
        <3>1. IsFiniteSet(B) /\ IsFiniteSet(Ids \ B) /\ B \cap (Ids \ B) = {} /\ B \cup (Ids \ B) = Ids
            BY <1>1, FS_Subset
        <3>2. \A x \in B \cup (Ids \ B) : w[x] \in Nat
            BY <1>6, <3>1
        <3>3. SumOf(w, B \cup (Ids \ B)) = SumOf(w, B) + SumOf(w, Ids \ B)
            BY <3>1, <3>2, SumDisjoint
        <3> QED  BY <3>1, <3>3
    <2>2. SumOf(w, Ids \ B) = 0
        <3>1. IsFiniteSet(Ids \ B)
            BY <1>1, FS_Subset
        <3> QED  BY <1>7, <3>1, SumZero
    <2>3. SumOf(w, B) = SharesOf(B)
        <3>1. IsFiniteSet(B) /\ SharesOf(B) = SumOf(Weight(n), B)
            BY <1>1, SharesParts
        <3>2. \A b \in B : w[b] = Weight(n)[b]
            BY <1>1, <1>7 DEF Weight
        <3>3. SumOf(w, B) = SumOf(Weight(n), B)
            BY <3>1, <3>2, SumSame
        <3> QED  BY <3>1, <3>3
    <2>4. SumOf(w, B) \in Nat
        BY <2>3, <1>1, SharesParts
    <2> QED  BY <2>1, <2>2, <2>3, <2>4
<1>11. /\ SumOf(t, Ids) \in Nat /\ SumOf(st.sold, Ids) \in Nat /\ SumOf(lost, Ids) \in Nat
       /\ SumOf(st.degraded, Ids) \in Nat
    BY <1>1, <1>2, <1>4, SumNat
<1>12. SumOf(st.sold, Ids) + SumOf(st.degraded, Ids) = SharesOf(Executed("SELL", n))
    BY SumIdsIs DEF Booked
<1>13. HeldAt(n) = SharesOf(B) - SharesOf(Executed("SELL", n)) /\ SharesOf(B) \in Nat
       /\ SharesOf(Executed("SELL", n)) \in Nat
    BY HeldBounds
<1>14. SumIds(lost) = SumOf(lost, Ids) /\ SumIds(st.degraded) = SumOf(st.degraded, Ids)
    BY SumIdsIs
<1> QED  BY <1>3, <1>8, <1>9, <1>10, <1>11, <1>12, <1>13, <1>14

LEMMA NothingIn == SumIds(NoShares) = 0
<1>1. IsFiniteSet(Ids)
    BY LotAssumption, FS_Interval DEF Ids
<1>2. \A b \in Ids : NoShares[b] = 0
    BY DEF NoShares
<1> QED  BY <1>1, <1>2, SumZero, SumIdsIs

--------------------------------------------------------------------------------
(* Importing executions *)

\* The working copy after the first n executions.
Working(st, n) ==
    /\ st = [lots |-> st.lots, sold |-> st.sold, degraded |-> st.degraded]
    /\ Booked(st, n)
    /\ careful => st.degraded = NoShares /\ Timely(st.lots, n)

LEMMA NewLotShape ==
    ASSUME TypeInv, NEW n \in 1 .. Len(truth), truth[n].side = "BUY"
    PROVE  /\ NewLot(n) \in LotRecords(n) /\ NewLot(n).fill = n
           /\ NewLot(n).shares = truth[n].shares /\ NewLot(n).from = truth[n].day + 1
<1>1. n \in DOMAIN truth /\ n \in 1 .. n
    BY TruthShape
<1>2. truth[n].shares \in Nat \ {0} /\ truth[n].day + 1 \in Nat /\ n \in Executed("BUY", n)
    BY <1>1, TruthShape DEF Executed
<1>3. << >> \in Seq({0, 1})
    BY EmptySeq
<1> QED  BY <1>2, <1>3 DEF NewLot, LotRecords

\* A set of lots with one more.
OneMore(A, ls, n) ==
    /\ SoundLots(A, n)
    /\ \A b : OfFill(A, b) = IF b = n THEN {NewLot(n)} ELSE OfFill(ls, b)
    /\ Total({NewLot(n)}) = truth[n].shares
    /\ \A T \in SUBSET ls : Total(T \cup {NewLot(n)}) = Total(T) + truth[n].shares
    /\ \A d : EligibleOn(A, d) = IF truth[n].day + 1 <= d THEN EligibleOn(ls, d) \cup {NewLot(n)}
                                 ELSE EligibleOn(ls, d)

LEMMA OneMoreLot ==
    ASSUME TypeInv, NEW n \in 1 .. Len(truth), truth[n].side = "BUY",
           NEW ls, SoundLots(ls, n - 1), NEW A, A = ls \cup {NewLot(n)}
    PROVE  OneMore(A, ls, n)
<1> DEFINE z == NewLot(n)
<1>1. /\ z \in LotRecords(n) /\ z.fill = n /\ z.shares = truth[n].shares
      /\ z.from = truth[n].day + 1
    BY NewLotShape
<1>2. n \in 0 .. Len(truth) /\ n - 1 \in 0 .. Len(truth) /\ n \in Int /\ n > 0
    BY DEF TypeInv
<1>3. n \notin Executed("BUY", n - 1) /\ Executed("BUY", n - 1) \subseteq Executed("BUY", n)
    <2>1. Executed("BUY", n - 1) \subseteq 1 .. (n - 1) /\ n \notin 1 .. (n - 1)
        BY <1>2, ExecutedShape
    <2>2. Executed("BUY", n) = Executed("BUY", n - 1) \cup {n}
        BY <1>2, ExecutedShape
    <2> QED  BY <2>1, <2>2
<1>4. /\ IsFiniteSet(ls) /\ ls \subseteq LotRecords(n - 1)
      /\ \A l \in ls : l.fill \in Executed("BUY", n - 1) /\ l.fill # n
    BY <1>3 DEF SoundLots, LotRecords
<1>5. LotRecords(n - 1) \subseteq LotRecords(n)
    BY <1>3 DEF LotRecords
<1> HIDE DEF z
<1>6. SoundLots(A, n)
    <2>1. IsFiniteSet(A)
        BY <1>4, FS_AddElement DEF z
    <2>2. A \subseteq LotRecords(n)
        BY <1>1, <1>4, <1>5 DEF z
    <2>3. ASSUME NEW a \in A, NEW b \in A, a.fill = b.fill, a # b PROVE Apart(a.path, b.path)
        <3>1. a \in ls /\ b \in ls
            BY <1>1, <1>4, <2>3 DEF z
        <3> QED  BY <2>3, <3>1 DEF SoundLots
    <2> QED  BY <2>1, <2>2, <2>3 DEF SoundLots
<1>7. \A b : OfFill(A, b) = IF b = n THEN {NewLot(n)} ELSE OfFill(ls, b)
    BY <1>1, <1>4 DEF OfFill, z
<1>8. \A d : EligibleOn(A, d) = IF truth[n].day + 1 <= d THEN EligibleOn(ls, d) \cup {NewLot(n)}
                                ELSE EligibleOn(ls, d)
    BY <1>1 DEF EligibleOn, z
<1>9. /\ Total({z}) = z.shares
      /\ \A T \in SUBSET ls : Total(T \cup {z}) = Total(T) + Total({z})
    <2>1. IsFiniteSet(A) /\ (\A l \in A : l.shares \in Nat) /\ z \in A /\ {z} \in SUBSET A
        BY <1>6, SoundShares DEF z
    <2>2. \A l \in A : Total({l}) = l.shares
        BY <2>1, TotalParts
    <2>3. ASSUME NEW T \in SUBSET ls PROVE Total(T \cup {z}) = Total(T) + Total({z})
        <3>1. T \in SUBSET A /\ T \cap {z} = {}
            BY <1>1, <1>4
        <3> QED  BY <2>1, <3>1, TotalParts
    <2> QED  BY <2>1, <2>2, <2>3
<1> QED  BY <1>1, <1>6, <1>7, <1>8, <1>9 DEF z, OneMore

LEMMA ImportBuy ==
    ASSUME TypeInv, NEW n \in 1 .. Len(truth), NEW st, Working(st, n - 1), truth[n].side = "BUY"
    PROVE  Working(Import(st, n), n)
<1> DEFINE A == st.lots \cup {NewLot(n)}
           it == Import(st, n)
<1>1. /\ it = [lots |-> it.lots, sold |-> it.sold, degraded |-> it.degraded]
      /\ it.lots = A /\ it.sold = st.sold /\ it.degraded = st.degraded
    <2>1. it = [st EXCEPT !.lots = @ \cup {NewLot(n)}]
        BY DEF Import
    <2>2. st = [lots |-> st.lots, sold |-> st.sold, degraded |-> st.degraded]
        BY DEF Working
    <2>3. it = [lots |-> A, sold |-> st.sold, degraded |-> st.degraded]
        BY <2>1, <2>2
    <2> HIDE DEF A, it
    <2> QED  BY <2>3
<1>2. n \in 0 .. Len(truth) /\ n - 1 \in 0 .. Len(truth) /\ n \in Int /\ n > 0 /\ n \in Ids
      /\ n \notin Executed("BUY", n - 1)
      /\ Executed("BUY", n) = Executed("BUY", n - 1) \cup {n}
      /\ Executed("SELL", n) = Executed("SELL", n - 1)
    <2>1. n \in 0 .. Len(truth) /\ n - 1 \in 0 .. Len(truth) /\ n \in Int /\ n > 0 /\ n \in Ids
        BY LotAssumption DEF TypeInv, Ids
    <2>2. Executed("BUY", n - 1) \subseteq 1 .. (n - 1) /\ n \notin 1 .. (n - 1)
        BY <2>1, ExecutedShape
    <2>3. Executed("BUY", n) = Executed("BUY", n - 1) \cup {n}
          /\ Executed("SELL", n) = Executed("SELL", n - 1)
        BY <2>1, ExecutedShape
    <2> QED  BY <2>1, <2>2, <2>3
<1>3. Booked(st, n - 1) /\ SoundLots(st.lots, n - 1)
    BY DEF Working, Booked
<1>4. /\ SoundLots(A, n)
      /\ \A b : OfFill(A, b) = IF b = n THEN {NewLot(n)} ELSE OfFill(st.lots, b)
      /\ Total({NewLot(n)}) = truth[n].shares
      /\ \A T \in SUBSET st.lots : Total(T \cup {NewLot(n)}) = Total(T) + truth[n].shares
      /\ \A d : EligibleOn(A, d) = IF truth[n].day + 1 <= d
                                   THEN EligibleOn(st.lots, d) \cup {NewLot(n)}
                                   ELSE EligibleOn(st.lots, d)
    <2>1. A = st.lots \cup {NewLot(n)}
        OBVIOUS
    <2> HIDE DEF A
    <2>2. OneMore(A, st.lots, n)
        BY <1>3, <2>1, OneMoreLot
    <2> QED  BY <2>2 DEF OneMore
<1> HIDE DEF A, it
<1>5. truth[n].shares \in Nat /\ truth[n].day \in Nat
    BY TruthShape
<1>6. Booked(it, n)
    <2>1. \A b \in Executed("BUY", n) : Total(OfFill(it.lots, b)) + it.sold[b] + lost[b] = truth[b].shares
        <3> TAKE b \in Executed("BUY", n)
        <3>1. CASE b = n
            <4>1. st.sold[n] = 0 /\ lost[n] = 0
                BY <1>2, <1>3 DEF Booked
            <4>2. Total(OfFill(A, n)) = truth[n].shares
                BY <1>4
            <4> QED  BY <1>1, <1>5, <3>1, <4>1, <4>2
        <3>2. CASE b # n
            <4>1. b \in Executed("BUY", n - 1) /\ OfFill(A, b) = OfFill(st.lots, b)
                BY <1>2, <1>4, <3>2
            <4>2. Total(OfFill(st.lots, b)) + st.sold[b] + lost[b] = truth[b].shares
                BY <1>3, <4>1 DEF Booked
            <4> QED  BY <1>1, <4>1, <4>2
        <3> QED  BY <3>1, <3>2
    <2>2. \A b \in Ids \ Executed("BUY", n) : it.sold[b] = 0 /\ lost[b] = 0
        BY <1>1, <1>2, <1>3 DEF Booked
    <2>3. \A b \in Ids : b > n => it.degraded[b] = 0
        <3>1. \A b \in Ids : b \in Int
            BY LotAssumption DEF Ids
        <3> QED  BY <1>1, <1>2, <1>3, <3>1 DEF Booked
    <2>4. SumIds(it.sold) + SumIds(it.degraded) = SharesOf(Executed("SELL", n))
        BY <1>1, <1>2, <1>3 DEF Booked
    <2> QED  BY <1>1, <1>3, <1>4, <2>1, <2>2, <2>3, <2>4 DEF Booked
<1>7. ASSUME careful PROVE it.degraded = NoShares /\ Timely(it.lots, n)
    <2>1. st.degraded = NoShares /\ Timely(st.lots, n - 1)
        BY <1>7 DEF Working
    <2>2. ASSUME NEW d \in Nat, d >= asOf, \A k \in 1 .. n : truth[k].day <= d
          PROVE  Total(EligibleOn(A, d)) = SellableAt(n, d)
        <3>1. truth[n].day <= d /\ \A k \in 1 .. (n - 1) : truth[k].day <= d
            BY <1>2, <2>2
        <3>2. Total(EligibleOn(st.lots, d)) = SellableAt(n - 1, d)
            BY <2>1, <2>2, <3>1 DEF Timely
        <3>3. SellableAt(n, d) = IF truth[n].day = d THEN SellableAt(n - 1, d)
                                 ELSE SellableAt(n - 1, d) + truth[n].shares
            BY HeldStep
        <3>4. CASE truth[n].day = d
            <4>1. EligibleOn(A, d) = EligibleOn(st.lots, d)
                BY <1>4, <2>2, <3>4
            <4> QED  BY <3>2, <3>3, <3>4, <4>1
        <3>5. CASE truth[n].day # d
            <4>1. EligibleOn(A, d) = EligibleOn(st.lots, d) \cup {NewLot(n)}
                BY <1>4, <1>5, <2>2, <3>1, <3>5
            <4>2. EligibleOn(st.lots, d) \in SUBSET st.lots
                BY DEF EligibleOn
            <4>3. Total(EligibleOn(st.lots, d) \cup {NewLot(n)})
                    = Total(EligibleOn(st.lots, d)) + truth[n].shares
                BY <1>4, <4>2
            <4> QED  BY <3>2, <3>3, <3>5, <4>1, <4>3
        <3> QED  BY <3>4, <3>5
    <2>3. Timely(A, n)
        BY <2>2 DEF Timely
    <2> QED  BY <1>1, <2>1, <2>3
<1> QED  BY <1>1, <1>6, <1>7 DEF Working, it

LEMMA SumIdsParts ==
    ASSUME NEW f \in [Ids -> Nat]
    PROVE  /\ SumIds(f) \in Nat
           /\ \A g \in [Ids -> Nat] : Plus(f, g) \in [Ids -> Nat] /\ SumIds(Plus(f, g)) = SumIds(f) + SumIds(g)
           /\ \A n \in Ids : \A x \in Nat : f[n] = 0 => SumIds([f EXCEPT ![n] = x]) = SumIds(f) + x
<1>0. IsFiniteSet(Ids) /\ \A b \in Ids : f[b] \in Nat
    <2>1. IsFiniteSet(Ids)
        BY LotAssumption, FS_Interval DEF Ids
    <2> QED  BY <2>1
<1>1. SumIds(f) \in Nat
    BY <1>0, SumNat, SumIdsIs
<1>2. ASSUME NEW g \in [Ids -> Nat]
      PROVE  Plus(f, g) \in [Ids -> Nat] /\ SumIds(Plus(f, g)) = SumIds(f) + SumIds(g)
    <2> DEFINE w == Plus(f, g)
    <2>1. w \in [Ids -> Nat] /\ \A b \in Ids : f[b] \in Nat /\ g[b] \in Nat /\ w[b] = f[b] + g[b]
        BY DEF Plus
    <2> HIDE DEF w
    <2>2. SumOf(w, Ids) = SumOf(f, Ids) + SumOf(g, Ids)
        BY <1>0, <2>1, SumPlus
    <2> QED  BY <2>1, <2>2, SumIdsIs DEF w
<1>3. ASSUME NEW n \in Ids, NEW x \in Nat, f[n] = 0
      PROVE  SumIds([f EXCEPT ![n] = x]) = SumIds(f) + x
    <2> DEFINE g == [f EXCEPT ![n] = x]
    <2>1. (\A b \in Ids : g[b] \in Nat) /\ g[n] = x /\ \A b \in Ids \ {n} : g[b] = f[b]
        OBVIOUS
    <2> HIDE DEF g
    <2>2. SumOf(g, Ids) = g[n] + SumOf(g, Ids \ {n}) /\ SumOf(f, Ids) = f[n] + SumOf(f, Ids \ {n})
        BY <1>0, <2>1, SumRemove
    <2>3. IsFiniteSet(Ids \ {n}) /\ \A b \in Ids \ {n} : f[b] \in Nat
        BY <1>0, FS_Subset
    <2>4. SumOf(g, Ids \ {n}) = SumOf(f, Ids \ {n}) /\ SumOf(f, Ids \ {n}) \in Nat
        BY <2>1, <2>3, SumSame, SumNat
    <2> QED  BY <1>3, <2>1, <2>2, <2>4, SumIdsIs DEF g
<1> QED  BY <1>1, <1>2, <1>3

LEMMA ImportSell ==
    ASSUME TypeInv, TruthInv, NEW n \in 1 .. Len(truth), NEW st, Working(st, n - 1),
           truth[n].side = "SELL", careful => truth[n].day >= asOf
    PROVE  Working(Import(st, n), n)
<1> DEFINE q == truth[n].shares
           E == EligibleOn(st.lots, truth[n].day)
           take == Allocated(st.lots, q, truth[n].day, truth[n].kind)
           found == SumOf(take, st.lots)
           A == Without(st.lots, take)
           s == Plus(st.sold, PerFill(take, st.lots))
           g == [st.degraded EXCEPT ![n] = q - found]
           it == Import(st, n)
<1>1. /\ it = [lots |-> it.lots, sold |-> it.sold, degraded |-> it.degraded]
      /\ it.lots = A /\ it.sold = s /\ it.degraded = g
    <2>1. st = [lots |-> st.lots, sold |-> st.sold, degraded |-> st.degraded]
        BY DEF Working
    <2>2. Sum(LAMBDA l : take[l], st.lots) = found
        BY TakenIs
    <2>3. it = [st EXCEPT !.lots = A, !.sold = s, !.degraded = g]
        BY <2>2 DEF Import
    <2> HIDE DEF A, s, g, it
    <2>4. it = [lots |-> A, sold |-> s, degraded |-> g]
        BY <2>1, <2>3
    <2> QED  BY <2>4
<1>2. /\ n \in 0 .. Len(truth) /\ n - 1 \in 0 .. Len(truth) /\ n \in Int /\ n > 0 /\ n \in Ids
      /\ Executed("BUY", n) = Executed("BUY", n - 1)
    <2>1. n \in 0 .. Len(truth) /\ n - 1 \in 0 .. Len(truth) /\ n \in Int /\ n > 0 /\ n \in Ids
        BY LotAssumption DEF TypeInv, Ids
    <2> QED  BY <2>1, ExecutedShape
<1>3. Booked(st, n - 1) /\ SoundLots(st.lots, n - 1)
    BY DEF Working, Booked
<1>0. PICK m : m = n - 1
    OBVIOUS
<1>20. m \in 0 .. Len(truth) /\ SoundLots(st.lots, m) /\ Executed("BUY", n) = Executed("BUY", m)
    BY <1>0, <1>2, <1>3
<1>4. /\ q \in Nat /\ q \in Int /\ q >= 0 /\ truth[n].day \in Nat /\ truth[n].kind \in SaleOrders
      /\ q <= SellableAt(n - 1, truth[n].day)
    BY TruthShape DEF TruthInv, SaleOrders
<1>5. E \in SUBSET st.lots
    BY DEF EligibleOn
<1>6. /\ \A l \in st.lots : take[l] \in 0 .. l.shares
      /\ \A l \in st.lots \ E : take[l] = 0
      /\ found = IF q <= Total(E) THEN q ELSE Total(E)
    <2>1. take = Taken(st.lots, E, q, truth[n].kind)
        BY DEF Allocated
    <2> HIDE DEF take, E, q
    <2>2. Takes(take, st.lots, E, q)
        BY <1>20, <1>4, <1>5, <2>1, TakenSound
    <2> QED  BY <1>4, <2>2 DEF Takes
<1> HIDE DEF take
<1>7. /\ IsFiniteSet(st.lots) /\ (\A l \in st.lots : l.shares \in Nat)
      /\ \A l \in st.lots : take[l] \in Nat
    BY <1>3, <1>6, SoundShares
<1>8. Total(E) \in Nat /\ found \in Nat /\ found <= q
    <2>1. Total(E) \in Nat
        BY <1>5, <1>7, TotalParts
    <2> QED  BY <1>4, <1>6, <2>1
<1>9. /\ SoundLots(A, n - 1)
      /\ \A T \in SUBSET st.lots :
            SumOf(take, T) \in Nat /\ Total(Without(T, take)) = Total(T) - SumOf(take, T)
      /\ \A b : OfFill(A, b) = Without(OfFill(st.lots, b), take)
      /\ \A d : EligibleOn(A, d) = Without(EligibleOn(st.lots, d), take)
    BY <1>3, <1>6, WithoutSound
<1>10. SoundLots(A, n)
    <2>1. LotRecords(n) = LotRecords(n - 1)
        BY <1>2 DEF LotRecords
    <2> HIDE DEF A
    <2> QED  BY <1>9, <2>1 DEF SoundLots
<1>11. /\ PerFill(take, st.lots) \in [Ids -> Nat]
       /\ \A b \in Ids : PerFill(take, st.lots)[b] = SumOf(take, OfFill(st.lots, b))
       /\ SumIds(PerFill(take, st.lots)) = found
       /\ \A b : /\ OfFill(st.lots, b) \in SUBSET st.lots
                 /\ b \notin Executed("BUY", n) => OfFill(st.lots, b) = {}
    <2>1. /\ PerFill(take, st.lots) \in [Ids -> Nat]
          /\ \A b \in Ids : PerFill(take, st.lots)[b] = SumOf(take, OfFill(st.lots, b))
          /\ SumIds(PerFill(take, st.lots)) = SumOf(take, st.lots)
        BY <1>20, <1>7, PerFillSum
    <2>2. \A b : /\ OfFill(st.lots, b) \in SUBSET st.lots
                 /\ b \notin Executed("BUY", n) => OfFill(st.lots, b) = {}
        BY <1>20, FillParts
    <2> QED  BY <2>1, <2>2
<1>12. /\ st.sold \in [Ids -> Nat] /\ st.degraded \in [Ids -> Nat] /\ st.degraded[n] = 0
    BY <1>2, <1>3 DEF Booked
<1>13. /\ s \in [Ids -> Nat] /\ SumIds(s) = SumIds(st.sold) + found
       /\ \A b \in Ids : s[b] = st.sold[b] + SumOf(take, OfFill(st.lots, b))
    <2>1. s \in [Ids -> Nat] /\ SumIds(s) = SumIds(st.sold) + found
        BY <1>11, <1>12, SumIdsParts
    <2>2. \A b \in Ids : s[b] = st.sold[b] + PerFill(take, st.lots)[b]
        BY DEF Plus
    <2> QED  BY <1>11, <2>1, <2>2
<1>14. /\ g \in [Ids -> Nat] /\ SumIds(g) = SumIds(st.degraded) + (q - found)
       /\ \A b \in Ids : b > n => g[b] = 0
    <2>1. q - found \in Nat
        BY <1>4, <1>8
    <2>2. SumIds(g) = SumIds(st.degraded) + (q - found)
        BY <1>2, <1>12, <2>1, SumIdsParts
    <2>3. \A b \in Ids : b > n => st.degraded[b] = 0
        <3>1. \A b \in Ids : b \in Int
            BY LotAssumption DEF Ids
        <3> QED  BY <1>2, <1>3, <3>1 DEF Booked
    <2>4. \A b \in Ids : b > n => b # n
        BY <1>2 DEF Ids
    <2> HIDE DEF q, found
    <2> QED  BY <1>12, <2>1, <2>2, <2>3, <2>4
<1>15. SumIds(s) + SumIds(g) = SharesOf(Executed("SELL", n))
    <2>1. SumIds(st.sold) + SumIds(st.degraded) = SharesOf(Executed("SELL", n - 1))
        BY <1>3 DEF Booked
    <2>2. SharesOf(Executed("SELL", n)) = SharesOf(Executed("SELL", n - 1)) + q
        BY HeldStep
    <2>3. SumIds(st.sold) \in Nat /\ SumIds(st.degraded) \in Nat
        BY <1>12, SumIdsParts
    <2> HIDE DEF s, g, q, found
    <2> QED  BY <1>4, <1>8, <1>13, <1>14, <2>1, <2>2, <2>3
<1>16. Booked(it, n)
    <2>1. \A b \in Executed("BUY", n) : Total(OfFill(A, b)) + s[b] + lost[b] = truth[b].shares
        <3> TAKE b \in Executed("BUY", n)
        <3>1. b \in Ids
            BY <1>2, ExecutedShape
        <3>2. Total(OfFill(st.lots, b)) + st.sold[b] + lost[b] = truth[b].shares
            BY <1>2, <1>3 DEF Booked
        <3>3. Total(OfFill(A, b)) = Total(OfFill(st.lots, b)) - SumOf(take, OfFill(st.lots, b))
            BY <1>9, <1>11
        <3>4. Total(OfFill(st.lots, b)) \in Nat /\ SumOf(take, OfFill(st.lots, b)) \in Nat
              /\ st.sold[b] \in Nat /\ lost[b] \in Nat
            <4>1. Total(OfFill(st.lots, b)) \in Nat
                BY <1>7, <1>11, TotalParts
            <4> QED  BY <1>9, <1>11, <1>12, <3>1, <4>1 DEF TypeInv
        <3> HIDE DEF A, s
        <3> QED  BY <1>13, <3>1, <3>2, <3>3, <3>4
    <2>2. \A b \in Ids \ Executed("BUY", n) : s[b] = 0 /\ lost[b] = 0
        <3> TAKE b \in Ids \ Executed("BUY", n)
        <3>1. st.sold[b] = 0 /\ lost[b] = 0
            BY <1>2, <1>3 DEF Booked
        <3>2. SumOf(take, OfFill(st.lots, b)) = 0
            <4>1. OfFill(st.lots, b) = {}
                BY <1>11
            <4> QED  BY <4>1, SumEmpty
        <3> HIDE DEF s
        <3> QED  BY <1>13, <3>1, <3>2
    <2> HIDE DEF A, s, g, it
    <2> QED  BY <1>1, <1>10, <1>13, <1>14, <1>15, <2>1, <2>2 DEF Booked
<1>17. ASSUME careful PROVE it.degraded = NoShares /\ Timely(it.lots, n)
    <2> DEFINE e == truth[n].day
    <2>1. st.degraded = NoShares /\ Timely(st.lots, n - 1) /\ e >= asOf
        BY <1>17 DEF Working
    <2>2. \A k \in 1 .. (n - 1) : truth[k].day <= e
        <3>1. n \in DOMAIN truth /\ \A k \in 1 .. (n - 1) : k \in DOMAIN truth /\ k <= n
            BY <1>2, TruthShape
        <3> QED  BY <3>1 DEF TruthInv
    <2>3. Total(E) = SellableAt(n - 1, e)
        BY <1>4, <2>1, <2>2 DEF Timely
    <2>4. found = q
        BY <1>4, <1>6, <2>3
    <2>5. g = NoShares
        <3>1. q - found = 0
            BY <1>4, <2>4
        <3> HIDE DEF q, found
        <3> QED  BY <1>2, <2>1, <3>1 DEF NoShares
    <2>6. ASSUME NEW d \in Nat, d >= asOf, \A k \in 1 .. n : truth[k].day <= d
          PROVE  Total(EligibleOn(A, d)) = SellableAt(n, d)
        <3> DEFINE D == EligibleOn(st.lots, d)
        <3>1. e <= d /\ \A k \in 1 .. (n - 1) : truth[k].day <= d
            BY <1>2, <2>6
        <3>2. Total(D) = SellableAt(n - 1, d)
            BY <2>1, <2>6, <3>1 DEF Timely
        <3>3. E \in SUBSET D /\ D \in SUBSET st.lots
            <4>1. \A l \in st.lots : l.from \in Nat
                BY <1>3 DEF SoundLots, LotRecords
            <4> QED  BY <1>4, <3>1, <4>1 DEF EligibleOn
        <3> HIDE DEF D, E
        <3>4. SumOf(take, D) = found
            <4> DEFINE R == st.lots \ D
            <4>1. IsFiniteSet(D) /\ IsFiniteSet(R) /\ D \cap R = {} /\ D \cup R = st.lots
                BY <1>7, <3>3, FS_Subset
            <4>2. \A l \in R : take[l] = 0
                BY <1>6, <3>3
            <4>3. SumOf(take, R) = 0
                BY <4>1, <4>2, SumZero
            <4>4. \A l \in D \cup R : take[l] \in Nat
                BY <1>7, <4>1
            <4> HIDE DEF R
            <4>5. SumOf(take, D \cup R) = SumOf(take, D) + SumOf(take, R)
                BY <4>1, <4>4, SumDisjoint
            <4>6. SumOf(take, D) \in Nat
                BY <1>9, <3>3
            <4>7. SumOf(take, D \cup R) = found
                BY <4>1
            <4> HIDE DEF found
            <4> QED  BY <4>3, <4>5, <4>6, <4>7
        <3>5. Total(EligibleOn(A, d)) = Total(D) - SumOf(take, D)
            BY <1>9, <3>3 DEF D
        <3>6. SellableAt(n, d) = SellableAt(n - 1, d) - q
            BY HeldStep
        <3> QED  BY <2>4, <3>2, <3>4, <3>5, <3>6
    <2>7. Timely(A, n)
        BY <2>6 DEF Timely
    <2> QED  BY <1>1, <2>5, <2>7
<1> QED  BY <1>1, <1>16, <1>17 DEF Working

LEMMA MaxIs ==
    ASSUME NEW a \in Nat, NEW b \in Nat
    PROVE  Max({a, b}) = IF b <= a THEN a ELSE b
BY DEF Max

Reads(h, m) ==
    h = [k \in known .. m |-> IF k = known THEN Copy ELSE Import(h[k - 1], k)]

\* The import is defined, however many executions the file lists.
LEMMA ReadsExist ==
    ASSUME TypeInv, NEW m \in known .. Len(truth)
    PROVE  \E h : Reads(h, m)
<1> DEFINE U == {x \in 0 .. Len(truth) : known <= x /\ ~ \E h : Reads(h, x)}
<1>0. known \in Nat /\ Len(truth) \in Nat /\ m \in Nat
    BY TruthShape DEF TypeInv
<1> SUFFICES ASSUME U # {} PROVE FALSE
    BY <1>0
<1>1. PICK x \in U : x \in Nat /\ \A y \in U : x <= y
    <2>1. U \in SUBSET (0 .. Len(truth))
        OBVIOUS
    <2> HIDE DEF U
    <2> QED  BY <1>0, <2>1, SmallestNumber
<1>2. CASE x = known
    <2> DEFINE h == [k \in known .. known |-> Copy]
    <2>1. \A k \in known .. known : k = known
        BY <1>0
    <2>2. Reads(h, known)
        BY <2>1 DEF Reads
    <2> QED  BY <1>1, <1>2, <2>2
<1>3. CASE x # known
    <2>1. x - 1 \in 0 .. Len(truth) /\ x - 1 \in Nat /\ known <= x - 1 /\ x - 1 \notin U
        BY <1>0, <1>1, <1>3
    <2>2. PICK h : Reads(h, x - 1)
        BY <2>1
    <2> DEFINE g == [k \in known .. x |-> IF k = x THEN Import(h[x - 1], x) ELSE h[k]]
    <2>3. \A k \in known .. (x - 1) : h[k] = IF k = known THEN Copy ELSE Import(h[k - 1], k)
        BY <2>2 DEF Reads
    <2>4. \A k \in known .. (x - 1) : g[k] = h[k]
        BY <1>0, <1>1
    <2>5. g[x] = Import(g[x - 1], x)
        BY <1>0, <1>1, <2>1
    <2>6. \A k \in known .. x : k # known => k - 1 \in known .. (x - 1)
        BY <1>0, <1>1
    <2>7. \A k \in known .. x : k = x \/ k \in known .. (x - 1)
        BY <1>0, <1>1
    <2> HIDE DEF g
    <2>8. \A k \in known .. x : g[k] = IF k = known THEN Copy ELSE Import(g[k - 1], k)
        BY <1>3, <2>3, <2>4, <2>5, <2>6, <2>7
    <2>9. g = [k \in known .. x |-> IF k = known THEN Copy ELSE Import(g[k - 1], k)]
        <3>1. g = [k \in known .. x |-> g[k]]
            BY DEF g
        <3> QED  BY <2>8, <3>1
    <2>10. Reads(g, x)
        BY <2>9 DEF Reads
    <2> QED  BY <1>1, <2>10
<1> QED  BY <1>2, <1>3

\* The working copy after the import of a file.
LEMMA ImportedSound ==
    ASSUME LotInv, NEW f, f.listed \in 0 .. Len(truth), NEW m, m = Max({known, f.listed})
    PROVE  /\ m \in known .. Len(truth) /\ f.listed <= m /\ (m = known \/ m = f.listed)
           /\ Working(Imported(f), m)
           /\ f.listed <= known => m = known /\ Imported(f) = Copy
<1>0. /\ known \in Nat /\ Len(truth) \in Nat /\ f.listed \in Nat /\ known <= Len(truth)
      /\ TypeInv /\ TruthInv
    BY TruthShape DEF LotInv, TypeInv
<1>1. /\ m \in known .. Len(truth) /\ f.listed <= m /\ (m = known \/ m = f.listed)
      /\ f.listed <= known => m = known
    BY <1>0, MaxIs
<1>2. PICK h : Reads(h, m) /\ Imported(f) = h[m]
    <2>1. Imported(f) = (CHOOSE h : Reads(h, m))[m]
        BY DEF Imported, Reads, Copy
    <2>2. \E h : Reads(h, m)
        BY <1>0, <1>1, ReadsExist
    <2> QED  BY <2>1, <2>2
<1>3. \A k \in known .. m : h[k] = IF k = known THEN Copy ELSE Import(h[k - 1], k)
    BY <1>2 DEF Reads
<1>4. h[known] = Copy /\ m \in Nat /\ known <= m /\ m <= Len(truth)
    <2>1. known \in known .. m /\ m \in Nat /\ known <= m /\ m <= Len(truth)
        BY <1>0, <1>1
    <2> QED  BY <1>3, <2>1
<1>5. Working(Copy, known)
    <2>1. Copy = [lots |-> Copy.lots, sold |-> Copy.sold, degraded |-> Copy.degraded]
          /\ Copy.lots = lots /\ Copy.degraded = degraded
        BY DEF Copy
    <2> QED  BY <2>1 DEF LotInv, CarefulInv, Working
<1>6. Working(h[m], m)
    <2> DEFINE U == {x \in 0 .. m : known <= x /\ ~Working(h[x], x)}
    <2> SUFFICES ASSUME U # {} PROVE FALSE
        BY <1>0, <1>1
    <2>1. PICK x \in U : x \in Nat /\ \A y \in U : x <= y
        <3>1. U \in SUBSET (0 .. m) /\ m \in Nat
            BY <1>0, <1>1
        <3> HIDE DEF U
        <3> QED  BY <3>1, SmallestNumber
    <2>2. x # known
        BY <1>4, <1>5, <2>1
    <2>3. x - 1 \in 0 .. m /\ known <= x - 1 /\ x - 1 \notin U /\ x \in 1 .. Len(truth) /\ x \in known .. m
          /\ known < x
        <3>1. x \in 0 .. m /\ known <= x
            OBVIOUS
        <3> HIDE DEF U
        <3>2. x - 1 \in 0 .. m /\ known <= x - 1 /\ known < x
            BY <1>0, <1>4, <2>2, <3>1
        <3>3. x \in 1 .. Len(truth) /\ x \in known .. m
            BY <1>0, <1>4, <2>2, <3>1
        <3>4. x - 1 \notin U
            BY <1>4, <2>1
        <3> QED  BY <3>2, <3>3, <3>4
    <2>4. Working(h[x - 1], x - 1)
        BY <2>3
    <2>5. h[x] = Import(h[x - 1], x)
        BY <1>3, <2>2, <2>3
    <2>6. truth[x].side \in {"BUY", "SELL"} /\ x \in DOMAIN truth
        BY <1>0, <2>3, TruthShape
    <2>7. careful => truth[x].day >= asOf
        BY <2>3, <2>6 DEF LotInv, CarefulInv
    <2>8. Working(Import(h[x - 1], x), x)
        <3>1. CASE truth[x].side = "BUY"
            BY <1>0, <2>3, <2>4, <3>1, ImportBuy
        <3>2. CASE truth[x].side = "SELL"
            BY <1>0, <2>3, <2>4, <2>7, <3>2, ImportSell
        <3> QED  BY <2>6, <3>1, <3>2
    <2> QED  BY <2>1, <2>5, <2>8
<1> QED  BY <1>1, <1>2, <1>4, <1>6

--------------------------------------------------------------------------------
(* Later executions change nothing about earlier ones *)

Longer ==
    /\ Len(truth) \in Nat /\ Len(truth') \in Nat /\ Len(truth) <= Len(truth')
    /\ \A k \in 1 .. Len(truth) : truth'[k] = truth[k]

LEMMA Frame ==
    ASSUME TypeInv, Longer, NEW n \in 0 .. Len(truth)
    PROVE  /\ \A side : Executed(side, n)' = Executed(side, n)
           /\ HeldAt(n)' = HeldAt(n)
           /\ \A d : SellableAt(n, d)' = SellableAt(n, d)
           /\ SharesOf(Executed("SELL", n))' = SharesOf(Executed("SELL", n))
           /\ LotRecords(n)' = LotRecords(n)
           /\ \A ls : SoundLots(ls, n)' <=> SoundLots(ls, n)
           /\ \A a \in LotRecords(n) : Entry(a)' = Entry(a) /\ Stem(a)' = Stem(a)
<1>1. \A k \in 1 .. n : truth'[k] = truth[k]
    BY DEF Longer
<1>2. \A side : Executed(side, n)' = Executed(side, n)
    BY <1>1 DEF Executed
<1>3. ASSUME NEW T \in SUBSET (1 .. n) PROVE SharesOf(T)' = SharesOf(T)
    <2>1. IsFiniteSet(T) /\ T \in SUBSET T
        BY SharesParts
    <2>2. [k \in T |-> truth'[k].shares] = [k \in T |-> truth[k].shares]
        BY <1>1
    <2>3. ListTotal(truth', T) = SumOf([k \in T |-> truth'[k].shares], T)
        BY <2>1, ListTotalIs
    <2>4. ListTotal(truth, T) = SumOf([k \in T |-> truth[k].shares], T)
        BY <2>1, ListTotalIs
    <2>5. ListTotal(truth', T) = ListTotal(truth, T)
        BY <2>2, <2>3, <2>4
    <2> QED  BY <2>5, SharesUnfold
<1>4. /\ Executed("BUY", n) \in SUBSET (1 .. n) /\ Executed("SELL", n) \in SUBSET (1 .. n)
      /\ \A d : BoughtOn(n, d) \in SUBSET (1 .. n)
    BY ExecutedShape
<1>5. /\ SharesOf(Executed("BUY", n))' = SharesOf(Executed("BUY", n))
      /\ SharesOf(Executed("SELL", n))' = SharesOf(Executed("SELL", n))
    BY <1>2, <1>3, <1>4
<1>6. HeldAt(n)' = HeldAt(n)
    BY <1>5 DEF HeldAt
<1>7. \A d : SellableAt(n, d)' = SellableAt(n, d)
    <2> TAKE d
    <2>1. BoughtOn(n, d)' = BoughtOn(n, d)
        BY <1>1, <1>2, <1>4 DEF BoughtOn
    <2>2. SharesOf(BoughtOn(n, d))' = SharesOf(BoughtOn(n, d))
        BY <1>3, <1>4, <2>1
    <2> QED  BY <1>6, <2>2 DEF SellableAt, BoughtOn
<1>8. LotRecords(n)' = LotRecords(n)
    BY <1>2 DEF LotRecords
<1>9. \A ls : SoundLots(ls, n)' <=> SoundLots(ls, n)
    BY <1>8 DEF SoundLots
<1>10. \A a \in LotRecords(n) : Entry(a)' = Entry(a) /\ Stem(a)' = Stem(a)
    BY <1>1, <1>4 DEF LotRecords, Entry, Stem
<1> QED  BY <1>2, <1>5, <1>6, <1>7, <1>8, <1>9, <1>10

\* So the books of a working copy stay right.
LEMMA BookedStays ==
    ASSUME TypeInv, Longer, NEW n \in 0 .. Len(truth), NEW st, Booked(st, n), lost' = lost
    PROVE  Booked(st, n)'
<1>1. \A side : Executed(side, n)' = Executed(side, n)
    BY Frame
<1>2. SharesOf(Executed("SELL", n))' = SharesOf(Executed("SELL", n)) /\ SoundLots(st.lots, n)'
    BY Frame DEF Booked
<1>3. \A b \in Executed("BUY", n) : truth'[b] = truth[b]
    <2>1. Executed("BUY", n) \in SUBSET (1 .. n)
        BY ExecutedShape
    <2> QED  BY <2>1 DEF Longer
<1>4. \A b \in Executed("BUY", n) : Total(OfFill(st.lots, b)) + st.sold[b] + lost[b] = truth'[b].shares
    BY <1>3 DEF Booked
<1> QED  BY <1>1, <1>2, <1>4 DEF Booked

LEMMA TimelyStays ==
    ASSUME TypeInv, Longer, NEW n \in 0 .. Len(truth), NEW ls, Timely(ls, n), asOf' = asOf
    PROVE  Timely(ls, n)'
<1>1. \A d : SellableAt(n, d)' = SellableAt(n, d)
    BY Frame
<1>2. \A k \in 1 .. n : truth'[k] = truth[k]
    BY DEF Longer
<1> QED  BY <1>1, <1>2 DEF Timely

LEMMA OldFirstStays ==
    ASSUME TypeInv, Longer, NEW n \in 0 .. Len(truth), NEW ls, SoundLots(ls, n)
    PROVE  /\ OldFirst(ls)' <=> OldFirst(ls)
           /\ \A a \in ls, b \in ls : (ByAge(a, b)' <=> ByAge(a, b)) /\ (Plain(a, b)' <=> Plain(a, b))
<1>1. \A a \in ls : Entry(a)' = Entry(a) /\ Stem(a)' = Stem(a)
    BY Frame DEF SoundLots
<1>2. \A a \in ls, b \in ls : IdBefore(a, b)' <=> IdBefore(a, b)
    BY <1>1 DEF IdBefore, PathBefore
<1> QED  BY <1>1, <1>2 DEF OldFirst, ByAge, Plain

--------------------------------------------------------------------------------
(* Steps of the broker *)

LEMMA AccountStays ==
    ASSUME LotInv, TypeInv', TruthInv', Longer, UNCHANGED <<careful, tried, refused, account>>,
           \A k \in DOMAIN truth' : k > Len(truth) => truth'[k].day >= asOf
    PROVE  LotInv'
<1>0. /\ TypeInv /\ known \in 0 .. Len(truth) /\ known \in Nat /\ Len(truth) \in Nat
      /\ UNCHANGED <<asOf, known, lots, sold, degraded, lost, careful, tried, refused>>
      /\ Copy' = Copy
    BY TruthShape DEF LotInv, TypeInv, account, Copy
<1>1. Booked(Copy, known) /\ SoundLots(lots, known)
    BY DEF LotInv, Booked, Copy
<1>2. Booked(Copy, known)'
    <2>1. Booked(Copy, known)'
        BY <1>0, <1>1, BookedStays
    <2> QED  BY <2>1
<1>3. \A k \in DOMAIN truth : truth'[k] = truth[k]
    BY <1>0, TruthShape DEF Longer
<1>4. CarefulInv => CarefulInv'
    <2> HAVE CarefulInv
    <2>1. Timely(lots, known)'
        BY <1>0, TimelyStays DEF CarefulInv
    <2>2. ASSUME NEW k \in DOMAIN truth', k > known' PROVE truth'[k].day >= asOf'
        <3>1. CASE k > Len(truth)
            BY <1>0, <3>1
        <3>2. CASE ~(k > Len(truth))
            <4>1. k \in DOMAIN truth
                BY <1>0, <2>2, <3>2, TruthShape DEF TypeInv
            <4> QED  BY <1>0, <1>3, <2>2, <4>1 DEF CarefulInv
        <3> QED  BY <3>1, <3>2
    <2>3. NoShares' = NoShares
        BY DEF NoShares, Ids
    <2> QED  BY <1>0, <2>1, <2>2, <2>3 DEF CarefulInv
<1>5. \A k \in 1 .. known' : truth'[k].day <= asOf'
    <2>1. \A k \in 1 .. known : k \in DOMAIN truth
        BY <1>0, TruthShape
    <2> QED  BY <1>0, <1>3, <2>1 DEF LotInv
<1>6. AlignedInv => AlignedInv'
    <2> HAVE AlignedInv
    <2>1. tried.n \in 0 .. Len(truth) /\ tried' = tried
        BY <1>0 DEF TypeInv, FileRecords, AlignedInv
    <2>2. Held(tried)' = Held(tried) /\ Sellable(tried)' = Sellable(tried)
        BY <1>0, <2>1, Frame DEF Held, Sellable
    <2>3. \A a \in lots, b \in lots :
             a.from = asOf /\ b.from = asOf + 1 /\ Plain(a, b)' => ByAge(a, b)'
        BY <1>0, <1>1, OldFirstStays DEF AlignedInv
    <2>4. /\ known' >= tried'.listed /\ asOf' = tried'.asOf /\ tried'.n <= Len(truth')
        BY <1>0, <2>1 DEF AlignedInv, Longer
    <2> QED  BY <1>0, <2>2, <2>3, <2>4 DEF AlignedInv
<1>7. RefusedInv => RefusedInv'
    BY <1>0 DEF RefusedInv, NoShares, Ids
<1>8. OldFirst(lots)'
    <2>1. OldFirst(lots)' <=> OldFirst(lots)
        BY <1>0, <1>1, OldFirstStays
    <2> QED  BY <2>1 DEF LotInv
<1>9. NoFile' = NoFile
    BY DEF NoFile
<1> QED  BY <1>0, <1>2, <1>4, <1>5, <1>6, <1>7, <1>8, <1>9 DEF LotInv

LEMMA NextDayKeeps ==
    ASSUME LotInv, NextDay
    PROVE  LotInv'
<1>1. Longer /\ UNCHANGED <<careful, tried, refused, account, truth>> /\ day' = day + 1
    <2>1. TypeInv
        BY DEF LotInv
    <2> QED  BY <2>1, TruthShape DEF NextDay, Longer
<1>2. TypeInv'
    BY <1>1, LotAssumption DEF LotInv, TypeInv, NextDay, account, Ids, Trades, FileRecords
<1>3. TruthInv'
    <2>1. TypeInv /\ TruthInv
        BY DEF LotInv
    <2>2. \A k \in DOMAIN truth : truth[k].day \in Nat /\ day \in Nat /\ k - 1 \in 0 .. Len(truth)
        BY <2>1, TruthShape DEF TypeInv
    <2>3. \A k \in DOMAIN truth : SellableAt(k - 1, truth[k].day)' = SellableAt(k - 1, truth[k].day)
        BY <1>1, <2>1, <2>2, Frame
    <2> QED  BY <1>1, <2>1, <2>2, <2>3 DEF TruthInv
<1>4. \A k \in DOMAIN truth' : ~(k > Len(truth))
    <2>1. TypeInv
        BY DEF LotInv
    <2> QED  BY <1>1, <2>1, TruthShape
<1> QED  BY <1>1, <1>2, <1>3, <1>4, AccountStays

LEMMA TradeKeeps ==
    ASSUME LotInv, NEW side \in {"BUY", "SELL"}, NEW n \in 1 .. MaxShares,
           NEW kind \in IF side = "BUY" THEN {"SATELLITE", "CORE"} ELSE {"FIFO", "RISK_PRIORITY"},
           NEW stem \in Stems, Trade(side, n, kind, stem)
    PROVE  LotInv'
<1> DEFINE e == [side |-> side, day |-> day, shares |-> n, kind |-> kind, stem |-> stem]
           m == Len(truth)
<1>1. /\ TypeInv /\ TruthInv /\ m \in Nat /\ DOMAIN truth = 1 .. m /\ day \in 1 .. MaxDay /\ day \in Nat
      /\ m < MaxFills /\ asOf \in Nat /\ asOf <= day
    <2>1. TypeInv /\ TruthInv
        BY DEF LotInv
    <2> QED  BY <2>1, TruthShape, LotAssumption DEF TypeInv, Trade
<1>2. e \in Trades /\ UNCHANGED <<careful, tried, refused, account, day>> /\ truth' = Append(truth, e)
    BY <1>1, LotAssumption DEF Trade, Trades
<1>3. /\ truth' \in Seq(Trades) /\ Len(truth') = m + 1 /\ DOMAIN truth' = 1 .. (m + 1)
      /\ truth'[m + 1] = e /\ \A k \in 1 .. m : truth'[k] = truth[k]
    <2>1. truth \in Seq(Trades)
        BY <1>1 DEF TypeInv
    <2> HIDE DEF e
    <2> QED  BY <1>2, <2>1, AppendProperties
<1> HIDE DEF m
<1>4. Longer
    BY <1>1, <1>3 DEF Longer, m
<1>5. TypeInv'
    <2>1. Len(truth') <= MaxFills /\ known' \in 0 .. Len(truth')
        BY <1>1, <1>2, <1>3, LotAssumption DEF TypeInv, account, m
    <2> QED  BY <1>1, <1>2, <1>3, <2>1 DEF TypeInv, account, Trades, FileRecords, Ids
<1>6. TruthInv'
    <2>1. \A k \in 1 .. (m + 1) : k \in 1 .. m \/ k = m + 1
        BY <1>1
    <2>2. \A k \in DOMAIN truth' : truth'[k].day <= day'
        BY <1>1, <1>2, <1>3, <2>1 DEF TruthInv
    <2>3. ASSUME NEW j \in DOMAIN truth', NEW k \in DOMAIN truth', j <= k
          PROVE  truth'[j].day <= truth'[k].day
        <3>1. CASE k \in 1 .. m
            <4>1. j \in 1 .. m
                BY <1>1, <1>3, <2>3, <3>1
            <4> QED  BY <1>1, <1>3, <2>3, <3>1, <4>1 DEF TruthInv
        <3>2. CASE k = m + 1
            <4>1. truth'[k].day = day
                BY <1>3, <3>2
            <4> QED  BY <1>2, <2>2, <4>1
        <3> QED  BY <1>3, <2>1, <3>1, <3>2
    <2>4. ASSUME NEW k \in DOMAIN truth', truth'[k].side = "SELL"
          PROVE  /\ truth'[k].kind \in {"FIFO", "RISK_PRIORITY"}
                 /\ truth'[k].shares <= SellableAt(k - 1, truth[k].day)'
        <3>1. k - 1 \in 0 .. Len(truth)
            BY <1>1, <1>3 DEF m
        <3>2. \A d : SellableAt(k - 1, d)' = SellableAt(k - 1, d)
            BY <1>1, <1>4, <3>1, Frame
        <3>3. CASE k \in 1 .. m
            BY <1>1, <1>3, <2>4, <3>2, <3>3 DEF TruthInv
        <3>4. CASE k = m + 1
            <4>1. /\ truth'[k].side = side /\ truth'[k].kind = kind /\ truth'[k].shares = n
                  /\ truth'[k].day = day /\ k - 1 = Len(truth)
                BY <1>1, <1>3, <3>4 DEF m
            <4>2. n <= SellableAt(Len(truth), day)
                BY <2>4, <4>1 DEF Trade
            <4> QED  BY <2>4, <3>2, <4>1, <4>2
        <3> QED  BY <1>3, <2>1, <3>3, <3>4
    <2> QED  BY <2>2, <2>3, <2>4 DEF TruthInv
<1>7. \A k \in DOMAIN truth' : k > Len(truth) => truth'[k].day >= asOf
    <2>1. \A k \in DOMAIN truth' : k > Len(truth) => k = m + 1
        BY <1>1, <1>3 DEF m
    <2>2. truth'[m + 1].day = day
        BY <1>3
    <2> QED  BY <1>1, <2>1, <2>2
<1> QED  BY <1>2, <1>4, <1>5, <1>6, <1>7, AccountStays

--------------------------------------------------------------------------------
(* Snapshots *)

LEMMA FileShape ==
    ASSUME LotInv, NEW d \in 1 .. day, NEW f \in Files(d)
    PROVE  /\ f \in FileRecords /\ f # NoFile /\ f.asOf = d /\ d \in Nat
           /\ f.n \in 0 .. Len(truth) /\ f.listed \in 0 .. Len(truth) /\ f.listed <= f.n
           /\ \A k \in DOMAIN truth : IF k <= f.n THEN truth[k].day <= d ELSE truth[k].day >= d
           /\ Held(f) \in Nat /\ Sellable(f) \in Nat /\ Sellable(f) <= Held(f)
           /\ f.withheld = 0 => Sellable(f) = SellableAt(f.n, d)
<1>0. TypeInv /\ Len(truth) \in Nat /\ known \in Nat /\ d \in Nat /\ d # 0
    BY TruthShape DEF LotInv, TypeInv
<1>1. PICK n \in {m \in 0 .. Len(truth) : \A k \in DOMAIN truth :
                       IF k <= m THEN truth[k].day <= d ELSE truth[k].day >= d} :
         f \in [asOf : {d}, n : {n}, listed : Min({known, n}) .. n,
                withheld : {w \in 0 .. SellableAt(n, d) : w <= MaxWithheld}]
    BY DEF Files
<1>2. n \in Nat /\ Min({known, n}) \in Nat
    BY <1>0, <1>1 DEF Min
<1>3. /\ f.asOf = d /\ f.n = n /\ f.listed \in Nat /\ f.listed <= n
      /\ f.withheld \in 0 .. SellableAt(n, d)
    BY <1>1, <1>2
<1>4. HeldAt(n) \in Int /\ SellableAt(n, d) \in Int /\ SellableAt(n, d) <= HeldAt(n)
    BY <1>0, <1>1, HeldBounds
<1>5. f \in FileRecords
    BY <1>0, <1>1, <1>2, <1>3, <1>4 DEF FileRecords
<1>6. f # NoFile
    BY <1>0, <1>3 DEF NoFile
<1>7. Held(f) = HeldAt(n) /\ Sellable(f) = SellableAt(n, d) - f.withheld
    BY <1>3 DEF Held, Sellable
<1> QED  BY <1>0, <1>1, <1>2, <1>3, <1>4, <1>5, <1>6, <1>7

\* The days on which the known executions were made.
LEMMA KnownDays ==
    ASSUME LotInv, NEW d \in Nat, d >= asOf, NEW n, n = Cardinality({k \in DOMAIN truth : truth[k].day <= d})
    PROVE  /\ n \in Nat /\ known <= n
           /\ (n <= Len(truth) /\ \A k \in 1 .. n : truth[k].day <= d)
                 => \A k \in DOMAIN truth : k > n => truth[k].day > d
<1> DEFINE D == {k \in DOMAIN truth : truth[k].day <= d}
<1>0. /\ TypeInv /\ Len(truth) \in Nat /\ known \in Nat /\ known <= Len(truth)
      /\ DOMAIN truth = 1 .. Len(truth) /\ asOf \in Nat
      /\ \A k \in DOMAIN truth : truth[k].day \in Nat
    BY TruthShape DEF LotInv, TypeInv
<1>1. IsFiniteSet(D) /\ n = Cardinality(D) /\ n \in Nat
    <2>1. IsFiniteSet(1 .. Len(truth))
        BY <1>0, FS_Interval
    <2>2. IsFiniteSet(D)
        BY <1>0, <2>1, FS_Subset
    <2> QED  BY <2>2, FS_CardinalityType
<1>2. known <= n
    <2>1. 1 .. known \in SUBSET D
        BY <1>0 DEF LotInv
    <2>2. Cardinality(1 .. known) = known
        BY <1>0, FS_Interval
    <2> HIDE DEF D
    <2> QED  BY <1>1, <2>1, <2>2, FS_Subset
<1>3. ASSUME n <= Len(truth), \A k \in 1 .. n : truth[k].day <= d,
             NEW k \in DOMAIN truth, k > n
      PROVE  truth[k].day > d
    <2>0. n \in Nat
        BY <1>1
    <2>1. 1 .. n \in SUBSET D
        <3>1. \A j \in 1 .. n : j \in DOMAIN truth
            BY <1>0, <1>3, <2>0
        <3> QED  BY <1>3, <3>1
    <2>2. Cardinality(1 .. n) = n
        BY <1>1, FS_Interval
    <2>3. 1 .. n = D
        <3> HIDE DEF D
        <3> QED  BY <1>1, <2>1, <2>2, FS_Subset
    <2>4. k \notin D
        <3>1. k \notin 1 .. n
            BY <1>0, <1>3, <2>0
        <3> HIDE DEF D
        <3> QED  BY <2>3, <3>1
    <2> QED  BY <1>0, <2>4
<1> QED  BY <1>1, <1>2, <1>3

\* The lots and the losses that an accepted file leaves, as of day d and after the first m executions.
Settled(A, out, st, f, d, m) ==
    /\ SoundLots(A, m) /\ OldFirst(A)
    /\ Total(A) = Held(f) /\ Total(EligibleOn(A, d)) = Sellable(f)
    /\ \A z \in A : z.from \in {d, d + 1}
    /\ \A a \in A, b \in A : a.from = d /\ b.from = d + 1 /\ Plain(a, b) => ByAge(a, b)
    /\ out \in [Ids -> Nat]
    /\ \A b \in Executed("BUY", m) : Total(OfFill(A, b)) + st.sold[b] + out[b] = truth[b].shares
    /\ \A b \in Ids \ Executed("BUY", m) : st.sold[b] = 0 /\ out[b] = 0
    /\ Total(st.lots) = Held(f) => out = lost

LEMMA AcceptSettles ==
    ASSUME LotInv, NEW d \in 1 .. day, NEW f \in Files(d),
           NEW m \in 0 .. Len(truth), NEW st, Working(st, m), Total(st.lots) >= Held(f),
           NEW gone, gone = Deficit(st.lots, Held(f)),
           NEW A, A = Aligned(Without(st.lots, gone), Sellable(f), d),
           NEW out, out = Plus(lost, PerFill(gone, st.lots))
    PROVE  Settled(A, out, st, f, d, m)
<1> DEFINE ls == st.lots
           q == Total(ls) - Held(f)
           W == Without(ls, gone)
           n == Sellable(f)
<1>0. /\ TypeInv /\ d \in Nat /\ Held(f) \in Nat /\ n \in Nat /\ n <= Held(f)
      /\ lost \in [Ids -> Nat]
    <2>1. TypeInv
        BY DEF LotInv
    <2> QED  BY <2>1, FileShape DEF TypeInv
<1>1. Booked(st, m) /\ SoundLots(ls, m)
    BY DEF Working, Booked
<1>2. IsFiniteSet(ls) /\ (\A l \in ls : l.shares \in Nat) /\ Total(ls) \in Nat /\ ls \in SUBSET ls
    <2>1. IsFiniteSet(ls) /\ (\A l \in ls : l.shares \in Nat) /\ ls \in SUBSET ls
        BY <1>1, SoundShares
    <2> QED  BY <2>1, TotalParts
<1>3. Takes(gone, ls, ls, q)
    <2>1. gone = Taken(ls, ls, q, "FIFO")
        BY DEF Deficit
    <2>2. q \in Int /\ "FIFO" \in SaleOrders
        BY <1>0, <1>2 DEF SaleOrders
    <2> HIDE DEF q, ls
    <2> QED  BY <1>0, <1>1, <1>2, <2>1, <2>2, TakenSound
<1>4. /\ \A l \in ls : gone[l] \in 0 .. l.shares /\ gone[l] \in Nat
      /\ SumOf(gone, ls) = q
      /\ Total(ls) = Held(f) => \A l \in ls : gone[l] = 0
    <2>1. q \in Int /\ q >= 0 /\ q <= Total(ls)
        BY <1>0, <1>2
    <2>2. Total(ls) = Held(f) => q <= 0
        BY <1>0
    <2>3. \A l \in ls : gone[l] \in 0 .. l.shares
        BY <1>3 DEF Takes
    <2>4. \A l \in ls : gone[l] \in Nat
        BY <1>2, <2>3
    <2> HIDE DEF q, ls
    <2> QED  BY <1>3, <2>1, <2>2, <2>3, <2>4 DEF Takes
<1>5. /\ SoundLots(W, m)
      /\ \A T \in SUBSET ls : Total(Without(T, gone)) = Total(T) - SumOf(gone, T)
      /\ \A b : OfFill(W, b) = Without(OfFill(ls, b), gone)
    BY <1>1, <1>4, WithoutSound
<1>6. Total(W) = Held(f)
    <2>1. Total(W) = Total(ls) - SumOf(gone, ls)
        BY <1>2, <1>5
    <2> QED  BY <1>0, <1>2, <1>4, <2>1
<1> HIDE DEF W, n
<1>7. /\ SoundLots(A, m)
      /\ Total(A) = Total(W) /\ Total(EligibleOn(A, d)) = n
      /\ \A b : Total(OfFill(A, b)) = Total(OfFill(W, b))
      /\ \A z \in A : z.from \in {d, d + 1}
      /\ OldFirst(A)
      /\ \A a \in A, b \in A : a.from = d /\ b.from = d + 1 /\ Plain(a, b) => ByAge(a, b)
    <2>1. A = Aligned(W, n, d)
        BY DEF W, n
    <2>2. n <= Total(W)
        BY <1>0, <1>6
    <2> QED  BY <1>0, <1>5, <2>1, <2>2, AlignedSound
<1>8. /\ PerFill(gone, ls) \in [Ids -> Nat]
      /\ \A b \in Ids : PerFill(gone, ls)[b] = SumOf(gone, OfFill(ls, b))
      /\ \A b : SumOf(gone, OfFill(ls, b)) \in Nat
    BY <1>0, <1>1, <1>4, PerFillSum
<1>9. /\ out \in [Ids -> Nat]
      /\ \A b \in Ids : out[b] = lost[b] + SumOf(gone, OfFill(ls, b)) /\ lost[b] \in Nat
    <2>1. \A b \in Ids : out[b] = lost[b] + PerFill(gone, ls)[b]
        BY DEF Plus
    <2>2. out = [b \in Ids |-> out[b]]
        BY DEF Plus
    <2> QED  BY <1>0, <1>8, <2>1, <2>2
<1>10. \A b : /\ OfFill(ls, b) \in SUBSET ls /\ Total(OfFill(ls, b)) \in Nat
              /\ b \notin Executed("BUY", m) => OfFill(ls, b) = {}
    BY <1>0, <1>1, FillParts
<1>11. \A b \in Executed("BUY", m) : Total(OfFill(A, b)) + st.sold[b] + out[b] = truth[b].shares
    <2> TAKE b \in Executed("BUY", m)
    <2>1. b \in Ids
        BY <1>0, ExecutedShape
    <2>2. Total(OfFill(A, b)) = Total(OfFill(ls, b)) - SumOf(gone, OfFill(ls, b))
        BY <1>5, <1>7, <1>10
    <2>3. Total(OfFill(ls, b)) + st.sold[b] + lost[b] = truth[b].shares /\ st.sold[b] \in Nat
        BY <1>1, <2>1 DEF Booked
    <2> QED  BY <1>8, <1>9, <1>10, <2>1, <2>2, <2>3
<1>12. \A b \in Ids \ Executed("BUY", m) : st.sold[b] = 0 /\ out[b] = 0
    <2> TAKE b \in Ids \ Executed("BUY", m)
    <2>1. OfFill(ls, b) = {}
        BY <1>10
    <2>2. SumOf(gone, OfFill(ls, b)) = 0
        BY <2>1, SumEmpty
    <2>3. st.sold[b] = 0 /\ lost[b] = 0
        BY <1>1 DEF Booked
    <2> QED  BY <1>9, <2>2, <2>3
<1>13. ASSUME Total(ls) = Held(f) PROVE out = lost
    <2>1. \A b \in Ids : SumOf(gone, OfFill(ls, b)) = 0
        <3> TAKE b \in Ids
        <3>1. IsFiniteSet(OfFill(ls, b)) /\ \A l \in OfFill(ls, b) : gone[l] = 0
            BY <1>2, <1>4, <1>10, <1>13, FS_Subset
        <3> QED  BY <3>1, SumZero
    <2>2. \A b \in Ids : out[b] = lost[b]
        BY <1>9, <2>1
    <2> QED  BY <1>0, <1>9, <2>2
<1> QED  BY <1>6, <1>7, <1>9, <1>11, <1>12, <1>13 DEF Settled, n

\* Where nothing is missing, the deficit takes nothing.
LEMMA NothingGone ==
    ASSUME LotInv, NEW m \in 0 .. Len(truth), NEW ls, SoundLots(ls, m),
           NEW h \in Nat, Total(ls) = h, NEW gone, gone = Deficit(ls, h)
    PROVE  Without(ls, gone) = ls /\ Plus(lost, PerFill(gone, ls)) = lost
<1>1. TypeInv /\ lost \in [Ids -> Nat]
    BY DEF LotInv, TypeInv
<1>2. IsFiniteSet(ls) /\ (\A l \in ls : l.shares \in Nat \ {0}) /\ ls \in SUBSET ls
    BY SoundShares
<1>3. Takes(gone, ls, ls, 0)
    <2>1. gone = Taken(ls, ls, 0, "FIFO") /\ 0 \in Int /\ "FIFO" \in SaleOrders
        BY DEF Deficit, SaleOrders
    <2> QED  BY <1>1, <1>2, <2>1, TakenSound
<1>4. \A l \in ls : gone[l] = 0
    BY <1>3 DEF Takes
<1>5. \A l \in ls : [l EXCEPT !.shares = @ - gone[l]] = l /\ gone[l] < l.shares
    <2> TAKE l \in ls
    <2>1. l.shares - gone[l] = l.shares /\ gone[l] < l.shares
        BY <1>2, <1>4
    <2>2. l \in LotRecords(m)
        BY DEF SoundLots
    <2> QED  BY <2>1, <2>2 DEF LotRecords
<1>6. Without(ls, gone) = ls
    BY <1>5 DEF Without
<1>7. \A b \in Ids : PerFill(gone, ls)[b] = 0
    <2> TAKE b \in Ids
    <2>1. PerFill(gone, ls)[b] = SumOf(gone, OfFill(ls, b))
        BY <1>1, <1>4, PerFillSum
    <2>2. IsFiniteSet(OfFill(ls, b)) /\ \A l \in OfFill(ls, b) : gone[l] = 0
        BY <1>2, <1>4, FS_Subset DEF OfFill
    <2> QED  BY <2>1, <2>2, SumZero
<1>8. \A b \in Ids : lost[b] + PerFill(gone, ls)[b] = lost[b]
    BY <1>1, <1>7
<1>9. Plus(lost, PerFill(gone, ls)) = lost
    BY <1>1, <1>8 DEF Plus
<1> QED  BY <1>6, <1>9

LEMMA AcceptKeeps ==
    ASSUME LotInv, NEW d \in 1 .. day, d >= asOf, NEW f \in Files(d), careful => Complete(f),
           tried' = f, Total(Imported(f).lots) >= Held(f), Accept(f, Imported(f)),
           UNCHANGED <<careful, day, truth>>
    PROVE  LotInv'
<1>a. PICK st : st = Imported(f)
    OBVIOUS
<1>b. PICK m : m = Max({known, f.listed})
    OBVIOUS
<1>0. /\ TypeInv /\ TruthInv /\ d \in Nat /\ Len(truth) \in Nat /\ asOf \in Nat /\ known \in Nat
      /\ day \in Nat /\ DOMAIN truth = 1 .. Len(truth)
      /\ \A k \in DOMAIN truth : truth[k].day \in Nat
    BY TruthShape, LotAssumption DEF LotInv, TypeInv
<1>1. /\ f \in FileRecords /\ f # NoFile /\ f.asOf = d
      /\ f.n \in 0 .. Len(truth) /\ f.listed \in 0 .. Len(truth) /\ f.listed <= f.n
      /\ \A k \in DOMAIN truth : IF k <= f.n THEN truth[k].day <= d ELSE truth[k].day >= d
      /\ Held(f) \in Nat
      /\ f.withheld = 0 => Sellable(f) = SellableAt(f.n, d)
    BY FileShape
<1>2. /\ m \in known .. Len(truth) /\ m \in 0 .. Len(truth) /\ f.listed <= m /\ (m = known \/ m = f.listed)
      /\ Working(st, m) /\ Total(st.lots) >= Held(f)
    <2>1. /\ m \in known .. Len(truth) /\ f.listed <= m /\ (m = known \/ m = f.listed)
          /\ Working(Imported(f), m)
        BY <1>1, <1>b, ImportedSound
    <2>2. m \in 0 .. Len(truth)
        BY <1>0, <2>1
    <2> QED  BY <1>a, <2>1, <2>2
<1>c. /\ Total(st.lots) = Held(f) => /\ Without(st.lots, Deficit(st.lots, Held(f))) = st.lots
                                     /\ Plus(lost, PerFill(Deficit(st.lots, Held(f)), st.lots)) = lost
    BY <1>1, <1>2, NothingGone DEF Working, Booked
<1>3. /\ refused' = FALSE /\ known' = m /\ asOf' = d /\ sold' = st.sold /\ degraded' = st.degraded
      /\ UNCHANGED <<careful, day, truth>> /\ tried' = f
      /\ lots' = Aligned(Without(st.lots, Deficit(st.lots, Held(f))), Sellable(f), d)
      /\ lost' = Plus(lost, PerFill(Deficit(st.lots, Held(f)), st.lots))
      /\ Copy' = [lots |-> lots', sold |-> st.sold, degraded |-> st.degraded]
    BY <1>1, <1>a, <1>b, <1>c DEF Accept, Copy
<1>4. Settled(lots', lost', st, f, d, m)
    BY <1>2, <1>3, AcceptSettles
<1>5. Longer
    BY <1>0, <1>3 DEF Longer
<1>6. TypeInv'
    <2>1. lost' \in [Ids -> Nat] /\ Ids' = Ids /\ FileRecords' = FileRecords /\ Trades' = Trades
        BY <1>4 DEF Settled, Ids, FileRecords, Trades
    <2>2. asOf' \in 0 .. day' /\ known' \in 0 .. Len(truth') /\ refused' \in BOOLEAN /\ tried' \in FileRecords
        <3>1. d \in 0 .. day /\ m \in 0 .. Len(truth) /\ f \in FileRecords
            BY <1>0, <1>1, <1>2
        <3> QED  BY <1>3, <3>1
    <2>3. /\ careful' \in BOOLEAN /\ day' \in 1 .. MaxDay /\ truth' \in Seq(Trades) /\ Len(truth') <= MaxFills
        BY <1>0, <1>3 DEF TypeInv
    <2> QED  BY <2>1, <2>2, <2>3 DEF TypeInv
<1>7. TruthInv'
    <2>1. \A k \in DOMAIN truth : k - 1 \in 0 .. Len(truth)
        BY <1>0
    <2>2. \A k \in DOMAIN truth : SellableAt(k - 1, truth[k].day)' = SellableAt(k - 1, truth[k].day)
        BY <1>0, <1>3, <1>5, <2>1, Frame
    <2> QED  BY <1>0, <1>3, <2>2 DEF TruthInv
<1>8. /\ \A side : Executed(side, m)' = Executed(side, m)
      /\ HeldAt(f.n)' = HeldAt(f.n) /\ \A e : SellableAt(f.n, e)' = SellableAt(f.n, e)
      /\ SharesOf(Executed("SELL", m))' = SharesOf(Executed("SELL", m))
      /\ \A ls : SoundLots(ls, m)' <=> SoundLots(ls, m)
    BY <1>0, <1>1, <1>2, <1>5, Frame
<1>9. Booked(Copy, known)'
    <2>1. SoundLots(lots, known)'
        BY <1>3, <1>4, <1>8 DEF Settled
    <2>2. Booked(st, m)
        BY <1>2 DEF Working
    <2>3. Executed("BUY", known)' = Executed("BUY", m) /\ Ids' = Ids
          /\ SharesOf(Executed("SELL", known))' = SharesOf(Executed("SELL", m))
        BY <1>3, <1>8 DEF Ids
    <2>4. \A b \in Executed("BUY", m) : Total(OfFill(lots', b)) + st.sold[b] + lost'[b] = truth'[b].shares
        BY <1>3, <1>4 DEF Settled
    <2>5. \A b \in Ids \ Executed("BUY", m) : st.sold[b] = 0 /\ lost'[b] = 0
        BY <1>4 DEF Settled
    <2> QED  BY <1>3, <2>1, <2>2, <2>3, <2>4, <2>5 DEF Booked
<1>10. \A k \in 1 .. known' : truth'[k].day <= asOf'
    <2> SUFFICES ASSUME NEW k \in 1 .. m PROVE truth[k].day <= d
        BY <1>3
    <2>1. k \in DOMAIN truth
        BY <1>0, <1>2
    <2>2. CASE k \in 1 .. known
        <3>1. truth[k].day <= asOf
            BY <2>2 DEF LotInv
        <3> QED  BY <1>0, <2>1, <3>1
    <2>3. CASE k <= f.n
        BY <1>1, <2>1, <2>3
    <2>4. f.n \in Nat /\ f.listed \in Nat /\ k \in Nat /\ k <= m
        BY <1>0, <1>1, <1>2
    <2> QED  BY <1>0, <1>1, <1>2, <2>2, <2>3, <2>4
<1>11. AlignedInv'
    <2>1. Held(tried)' = Held(f) /\ Sellable(tried)' = Sellable(f)
        BY <1>1, <1>3, <1>8 DEF Held, Sellable
    <2>2. \A a \in lots', b \in lots' : (ByAge(a, b)' <=> ByAge(a, b)) /\ (Plain(a, b)' <=> Plain(a, b))
        BY <1>0, <1>2, <1>4, <1>5, OldFirstStays DEF Settled
    <2>3. /\ \A l \in lots' : l.from \in {d, d + 1}
          /\ Total(lots') = Held(f) /\ Total(EligibleOn(lots', d)) = Sellable(f)
        BY <1>4 DEF Settled
    <2>4. \A a \in lots', b \in lots' :
             a.from = d /\ b.from = d + 1 /\ Plain(a, b)' => ByAge(a, b)'
        BY <1>4, <2>2 DEF Settled
    <2>5. m >= f.listed /\ f.n <= Len(truth)
        BY <1>0, <1>1, <1>2
    <2> QED  BY <1>1, <1>3, <2>1, <2>3, <2>4, <2>5 DEF AlignedInv
<1>12. OldFirst(lots)'
    <2>1. OldFirst(lots') /\ SoundLots(lots', m)
        BY <1>4 DEF Settled
    <2>2. \A ls : SoundLots(ls, m) => (OldFirst(ls)' <=> OldFirst(ls))
        BY <1>0, <1>2, <1>5, OldFirstStays
    <2> QED  BY <2>1, <2>2
<1>13. ASSUME careful PROVE CarefulInv'
    <2>1. /\ st.degraded = NoShares /\ Timely(st.lots, m) /\ Booked(st, m) /\ lost = NoShares
          /\ Complete(f)
        BY <1>2, <1>13 DEF Working, LotInv, CarefulInv
    <2>2. /\ f.n = Cardinality({k \in DOMAIN truth : truth[k].day <= d})
          /\ f.listed = f.n /\ f.withheld = 0
        BY <1>1, <2>1 DEF Complete
    <2>3. /\ known <= f.n /\ f.n \in Nat
          /\ (f.n <= Len(truth) /\ \A k \in 1 .. f.n : truth[k].day <= d)
                 => \A k \in DOMAIN truth : k > f.n => truth[k].day > d
        BY <1>0, <2>2, KnownDays
    <2>4. f.n <= Len(truth) /\ \A k \in 1 .. f.n : k \in DOMAIN truth /\ truth[k].day <= d
        <3>1. \A k \in 1 .. f.n : k \in DOMAIN truth /\ k <= f.n
            BY <1>0, <1>1
        <3> QED  BY <1>0, <1>1, <3>1
    <2>5. \A k \in DOMAIN truth : k > f.n => truth[k].day > d
        BY <2>3, <2>4
    <2>6. m = f.n
        BY <1>0, <1>2, <2>2, <2>3
    <2>7. Total(st.lots) = Held(f)
        <3>1. SumIds(lost) = 0 /\ SumIds(st.degraded) = 0
            BY <2>1, NothingIn
        <3>2. Total(st.lots) \in Nat /\ Total(st.lots) + SumIds(lost) = HeldAt(m) + SumIds(st.degraded)
            BY <1>0, <1>2, <2>1, Accounted
        <3>3. Held(f) = HeldAt(m) /\ HeldAt(m) \in Int
            BY <1>0, <1>2, <2>6, HeldBounds DEF Held
        <3> QED  BY <3>1, <3>2, <3>3
    <2>8. lost' = lost
        BY <1>4, <2>7 DEF Settled
    <2>9. Timely(lots, known)'
        <3> SUFFICES ASSUME NEW e \in Nat, e >= d, \A k \in 1 .. m : truth[k].day <= e
                     PROVE  Total(EligibleOn(lots', e)) = SellableAt(m, e)
            <4>1. \A e \in Nat : SellableAt(m, e)' = SellableAt(m, e)
                BY <1>8, <2>6
            <4>2. \A e \in Nat : SellableAt(known, e)' = SellableAt(m, e)
                BY <1>3, <4>1
            <4> QED  BY <1>3, <4>2 DEF Timely
        <3>1. CASE e = d
            <4>1. Total(EligibleOn(lots', d)) = Sellable(f)
                BY <1>4 DEF Settled
            <4>2. Sellable(f) = SellableAt(f.n, d)
                BY <1>1, <2>2
            <4> QED  BY <2>6, <3>1, <4>1, <4>2
        <3>2. CASE e # d
            <4>1. EligibleOn(lots', e) = lots'
                BY <1>0, <1>4, <3>2 DEF Settled, EligibleOn
            <4>2. \A k \in 1 .. m : truth[k].day # e
                BY <1>0, <2>4, <2>6, <3>2
            <4>3. SellableAt(m, e) = HeldAt(m)
                BY <1>0, <1>2, <4>2, HeldBounds
            <4> QED  BY <1>4, <2>6, <4>1, <4>3 DEF Settled, Held
        <3> QED  BY <3>1, <3>2
    <2>10. \A k \in DOMAIN truth : k > m => truth[k].day >= d
        BY <1>0, <2>5, <2>6
    <2>11. NoShares' = NoShares
        BY DEF NoShares, Ids
    <2> QED  BY <1>3, <2>1, <2>8, <2>9, <2>10, <2>11 DEF CarefulInv
<1>14. NoFile' = NoFile
    BY DEF NoFile
<1> QED  BY <1>3, <1>6, <1>7, <1>9, <1>10, <1>11, <1>12, <1>13, <1>14 DEF LotInv

\* A snapshot that states more shares than the lots are is refused; if it lists all of its executions,
\* lots were lost before.
LEMMA RefusalKeeps ==
    ASSUME LotInv, NEW d \in 1 .. day, d >= asOf, NEW f \in Files(d),
           tried' = f, Total(Imported(f).lots) < Held(f), refused' = TRUE, UNCHANGED account,
           UNCHANGED <<careful, day, truth>>
    PROVE  LotInv'
<1>a. PICK st : st = Imported(f)
    OBVIOUS
<1>b. PICK m : m = Max({known, f.listed})
    OBVIOUS
<1>0. /\ TypeInv /\ TruthInv /\ Len(truth) \in Nat /\ known \in Nat /\ known \in 0 .. Len(truth)
      /\ DOMAIN truth = 1 .. Len(truth) /\ asOf \in Nat /\ d \in Nat
      /\ UNCHANGED <<asOf, known, lots, sold, degraded, lost>> /\ Copy' = Copy
    BY TruthShape DEF LotInv, TypeInv, account, Copy
<1>1. /\ f \in FileRecords /\ f # NoFile /\ f.asOf = d
      /\ f.n \in 0 .. Len(truth) /\ f.listed \in 0 .. Len(truth) /\ f.listed <= f.n
    BY FileShape
<1>2. /\ m \in known .. Len(truth) /\ m \in 0 .. Len(truth) /\ f.listed <= m /\ (m = known \/ m = f.listed)
      /\ Booked(st, m) /\ Total(st.lots) < Held(f)
    <2>1. /\ m \in known .. Len(truth) /\ f.listed <= m /\ (m = known \/ m = f.listed)
          /\ Working(Imported(f), m)
        BY <1>1, <1>b, ImportedSound
    <2>2. m \in 0 .. Len(truth)
        BY <1>0, <2>1
    <2> QED  BY <1>a, <2>1, <2>2 DEF Working
<1>3. Longer
    BY <1>0 DEF Longer
<1>4. TypeInv'
    <2>1. Ids' = Ids /\ FileRecords' = FileRecords /\ Trades' = Trades
        BY DEF Ids, FileRecords, Trades
    <2> QED  BY <1>0, <1>1, <2>1 DEF TypeInv
<1>5. TruthInv'
    <2>1. \A k \in DOMAIN truth : k - 1 \in 0 .. Len(truth)
        BY <1>0
    <2>2. \A k \in DOMAIN truth : SellableAt(k - 1, truth[k].day)' = SellableAt(k - 1, truth[k].day)
        BY <1>0, <1>3, <2>1, Frame
    <2> QED  BY <1>0, <2>2 DEF TruthInv
<1>6. Booked(Copy, known)'
    BY <1>0, <1>3, BookedStays DEF LotInv
<1>7. CarefulInv => CarefulInv'
    <2> HAVE CarefulInv
    <2>1. Timely(lots, known)'
        BY <1>0, <1>3, TimelyStays DEF CarefulInv
    <2> QED  BY <1>0, <2>1 DEF CarefulInv, NoShares, Ids
<1>8. RefusedInv'
    <2>1. ASSUME f.listed = f.n, known <= f.n, lost = NoShares PROVE FALSE
        <3>1. m = f.n
            BY <1>0, <1>1, <1>2, <2>1
        <3>2. SumIds(lost) = 0
            BY <2>1, NothingIn
        <3>3. /\ Total(st.lots) \in Nat /\ SumIds(st.degraded) \in Nat
              /\ Total(st.lots) + SumIds(lost) = HeldAt(m) + SumIds(st.degraded)
            BY <1>0, <1>2, Accounted
        <3>4. Held(f) = HeldAt(m) /\ HeldAt(m) \in Int
            BY <1>0, <1>2, <3>1, HeldBounds DEF Held
        <3> QED  BY <1>2, <3>2, <3>3, <3>4
    <2> QED  BY <1>0, <1>1, <2>1 DEF RefusedInv, NoShares, Ids
<1>9. OldFirst(lots)'
    <2>1. SoundLots(lots, known) /\ OldFirst(lots)
        BY DEF LotInv, Booked, Copy
    <2>2. OldFirst(lots)' <=> OldFirst(lots)
        BY <1>0, <1>3, <2>1, OldFirstStays
    <2> QED  BY <2>1, <2>2
<1>10. \A k \in 1 .. known' : truth'[k].day <= asOf'
    BY <1>0 DEF LotInv
<1> QED  BY <1>0, <1>4, <1>5, <1>6, <1>7, <1>8, <1>9, <1>10 DEF LotInv

LEMMA SyncKeeps ==
    ASSUME LotInv, NEW d \in 1 .. day, d >= asOf, NEW f \in Files(d), Sync(f)
    PROVE  LotInv'
<1>1. /\ careful => Complete(f)
      /\ tried' = f /\ UNCHANGED <<careful, day, truth>>
      /\ \/ Total(Imported(f).lots) >= Held(f) /\ Accept(f, Imported(f))
         \/ Total(Imported(f).lots) < Held(f) /\ refused' = TRUE /\ UNCHANGED account
    BY DEF Sync
<1> QED  BY <1>1, AcceptKeeps, RefusalKeeps

LEMMA InitHolds == Init => LotInv
<1> HAVE Init
<1>1. /\ careful \in BOOLEAN /\ day = 1 /\ truth = << >> /\ tried = NoFile /\ refused = FALSE
      /\ asOf = 0 /\ known = 0 /\ lots = {}
      /\ sold = NoShares /\ degraded = NoShares /\ lost = NoShares
    BY DEF Init
<1>2. /\ truth \in Seq(Trades) /\ Len(truth) = 0 /\ DOMAIN truth = {} /\ 1 .. known = {}
      /\ Len(truth) <= MaxFills /\ NoShares \in [Ids -> Nat] /\ NoFile \in FileRecords
    BY <1>1, LotAssumption, EmptySeq DEF NoShares, NoFile, FileRecords
<1>3. TypeInv
    <2>1. day \in 1 .. MaxDay /\ asOf \in 0 .. day
        BY <1>1, LotAssumption
    <2>2. known \in 0 .. Len(truth)
        BY <1>1, <1>2
    <2>3. tried \in FileRecords /\ lost \in [Ids -> Nat] /\ refused \in BOOLEAN
        BY <1>1, <1>2
    <2> QED  BY <1>1, <1>2, <2>1, <2>2, <2>3 DEF TypeInv
<1>4. TruthInv
    BY <1>2 DEF TruthInv
<1>5. known \in 0 .. Len(truth) /\ \A side : Executed(side, known) = {}
    BY <1>1, <1>2 DEF Executed
<1>6. Total(lots) = 0 /\ SharesOf({}) = 0 /\ \A d : EligibleOn(lots, d) = {} /\ SellableAt(known, d) = 0
    <2>1. Total({}) = 0
        <3>1. IsFiniteSet({}) /\ \A l \in {} : l.shares \in Nat
            BY FS_EmptySet
        <3> QED  BY <3>1, TotalParts
    <2>2. SharesOf({}) = 0
        BY <1>3, <1>5, SharesParts
    <2>3. \A d : SellableAt(known, d) = 0
        BY <1>1, <1>3, <1>5, HeldBounds
    <2> QED  BY <1>1, <2>1, <2>2, <2>3 DEF EligibleOn
<1>7. Booked(Copy, known)
    <2>1. Copy.lots = {} /\ Copy.sold = NoShares /\ Copy.degraded = NoShares
        BY <1>1 DEF Copy
    <2>2. SoundLots({}, known)
        BY FS_EmptySet DEF SoundLots
    <2>3. \A b \in Ids : NoShares[b] = 0
        BY DEF NoShares
    <2>4. SumIds(NoShares) + SumIds(NoShares) = SharesOf(Executed("SELL", known))
        <3>1. SumIds(NoShares) = 0
            BY NothingIn
        <3>2. SharesOf(Executed("SELL", known)) = 0
            BY <1>5, <1>6
        <3> QED  BY <3>1, <3>2
    <2> QED  BY <1>1, <1>2, <1>5, <2>1, <2>2, <2>3, <2>4 DEF Booked
<1>8. CarefulInv
    BY <1>1, <1>2, <1>6 DEF CarefulInv, Timely
<1>9. OldFirst(lots)
    BY <1>1 DEF OldFirst
<1> QED  BY <1>1, <1>2, <1>3, <1>4, <1>7, <1>8, <1>9 DEF LotInv

LEMMA NextKeeps == LotInv /\ [Next]_vars => LotInv'
<1> SUFFICES ASSUME LotInv, [Next]_vars PROVE LotInv'
    OBVIOUS
<1>1. CASE UNCHANGED vars
    <2>1. /\ UNCHANGED <<careful, day, truth, tried, refused, account>> /\ TypeInv
          /\ UNCHANGED <<asOf, known, lots, sold, degraded, lost>>
        BY <1>1 DEF vars, account, LotInv
    <2>2. Longer /\ \A k \in DOMAIN truth' : ~(k > Len(truth))
        BY <2>1, TruthShape DEF Longer
    <2>3. TypeInv'
        BY <2>1 DEF TypeInv, Ids, Trades, FileRecords
    <2>4. TruthInv'
        <3>1. TruthInv /\ \A k \in DOMAIN truth : k - 1 \in 0 .. Len(truth)
            BY <2>1, TruthShape DEF LotInv
        <3>2. \A k \in DOMAIN truth : SellableAt(k - 1, truth[k].day)' = SellableAt(k - 1, truth[k].day)
            BY <2>1, <2>2, <3>1, Frame
        <3> QED  BY <2>1, <3>1, <3>2 DEF TruthInv
    <2> QED  BY <2>1, <2>2, <2>3, <2>4, AccountStays
<1>2. ASSUME NEW n \in 1 .. MaxShares, NEW kind \in {"SATELLITE", "CORE"}, NEW stem \in Stems,
             Trade("BUY", n, kind, stem)
      PROVE  LotInv'
    BY <1>2, TradeKeeps
<1>3. ASSUME NEW n \in 1 .. MaxShares, NEW kind \in {"FIFO", "RISK_PRIORITY"},
             Trade("SELL", n, kind, 0)
      PROVE  LotInv'
    BY <1>3, TradeKeeps, LotAssumption
<1>4. ASSUME NEW d \in 1 .. day, d >= asOf, NEW f \in Files(d), Sync(f) PROVE LotInv'
    BY <1>4, SyncKeeps
<1>5. CASE NextDay
    BY <1>5, NextDayKeeps
<1> QED  BY <1>1, <1>2, <1>3, <1>4, <1>5 DEF Next

--------------------------------------------------------------------------------
(* Results *)

\* The books of every position stay right, whatever snapshots come and in whatever order
\* (broker.py:910, apply_broker_snapshot).
THEOREM LotsInductive == Spec => []LotInv
<1>1. Init => LotInv
    BY InitHolds
<1>2. LotInv /\ [Next]_vars => LotInv'
    BY NextKeeps
<1> QED  BY <1>1, <1>2, PTL DEF Spec

LEMMA ExplainedByInv == LotInv => SharesExplained
<1> SUFFICES ASSUME LotInv PROVE SharesExplained
    OBVIOUS
<1>0. TypeInv /\ known \in Nat /\ asOf \in Nat /\ tried \in FileRecords
    BY TruthShape DEF LotInv, TypeInv
<1>1. \A k \in Executed("BUY", known) : Total({l \in lots : l.fill = k}) + sold[k] + lost[k] = truth[k].shares
    BY DEF LotInv, Booked, Copy, OfFill
<1>2. careful => degraded = NoShares /\ lost = NoShares
    BY DEF LotInv, CarefulInv
<1>3. ASSUME refused, Complete([tried EXCEPT !.withheld = 0]) PROVE lost # NoShares
    <2>1. RefusedInv
        BY <1>3 DEF LotInv
    <2>2. /\ tried.n = Cardinality({k \in DOMAIN truth : truth[k].day <= tried.asOf})
          /\ tried.listed = tried.n
        BY <1>0, <1>3 DEF Complete, FileRecords
    <2>3. tried.asOf \in Nat /\ tried.asOf >= asOf
        BY <1>0, <2>1 DEF RefusedInv, FileRecords
    <2>4. known <= tried.n
        BY <2>2, <2>3, KnownDays
    <2> QED  BY <2>1, <2>2, <2>4 DEF RefusedInv
<1> QED  BY <1>1, <1>2, <1>3 DEF SharesExplained

\* Every share that a purchase acquired is live, sold or lost, with any history of snapshots; with
\* complete ones none is lost and every sale finds its lots (broker.py:395 and 910).
THEOREM SharesAreExplained == Spec => []SharesExplained
<1>1. LotInv => SharesExplained
    BY ExplainedByInv
<1> QED  BY <1>1, LotsInductive, PTL

LEMMA OldestByInv == LotInv => OldestFirst
<1> SUFFICES ASSUME LotInv, NEW a \in lots, NEW b \in lots
             PROVE  /\ a.fill = b.fill /\ a.path = b.path => a = b
                    /\ Entry(a) < Entry(b) => a.from <= b.from
    BY DEF OldestFirst
<1>1. SoundLots(lots, known)
    BY DEF LotInv, Booked, Copy
<1>2. a.fill = b.fill /\ a.path = b.path => a = b
    BY <1>1, SameLot
<1> QED  BY <1>2 DEF LotInv, OldFirst

\* Splits never produce two lots of one name, and no lot becomes sellable after a younger one, so
\* that FIFO sells the oldest lots (broker.py:395 and 470).
THEOREM OldestAreFirst == Spec => []OldestFirst
<1>1. LotInv => OldestFirst
    BY OldestByInv
<1> QED  BY <1>1, LotsInductive, PTL

\* A file that was applied finds the position as it states it.
Again == UNCHANGED <<asOf, known, sold, degraded, lost>> /\ (Unambiguous => UNCHANGED lots)

LEMMA ResyncStep ==
    ASSUME LotInv, [Next]_vars, tried' = tried, ~refused
    PROVE  Again
<1>1. CASE UNCHANGED vars
    BY <1>1 DEF vars, account, Again
<1>2. CASE NextDay
    BY <1>2 DEF NextDay, account, Again
<1>3. CASE \E side, n, kind, stem : Trade(side, n, kind, stem)
    BY <1>3 DEF Trade, account, Again
<1>4. ASSUME NEW d \in 1 .. day, d >= asOf, NEW f \in Files(d), Sync(f) PROVE Again
    <2>0. TypeInv /\ known \in 0 .. Len(truth) /\ known \in Nat /\ d \in Nat
        BY TruthShape DEF LotInv, TypeInv
    <2>1. f = tried /\ f # NoFile /\ f.asOf = d /\ f.listed \in 0 .. Len(truth) /\ Held(f) \in Nat
        BY <1>4, FileShape DEF Sync
    <2>2. AlignedInv
        BY <2>1 DEF LotInv
    <2>3. /\ known >= f.listed /\ asOf = d /\ Total(lots) = Held(f)
          /\ \A l \in lots : l.from \in {d, d + 1}
          /\ Total(EligibleOn(lots, d)) = Sellable(f)
          /\ \A a \in lots, b \in lots : a.from = d /\ b.from = d + 1 /\ Plain(a, b) => ByAge(a, b)
        BY <2>1, <2>2 DEF AlignedInv
    <2>a. PICK m : m = Max({known, f.listed})
        OBVIOUS
    <2>4. m = known /\ Imported(f) = Copy /\ SoundLots(lots, known)
        <3>1. m = known /\ Imported(f) = Copy
            BY <2>0, <2>1, <2>3, <2>a, ImportedSound
        <3> QED  BY <3>1 DEF LotInv, Booked, Copy
    <2>5. Copy.lots = lots /\ Copy.sold = sold /\ Copy.degraded = degraded
        BY DEF Copy
    <2>6. Accept(f, Copy)
        BY <1>4, <2>1, <2>3, <2>4, <2>5 DEF Sync
    <2>7. /\ lots' = Aligned(lots, Sellable(f), d) /\ lost' = lost
          /\ sold' = sold /\ degraded' = degraded /\ known' = known /\ asOf' = asOf
        BY <2>1, <2>3, <2>4, <2>5, <2>6, <2>a DEF Accept
    <2>8. ASSUME Unambiguous PROVE lots' = lots
        <3>1. \A a \in lots, b \in lots : a.from = d /\ b.from = d + 1 => ByAge(a, b)
            BY <2>3, <2>8 DEF Unambiguous, Plain
        <3>2. Aligned(lots, Total(EligibleOn(lots, d)), d) = lots
            BY <2>0, <2>3, <2>4, <3>1, AlignedAgain
        <3> QED  BY <2>3, <2>7, <3>2
    <2> QED  BY <2>7, <2>8 DEF Again
<1> QED  BY <1>1, <1>2, <1>3, <1>4 DEF Next

\* The file of the last sync, applied again, takes nothing from any purchase and books nothing, with
\* any fill_ids; and where the lots of one day have ids of which none begins with the fill_id of
\* another one, it changes nothing at all (broker.py:910 says so of every account).
THEOREM SyncIsIdempotent == Spec => Resync
<1>1. LotInv /\ [Next]_vars => [tried' = tried /\ ~refused => Again]_vars
    BY ResyncStep
<1> QED  BY <1>1, LotsInductive, PTL DEF Spec, Resync, Again

================================================================================
