----------------------------- MODULE LotInventory ------------------------------
(***************************************************************************)
(* The lots of one position under broker snapshots (uquant/broker.py):     *)
(* every BUY execution opens a lot, sales and share deficits consume lots, *)
(* and each snapshot splits lots so that as many shares are sellable as    *)
(* the broker says. BrokerSync has the orders and one number of shares per *)
(* position; this module has what that number is made of, and snapshots    *)
(* that lag behind, withhold shares or arrive twice.                       *)
(*                                                                         *)
(* A snapshot states the true position of the moment it is exported. It    *)
(* may list fewer executions than that, and fewer sellable shares (those   *)
(* of a working SELL). An operator who is careful applies only snapshots   *)
(* that are complete for their date.                                       *)
(***************************************************************************)
EXTENDS Integers, Sequences, FiniteSetsExt

CONSTANTS
    MaxFills,    \* bound: executions at the broker
    MaxShares,   \* bound: shares of an execution
    MaxDay,      \* bound: days
    MaxWithheld, \* bound: sellable shares that a snapshot withholds
    Stems        \* beginnings of the fill_ids of the broker, numbered in the order of their texts

ASSUME LotAssumption ==
    /\ MaxFills \in Nat \ {0} /\ MaxShares \in Nat \ {0} /\ MaxDay \in Nat \ {0}
    /\ MaxWithheld \in Nat
    /\ Stems \subseteq Int /\ 0 \in Stems

VARIABLES
    careful,   \* the operator applies complete snapshots only (never changes)
    day,
    truth,     \* at the broker: executions in order
    tried,     \* the file of the last sync
    refused,   \* that sync was refused
    asOf,      \* AccountState.broker_as_of, 0 before the first snapshot
    known,     \* executions imported: the first ones
    lots,      \* Position.tranches
    sold,      \* shares of each lot in the sold_tranches of the fills
    degraded,  \* shares of each sale booked without a lot
    lost       \* shares of each lot that left the inventory without a sale

account == <<asOf, known, lots, sold, degraded, lost>>
vars == <<careful, day, truth, tried, refused, account>>

Ids == 1 .. MaxFills
NoShares == [k \in Ids |-> 0]
NoFile == [asOf |-> 0, n |-> 0, listed |-> 0, withheld |-> 0]

Sum(f(_), S) == MapThenSumSet(f, S)
Clip(n, most) == IF n < 0 THEN 0 ELSE IF n > most THEN most ELSE n

--------------------------------------------------------------------------------
(* The broker *)

Executed(side, n) == {k \in 1 .. n : truth[k].side = side}
SharesOf(ks) == Sum(LAMBDA k : truth[k].shares, ks)

HeldAt(n) == SharesOf(Executed("BUY", n)) - SharesOf(Executed("SELL", n))
\* T+1: what was bought on day d cannot be sold on it.
SellableAt(n, d) == HeldAt(n) - SharesOf({k \in Executed("BUY", n) : truth[k].day = d})

\* What a snapshot says.
Held(f) == HeldAt(f.n)
Sellable(f) == SellableAt(f.n, f.asOf) - f.withheld

Complete(f) ==
    /\ f.n = Cardinality({k \in DOMAIN truth : truth[k].day <= f.asOf})
    /\ f.listed = f.n /\ f.withheld = 0

\* The files that the broker exported on day d at one time or another, after n executions. Listing
\* fewer executions than the account has imported is like listing those.
Files(d) ==
    UNION {[asOf : {d}, n : {n}, listed : Min({known, n}) .. n,
            withheld : {w \in 0 .. SellableAt(n, d) : w <= MaxWithheld}] :
             n \in {m \in 0 .. Len(truth) : \A k \in DOMAIN truth :
                       IF k <= m THEN truth[k].day <= d ELSE truth[k].day >= d}}

\* A BUY has the rank of its lifecycle, a SELL its reduction_policy. A fill_id is free text: it begins
\* with the whole ids of all earlier ones of its stem ("1", "10"). Only ids of one day are ever
\* compared, so the stem of the first purchase of a day is as good as any.
Trade(side, n, kind, stem) ==
    /\ Len(truth) < MaxFills
    /\ side = "SELL" => n <= SellableAt(Len(truth), day)
    /\ stem # 0 => side = "BUY" /\ \E k \in Executed("BUY", Len(truth)) : truth[k].day = day
    /\ truth' = Append(truth, [side |-> side, day |-> day, shares |-> n,
                               kind |-> kind, stem |-> stem])
    /\ UNCHANGED <<careful, day, tried, refused, account>>

--------------------------------------------------------------------------------
(* Lots and their order *)

Entry(l) == truth[l.fill].day
Rank(l) == IF truth[l.fill].kind = "SATELLITE" THEN 0 ELSE 1

\* tranche_id is "broker-fill:" and the fill_id, then ":sellable" (0) or ":t1" (1) of each split.
PathBefore(p, q) ==
    \E i \in 1 .. Len(q) :
        /\ SubSeq(p, 1, i - 1) = SubSeq(q, 1, i - 1)
        /\ Len(p) >= i => p[i] < q[i]
        /\ Len(p) >= i - 1

Stem(l) == truth[l.fill].stem

\* Comparison of the texts. Where the id of a fill begins with that of an earlier one, the digit that
\* follows is smaller than the colon of a split.
IdBefore(a, b) ==
    IF a.fill = b.fill THEN PathBefore(a.path, b.path)
    ELSE IF Stem(a) # Stem(b) THEN Stem(a) < Stem(b)
    ELSE \/ a.fill < b.fill /\ a.path = <<>>
         \/ a.fill > b.fill /\ b.path # <<>>

ByAge(a, b) == Entry(a) < Entry(b) \/ (Entry(a) = Entry(b) /\ IdBefore(a, b))

FifoBefore(a, b) == a.from < b.from \/ (a.from = b.from /\ ByAge(a, b))
RiskBefore(a, b) == Rank(a) < Rank(b) \/ (Rank(a) = Rank(b) /\ FifoBefore(a, b))

Before(a, b, order) ==
    CASE order = "FIFO" -> FifoBefore(a, b)
      [] order = "RISK_PRIORITY" -> RiskBefore(a, b)
      [] order = "AGE" -> ByAge(a, b)

Total(ls) == Sum(LAMBDA l : l.shares, ls)

\* What each of the lots gives when n shares are taken from them in an order.
Given(l, ls, n, order) ==
    Clip(n - Total({x \in ls : Before(x, l, order)}), l.shares)

\* Lots that were given up, as shares of their fills.
PerFill(take, ls) == [k \in Ids |-> Sum(LAMBDA l : take[l], {x \in ls : x.fill = k})]
Plus(f, g) == [k \in Ids |-> f[k] + g[k]]

\* The lots without the shares taken from them; empty ones are dropped.
Without(ls, take) ==
    {[l EXCEPT !.shares = @ - take[l]] : l \in {x \in ls : take[x] < x.shares}}

Taken(ls, eligible, n, order) ==
    [l \in ls |-> IF l \in eligible THEN Given(l, eligible, n, order) ELSE 0]

\* Mutant of EligibleOn: a lot is eligible only after its sellable_date.
EligibleAfter(ls, d) == {l \in ls : l.from < d}
EligibleOn(ls, d) == {l \in ls : l.from <= d}

\* _allocate_broker_sale
Allocated(ls, n, d, policy) == Taken(ls, EligibleOn(ls, d), n, policy)

--------------------------------------------------------------------------------
(* Applying a snapshot *)

NewLot(k) ==
    [fill |-> k, path |-> <<>>, shares |-> truth[k].shares, from |-> truth[k].day + 1]

\* Import of execution k on top of the working copy st; a shortage of lots is booked as degraded.
Import(st, k) ==
    IF truth[k].side = "BUY" THEN [st EXCEPT !.lots = @ \cup {NewLot(k)}]
    ELSE LET take == Allocated(st.lots, truth[k].shares, truth[k].day, truth[k].kind)
             found == Sum(LAMBDA l : take[l], st.lots)
         IN  [st EXCEPT !.lots = Without(@, take),
                        !.sold = Plus(@, PerFill(take, st.lots)),
                        !.degraded = [@ EXCEPT ![k] = truth[k].shares - found]]

Imported(f) ==
    LET import[k \in known .. Max({known, f.listed})] ==
          IF k = known THEN [lots |-> lots, sold |-> sold, degraded |-> degraded]
          ELSE Import(import[k - 1], k)
    IN import[Max({known, f.listed})]

\* Mutant of Pieces: the names of the two parts are exchanged.
PiecesSwapped(l, n, d) ==
    LET split == n \in 1 .. (l.shares - 1)
        Path(c) == IF split THEN Append(l.path, c) ELSE l.path
    IN  {p \in {[l EXCEPT !.shares = n, !.from = d, !.path = Path(1)],
                [l EXCEPT !.shares = l.shares - n, !.from = d + 1, !.path = Path(0)]} :
            p.shares > 0}
\* A lot of which n shares are sellable on day d.
Pieces(l, n, d) ==
    LET split == n \in 1 .. (l.shares - 1)
        Path(c) == IF split THEN Append(l.path, c) ELSE l.path
    IN  {p \in {[l EXCEPT !.shares = n, !.from = d, !.path = Path(0)],
                [l EXCEPT !.shares = l.shares - n, !.from = d + 1, !.path = Path(1)]} :
            p.shares > 0}

\* Mutant of Aligned: the shares that are sellable go to the most fragile lots.
AlignedByRank(ls, n, d) ==
    UNION {Pieces(l, Given(l, ls, n, "RISK_PRIORITY"), d) : l \in ls}
\* _align_sellability
Aligned(ls, n, d) == UNION {Pieces(l, Given(l, ls, n, "AGE"), d) : l \in ls}

\* The shares that the broker does not hold any more: the first ones by FIFO, sellable or not. A
\* position that is not stated disappears as a whole.
Deficit(ls, held) == Taken(ls, ls, Total(ls) - held, "FIFO")

Accept(f, st) ==
    LET gone == Deficit(st.lots, Held(f))
        short == Total(st.lots) # Held(f)
    IN  /\ refused' = FALSE
        /\ lots' = Aligned(IF short THEN Without(st.lots, gone) ELSE st.lots, Sellable(f), f.asOf)
        /\ lost' = IF short THEN Plus(lost, PerFill(gone, st.lots)) ELSE lost
        /\ sold' = st.sold /\ degraded' = st.degraded
        /\ known' = Max({known, f.listed})
        /\ asOf' = f.asOf

\* A snapshot that states more shares than the lots is refused whole. (So is one that is older than
\* the last one: Next offers none.)
Sync(f) ==
    /\ careful => Complete(f)
    /\ tried' = f
    /\ LET st == Imported(f)
       IN  \/ Total(st.lots) >= Held(f) /\ Accept(f, st)
           \/ Total(st.lots) < Held(f) /\ refused' = TRUE /\ UNCHANGED account
    /\ UNCHANGED <<careful, day, truth>>

NextDay ==
    /\ day < MaxDay
    /\ day' = day + 1
    /\ UNCHANGED <<careful, truth, tried, refused, account>>

Init ==
    /\ careful \in BOOLEAN
    /\ day = 1 /\ truth = <<>>
    /\ tried = NoFile /\ refused = FALSE
    /\ asOf = 0 /\ known = 0 /\ lots = {}
    /\ sold = NoShares /\ degraded = NoShares /\ lost = NoShares

Next ==
    \/ \E n \in 1 .. MaxShares :
        \/ \E kind \in {"SATELLITE", "CORE"}, stem \in Stems : Trade("BUY", n, kind, stem)
        \/ \E kind \in {"FIFO", "RISK_PRIORITY"} : Trade("SELL", n, kind, 0)
    \/ \E d \in 1 .. day : d >= asOf /\ \E f \in Files(d) : Sync(f)
    \/ NextDay

Spec == Init /\ [][Next]_vars

--------------------------------------------------------------------------------

\* Whatever a snapshot leaves out, every share is accounted for: what is live, sold and lost of a
\* purchase is what it acquired. With complete snapshots every sale finds lots that T+1 allowed it
\* to sell and no lot is lost, however many days a snapshot spans; and a complete snapshot is
\* refused only when lots were lost before, those of sales that an earlier one had left out.
SharesExplained ==
    /\ \A k \in Executed("BUY", known) :
          Total({l \in lots : l.fill = k}) + sold[k] + lost[k] = truth[k].shares
    /\ careful => degraded = NoShares /\ lost = NoShares
    /\ refused /\ Complete([tried EXCEPT !.withheld = 0]) => lost # NoShares

\* However often lots are split, no two have the same tranche_id (the account would not load), and
\* none is sellable later than a younger one, so that FIFO, which goes by the sellable_date first,
\* sells the oldest lots first.
OldestFirst ==
    \A a, b \in lots :
        /\ a.fill = b.fill /\ a.path = b.path => a = b
        /\ Entry(a) < Entry(b) => a.from <= b.from

\* No two lots of one day are of fills of which one has an id that begins with that of the other.
Unambiguous ==
    \A a, b \in lots : (Entry(a) = Entry(b) /\ Stem(a) = Stem(b)) => a.fill = b.fill

\* "Apply one idempotent, broker-authoritative account snapshot" (broker.py:910): the file of the
\* last sync, applied again, takes no share from a purchase and books none, whatever it splits; and
\* it changes nothing at all unless the id of one lot begins with the fill_id of another lot of its
\* day, in which case the docstring is wrong: the same file may make other lots sellable.
Resync ==
    [][tried' = tried /\ ~refused =>
          /\ UNCHANGED <<asOf, known, sold, degraded, lost>>
          /\ Unambiguous => UNCHANGED lots]_vars

================================================================================
