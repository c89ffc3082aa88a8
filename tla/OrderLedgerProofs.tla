---------------------------- MODULE OrderLedgerProofs ---------------------------
(***************************************************************************)
(* Theorems about the order ledger and both systems that run it, the       *)
(* replay of sessions (OpenExecution) and production with a real broker    *)
(* (BrokerSync), for any number of securities, grants, orders, shares and  *)
(* days. First what holds of the ledger alone: its invariant LedgerInv,    *)
(* and that the evening decision (Reconcile, shared by the two) and the    *)
(* row update of an auction keep it and advance the promise. Then the      *)
(* replay, every action of which is one of the two, with its fills and     *)
(* tranches. Last production: what the broker, the last export and the     *)
(* account have to do with one another (SyncInv), that the import of a     *)
(* snapshot keeps it, and what follows; and that in the closed loop no     *)
(* guard of the import refuses the truth (AcceptInv).                      *)
(***************************************************************************)
EXTENDS OpenExecution, BrokerSync, SumTheorems

--------------------------------------------------------------------------------
(* The ledger *)

RowsAgree == \A o \in DOMAIN ledger : RowAgrees(ledger[o]) /\ ledger[o].submitted <= day

\* Only a BUY is ever asked to be cancelled.
FreezeOnlyBuys ==
    \A o \in DOMAIN ledger : ledger[o].reason = Freeze => ledger[o].side = "BUY"

\* Inductive: NoOverlap needs to know which live rows are pending, that is
\* LiveOrdersTracked, whose preservation needs the agreement of pending and ledger rows and
\* that no live SELL awaits a cancellation.
LedgerInv ==
    /\ LedgerTypeOK
    /\ RowsAgree
    /\ PendingAgrees(ledger, pending)
    /\ FreezeOnlyBuys
    /\ LiveOrdersTracked
    /\ NoOverlap

\* The initial account has an empty ledger.
LEMMA LedgerInvInit == LedgerInit => LedgerInv
<1> SUFFICES ASSUME LedgerInit PROVE LedgerInv
  OBVIOUS
<1>1. DOMAIN ledger = {} /\ DOMAIN pending = {} /\ fills = {} /\ nextSeq = 1 /\ day = 1
  BY DEF LedgerInit
<1>2. LedgerTypeOK
  BY <1>1, BoundsAssumption DEF LedgerTypeOK, LedgerInit, Days
<1>3. RowsAgree /\ PendingAgrees(ledger, pending) /\ FreezeOnlyBuys /\ LiveOrdersTracked /\ NoOverlap
  BY <1>1 DEF RowsAgree, PendingAgrees, FreezeOnlyBuys, LiveOrdersTracked, NoOverlap
<1> QED
  BY <1>2, <1>3 DEF LedgerInv

\* A batch takes the ids from nextSeq on, within the bound, and Reconcile counts them.
LEMMA BatchShape ==
    ASSUME LedgerTypeOK, NEW fresh \in FreshBatches
    PROVE  /\ nextSeq + Cardinality(DOMAIN fresh) - 1 \in (nextSeq - 1)..MaxOrders
           /\ fresh \in [nextSeq..(nextSeq + Cardinality(DOMAIN fresh) - 1) -> Intent]
<1>1. nextSeq \in 1..(MaxOrders + 1) /\ MaxOrders \in Nat
  BY BoundsAssumption DEF LedgerTypeOK
<1>2. PICK last \in (nextSeq - 1)..MaxOrders : fresh \in [nextSeq..last -> Intent]
  BY DEF FreshBatches
<1>3. Cardinality(nextSeq..last) = IF nextSeq > last THEN 0 ELSE last - nextSeq + 1
  BY <1>1, FS_Interval
<1>4. nextSeq + Cardinality(DOMAIN fresh) - 1 = last
  BY <1>1, <1>2, <1>3
<1> QED
  BY <1>2, <1>4

\* A dropped live order either stays live and awaits its cancellation, which only a BUY
\* under a freeze does, or is closed; its identity and its quantities stay.
LEMMA WithdrawnShape ==
    ASSUME NEW e \in AccountOrder, NEW heirs \in SUBSET Orders, NEW book, NEW freeze \in BOOLEAN,
           Live(e), ~AwaitingCancel(e), RowAgrees(e), e.submitted <= day, day \in Days,
           e.reason = Freeze => e.side = "BUY"
    PROVE  LET w == Withdrawn(e, heirs, book, freeze)
           IN /\ w \in AccountOrder
              /\ w.symbol = e.symbol /\ w.side = e.side /\ w.submitted = e.submitted
              /\ w.filled = e.filled
              /\ w.updated \in {e.updated, day}
              /\ w.replacedBy \in {e.replacedBy} \cup heirs
              /\ RowAgrees(w)
              /\ w.reason = Freeze => w.side = "BUY"
              /\ Live(w) => AwaitingCancel(w) /\ freeze
<1> DEFINE w == Withdrawn(e, heirs, book, freeze)
<1>1. e.reason # Freeze
  BY DEF AwaitingCancel
<1>2. day \in Nat /\ e.submitted \in Nat
  BY DEF AccountOrder, Days
<1>3. CASE freeze /\ e.side = "BUY" /\ \A h \in heirs : book[h].side = "SELL"
  <2>1. w = CancelRequested(e)
    BY <1>3 DEF Withdrawn
  <2>2. w = [e EXCEPT !.reason = Freeze, !.event = "CANCEL_REQUESTED", !.updated = day]
    BY <2>1 DEF CancelRequested
  <2>3. w \in AccountOrder
    BY <2>2 DEF AccountOrder, Reasons, Events
  <2>4. Live(w) /\ AwaitingCancel(w)
    BY <1>3, <2>2 DEF AccountOrder, Live, AwaitingCancel
  <2>5. RowAgrees(w)
    BY <1>2, <2>2 DEF AccountOrder, RowAgrees
  <2> QED
    BY <1>3, <2>2, <2>3, <2>4, <2>5 DEF AccountOrder
<1>4. CASE ~(freeze /\ e.side = "BUY" /\ \A h \in heirs : book[h].side = "SELL")
  <2>1. w = Superseded(e, heirs)
    BY <1>1, <1>4 DEF Withdrawn
  <2>2. CASE heirs = {}
    <3>1. w = [e EXCEPT !.status = "CANCELLED", !.reason = "daily target removed",
                        !.event = "CANCELLED", !.updated = day]
      BY <2>1, <2>2 DEF Superseded
    <3>2. w \in AccountOrder /\ RowAgrees(w)
      BY <1>2, <3>1 DEF AccountOrder, Reasons, Events, Statuses, Terminal, RowAgrees
    <3>3. ~Live(w) /\ w.reason # Freeze
      BY <3>1 DEF AccountOrder, Live, Terminal, Freeze
    <3> QED
      BY <3>1, <3>2, <3>3 DEF AccountOrder
  <2>3. CASE heirs # {}
    <3>1. PICK h \in heirs : h = CHOOSE x \in heirs : TRUE
      BY <2>3
    <3>2. w = [e EXCEPT !.status = "REPLACED", !.reason = "daily target changed",
                        !.event = "REPLACED", !.updated = day, !.replacedBy = h]
      BY <2>1, <2>3, <3>1 DEF Superseded
    <3>3. h \in 0..MaxOrders
      BY BoundsAssumption DEF Orders
    <3>4. w \in AccountOrder /\ RowAgrees(w)
      BY <1>2, <3>2, <3>3 DEF AccountOrder, Reasons, Events, Statuses, Terminal, RowAgrees
    <3>5. ~Live(w) /\ w.reason # Freeze
      BY <3>2 DEF AccountOrder, Live, Terminal, Freeze
    <3> QED
      BY <3>2, <3>4, <3>5 DEF AccountOrder
  <2> QED
    BY <2>2, <2>3
<1> QED
  BY <1>3, <1>4

\* A decision in the terms of its rows: which one each new row comes from, and how.
DecisionRows(kept, fresh, freeze) ==
    /\ nextSeq' \in nextSeq..(MaxOrders + 1)
    /\ fresh \in [nextSeq..(nextSeq' - 1) -> Intent]
    /\ DOMAIN ledger' = 1..(nextSeq' - 1)
    /\ DOMAIN pending' = kept \cup nextSeq..(nextSeq' - 1)
    /\ Admissible(kept, fresh, freeze)
    /\ \A o \in DOMAIN ledger \ (DOMAIN pending \ kept) : ledger'[o] = ledger[o]
    /\ \A o \in nextSeq..(nextSeq' - 1) : ledger'[o] = NewEntry(fresh[o]) /\ pending'[o] = 0
    /\ \A o \in kept : pending'[o] = pending[o]
    /\ \A o \in DOMAIN pending \ kept :
          \E heirs \in SUBSET Orders : \E book :
              heirs \subseteq DOMAIN ledger' /\ ledger'[o] = Withdrawn(ledger[o], heirs, book, freeze)
    /\ fills' = fills

\* Reconcile changes the ledger row by row as DecisionRows says.
LEMMA ReconcileRows ==
    ASSUME LedgerInv, day' = day,
           NEW kept \in SUBSET DOMAIN pending, NEW fresh \in FreshBatches, NEW freeze \in BOOLEAN,
           Reconcile(kept, fresh, freeze)
    PROVE  DecisionRows(kept, fresh, freeze)
<1> DEFINE last == nextSeq + Cardinality(DOMAIN fresh) - 1
           book == [o \in 1..last |-> IF o < nextSeq THEN ledger[o] ELSE NewEntry(fresh[o])]
           current == kept \cup (nextSeq..last)
           Heirs(o) == {c \in current : book[c].symbol = book[o].symbol}
<1>1. LedgerTypeOK /\ nextSeq \in 1..(MaxOrders + 1) /\ MaxOrders \in Nat
  BY BoundsAssumption DEF LedgerInv, LedgerTypeOK
<1>2. last \in (nextSeq - 1)..MaxOrders /\ fresh \in [nextSeq..last -> Intent]
  BY <1>1, BatchShape
<1>3. /\ Admissible(kept, fresh, freeze)
      /\ ledger' = [o \in 1..last |->
                       IF o \in DOMAIN pending \ kept
                       THEN Withdrawn(book[o], Heirs(o), book, freeze) ELSE book[o]]
      /\ pending' = [o \in current |-> IF o \in kept THEN pending[o] ELSE 0]
      /\ nextSeq' = last + 1
      /\ fills' = fills
  BY DEF Reconcile
<1> HIDE DEF last
<1>4. DOMAIN ledger = 1..(nextSeq - 1) /\ DOMAIN pending \subseteq 1..(nextSeq - 1)
  BY <1>1 DEF LedgerTypeOK
<1>5. last \in Int /\ nextSeq' - 1 = last /\ nextSeq' \in nextSeq..(MaxOrders + 1)
  BY <1>1, <1>2, <1>3
<1>6. \A o \in DOMAIN ledger : o \in 1..last /\ book[o] = ledger[o]
  BY <1>1, <1>2, <1>4
<1>7. \A o \in nextSeq..last : /\ o \in 1..last /\ book[o] = NewEntry(fresh[o])
                               /\ o \notin DOMAIN ledger
  BY <1>1, <1>2, <1>4, <1>5
<1>8. current \in SUBSET Orders /\ current \subseteq 1..last
  BY <1>1, <1>2, <1>4, <1>5 DEF Orders
<1> HIDE DEF book
<1>9. \A o \in DOMAIN ledger \ (DOMAIN pending \ kept) : ledger'[o] = ledger[o]
  BY <1>3, <1>6
<1>10. \A o \in nextSeq..last : ledger'[o] = NewEntry(fresh[o]) /\ pending'[o] = 0
  BY <1>3, <1>4, <1>7
<1>11. \A o \in DOMAIN pending \ kept :
          /\ ledger'[o] = Withdrawn(ledger[o], Heirs(o), book, freeze)
          /\ Heirs(o) \in SUBSET Orders /\ Heirs(o) \subseteq DOMAIN ledger'
  BY <1>3, <1>4, <1>6, <1>8
<1>12. \A o \in kept : pending'[o] = pending[o]
  BY <1>3
<1> QED
  BY <1>2, <1>3, <1>5, <1>9, <1>10, <1>11, <1>12 DEF DecisionRows

\* The evening decision keeps the ledger invariant.
LEMMA ReconcileKeepsLedgerInv ==
    ASSUME LedgerInv, day' = day,
           NEW kept \in SUBSET DOMAIN pending, NEW fresh \in FreshBatches, NEW freeze \in BOOLEAN,
           Reconcile(kept, fresh, freeze)
    PROVE  LedgerInv'
<1> DEFINE new == nextSeq..(nextSeq' - 1)
           dropped == DOMAIN pending \ kept
<1>0. DecisionRows(kept, fresh, freeze)
  BY ReconcileRows
<1>1. /\ nextSeq \in 1..(MaxOrders + 1) /\ MaxOrders \in Nat
      /\ ledger \in [1..(nextSeq - 1) -> AccountOrder]
      /\ day \in Days /\ day \in Nat
      /\ pending \in [DOMAIN pending -> Nat] /\ DOMAIN pending \subseteq DOMAIN ledger
      /\ fills \subseteq Fill
  BY BoundsAssumption DEF LedgerInv, LedgerTypeOK, Days
<1>2. /\ nextSeq' \in nextSeq..(MaxOrders + 1)
      /\ fresh \in [new -> Intent]
      /\ DOMAIN ledger' = 1..(nextSeq' - 1)
      /\ DOMAIN pending' = kept \cup new
      /\ Admissible(kept, fresh, freeze)
      /\ fills' = fills
  BY <1>0 DEF DecisionRows
<1>3. DOMAIN ledger' = DOMAIN ledger \cup new /\ DOMAIN ledger \cap new = {}
  BY <1>1, <1>2
<1>4. \A o \in DOMAIN ledger \ dropped : ledger'[o] = ledger[o]
  BY <1>0 DEF DecisionRows
<1>5. \A o \in new : ledger'[o] = NewEntry(fresh[o]) /\ pending'[o] = 0
  BY <1>0 DEF DecisionRows
<1>6. \A o \in kept : pending'[o] = pending[o]
  BY <1>0 DEF DecisionRows
<1>7. \A o \in dropped :
         /\ ledger'[o] \in AccountOrder
         /\ ledger'[o].symbol = ledger[o].symbol /\ ledger'[o].side = ledger[o].side
         /\ ledger'[o].submitted = ledger[o].submitted
         /\ RowAgrees(ledger'[o])
         /\ ledger'[o].reason = Freeze => ledger'[o].side = "BUY"
         /\ Live(ledger'[o]) => AwaitingCancel(ledger'[o]) /\ freeze
  <2> SUFFICES ASSUME NEW o \in dropped
               PROVE  /\ ledger'[o] \in AccountOrder
                      /\ ledger'[o].symbol = ledger[o].symbol /\ ledger'[o].side = ledger[o].side
                      /\ ledger'[o].submitted = ledger[o].submitted
                      /\ RowAgrees(ledger'[o])
                      /\ ledger'[o].reason = Freeze => ledger'[o].side = "BUY"
                      /\ Live(ledger'[o]) => AwaitingCancel(ledger'[o]) /\ freeze
    OBVIOUS
  <2>0. PICK heirs \in SUBSET Orders : \E book : ledger'[o] = Withdrawn(ledger[o], heirs, book, freeze)
    BY <1>0 DEF DecisionRows
  <2>1. PICK book : ledger'[o] = Withdrawn(ledger[o], heirs, book, freeze)
    BY <2>0
  <2>2. /\ ledger[o] \in AccountOrder /\ RowAgrees(ledger[o]) /\ ledger[o].submitted <= day
        /\ ledger[o].reason = Freeze => ledger[o].side = "BUY"
    BY <1>1 DEF LedgerInv, RowsAgree, FreezeOnlyBuys
  <2>3. Live(ledger[o]) /\ ~AwaitingCancel(ledger[o])
    BY <1>1 DEF LedgerInv, PendingAgrees, LiveOrdersTracked
  <2> QED
    BY <1>1, <2>1, <2>2, <2>3, WithdrawnShape
<1>8. \A o \in new :
         /\ fresh[o] \in Intent
         /\ ledger'[o] \in AccountOrder
         /\ ledger'[o].symbol = fresh[o].symbol /\ ledger'[o].side = fresh[o].side
         /\ ledger'[o].submitted = day
         /\ RowAgrees(ledger'[o]) /\ ledger'[o].remaining = 0
         /\ ledger'[o].reason # Freeze
         /\ Live(ledger'[o]) /\ ~AwaitingCancel(ledger'[o])
  <2> SUFFICES ASSUME NEW o \in new
               PROVE  /\ fresh[o] \in Intent
                      /\ ledger'[o] \in AccountOrder
                      /\ ledger'[o].symbol = fresh[o].symbol /\ ledger'[o].side = fresh[o].side
                      /\ ledger'[o].submitted = day
                      /\ RowAgrees(ledger'[o]) /\ ledger'[o].remaining = 0
                      /\ ledger'[o].reason # Freeze
                      /\ Live(ledger'[o]) /\ ~AwaitingCancel(ledger'[o])
    OBVIOUS
  <2>1. fresh[o] \in Intent
    BY <1>2
  <2>2. ledger'[o] = NewEntry(fresh[o])
    BY <1>5
  <2>3. ledger'[o] \in AccountOrder
    <3>1. /\ fresh[o].symbol \in Symbols /\ fresh[o].side \in Sides
          /\ fresh[o].grant \in Grants \cup {NoGrant}
      BY <2>1 DEF Intent
    <3>2. 0 \in 0..MaxOrders
      BY <1>1
    <3>3. "SUBMITTED" \in Statuses /\ "none" \in Reasons /\ "SUBMITTED" \in Events
      BY DEF Statuses, Reasons, Events
    <3> QED
      BY <1>1, <2>2, <3>1, <3>2, <3>3 DEF NewEntry, AccountOrder
  <2>4. RowAgrees(ledger'[o]) /\ ledger'[o].reason # Freeze
    BY <1>1, <2>2 DEF NewEntry, RowAgrees, Freeze
  <2>5. Live(ledger'[o])
    BY <2>2 DEF NewEntry, Live, Terminal
  <2> QED
    BY <2>1, <2>2, <2>3, <2>4, <2>5 DEF NewEntry, AwaitingCancel
<1> HIDE DEF new, dropped
<1>9. LedgerTypeOK'
  <2>1. \A o \in DOMAIN ledger' : ledger'[o] \in AccountOrder
    BY <1>1, <1>3, <1>4, <1>7, <1>8
  <2>2. ledger' \in [1..(nextSeq' - 1) -> AccountOrder]
    BY <1>2, <2>1, Reconcile(kept, fresh, freeze) DEF Reconcile
  <2>3. pending' \in [DOMAIN pending' -> Nat]
    <3>1. \A o \in DOMAIN pending' : pending'[o] \in Nat
      BY <1>1, <1>2, <1>5, <1>6
    <3> QED
      BY <3>1, Reconcile(kept, fresh, freeze) DEF Reconcile
  <2>4. nextSeq' \in 1..(MaxOrders + 1)
    BY <1>1, <1>2
  <2>5. DOMAIN pending' \subseteq DOMAIN ledger'
    BY <1>1, <1>2, <1>3
  <2> QED
    BY <1>1, <1>2, <2>2, <2>3, <2>4, <2>5 DEF LedgerTypeOK
<1>10. RowsAgree'
  <2>1. \A o \in DOMAIN ledger' : RowAgrees(ledger'[o]) /\ ledger'[o].submitted <= day
    BY <1>1, <1>3, <1>4, <1>7, <1>8 DEF LedgerInv, RowsAgree
  <2> QED
    BY <2>1 DEF RowsAgree, RowAgrees
<1>11. PendingAgrees(ledger, pending)'
  <2>1. \A o \in kept : Live(ledger[o]) /\ ledger[o].remaining = pending[o]
    BY <1>1 DEF LedgerInv, PendingAgrees
  <2>2. \A o \in kept : ledger'[o] = ledger[o]
    BY <1>1, <1>4 DEF dropped
  <2> QED
    BY <1>2, <1>5, <1>6, <1>8, <2>1, <2>2 DEF PendingAgrees, Live
<1>12. FreezeOnlyBuys'
  BY <1>3, <1>4, <1>7, <1>8 DEF LedgerInv, FreezeOnlyBuys
<1>13. LiveOrdersTracked'
  <2> SUFFICES ASSUME NEW o \in DOMAIN ledger', Live(ledger'[o])
               PROVE  (o \in DOMAIN pending') # AwaitingCancel(ledger'[o])
    BY DEF LiveOrdersTracked, Live, AwaitingCancel
  <2>1. CASE o \in new
    BY <1>2, <1>8, <2>1
  <2>2. CASE o \in dropped
    BY <1>1, <1>2, <1>3, <1>7, <2>2 DEF dropped
  <2>3. CASE o \in DOMAIN ledger \ dropped
    BY <1>1, <1>2, <1>3, <1>4, <2>3 DEF LedgerInv, LiveOrdersTracked, dropped
  <2> QED
    BY <1>3, <2>1, <2>2, <2>3
<1>14. NoOverlap'
  <2>1. \A o \in DOMAIN ledger :
           Live(ledger'[o]) => /\ Live(ledger[o])
                               /\ ledger'[o].symbol = ledger[o].symbol
                               /\ ledger'[o].side = ledger[o].side
    BY <1>1, <1>4, <1>7 DEF LedgerInv, PendingAgrees, dropped
  <2>2. \A o \in DOMAIN ledger \ kept :
           Live(ledger'[o]) => ledger[o].side = "BUY" /\ ledger[o].symbol \in BlockedBuys(freeze)
    <3> SUFFICES ASSUME NEW o \in DOMAIN ledger \ kept, Live(ledger'[o])
                 PROVE  ledger[o].side = "BUY" /\ ledger[o].symbol \in BlockedBuys(freeze)
      OBVIOUS
    <3>1. CASE o \in dropped
      BY <1>7, <3>1 DEF BlockedBuys, AwaitingCancel, dropped
    <3>2. CASE o \notin dropped
      <4>1. ledger'[o] = ledger[o] /\ o \notin DOMAIN pending
        BY <1>4, <3>2 DEF dropped
      <4>2. AwaitingCancel(ledger[o])
        BY <2>1, <4>1 DEF LedgerInv, LiveOrdersTracked, AwaitingCancel
      <4> QED
        BY <4>2 DEF BlockedBuys, AwaitingCancel
    <3> QED
      BY <3>1, <3>2
  <2>3. \A o \in new : fresh[o].side = "BUY" => fresh[o].symbol \notin BlockedBuys(freeze)
    BY <1>2 DEF Admissible
  <2>4. \A o \in new : /\ \A k \in kept : ledger[k].symbol # fresh[o].symbol
                       /\ \A p \in new : p # o => fresh[p].symbol # fresh[o].symbol
    BY <1>2 DEF Admissible
  <2>5. \A o \in new, p \in DOMAIN ledger :
           (Live(ledger'[p]) /\ ledger'[p].side = ledger'[o].side)
              => ledger'[p].symbol # ledger'[o].symbol
    BY <1>8, <2>1, <2>2, <2>3, <2>4
  <2>6. ASSUME NEW o \in DOMAIN ledger', NEW p \in DOMAIN ledger', o # p,
               Live(ledger'[o]), Live(ledger'[p]), ledger'[o].side = ledger'[p].side
        PROVE  ledger'[o].symbol # ledger'[p].symbol
    <3>1. CASE o \in new /\ p \in new
      BY <1>8, <2>4, <2>6, <3>1
    <3>2. CASE o \in new /\ p \in DOMAIN ledger
      BY <2>5, <2>6, <3>2
    <3>3. CASE o \in DOMAIN ledger /\ p \in new
      BY <2>5, <2>6, <3>3
    <3>4. CASE o \in DOMAIN ledger /\ p \in DOMAIN ledger
      BY <2>1, <2>6, <3>4 DEF LedgerInv, NoOverlap
    <3> QED
      BY <1>3, <3>1, <3>2, <3>3, <3>4
  <2>7. \A k \in kept : ledger'[k].symbol = ledger[k].symbol
    BY <1>1, <1>4 DEF dropped
  <2>8. ASSUME NEW o \in DOMAIN pending', NEW p \in DOMAIN pending', o # p
        PROVE  ledger'[o].symbol # ledger'[p].symbol
    BY <1>2, <1>8, <2>4, <2>7, <2>8 DEF LedgerInv, NoOverlap
  <2> QED
    BY <2>6, <2>8 DEF NoOverlap, Live
<1> QED
  BY <1>9, <1>10, <1>11, <1>12, <1>13, <1>14 DEF LedgerInv

\* A step that rewrites one row keeps the ledger invariant when the row keeps its identity,
\* never comes back to life, and leaves pending exactly if it is closed.
LEMMA RowUpdateKeepsLedgerInv ==
    ASSUME LedgerInv, NEW o \in DOMAIN pending, NEW row \in AccountOrder,
           day' = day, nextSeq' = nextSeq, fills' \subseteq Fill,
           ledger' = [ledger EXCEPT ![o] = row],
           row.symbol = ledger[o].symbol, row.side = ledger[o].side,
           row.submitted = ledger[o].submitted,
           RowAgrees(row), row.reason # Freeze,
           DOMAIN pending' = IF Live(row) THEN DOMAIN pending ELSE DOMAIN pending \ {o},
           pending' \in [DOMAIN pending' -> Nat],
           \A p \in DOMAIN pending \ {o} : pending'[p] = pending[p],
           Live(row) => pending'[o] = row.remaining
    PROVE  LedgerInv'
<1>1. /\ ledger \in [1..(nextSeq - 1) -> AccountOrder] /\ day \in Days
      /\ nextSeq \in 1..(MaxOrders + 1)
      /\ DOMAIN pending \subseteq DOMAIN ledger
  BY DEF LedgerInv, LedgerTypeOK
<1>2. DOMAIN ledger' = DOMAIN ledger /\ ledger'[o] = row /\ o \in DOMAIN ledger
  BY <1>1
<1>3. \A p \in DOMAIN ledger : p # o => ledger'[p] = ledger[p]
  BY <1>1
<1>4. \A p \in DOMAIN ledger : /\ ledger'[p].symbol = ledger[p].symbol
                               /\ ledger'[p].side = ledger[p].side
                               /\ Live(ledger'[p]) => Live(ledger[p])
  BY <1>2, <1>3 DEF LedgerInv, PendingAgrees
<1>5. LedgerTypeOK'
  <2>1. ledger' \in [1..(nextSeq - 1) -> AccountOrder]
    BY <1>1
  <2> QED
    BY <1>1, <1>2, <2>1 DEF LedgerTypeOK
<1>6. RowsAgree'
  <2>1. \A p \in DOMAIN ledger : RowAgrees(ledger'[p]) /\ ledger'[p].submitted <= day
    BY <1>2, <1>3 DEF LedgerInv, RowsAgree
  <2> QED
    BY <1>2, <2>1 DEF RowsAgree, RowAgrees
<1>7. PendingAgrees(ledger, pending)'
  <2>1. \A p \in DOMAIN pending : Live(ledger[p]) /\ ledger[p].remaining = pending[p]
    BY DEF LedgerInv, PendingAgrees
  <2> QED
    BY <1>1, <1>2, <1>3, <2>1 DEF PendingAgrees, Live
<1>8. FreezeOnlyBuys'
  BY <1>2, <1>3 DEF LedgerInv, FreezeOnlyBuys
<1>9. LiveOrdersTracked'
  <2> SUFFICES ASSUME NEW p \in DOMAIN ledger, Live(ledger'[p])
               PROVE  (p \in DOMAIN pending') # AwaitingCancel(ledger'[p])
    BY <1>2 DEF LiveOrdersTracked, Live, AwaitingCancel
  <2>1. CASE p = o
    BY <1>2, <2>1 DEF AwaitingCancel
  <2>2. CASE p # o
    BY <1>3, <2>2 DEF LedgerInv, LiveOrdersTracked
  <2> QED
    BY <2>1, <2>2
<1>10. NoOverlap'
  <2>1. NoOverlap /\ DOMAIN pending' \subseteq DOMAIN pending
    BY DEF LedgerInv
  <2>2. \A p, q \in DOMAIN ledger' :
           (p # q /\ Live(ledger'[p]) /\ Live(ledger'[q]) /\ ledger'[p].side = ledger'[q].side)
              => ledger'[p].symbol # ledger'[q].symbol
    BY <1>2, <1>4, <2>1 DEF NoOverlap
  <2>3. \A p, q \in DOMAIN pending' : p # q => ledger'[p].symbol # ledger'[q].symbol
    BY <1>1, <1>4, <2>1 DEF NoOverlap
  <2> QED
    BY <2>2, <2>3 DEF NoOverlap, Live
<1> QED
  BY <1>5, <1>6, <1>7, <1>8, <1>9, <1>10 DEF LedgerInv

\* What a step of the ledger may do in the terms of OrderPromise.
LedgerAdvances ==
    /\ DOMAIN ledger \subseteq DOMAIN ledger'
    /\ \A o \in DOMAIN ledger :
          /\ ledger'[o].symbol = ledger[o].symbol /\ ledger'[o].side = ledger[o].side
          /\ ledger'[o].filled >= ledger[o].filled
          /\ ~Live(ledger[o]) => ledger'[o] = ledger[o]
    /\ \A o \in DOMAIN ledger' \ DOMAIN ledger : Live(ledger'[o]) /\ ledger'[o].filled = 0

\* A decision never touches a closed row, and registers fresh ids only.
LEMMA ReconcileAdvances ==
    ASSUME LedgerInv, day' = day,
           NEW kept \in SUBSET DOMAIN pending, NEW fresh \in FreshBatches, NEW freeze \in BOOLEAN,
           Reconcile(kept, fresh, freeze)
    PROVE  LedgerAdvances
<1>0. DecisionRows(kept, fresh, freeze)
  BY ReconcileRows
<1>1. /\ ledger \in [1..(nextSeq - 1) -> AccountOrder] /\ nextSeq \in 1..(MaxOrders + 1)
      /\ MaxOrders \in Nat /\ day \in Days /\ DOMAIN pending \subseteq DOMAIN ledger
  BY BoundsAssumption DEF LedgerInv, LedgerTypeOK
<1>2. /\ nextSeq' \in nextSeq..(MaxOrders + 1) /\ DOMAIN ledger' = 1..(nextSeq' - 1)
  BY <1>0 DEF DecisionRows
<1>3. DOMAIN ledger' = DOMAIN ledger \cup nextSeq..(nextSeq' - 1)
  BY <1>1, <1>2
<1>4. ASSUME NEW o \in DOMAIN ledger
      PROVE  /\ ledger'[o].symbol = ledger[o].symbol /\ ledger'[o].side = ledger[o].side
             /\ ledger'[o].filled >= ledger[o].filled
             /\ ~Live(ledger[o]) => ledger'[o] = ledger[o]
  <2>1. ledger[o] \in AccountOrder /\ ledger[o].filled \in Nat
    BY <1>1 DEF AccountOrder
  <2>2. CASE o \in DOMAIN pending \ kept
    <3>0. PICK heirs \in SUBSET Orders : \E book : ledger'[o] = Withdrawn(ledger[o], heirs, book, freeze)
      BY <1>0, <2>2 DEF DecisionRows
    <3>1. PICK book : ledger'[o] = Withdrawn(ledger[o], heirs, book, freeze)
      BY <3>0
    <3>2. /\ RowAgrees(ledger[o]) /\ ledger[o].submitted <= day
          /\ ledger[o].reason = Freeze => ledger[o].side = "BUY"
      BY <1>1 DEF LedgerInv, RowsAgree, FreezeOnlyBuys
    <3>3. Live(ledger[o]) /\ ~AwaitingCancel(ledger[o])
      BY <1>1, <2>2 DEF LedgerInv, PendingAgrees, LiveOrdersTracked
    <3>4. /\ ledger'[o].symbol = ledger[o].symbol /\ ledger'[o].side = ledger[o].side
          /\ ledger'[o].filled = ledger[o].filled
      BY <1>1, <2>1, <3>1, <3>2, <3>3, WithdrawnShape
    <3> QED
      BY <2>1, <3>3, <3>4
  <2>3. CASE o \notin DOMAIN pending \ kept
    <3>1. ledger'[o] = ledger[o]
      BY <1>0, <2>3 DEF DecisionRows
    <3> QED
      BY <2>1, <3>1
  <2> QED
    BY <2>2, <2>3
<1>5. ASSUME NEW o \in DOMAIN ledger' \ DOMAIN ledger
      PROVE  Live(ledger'[o]) /\ ledger'[o].filled = 0
  <2>1. o \in nextSeq..(nextSeq' - 1)
    BY <1>1, <1>2
  <2>2. ledger'[o] = NewEntry(fresh[o])
    BY <1>0, <2>1 DEF DecisionRows
  <2> QED
    BY <2>2 DEF NewEntry, Live, Terminal
<1> QED
  BY <1>3, <1>4, <1>5 DEF LedgerAdvances

--------------------------------------------------------------------------------
(* The tranches of a sale *)

LEMMA MinIs ==
    ASSUME NEW a \in Nat, NEW b \in Nat
    PROVE  Min({a, b}) = IF a <= b THEN a ELSE b
BY DEF Min

LEMMA TotalIs ==
    \A t, S : Total(t, S) = SumOf(t, S)
BY DEF Total, MapThenSumSet, MapThenFoldSet, SumOf, Sums, First

\* The sum when one element changes.
LEMMA SumMoved ==
    ASSUME NEW f, NEW g, NEW S, IsFiniteSet(S), NEW d \in S,
           \A x \in S : f[x] \in Nat /\ g[x] \in Nat, \A x \in S \ {d} : g[x] = f[x]
    PROVE  /\ SumOf(g, S) + f[d] = SumOf(f, S) + g[d]
           /\ SumOf(f, S) \in Nat /\ SumOf(g, S) \in Nat
<1>1. SumOf(f, S) = f[d] + SumOf(f, S \ {d}) /\ SumOf(g, S) = g[d] + SumOf(g, S \ {d})
    BY SumRemove
<1>2. IsFiniteSet(S \ {d})
    BY FS_Subset
<1>3. SumOf(g, S \ {d}) = SumOf(f, S \ {d})
    BY <1>2, SumSame
<1>4. SumOf(f, S \ {d}) \in Nat
    BY <1>2, SumNat
<1> QED  BY <1>1, <1>3, <1>4

\* A tranche gives a sale what it has, or all that is still to be sold.
LEMMA SoldFromShape ==
    ASSUME NEW r, r.tranches \in [Days -> Nat], r.left \in Nat, NEW d \in Days
    PROVE  LET q == SoldFrom(r, d)
           IN /\ q.tranches \in [Days -> Nat] /\ q.left \in Nat /\ q.left <= r.left
              /\ \A x \in Days : q.tranches[x] <= r.tranches[x]
              /\ \A x \in Days : x # d => q.tranches[x] = r.tranches[x]
              /\ q.tranches[d] + r.left = r.tranches[d] + q.left
              /\ q.left > 0 => q.tranches[d] = 0
<1> DEFINE q == SoldFrom(r, d)
           a == r.tranches[d]
           b == r.left
           sold == IF a <= b THEN a ELSE b
<1>1. a \in Nat /\ b \in Nat
    OBVIOUS
<1>2. sold \in Nat /\ sold <= a /\ sold <= b /\ (b - sold > 0 => a - sold = 0)
    BY <1>1
<1>3. Min({a, b}) = sold
    BY <1>1, MinIs
<1> HIDE DEF sold
<1>4. q = [tranches |-> [r.tranches EXCEPT ![d] = a - sold], left |-> b - sold]
    BY <1>3 DEF SoldFrom
<1>5. q.left = b - sold /\ q.tranches = [r.tranches EXCEPT ![d] = a - sold]
    BY <1>4
<1>6. a - sold \in Nat /\ b - sold \in Nat /\ a - sold <= a /\ b - sold <= b
      /\ (a - sold) + b = a + (b - sold)
    BY <1>1, <1>2
<1> HIDE DEF q
<1>7. q.tranches \in [Days -> Nat] /\ q.tranches[d] = a - sold
      /\ \A x \in Days : x # d => q.tranches[x] = r.tranches[x]
    BY <1>5, <1>6
<1>8. \A x \in Days : q.tranches[x] <= r.tranches[x]
    <2> SUFFICES ASSUME NEW x \in Days PROVE q.tranches[x] <= r.tranches[x]
        OBVIOUS
    <2>1. CASE x = d
        BY <1>6, <1>7, <2>1
    <2>2. CASE x # d
        <3>1. r.tranches[x] \in Nat
            OBVIOUS
        <3> QED  BY <1>7, <2>2, <3>1
    <2> QED  BY <2>1, <2>2
<1>9. /\ q.left \in Nat /\ q.left <= b
      /\ q.tranches[d] + b = a + q.left
      /\ q.left > 0 => q.tranches[d] = 0
    BY <1>2, <1>5, <1>6, <1>7
<1> QED  BY <1>7, <1>8, <1>9 DEF q

\* The sessions whose purchases may be sold now.
Eligible == {d \in Days : d + 1 <= day}

\* h lists what is left of the sale after each tranche.
Sale(h, tranches, n, turn, m) ==
    h = [i \in 0..m |-> IF i = 0 THEN [tranches |-> tranches, left |-> n]
                        ELSE SoldFrom(h[i - 1], turn[i])]

\* The loop is defined, however many tranches it visits.
LEMMA SaleExists ==
    ASSUME NEW tranches, NEW n, NEW turn, NEW m \in Nat
    PROVE  \E h : Sale(h, tranches, n, turn, m)
<1> DEFINE start == [tranches |-> tranches, left |-> n]
           U == {x \in 0..m : ~ \E h : Sale(h, tranches, n, turn, x)}
<1> SUFFICES ASSUME U # {} PROVE FALSE
    OBVIOUS
<1>1. PICK x \in U : x \in Nat /\ \A y \in U : x <= y
    <2>1. U \in SUBSET (0..m)
        OBVIOUS
    <2> HIDE DEF U
    <2> QED  BY <2>1, SmallestNumber
<1>2. CASE x = 0
    <2> DEFINE h == [i \in 0..0 |-> start]
    <2>1. \A i \in 0..0 : i = 0
        OBVIOUS
    <2>2. Sale(h, tranches, n, turn, 0)
        BY <2>1 DEF Sale
    <2> QED  BY <1>1, <1>2, <2>2
<1>3. CASE x # 0
    <2>1. x - 1 \in 0..m /\ x - 1 \in Nat /\ x - 1 \notin U
        BY <1>1, <1>3
    <2>2. PICK h : Sale(h, tranches, n, turn, x - 1)
        BY <2>1
    <2> DEFINE g == [i \in 0..x |-> IF i = x THEN SoldFrom(h[x - 1], turn[x]) ELSE h[i]]
    <2> HIDE DEF start
    <2>3. \A i \in 0..(x - 1) : h[i] = IF i = 0 THEN start ELSE SoldFrom(h[i - 1], turn[i])
        BY <2>2 DEF Sale, start
    <2>4. \A i \in 0..(x - 1) : g[i] = h[i]
        BY <1>1
    <2>5. g[x] = SoldFrom(g[x - 1], turn[x])
        BY <1>1, <2>1
    <2>6. \A i \in 0..x : i # 0 => i - 1 \in 0..(x - 1)
        BY <1>1
    <2>7. \A i \in 0..x : i = x \/ i \in 0..(x - 1)
        BY <1>1
    <2>8. g = [i \in 0..x |-> g[i]]
        OBVIOUS
    <2> HIDE DEF g
    <2>9. \A i \in 0..x : g[i] = IF i = 0 THEN start ELSE SoldFrom(g[i - 1], turn[i])
        BY <1>3, <2>3, <2>4, <2>5, <2>6, <2>7
    <2>10. g = [i \in 0..x |-> IF i = 0 THEN start ELSE SoldFrom(g[i - 1], turn[i])]
        BY <2>8, <2>9
    <2>11. Sale(g, tranches, n, turn, x)
        BY <2>10 DEF Sale, start
    <2> QED  BY <1>1, <2>11
<1> QED  BY <1>2, <1>3

\* After some tranches: nothing is lost between them and the sale, and a sale that still wants
\* shares has emptied every tranche it visited.
Selling(r, i, tranches, n, turn) ==
    /\ r.tranches \in [Days -> Nat] /\ r.left \in Nat
    /\ SumOf(r.tranches, Days) + n = SumOf(tranches, Days) + r.left
    /\ SumOf(r.tranches, Eligible) + n = SumOf(tranches, Eligible) + r.left
    /\ r.left > 0 => \A j \in 1..i : r.tranches[turn[j]] = 0

LEMMA SellingStep ==
    ASSUME day \in Days, NEW tranches \in [Days -> Nat], NEW n \in Nat, NEW i \in Nat, NEW r,
           NEW turn, \A j \in 1..(i + 1) : turn[j] \in Eligible,
           Selling(r, i, tranches, n, turn)
    PROVE  Selling(SoldFrom(r, turn[i + 1]), i + 1, tranches, n, turn)
<1> DEFINE d == turn[i + 1]
           q == SoldFrom(r, d)
<1>1. IsFiniteSet(Days) /\ IsFiniteSet(Eligible) /\ Eligible \subseteq Days
    <2>1. IsFiniteSet(Days) /\ Eligible \subseteq Days
        BY FS_Interval, BoundsAssumption DEF Days, Eligible
    <2> QED  BY <2>1, FS_Subset
<1>2. d \in Eligible /\ d \in Days
    <2>1. i + 1 \in 1..(i + 1)
        OBVIOUS
    <2> QED  BY <1>1, <2>1
<1>3. r.tranches \in [Days -> Nat] /\ r.left \in Nat
    BY DEF Selling
<1> HIDE DEF d
<1>4. /\ q.tranches \in [Days -> Nat] /\ q.left \in Nat /\ q.left <= r.left
      /\ \A x \in Days : q.tranches[x] <= r.tranches[x]
      /\ \A x \in Days : x # d => q.tranches[x] = r.tranches[x]
      /\ q.tranches[d] + r.left = r.tranches[d] + q.left
      /\ q.left > 0 => q.tranches[d] = 0
    BY <1>2, <1>3, SoldFromShape
<1> HIDE DEF q
<1>5. ASSUME NEW S, S = Days \/ S = Eligible,
             SumOf(r.tranches, S) + n = SumOf(tranches, S) + r.left
      PROVE  SumOf(q.tranches, S) + n = SumOf(tranches, S) + q.left
    <2>1. IsFiniteSet(S) /\ S \subseteq Days /\ d \in S
        BY <1>1, <1>2, <1>5
    <2>2. \A x \in S : r.tranches[x] \in Nat /\ q.tranches[x] \in Nat /\ tranches[x] \in Nat
        BY <1>3, <1>4, <2>1
    <2>3. \A x \in S \ {d} : q.tranches[x] = r.tranches[x]
        BY <1>4, <2>1
    <2>4. /\ SumOf(q.tranches, S) + r.tranches[d] = SumOf(r.tranches, S) + q.tranches[d]
          /\ SumOf(r.tranches, S) \in Nat /\ SumOf(q.tranches, S) \in Nat
        BY <2>1, <2>2, <2>3, SumMoved
    <2>5. SumOf(tranches, S) \in Nat
        BY <2>1, <2>2, SumNat
    <2> QED  BY <1>3, <1>4, <1>5, <2>1, <2>2, <2>4, <2>5
<1>6. ASSUME q.left > 0, NEW j \in 1..(i + 1) PROVE q.tranches[turn[j]] = 0
    <2>1. CASE j = i + 1
        BY <1>4, <1>6, <2>1 DEF d
    <2>2. CASE j # i + 1
        <3>1. j \in 1..i /\ turn[j] \in Days
            BY <1>1, <2>2
        <3>2. r.left > 0
            BY <1>3, <1>4, <1>6
        <3>3. r.tranches[turn[j]] = 0
            BY <3>1, <3>2 DEF Selling
        <3>4. q.tranches[turn[j]] <= 0 /\ q.tranches[turn[j]] \in Nat
            BY <1>4, <3>1, <3>3
        <3> QED  BY <3>4
    <2> QED  BY <2>1, <2>2
<1>7. /\ SumOf(q.tranches, Days) + n = SumOf(tranches, Days) + q.left
      /\ SumOf(q.tranches, Eligible) + n = SumOf(tranches, Eligible) + q.left
    BY <1>5 DEF Selling
<1> QED  BY <1>4, <1>6, <1>7 DEF Selling, q, d

\* A sale of no more than the eligible tranches hold finds all its shares in them, in whatever
\* order it visits them.
LEMMA SaleShape ==
    ASSUME day \in Days, NEW tranches \in [Days -> Nat], NEW n \in Nat, NEW turn \in Turns,
           n <= SumOf(tranches, Eligible)
    PROVE  LET sale == Consumed(tranches, n, turn)
           IN /\ sale.left = 0
              /\ sale.tranches \in [Days -> Nat]
              /\ SumOf(sale.tranches, Days) + n = SumOf(tranches, Days)
<1>1. IsFiniteSet(Days) /\ IsFiniteSet(Eligible) /\ Eligible \subseteq Days
    <2>1. IsFiniteSet(Days) /\ Eligible \subseteq Days
        BY FS_Interval, BoundsAssumption DEF Days, Eligible
    <2> QED  BY <2>1, FS_Subset
<1>2. PICK m : m = Cardinality(Eligible)
    OBVIOUS
<1>3. m \in Nat
    BY <1>1, <1>2, FS_CardinalityType
<1>4. turn \in [1..m -> Eligible] /\ \A d \in Eligible : \E i \in 1..m : turn[i] = d
    BY <1>2 DEF Turns, Eligible
<1>5. Len(turn) = m
    BY <1>3, <1>4
<1>6. PICK h : Sale(h, tranches, n, turn, m) /\ Consumed(tranches, n, turn) = h[m]
    <2>1. Consumed(tranches, n, turn) = (CHOOSE h : Sale(h, tranches, n, turn, m))[m]
        BY <1>5 DEF Consumed, Sale
    <2> QED  BY <1>3, <2>1, SaleExists
<1>7. \A i \in 0..m : h[i] = IF i = 0 THEN [tranches |-> tranches, left |-> n]
                             ELSE SoldFrom(h[i - 1], turn[i])
    BY <1>6 DEF Sale
<1>8. Selling(h[m], m, tranches, n, turn)
    <2> DEFINE U == {x \in 0..m : ~Selling(h[x], x, tranches, n, turn)}
    <2> SUFFICES ASSUME U # {} PROVE FALSE
        BY <1>3
    <2>1. PICK x \in U : x \in Nat /\ \A y \in U : x <= y
        <3>1. U \in SUBSET (0..m)
            OBVIOUS
        <3> HIDE DEF U
        <3> QED  BY <1>3, <3>1, SmallestNumber
    <2>2. CASE x = 0
        <3>1. h[0].tranches = tranches /\ h[0].left = n
            BY <1>3, <1>7
        <3>2. SumOf(tranches, Days) \in Nat /\ SumOf(tranches, Eligible) \in Nat
            BY <1>1, SumNat
        <3>3. \A j \in 1..0 : FALSE
            OBVIOUS
        <3>4. Selling(h[0], 0, tranches, n, turn)
            BY <3>1, <3>2, <3>3 DEF Selling
        <3> QED  BY <2>1, <2>2, <3>4
    <2>3. CASE x # 0
        <3>1. PICK y \in Nat : x = y + 1 /\ y \in 0..m /\ x \in 0..m
            BY <1>3, <2>1, <2>3
        <3>2. Selling(h[y], y, tranches, n, turn)
            BY <2>1, <3>1
        <3>3. \A j \in 1..(y + 1) : turn[j] \in Eligible
            BY <1>3, <1>4, <3>1
        <3>4. h[y + 1] = SoldFrom(h[y], turn[y + 1])
            BY <1>7, <3>1
        <3>5. Selling(h[y + 1], y + 1, tranches, n, turn)
            BY <3>2, <3>3, <3>4, SellingStep
        <3> QED  BY <2>1, <3>1, <3>5
    <2> QED  BY <2>2, <2>3
<1> DEFINE q == h[m]
<1>9. /\ q.tranches \in [Days -> Nat] /\ q.left \in Nat
      /\ SumOf(q.tranches, Days) + n = SumOf(tranches, Days) + q.left
      /\ SumOf(q.tranches, Eligible) + n = SumOf(tranches, Eligible) + q.left
      /\ q.left > 0 => \A j \in 1..m : q.tranches[turn[j]] = 0
    BY <1>8 DEF Selling
<1> HIDE DEF q
<1>10. q.left = 0
    <2> SUFFICES ASSUME q.left > 0 PROVE FALSE
        BY <1>9
    <2>1. \A d \in Eligible : q.tranches[d] = 0
        BY <1>4, <1>9
    <2>2. SumOf(q.tranches, Eligible) = 0
        BY <1>1, <2>1, SumZero
    <2>3. SumOf(tranches, Eligible) \in Nat
        BY <1>1, SumNat
    <2> QED  BY <1>9, <2>2, <2>3
<1>11. SumOf(tranches, Days) \in Nat /\ SumOf(q.tranches, Days) \in Nat
    BY <1>1, <1>9, SumNat
<1> QED  BY <1>6, <1>9, <1>10, <1>11 DEF q

--------------------------------------------------------------------------------
(* The replay *)

IInv == LedgerInv /\ TypeOK

\* Order o trades at this open.
Trades(o) ==
    \E t \in EconomicTargets(o), n \in 1..MaxShares, turn \in Turns : ExecuteFill(o, t, n, turn)

\* One order at the open: the disjuncts of Next that serve an order.
Serve(o) ==
    \/ Hold(o)
    \/ \E t \in EconomicTargets(o) : Resize(o, t)
    \/ Satisfied(o)
    \/ Trades(o)

\* What the invariant says of an order that is about to be served.
LEMMA ServedOrder ==
    ASSUME IInv, NEW o \in queue
    PROVE  /\ o \in DOMAIN pending /\ o \in DOMAIN ledger /\ o \in Orders
           /\ ledger[o] \in AccountOrder
           /\ RowAgrees(ledger[o]) /\ ledger[o].submitted <= day
           /\ Live(ledger[o]) /\ ~AwaitingCancel(ledger[o]) /\ ledger[o].reason # Freeze
           /\ pending[o] = ledger[o].remaining
           /\ day \in Days /\ day \in Nat
           /\ pending \in [DOMAIN pending -> Nat]
           /\ fills \subseteq Fill
<1>1. /\ o \in DOMAIN pending /\ o \in DOMAIN ledger
      /\ ledger \in [1..(nextSeq - 1) -> AccountOrder]
      /\ nextSeq \in 1..(MaxOrders + 1) /\ MaxOrders \in Nat
      /\ day \in Days /\ pending \in [DOMAIN pending -> Nat] /\ fills \subseteq Fill
  BY BoundsAssumption DEF IInv, TypeOK, LedgerInv, LedgerTypeOK
<1>2. Live(ledger[o]) /\ pending[o] = ledger[o].remaining
  BY <1>1 DEF IInv, LedgerInv, PendingAgrees
<1>3. ~AwaitingCancel(ledger[o])
  BY <1>1, <1>2 DEF IInv, LedgerInv, LiveOrdersTracked, AwaitingCancel
<1>4. ledger[o].reason # Freeze
  BY <1>1, <1>2, <1>3 DEF IInv, LedgerInv, FreezeOnlyBuys, AwaitingCancel
<1>5. RowAgrees(ledger[o]) /\ ledger[o].submitted <= day
  BY <1>1 DEF IInv, LedgerInv, RowsAgree
<1>6. o \in Orders
  BY <1>1 DEF Orders
<1> QED
  BY <1>1, <1>2, <1>3, <1>4, <1>5, <1>6 DEF Days

\* A live row says how much of it has filled.
LEMMA LiveRow ==
    ASSUME NEW e \in AccountOrder, RowAgrees(e), Live(e)
    PROVE  e.filled > 0 => e.status = "PARTIALLY_FILLED" /\ e.remaining > 0
BY DEF AccountOrder, Statuses, Live, RowAgrees

\* The quantity still wanted of an order is a number, positive unless the target is met.
LEMMA TargetShape ==
    ASSUME IInv, NEW o \in queue, NEW economic \in EconomicTargets(o)
    PROVE  /\ economic \in Nat
           /\ TargetRequested(o, economic) \in Nat
           /\ economic > 0 => TargetRequested(o, economic) > 0
           /\ KeepsRemainder(o) => TargetRequested(o, economic) = ledger[o].remaining
<1>1. economic \in Nat
  BY BoundsAssumption DEF EconomicTargets
<1>2. ledger[o] \in AccountOrder /\ RowAgrees(ledger[o]) /\ Live(ledger[o])
  BY ServedOrder
<1>3. CASE KeepsRemainder(o)
  <2>1. ledger[o].remaining > 0
    BY <1>2, <1>3, LiveRow DEF KeepsRemainder
  <2>2. TargetRequested(o, economic) = ledger[o].remaining
    BY <1>2, <1>3 DEF TargetRequested, RowAgrees, AccountOrder
  <2> QED
    BY <1>1, <1>2, <2>1, <2>2 DEF AccountOrder
<1>4. CASE ~KeepsRemainder(o)
  BY <1>1, <1>4 DEF TargetRequested
<1> QED
  BY <1>1, <1>3, <1>4

\* An order that waits keeps everything but its date and its status.
LEMMA HoldKeepsIInv == ASSUME IInv, NEW o \in queue, Hold(o) PROVE IInv'
<1> DEFINE row == [ledger[o] EXCEPT !.status = ActiveStatus(ledger[o]), !.updated = day, !.event = "HELD"]
<1>1. ledger' = [ledger EXCEPT ![o] = row]
  BY ServedOrder DEF Hold
<1>2. row \in AccountOrder
  BY ServedOrder DEF AccountOrder, ActiveStatus, Statuses, Events
<1>3. RowAgrees(row)
  <2>1. ledger[o] \in AccountOrder /\ RowAgrees(ledger[o]) /\ ledger[o].submitted <= day /\ day \in Nat
    BY ServedOrder
  <2>2. ledger[o].filled > 0 => ledger[o].remaining > 0
    BY ServedOrder, LiveRow
  <2> QED
    BY <2>1, <2>2 DEF AccountOrder, ActiveStatus, RowAgrees, Days
<1>4. Live(row)
  BY ServedOrder DEF AccountOrder, ActiveStatus, Live, Terminal
<1>5. /\ row.symbol = ledger[o].symbol /\ row.side = ledger[o].side
      /\ row.submitted = ledger[o].submitted /\ row.reason # Freeze
      /\ row.remaining = pending[o]
  BY ServedOrder DEF AccountOrder
<1> HIDE DEF row
<1>6. UNCHANGED <<day, nextSeq, fills, pending>>
  BY DEF Hold
<1>7. LedgerInv'
  BY <1>1, <1>2, <1>3, <1>4, <1>5, <1>6, ServedOrder, RowUpdateKeepsLedgerInv DEF IInv
<1>8. TypeOK'
  BY <1>6, <1>7 DEF IInv, TypeOK, LedgerInv, Hold, Served, holding
<1> QED
  BY <1>7, <1>8 DEF IInv

\* A resized order asks for a positive number of shares.
LEMMA ResizeKeepsIInv ==
    ASSUME IInv, NEW o \in queue, NEW economic \in EconomicTargets(o), Resize(o, economic)
    PROVE  IInv'
<1> DEFINE target == TargetRequested(o, economic)
           row == [ledger[o] EXCEPT !.requested = ledger[o].filled + target, !.remaining = target,
                        !.status = ActiveStatus(ledger[o]), !.updated = day, !.event = "RESIZED"]
<1>1. target \in Nat /\ target > 0
  BY TargetShape DEF Resize
<1>2. /\ ledger' = [ledger EXCEPT ![o] = row]
      /\ pending' = [pending EXCEPT ![o] = target]
      /\ UNCHANGED <<day, nextSeq, fills, phase, positions, lots, handoff>>
      /\ queue' = queue \ {o}
  BY ServedOrder DEF Resize, Served, holding
<1> HIDE DEF target
<1>3. row \in AccountOrder
  <2>1. ledger[o] \in AccountOrder /\ ledger[o].filled + target \in Nat /\ day \in Days
    BY <1>1, ServedOrder DEF AccountOrder
  <2>2. ActiveStatus(ledger[o]) \in Statuses /\ "RESIZED" \in Events
    BY DEF ActiveStatus, Statuses, Events
  <2> QED
    BY <1>1, <2>1, <2>2 DEF AccountOrder
<1>4. RowAgrees(row)
  <2>1. ledger[o] \in AccountOrder /\ ledger[o].submitted <= day /\ day \in Nat
    BY ServedOrder
  <2> QED
    BY <1>1, <2>1 DEF AccountOrder, ActiveStatus, RowAgrees, Days
<1>5. Live(row)
  BY ServedOrder DEF AccountOrder, ActiveStatus, Live, Terminal
<1>6. /\ row.symbol = ledger[o].symbol /\ row.side = ledger[o].side
      /\ row.submitted = ledger[o].submitted /\ row.reason # Freeze
      /\ row.remaining = target
  BY ServedOrder DEF AccountOrder
<1> HIDE DEF row
<1>7. /\ DOMAIN pending' = DOMAIN pending /\ pending' \in [DOMAIN pending -> Nat]
      /\ pending'[o] = target
      /\ \A p \in DOMAIN pending \ {o} : pending'[p] = pending[p]
  BY <1>1, <1>2, ServedOrder
<1>8. LedgerInv'
  BY <1>2, <1>3, <1>4, <1>5, <1>6, <1>7, ServedOrder, RowUpdateKeepsLedgerInv DEF IInv
<1>9. TypeOK'
  BY <1>2, <1>7, <1>8 DEF IInv, TypeOK, LedgerInv
<1> QED
  BY <1>8, <1>9 DEF IInv

\* An order whose target is met is closed and leaves pending.
LEMMA SatisfiedKeepsIInv == ASSUME IInv, NEW o \in queue, Satisfied(o) PROVE IInv'
<1> DEFINE row == [ledger[o] EXCEPT !.status = "CANCELLED", !.reason = "target already satisfied",
                                    !.updated = day, !.event = "ZERO_REQUEST"]
<1>1. /\ ledger' = [ledger EXCEPT ![o] = row]
      /\ pending' = [p \in DOMAIN pending \ {o} |-> pending[p]]
      /\ UNCHANGED <<day, nextSeq, fills, phase, positions, lots, handoff>>
      /\ queue' = queue \ {o}
  BY ServedOrder DEF Satisfied, Served, Dropped, holding
<1>2. row \in AccountOrder
  BY ServedOrder DEF AccountOrder, Statuses, Terminal, Reasons, Events
<1>3. RowAgrees(row)
  <2>1. /\ ledger[o] \in AccountOrder /\ RowAgrees(ledger[o]) /\ ledger[o].submitted <= day
        /\ day \in Nat
    BY ServedOrder
  <2> QED
    BY <2>1 DEF AccountOrder, RowAgrees, Days
<1>4. ~Live(row)
  BY ServedOrder DEF AccountOrder, Live, Terminal
<1>5. /\ row.symbol = ledger[o].symbol /\ row.side = ledger[o].side
      /\ row.submitted = ledger[o].submitted /\ row.reason # Freeze
  BY ServedOrder DEF AccountOrder, Freeze
<1> HIDE DEF row
<1>6. /\ DOMAIN pending' = DOMAIN pending \ {o} /\ pending' \in [DOMAIN pending' -> Nat]
      /\ \A p \in DOMAIN pending \ {o} : pending'[p] = pending[p]
  BY <1>1, ServedOrder
<1>7. LedgerInv'
  BY <1>1, <1>2, <1>3, <1>4, <1>5, <1>6, ServedOrder, RowUpdateKeepsLedgerInv DEF IInv
<1>8. TypeOK'
  BY <1>1, <1>6, <1>7 DEF IInv, TypeOK, LedgerInv
<1> QED
  BY <1>7, <1>8 DEF IInv

\* The row of a filled order is closed exactly when nothing remains or the target is met.
LEMMA FilledRowShape ==
    ASSUME NEW e \in AccountOrder, RowAgrees(e), Live(e), e.reason # Freeze, e.submitted <= day,
           day \in Days, NEW target \in Nat, NEW economic \in Nat, NEW n \in Nat \ {0}, n <= target
    PROVE  LET row == FilledRow(e, n, target, economic)
           IN /\ row \in AccountOrder /\ RowAgrees(row) /\ row.reason # Freeze
              /\ row.symbol = e.symbol /\ row.side = e.side /\ row.submitted = e.submitted
              /\ row.remaining = target - n /\ row.filled = e.filled + n
              /\ row.updated = day /\ row.replacedBy = e.replacedBy
<1> DEFINE satisfied == n < target /\ e.grant # NoGrant /\ n >= economic
           row == FilledRow(e, n, target, economic)
           status == IF n = target THEN "FILLED"
                     ELSE IF satisfied THEN "CANCELLED" ELSE "PARTIALLY_FILLED"
           reason == IF satisfied THEN "target already satisfied" ELSE e.reason
<1>1. row = [e EXCEPT !.requested = e.filled + target, !.filled = e.filled + n,
                      !.remaining = target - n, !.status = status, !.reason = reason,
                      !.updated = day, !.event = "FILL"]
  BY DEF FilledRow, AccountOrder
<1>2. /\ status \in Statuses
      /\ status = "FILLED" => n = target
      /\ status = "PARTIALLY_FILLED" => n < target
      /\ status \notin {"SUBMITTED", "OPEN"}
  BY DEF Statuses, Terminal
<1>3. reason \in Reasons /\ reason # Freeze
  BY DEF AccountOrder, Reasons, Freeze
<1> HIDE DEF row, status, reason
<1>4. row \in AccountOrder
  <2>1. e.filled + target \in Nat /\ e.filled + n \in Nat /\ target - n \in Nat
    BY DEF AccountOrder
  <2>2. "FILL" \in Events
    BY DEF Events
  <2> QED
    BY <1>1, <1>2, <1>3, <2>1, <2>2 DEF AccountOrder
<1>5. RowAgrees(row)
  BY <1>1, <1>2 DEF AccountOrder, RowAgrees, Days
<1>6. /\ row.reason # Freeze
      /\ row.symbol = e.symbol /\ row.side = e.side /\ row.submitted = e.submitted
      /\ row.remaining = target - n /\ row.filled = e.filled + n
      /\ row.updated = day /\ row.replacedBy = e.replacedBy
  BY <1>1, <1>3 DEF AccountOrder
<1> QED
  BY <1>4, <1>5, <1>6 DEF row

\* The tranches and the shares of a symbol after n shares of it traded.
Moved(side, s, n, l) ==
    /\ lots' = [lots EXCEPT ![s] = l]
    /\ positions' = [positions EXCEPT ![s] = IF side = "BUY" THEN positions[s] + n ELSE SumOf(l, Days)]
    /\ SumOf(lots[s], Days) \in Nat /\ SumOf(l, Days) \in Nat
    /\ IF side = "BUY" THEN SumOf(l, Days) = SumOf(lots[s], Days) + n
       ELSE SumOf(l, Days) + n = SumOf(lots[s], Days)

\* A sale within the sellable shares finds them, so that no execution raises; a purchase adds
\* a tranche.
LEMMA FillMoves ==
    ASSUME IInv, NEW o \in queue, NEW economic \in EconomicTargets(o), NEW n \in 1..MaxShares,
           NEW turn \in Turns, ExecuteFill(o, economic, n, turn)
    PROVE  \E l \in [Days -> Nat] :
              /\ Moved(ledger[o].side, ledger[o].symbol, n, l)
              /\ ledger[o].side = "SELL" => Consumed(lots[ledger[o].symbol], n, turn).left = 0
<1> DEFINE s == ledger[o].symbol
           sale == Consumed(lots[s], n, turn)
<1>1. /\ s \in Symbols /\ ledger[o].side \in {"BUY", "SELL"} /\ day \in Days /\ n \in Nat
      /\ lots[s] \in [Days -> Nat] /\ positions[s] \in Nat
    BY ServedOrder, BoundsAssumption DEF AccountOrder, Sides, IInv, TypeOK
<1>2. IsFiniteSet(Days)
    BY FS_Interval, BoundsAssumption DEF Days
<1>3. \A d \in Days : lots[s][d] \in Nat
    BY <1>1
<1>4. SumOf(lots[s], Days) \in Nat
    BY <1>2, <1>3, SumNat
<1>5. CASE ledger[o].side = "BUY"
    <2> DEFINE l == [lots[s] EXCEPT ![day] = lots[s][day] + n]
    <2>1. lots[s][day] + n \in Nat
        BY <1>1, <1>3
    <2>2. l \in [Days -> Nat] /\ l[day] = lots[s][day] + n /\ \A d \in Days \ {day} : l[d] = lots[s][d]
        BY <1>1, <2>1
    <2>3. lots' = [lots EXCEPT ![s] = l]
        <3>1. lots' = [lots EXCEPT ![s] = Bought(lots[s], n)]
            BY <1>5 DEF ExecuteFill
        <3> QED  BY <3>1 DEF Bought
    <2>4. positions' = [positions EXCEPT ![s] = positions[s] + n]
        BY <1>5 DEF ExecuteFill
    <2> HIDE DEF l
    <2>5. \A d \in Days : lots[s][d] \in Nat /\ l[d] \in Nat
        BY <1>3, <2>2
    <2>6. /\ SumOf(l, Days) + lots[s][day] = SumOf(lots[s], Days) + l[day]
          /\ SumOf(l, Days) \in Nat
        BY <1>1, <1>2, <2>2, <2>5, SumMoved
    <2>7. SumOf(l, Days) = SumOf(lots[s], Days) + n
        BY <1>1, <1>3, <1>4, <2>2, <2>6
    <2> QED  BY <1>4, <1>5, <2>2, <2>3, <2>4, <2>6, <2>7 DEF Moved
<1>6. CASE ledger[o].side = "SELL"
    <2>1. n <= SumOf(lots[s], Eligible)
        <3>1. n <= Sellable(s)
            BY <1>6 DEF ExecuteFill, Tradable
        <3> QED  BY <3>1, TotalIs DEF Sellable, Eligible
    <2>2. sale.left = 0 /\ sale.tranches \in [Days -> Nat]
          /\ SumOf(sale.tranches, Days) + n = SumOf(lots[s], Days)
        BY <1>1, <2>1, SaleShape
    <2>3. lots' = [lots EXCEPT ![s] = sale.tranches]
        BY <1>6 DEF ExecuteFill
    <2>4. positions' = [positions EXCEPT ![s] = Total(sale.tranches, Days)]
        BY <1>6, <2>2 DEF ExecuteFill
    <2> HIDE DEF sale
    <2>5. Total(sale.tranches, Days) = SumOf(sale.tranches, Days)
        BY TotalIs
    <2>6. \A d \in Days : sale.tranches[d] \in Nat
        BY <2>2
    <2>7. SumOf(sale.tranches, Days) \in Nat
        BY <1>2, <2>6, SumNat
    <2>8. Moved(ledger[o].side, s, n, sale.tranches)
        BY <1>4, <1>6, <2>2, <2>3, <2>4, <2>5, <2>7 DEF Moved
    <2> QED  BY <2>2, <2>8 DEF sale
<1> QED  BY <1>1, <1>5, <1>6

\* What a fill does, in the terms of the lemmas above.
LEMMA ExecuteFillShape ==
    ASSUME IInv, NEW o \in queue, NEW economic \in EconomicTargets(o), NEW n \in 1..MaxShares,
           NEW turn \in Turns, ExecuteFill(o, economic, n, turn)
    PROVE  \E row \in AccountOrder, l \in [Days -> Nat] :
              /\ ledger' = [ledger EXCEPT ![o] = row]
              /\ RowAgrees(row) /\ row.reason # Freeze
              /\ row.symbol = ledger[o].symbol /\ row.side = ledger[o].side
              /\ row.submitted = ledger[o].submitted /\ row.filled >= ledger[o].filled
              /\ row.filled = ledger[o].filled + n /\ row.updated = day
              /\ row.replacedBy = ledger[o].replacedBy
              /\ DOMAIN pending' = IF Live(row) THEN DOMAIN pending ELSE DOMAIN pending \ {o}
              /\ pending' \in [DOMAIN pending' -> Nat]
              /\ \A p \in DOMAIN pending \ {o} : pending'[p] = pending[p]
              /\ Live(row) => pending'[o] = row.remaining
              /\ fills' = fills \cup {[order |-> o, day |-> day, shares |-> n, id |-> 0]}
              /\ Moved(ledger[o].side, ledger[o].symbol, n, l)
              /\ queue' = queue \ {o}
              /\ UNCHANGED <<day, nextSeq, phase, handoff>>
<1> DEFINE target == TargetRequested(o, economic)
           row == FilledRow(ledger[o], n, target, economic)
<1>1. target \in Nat /\ economic \in Nat /\ n \in Nat \ {0} /\ n <= target
  BY TargetShape, BoundsAssumption DEF ExecuteFill, Tradable
<1>2. PICK l \in [Days -> Nat] :
          /\ Moved(ledger[o].side, ledger[o].symbol, n, l)
          /\ ledger[o].side = "SELL" => Consumed(lots[ledger[o].symbol], n, turn).left = 0
  BY FillMoves
<1>3. ledger[o].side \in {"BUY", "SELL"}
  BY ServedOrder DEF AccountOrder, Sides
<1>4. /\ ledger' = [ledger EXCEPT ![o] = row]
      /\ IF Live(row) THEN pending' = [pending EXCEPT ![o] = target - n]
         ELSE pending' = [p \in DOMAIN pending \ {o} |-> pending[p]]
      /\ fills' = fills \cup {[order |-> o, day |-> day, shares |-> n, id |-> 0]}
      /\ queue' = queue \ {o}
      /\ UNCHANGED <<day, nextSeq, phase, handoff>>
  BY <1>2, <1>3 DEF ExecuteFill, Served, Dropped
<1> HIDE DEF target
<1>5. /\ row \in AccountOrder /\ RowAgrees(row) /\ row.reason # Freeze
      /\ row.symbol = ledger[o].symbol /\ row.side = ledger[o].side
      /\ row.submitted = ledger[o].submitted
      /\ row.remaining = target - n /\ row.filled = ledger[o].filled + n
      /\ row.updated = day /\ row.replacedBy = ledger[o].replacedBy
  BY <1>1, ServedOrder, FilledRowShape
<1> HIDE DEF row
<1>6. row.filled >= ledger[o].filled
  <2>1. ledger[o].filled \in Nat
    BY ServedOrder DEF AccountOrder
  <2> QED
    BY <1>1, <1>5, <2>1
<1>7. /\ DOMAIN pending' = IF Live(row) THEN DOMAIN pending ELSE DOMAIN pending \ {o}
      /\ \A p \in DOMAIN pending \ {o} : pending'[p] = pending[p]
      /\ Live(row) => pending'[o] = row.remaining
      /\ pending' \in [DOMAIN pending' -> Nat]
  <2>1. target - n \in Nat /\ o \in DOMAIN pending /\ pending \in [DOMAIN pending -> Nat]
    BY <1>1, ServedOrder
  <2> QED
    BY <1>4, <1>5, <2>1
<1> QED
  BY <1>2, <1>4, <1>5, <1>6, <1>7

\* A fill keeps the invariant.
LEMMA ExecuteFillKeepsIInv ==
    ASSUME IInv, NEW o \in queue, NEW economic \in EconomicTargets(o), NEW n \in 1..MaxShares,
           NEW turn \in Turns, ExecuteFill(o, economic, n, turn)
    PROVE  IInv'
<1>1. PICK row \in AccountOrder, l \in [Days -> Nat] :
        /\ ledger' = [ledger EXCEPT ![o] = row]
        /\ RowAgrees(row) /\ row.reason # Freeze
        /\ row.symbol = ledger[o].symbol /\ row.side = ledger[o].side
        /\ row.submitted = ledger[o].submitted
        /\ DOMAIN pending' = IF Live(row) THEN DOMAIN pending ELSE DOMAIN pending \ {o}
        /\ pending' \in [DOMAIN pending' -> Nat]
        /\ \A p \in DOMAIN pending \ {o} : pending'[p] = pending[p]
        /\ Live(row) => pending'[o] = row.remaining
        /\ fills' = fills \cup {[order |-> o, day |-> day, shares |-> n, id |-> 0]}
        /\ Moved(ledger[o].side, ledger[o].symbol, n, l)
        /\ queue' = queue \ {o}
        /\ UNCHANGED <<day, nextSeq, phase, handoff>>
  BY ExecuteFillShape
<1>2. fills' \subseteq Fill
  <2>1. n \in Nat \ {0}
    BY BoundsAssumption
  <2> QED
    BY <1>1, <2>1, ServedOrder DEF Fill
<1>3. LedgerInv'
  BY <1>1, <1>2, ServedOrder, RowUpdateKeepsLedgerInv DEF IInv
<1>4. lots' \in [Symbols -> [Days -> Nat]] /\ positions' \in [Symbols -> Nat]
  <2>1. n \in Nat /\ ledger[o].symbol \in Symbols
    BY ServedOrder, BoundsAssumption DEF AccountOrder
  <2>2. lots' \in [Symbols -> [Days -> Nat]]
    BY <1>1 DEF IInv, TypeOK, Moved
  <2>3. positions[ledger[o].symbol] + n \in Nat
    BY <2>1 DEF IInv, TypeOK
  <2>4. positions' \in [Symbols -> Nat]
    BY <1>1, <2>3 DEF IInv, TypeOK, Moved
  <2> QED
    BY <2>2, <2>4
<1>5. TypeOK'
  BY <1>1, <1>3, <1>4 DEF IInv, TypeOK, LedgerInv
<1> QED
  BY <1>3, <1>5 DEF IInv

\* The decision at the close keeps the invariant.
LEMMA DecideKeepsIInv == ASSUME IInv, Decide PROVE IInv'
<1>1. PICK kept \in SUBSET DOMAIN pending, fresh \in FreshBatches, freeze \in BOOLEAN :
          Reconcile(kept, fresh, freeze)
  BY DEF Decide
<1>2. /\ phase' = "closed" /\ handoff' \in BOOLEAN /\ queue = {}
      /\ UNCHANGED <<day, queue, positions, lots>>
  BY DEF Decide, holding
<1>3. LedgerInv'
  BY <1>1, <1>2, ReconcileKeepsLedgerInv DEF IInv
<1>4. TypeOK'
  BY <1>2, <1>3 DEF IInv, TypeOK, LedgerInv
<1> QED
  BY <1>3, <1>4 DEF IInv

\* A new session keeps the invariant: it queues every pending order.
LEMMA NextSessionKeepsIInv == ASSUME IInv, NextSession PROVE IInv'
<1>1. /\ day' = day + 1 /\ day' \in Days /\ day \in Nat /\ day' \in Nat
      /\ phase' = "open" /\ queue' = DOMAIN pending
      /\ UNCHANGED <<ledger, pending, nextSeq, fills, positions, lots, handoff>>
  BY BoundsAssumption DEF NextSession, holding, IInv, LedgerInv, LedgerTypeOK, Days
<1>2. LedgerTypeOK'
  BY <1>1 DEF IInv, LedgerInv, LedgerTypeOK
<1>3. RowsAgree'
  <2>1. \A o \in DOMAIN ledger : ledger[o] \in AccountOrder
    BY DEF IInv, LedgerInv, LedgerTypeOK
  <2>2. \A o \in DOMAIN ledger : ledger[o].submitted \in Nat
    BY <2>1 DEF AccountOrder, Days
  <2>3. \A o \in DOMAIN ledger : RowAgrees(ledger[o]) /\ ledger[o].submitted <= day + 1
    BY <1>1, <2>2 DEF IInv, LedgerInv, RowsAgree
  <2> QED
    BY <1>1, <2>3 DEF RowsAgree, RowAgrees
<1>4. PendingAgrees(ledger, pending)' /\ FreezeOnlyBuys' /\ LiveOrdersTracked' /\ NoOverlap'
  BY <1>1 DEF IInv, LedgerInv, PendingAgrees, FreezeOnlyBuys, LiveOrdersTracked, NoOverlap,
              Live, AwaitingCancel
<1>5. LedgerInv'
  BY <1>2, <1>3, <1>4 DEF LedgerInv
<1> QED
  BY <1>1, <1>5 DEF IInv, TypeOK, LedgerInv

\* An account starts with no orders and no lots.
LEMMA IInvInit == Init => IInv
<1> SUFFICES ASSUME Init PROVE IInv
  OBVIOUS
<1>1. LedgerInv
  BY LedgerInvInit DEF Init
<1>2. TypeOK
  BY <1>1 DEF Init, TypeOK, LedgerInv
<1> QED
  BY <1>1, <1>2 DEF IInv

\* Every step keeps the invariant.
LEMMA IInvNext == IInv /\ [Next]_vars => IInv'
<1> SUFFICES ASSUME IInv, [Next]_vars PROVE IInv'
  OBVIOUS
<1>1. CASE \E o \in queue : Serve(o)
  <2>1. PICK o \in queue : Serve(o)
    BY <1>1
  <2>2. CASE Hold(o)
    BY <2>2, HoldKeepsIInv
  <2>3. CASE \E t \in EconomicTargets(o) : Resize(o, t)
    BY <2>3, ResizeKeepsIInv
  <2>4. CASE Satisfied(o)
    BY <2>4, SatisfiedKeepsIInv
  <2>5. CASE Trades(o)
    BY <2>5, ExecuteFillKeepsIInv DEF Trades
  <2> QED
    BY <2>1, <2>2, <2>3, <2>4, <2>5 DEF Serve
<1>2. CASE Decide
  BY <1>2, DecideKeepsIInv
<1>3. CASE NextSession
  BY <1>3, NextSessionKeepsIInv
<1>4. CASE UNCHANGED vars
  BY <1>4 DEF vars, holding, IInv, TypeOK, LedgerInv, LedgerTypeOK, RowsAgree, RowAgrees, PendingAgrees,
              FreezeOnlyBuys, LiveOrdersTracked, NoOverlap, Live, AwaitingCancel
<1> QED
  BY <1>1, <1>2, <1>3, <1>4 DEF Next, Serve, Trades, Finished

\* The inductive invariant holds in every reachable state.
THEOREM Inductive == Spec => []IInv
<1> QED
  BY IInvInit, IInvNext, PTL DEF Spec

\* Types: account_state and the auction stay within their domains.
THEOREM TypeCorrect == Spec => []TypeOK
<1>1. IInv => TypeOK
  BY DEF IInv
<1> QED
  BY <1>1, Inductive, PTL

\* Reconciliation and the auction forget no live order and execute none whose cancellation
\* is outstanding.
THEOREM Tracked == Spec => []LiveOrdersTracked
<1>1. IInv => LiveOrdersTracked
  BY DEF IInv, LedgerInv
<1> QED
  BY <1>1, Inductive, PTL

\* No decision, whatever it keeps, drops and adds, leaves two live instructions of a symbol
\* on one side.
THEOREM Disjoint == Spec => []NoOverlap
<1>1. IInv => NoOverlap
  BY DEF IInv, LedgerInv
<1> QED
  BY <1>1, Inductive, PTL

\* _registered_remainder_request always finds a positive remainder that agrees with the row.
THEOREM Resumable == Spec => []RemainderResumable
<1>1. IInv => RemainderResumable
  <2> SUFFICES ASSUME IInv, NEW o \in DOMAIN pending, KeepsRemainder(o)
               PROVE  /\ ledger[o].requested > ledger[o].filled
                      /\ ledger[o].remaining = ledger[o].requested - ledger[o].filled
    BY DEF RemainderResumable
  <2>1. ledger[o] \in AccountOrder /\ RowAgrees(ledger[o]) /\ Live(ledger[o])
    BY DEF IInv, LedgerInv, LedgerTypeOK, RowsAgree, PendingAgrees
  <2>2. ledger[o].filled > 0
    BY DEF KeepsRemainder
  <2>3. ledger[o].remaining > 0
    BY <2>1, <2>2, LiveRow
  <2> QED
    BY <2>1, <2>3 DEF AccountOrder, RowAgrees
<1> QED
  BY <1>1, Inductive, PTL

\* What a step that adds fills is: the execution of one queued order.
LEMMA NewFill ==
    ASSUME IInv, Next, NEW f \in fills' \ fills
    PROVE  /\ f.order \in queue
           /\ Trades(f.order)
<1>1. PICK o \in queue : Trades(o)
  BY DEF Next, Trades, Hold, Resize, Satisfied, Decide, Reconcile, NextSession, Finished, vars
<1>2. PICK t \in EconomicTargets(o), n \in 1..MaxShares, turn \in Turns :
          ExecuteFill(o, t, n, turn)
  BY <1>1 DEF Trades
<1>3. fills' = fills \cup {[order |-> o, day |-> day, shares |-> n, id |-> 0]}
  BY <1>2, ExecuteFillShape
<1> QED
  BY <1>1, <1>3

\* A purchase of a hand-off waits for its sale.
THEOREM HandoffFunded == Spec => HandoffSellFunded
<1> DEFINE A == (handoff /\ \E p \in DOMAIN pending : ledger[p].side = "SELL" /\ p \in DOMAIN pending')
                    => \A f \in fills' \ fills : ledger[f.order].side = "SELL"
<1>1. IInv /\ [Next]_vars => [A]_vars
  <2> SUFFICES ASSUME IInv, Next, handoff, NEW p \in DOMAIN pending, ledger[p].side = "SELL",
                      NEW f \in fills' \ fills
               PROVE  ledger[f.order].side = "SELL"
    OBVIOUS
  <2>1. Turn(f.order) /\ ~HandoffHeld(f.order)
    BY NewFill DEF Trades, ExecuteFill, Executable
  <2>2. f.order \in queue /\ ledger[f.order].side \in Sides
    BY NewFill, ServedOrder DEF AccountOrder
  <2>3. ledger[f.order].side # "BUY"
    BY <2>1 DEF Turn, HandoffHeld
  <2> QED
    BY <2>2, <2>3 DEF Sides
<1> QED
  BY <1>1, Inductive, PTL DEF Spec, HandoffSellFunded

\* A symbol is not bought while the cancellation of one of its BUYs is outstanding.
THEOREM FrozenNotBought == Spec => FrozenSymbolNotBought
<1> DEFINE A == \A f \in fills' \ fills : \A o \in DOMAIN ledger :
                    (ledger[f.order].side = "BUY" /\ AwaitingCancel(ledger[o]))
                        => ledger[o].symbol # ledger[f.order].symbol
<1>1. IInv /\ [Next]_vars => [A]_vars
  <2> SUFFICES ASSUME IInv, Next, NEW f \in fills' \ fills, NEW o \in DOMAIN ledger,
                      ledger[f.order].side = "BUY", AwaitingCancel(ledger[o])
               PROVE  ledger[o].symbol # ledger[f.order].symbol
    OBVIOUS
  <2>1. f.order \in queue
    BY NewFill
  <2>2. f.order \in DOMAIN ledger /\ Live(ledger[f.order]) /\ ~AwaitingCancel(ledger[f.order])
    BY <2>1, ServedOrder
  <2>3. Live(ledger[o]) /\ ledger[o].side = "BUY"
    BY DEF AwaitingCancel
  <2>4. NoOverlap
    BY DEF IInv, LedgerInv
  <2> QED
    BY <2>2, <2>3, <2>4 DEF NoOverlap
<1> QED
  BY <1>1, Inductive, PTL DEF Spec, FrozenSymbolNotBought

\* Serving one order leaves every other row, and never takes shares back.
LEMMA ServeAdvances == ASSUME IInv, NEW o \in queue, Serve(o) PROVE LedgerAdvances
<1>1. /\ o \in DOMAIN ledger /\ ledger[o] \in AccountOrder /\ Live(ledger[o])
      /\ ledger \in [1..(nextSeq - 1) -> AccountOrder]
  BY ServedOrder DEF IInv, LedgerInv, LedgerTypeOK
<1>2. \A p \in DOMAIN ledger : ledger[p].filled \in Nat
  BY <1>1 DEF AccountOrder
<1>3. PICK row : /\ ledger' = [ledger EXCEPT ![o] = row]
                 /\ row.symbol = ledger[o].symbol /\ row.side = ledger[o].side
                 /\ row.filled >= ledger[o].filled
  <2>1. CASE Hold(o)
    <3>1. ledger' = [ledger EXCEPT ![o] =
             [ledger[o] EXCEPT !.status = ActiveStatus(ledger[o]), !.updated = day, !.event = "HELD"]]
      BY <2>1, ServedOrder DEF Hold
    <3> DEFINE row == [ledger[o] EXCEPT !.status = ActiveStatus(ledger[o]), !.updated = day,
                                        !.event = "HELD"]
    <3>2. row.symbol = ledger[o].symbol /\ row.side = ledger[o].side /\ row.filled >= ledger[o].filled
      BY <1>1, <1>2 DEF AccountOrder
    <3> QED
      BY <3>1, <3>2
  <2>2. CASE \E t \in EconomicTargets(o) : Resize(o, t)
    <3>1. PICK t \in EconomicTargets(o) : Resize(o, t)
      BY <2>2
    <3> DEFINE row == [ledger[o] EXCEPT !.requested = ledger[o].filled + TargetRequested(o, t),
                           !.remaining = TargetRequested(o, t), !.status = ActiveStatus(ledger[o]),
                           !.updated = day, !.event = "RESIZED"]
    <3>2. ledger' = [ledger EXCEPT ![o] = row]
      BY <1>1, <3>1 DEF Resize
    <3>3. row.symbol = ledger[o].symbol /\ row.side = ledger[o].side /\ row.filled >= ledger[o].filled
      BY <1>1, <1>2 DEF AccountOrder
    <3> QED
      BY <3>2, <3>3
  <2>3. CASE Satisfied(o)
    <3> DEFINE row == [ledger[o] EXCEPT !.status = "CANCELLED", !.reason = "target already satisfied",
                                        !.updated = day, !.event = "ZERO_REQUEST"]
    <3>1. ledger' = [ledger EXCEPT ![o] = row]
      BY <1>1, <2>3 DEF Satisfied
    <3>2. row.symbol = ledger[o].symbol /\ row.side = ledger[o].side /\ row.filled >= ledger[o].filled
      BY <1>1, <1>2 DEF AccountOrder
    <3> QED
      BY <3>1, <3>2
  <2>4. CASE Trades(o)
    BY <2>4, ExecuteFillShape DEF Trades
  <2> QED
    BY <2>1, <2>2, <2>3, <2>4 DEF Serve
<1> QED
  BY <1>1, <1>2, <1>3 DEF LedgerAdvances

\* Every step of the replay advances the ledger or leaves it alone.
LEMMA NextAdvances == ASSUME IInv, [Next]_vars PROVE LedgerAdvances
<1>1. CASE \E o \in queue : Serve(o)
  BY <1>1, ServeAdvances
<1>2. CASE Decide
  <2>1. PICK kept \in SUBSET DOMAIN pending, fresh \in FreshBatches, freeze \in BOOLEAN :
            Reconcile(kept, fresh, freeze)
    BY <1>2 DEF Decide
  <2>2. day' = day
    BY <1>2 DEF Decide
  <2> QED
    BY <2>1, <2>2, ReconcileAdvances DEF IInv
<1>3. CASE ledger' = ledger
  <2>1. \A o \in DOMAIN ledger : ledger[o].filled \in Nat
    BY DEF IInv, LedgerInv, LedgerTypeOK, AccountOrder
  <2> QED
    BY <1>3, <2>1 DEF LedgerAdvances
<1> QED
  BY <1>1, <1>2, <1>3 DEF Next, Serve, Trades, NextSession, Finished, vars

\* The session invariant: every fill names a registered order and is not in the future, and
\* an order still in the queue is of another symbol than everything that traded today.
SessionInv ==
    /\ \A f \in fills : f.order \in DOMAIN ledger /\ f.day <= day
    /\ \A f \in fills, o \in queue : f.day = day => ledger[f.order].symbol # ledger[o].symbol
    /\ OneDirectionPerSession

\* A step that trades nothing and stays in the session keeps the session invariant.
LEMMA QuietStepKeepsSession ==
    ASSUME IInv, SessionInv, LedgerAdvances, fills' = fills, day' = day, queue' \subseteq queue
    PROVE  SessionInv'
<1>1. queue \subseteq DOMAIN ledger
  BY DEF IInv, TypeOK, LedgerTypeOK
<1> QED
  BY <1>1 DEF SessionInv, OneDirectionPerSession, LedgerAdvances

\* A fill keeps the session invariant: its order leaves the queue, and no other order of its
\* symbol is in it.
LEMMA FillKeepsSession ==
    ASSUME IInv, SessionInv, LedgerAdvances, NEW o \in queue, NEW n,
           fills' = fills \cup {[order |-> o, day |-> day, shares |-> n, id |-> 0]},
           day' = day, queue' = queue \ {o}
    PROVE  SessionInv'
<1> DEFINE new == [order |-> o, day |-> day, shares |-> n, id |-> 0]
<1>1. o \in DOMAIN ledger /\ day \in Nat /\ new.order = o /\ new.day = day
  BY ServedOrder
<1>2. queue \subseteq DOMAIN pending /\ queue \subseteq DOMAIN ledger
  BY DEF IInv, TypeOK, LedgerTypeOK
<1>3. \A p \in DOMAIN ledger : /\ p \in DOMAIN ledger'
                               /\ ledger'[p].symbol = ledger[p].symbol
                               /\ ledger'[p].side = ledger[p].side
  BY DEF LedgerAdvances
<1>4. \A f \in fills' : f.order \in DOMAIN ledger /\ f.day <= day
  BY <1>1 DEF SessionInv
<1>5. \A f \in fills', p \in queue' : f.day = day => ledger[f.order].symbol # ledger[p].symbol
  <2> SUFFICES ASSUME NEW f \in fills', NEW p \in queue', f.day = day
               PROVE  ledger[f.order].symbol # ledger[p].symbol
    OBVIOUS
  <2>1. CASE f \in fills
    BY <2>1 DEF SessionInv
  <2>2. CASE f = new
    BY <1>1, <1>2, <2>2 DEF IInv, LedgerInv, NoOverlap
  <2> QED
    BY <2>1, <2>2
<1>6. \A f, g \in fills' :
         (f.day = g.day /\ ledger[f.order].symbol = ledger[g.order].symbol)
            => ledger[f.order].side = ledger[g.order].side
  <2> SUFFICES ASSUME NEW f \in fills', NEW g \in fills', f.day = g.day,
                      ledger[f.order].symbol = ledger[g.order].symbol
               PROVE  ledger[f.order].side = ledger[g.order].side
    OBVIOUS
  <2>1. CASE f \in fills /\ g \in fills
    BY <2>1 DEF SessionInv, OneDirectionPerSession
  <2>2. CASE f = new /\ g \in fills
    BY <1>1, <2>2 DEF SessionInv
  <2>3. CASE f \in fills /\ g = new
    BY <1>1, <2>3 DEF SessionInv
  <2>4. CASE f = new /\ g = new
    BY <2>4
  <2> QED
    BY <2>1, <2>2, <2>3, <2>4
<1>7. (\A f \in fills : f.order \in DOMAIN ledger /\ f.day <= day)'
  BY <1>3, <1>4
<1>8. (\A f \in fills, p \in queue : f.day = day => ledger[f.order].symbol # ledger[p].symbol)'
  BY <1>2, <1>3, <1>4, <1>5
<1>9. OneDirectionPerSession'
  BY <1>3, <1>4, <1>6 DEF OneDirectionPerSession
<1> QED
  BY <1>7, <1>8, <1>9 DEF SessionInv

\* A new session keeps the session invariant: nothing has traded in it yet.
LEMMA NextSessionKeepsSession == ASSUME IInv, SessionInv, NextSession PROVE SessionInv'
<1>1. day' = day + 1 /\ day \in Nat /\ ledger' = ledger /\ fills' = fills
  BY DEF NextSession, IInv, LedgerInv, LedgerTypeOK, Days
<1>2. \A f \in fills : f.day \in Nat
  BY DEF IInv, TypeOK, LedgerTypeOK, Fill, Days
<1>3. \A f \in fills : f.order \in DOMAIN ledger /\ f.day <= day
  BY DEF SessionInv
<1>4. \A f \in fills : f.day <= day + 1 /\ f.day # day + 1
  BY <1>1, <1>2, <1>3
<1> QED
  BY <1>1, <1>3, <1>4 DEF SessionInv, OneDirectionPerSession

\* Every step keeps the session invariant.
LEMMA SessionInvNext == IInv /\ SessionInv /\ [Next]_vars => SessionInv'
<1> SUFFICES ASSUME IInv, SessionInv, [Next]_vars PROVE SessionInv'
  OBVIOUS
<1>1. LedgerAdvances
  BY NextAdvances
<1>2. CASE \E o \in queue : Hold(o) \/ (\E t \in EconomicTargets(o) : Resize(o, t)) \/ Satisfied(o)
  <2>1. fills' = fills /\ day' = day /\ queue' \subseteq queue
    BY <1>2 DEF Hold, Resize, Satisfied, Served
  <2> QED
    BY <1>1, <2>1, QuietStepKeepsSession
<1>3. CASE \E o \in queue : Trades(o)
  <2>1. PICK o \in queue : Trades(o)
    BY <1>3
  <2>2. PICK t \in EconomicTargets(o), n \in 1..MaxShares, turn \in Turns :
            ExecuteFill(o, t, n, turn)
    BY <2>1 DEF Trades
  <2>3. /\ fills' = fills \cup {[order |-> o, day |-> day, shares |-> n, id |-> 0]}
        /\ day' = day /\ queue' = queue \ {o}
    BY <2>2, ExecuteFillShape
  <2> QED
    BY <1>1, <2>3, FillKeepsSession
<1>4. CASE Decide
  <2>1. fills' = fills /\ day' = day /\ queue' = queue
    BY <1>4 DEF Decide, Reconcile
  <2> QED
    BY <1>1, <2>1, QuietStepKeepsSession
<1>5. CASE NextSession
  BY <1>5, NextSessionKeepsSession
<1>6. CASE UNCHANGED vars
  <2>1. fills' = fills /\ day' = day /\ queue' = queue
    BY <1>6 DEF vars
  <2> QED
    BY <1>1, <2>1, QuietStepKeepsSession
<1> QED
  BY <1>2, <1>3, <1>4, <1>5, <1>6 DEF Next, Trades, Finished

\* The two invariants together are inductive.
LEMMA SessionInductive == Spec => [](IInv /\ SessionInv)
<1>1. Init => IInv /\ SessionInv
  BY IInvInit DEF Init, LedgerInit, SessionInv, OneDirectionPerSession
<1> QED
  BY <1>1, IInvNext, SessionInvNext, PTL DEF Spec

\* No symbol is both bought and sold in one session.
THEOREM OneDirection == Spec => []OneDirectionPerSession
<1>1. SessionInv => OneDirectionPerSession
  BY DEF SessionInv
<1> QED
  BY <1>1, SessionInductive, PTL

--------------------------------------------------------------------------------
(* Fills, filled shares and tranches *)

\* The shares of a set of fills, and what they are in terms of SumOf.
SharesSum(h, S) ==
    h = [s \in SUBSET S |->
            IF s = {} THEN 0 ELSE First(s).shares + h[s \ {First(s)}]]
SumShares(S) == (CHOOSE h : SharesSum(h, S))[S]

LEMMA FilledSharesAre ==
    ASSUME NEW o, NEW deals
    PROVE  FilledShares(o, deals) = SumShares({f \in deals : f.order = o})
BY DEF FilledShares, MapThenSumSet, MapThenFoldSet, SumShares, SharesSum, First

FillsOf(s, side) == {f \in fills : ledger[f.order].symbol = s /\ ledger[f.order].side = side}

LEMMA FilledLotsAre ==
    ASSUME NEW s, NEW side
    PROVE  /\ FilledLots(s, side) = SumShares(FillsOf(s, side))
           /\ FilledLots(s, side)' = SumShares(FillsOf(s, side)')
BY DEF FilledLots, FillsOf, MapThenSumSet, MapThenFoldSet, SumShares, SharesSum, First

LEMMA SharesAre ==
    ASSUME NEW S, IsFiniteSet(S)
    PROVE  SumShares(S) = SumOf([f \in S |-> f.shares], S)
<1> DEFINE w == [f \in S |-> f.shares]
<1>1. \A s \in SUBSET S : s # {} => w[First(s)] = First(s).shares
    <2>1. \A s \in SUBSET S : s # {} => First(s) \in S
        BY DEF First
    <2> QED  BY <2>1
<1>2. \A h : SharesSum(h, S) <=> Sums(h, w, S)
    <2> TAKE h
    <2> DEFINE a == [s \in SUBSET S |->
                        IF s = {} THEN 0 ELSE First(s).shares + h[s \ {First(s)}]]
               b == [s \in SUBSET S |->
                        IF s = {} THEN 0 ELSE w[First(s)] + h[s \ {First(s)}]]
    <2> HIDE DEF w
    <2>1. a = b
        BY <1>1
    <2> QED  BY <2>1 DEF SharesSum, Sums
<1> HIDE DEF w
<1> DEFINE g == CHOOSE h : SharesSum(h, S)
<1>3. SharesSum(g, S)
    BY <1>2, SumsExist
<1>4. PICK h : Sums(h, w, S) /\ SumOf(w, S) = h[S]
    BY SumExists
<1>5. Sums(g, w, S)
    BY <1>2, <1>3
<1>6. SumShares(S) = g[S]
    BY DEF SumShares
<1> HIDE DEF g
<1>7. SumShares(S) = SumOf(w, S)
    BY <1>4, <1>5, <1>6, SumsUnique
<1> QED  BY <1>7 DEF w

LEMMA SharesAdd ==
    ASSUME NEW S, IsFiniteSet(S), NEW f, f \notin S, \A g \in S \cup {f} : g.shares \in Nat
    PROVE  SumShares(S \cup {f}) = f.shares + SumShares(S) /\ SumShares(S) \in Nat
<1> DEFINE T == S \cup {f}
           v == [g \in S |-> g.shares]
           w == [g \in T |-> g.shares]
<1>1. IsFiniteSet(T)
    BY FS_AddElement
<1>2. w[f] = f.shares /\ (\A g \in T : w[g] \in Nat) /\ \A g \in S : v[g] = w[g] /\ v[g] \in Nat
    OBVIOUS
<1>3. SumShares(T) = SumOf(w, T) /\ SumShares(S) = SumOf(v, S)
    BY <1>1, SharesAre
<1> HIDE DEF v, w
<1>4. SumOf(w, T) = w[f] + SumOf(w, S)
    BY <1>2, SumAdd
<1>5. SumOf(v, S) = SumOf(w, S) /\ SumOf(v, S) \in Nat
    BY <1>2, SumSame, SumNat
<1> QED  BY <1>2, <1>3, <1>4, <1>5

LEMMA SharesNone == SumShares({}) = 0
BY SharesAre, FS_EmptySet, SumEmpty

\* What the validator asks of the fills, with the tranches that the fills leave.
FillsInv ==
    /\ IsFiniteSet(fills)
    /\ \A o \in DOMAIN ledger : ledger[o].replacedBy \in DOMAIN ledger \cup {0}
    /\ FillsAgree(ledger, fills)
    /\ LotsReconcile

\* What a step does to the rows that neither trade nor are new: it may move their date to
\* the current session and name an order that replaces them.
RowsKept(rows) ==
    \A o \in rows :
        /\ o \in DOMAIN ledger'
        /\ ledger'[o].filled = ledger[o].filled
        /\ ledger'[o].submitted = ledger[o].submitted
        /\ ledger'[o].updated \in {ledger[o].updated, day}
        /\ ledger'[o].replacedBy \in {ledger[o].replacedBy} \cup DOMAIN ledger'

\* Of a fill of the account, and of the rows, what the earlier invariants say.
LEMMA FillFields ==
    ASSUME IInv, SessionInv, NEW f \in fills
    PROVE  /\ f.shares \in Nat /\ f.order \in DOMAIN ledger
           /\ f.day \in Nat /\ f.day <= day /\ day \in Nat
BY DEF IInv, TypeOK, LedgerTypeOK, SessionInv, Fill, Days

\* Without a fill, and with the holdings left alone, the fills still agree.
LEMMA QuietStepKeepsFills ==
    ASSUME IInv, SessionInv, FillsInv, LedgerAdvances, RowsKept(DOMAIN ledger),
           fills' = fills, positions' = positions, lots' = lots, phase' # "raised",
           \A o \in DOMAIN ledger' \ DOMAIN ledger : ledger'[o].replacedBy = 0
    PROVE  FillsInv'
<1>1. DOMAIN ledger \subseteq DOMAIN ledger'
    BY DEF LedgerAdvances
<1>2. \A o \in DOMAIN ledger' : ledger'[o].replacedBy \in DOMAIN ledger' \cup {0}
    BY <1>1 DEF FillsInv, RowsKept
<1>3. \A o \in DOMAIN ledger' : FilledShares(o, fills) = ledger'[o].filled
    <2> SUFFICES ASSUME NEW o \in DOMAIN ledger'
                 PROVE  FilledShares(o, fills) = ledger'[o].filled
        OBVIOUS
    <2>1. CASE o \in DOMAIN ledger
        BY <2>1 DEF FillsInv, FillsAgree, RowsKept
    <2>2. CASE o \notin DOMAIN ledger
        <3>1. {f \in fills : f.order = o} = {}
            BY <2>2, FillFields
        <3>2. FilledShares(o, fills) = 0
            BY <3>1, FilledSharesAre, SharesNone
        <3>3. ledger'[o].filled = 0
            BY <2>2 DEF LedgerAdvances
        <3> QED  BY <3>2, <3>3
    <2> QED  BY <2>1, <2>2
<1>4. \A f \in fills : /\ f.order \in DOMAIN ledger'
                       /\ f.day > ledger'[f.order].submitted
                       /\ f.day <= ledger'[f.order].updated
    BY FillFields DEF FillsInv, FillsAgree, RowsKept
<1>5. FillsAgree(ledger, fills)'
    <2>1. (\A o \in DOMAIN ledger : FilledShares(o, fills) = ledger[o].filled)'
        BY <1>3
    <2> QED  BY <1>4, <2>1 DEF FillsAgree
<1>6. LotsReconcile'
    <2>2. ASSUME NEW s, NEW side PROVE FilledLots(s, side)' = FilledLots(s, side)
        <3>1. FillsOf(s, side)' = FillsOf(s, side)
            BY FillFields DEF LedgerAdvances, FillsOf
        <3>2. /\ FilledLots(s, side) = SumShares(FillsOf(s, side))
              /\ FilledLots(s, side)' = SumShares(FillsOf(s, side)')
            BY FilledLotsAre
        <3> QED  BY <3>1, <3>2
    <2> QED  BY <2>2 DEF FillsInv, LotsReconcile
<1> QED
    BY <1>2, <1>5, <1>6 DEF FillsInv

\* A fill adds its shares to its row, to the tranches of its symbol and to nothing else.
LEMMA FillKeepsFills ==
    ASSUME IInv, SessionInv, FillsInv, LedgerAdvances, NEW o \in queue,
           NEW economic \in EconomicTargets(o), NEW n \in 1..MaxShares,
           NEW turn \in Turns, ExecuteFill(o, economic, n, turn)
    PROVE  FillsInv'
<1>0. PICK row \in AccountOrder, l \in [Days -> Nat] :
          /\ ledger' = [ledger EXCEPT ![o] = row]
          /\ RowAgrees(row) /\ row.reason # Freeze
          /\ row.symbol = ledger[o].symbol /\ row.side = ledger[o].side
          /\ row.submitted = ledger[o].submitted /\ row.filled >= ledger[o].filled
          /\ row.filled = ledger[o].filled + n /\ row.updated = day
          /\ row.replacedBy = ledger[o].replacedBy
          /\ DOMAIN pending' = IF Live(row) THEN DOMAIN pending ELSE DOMAIN pending \ {o}
          /\ pending' \in [DOMAIN pending' -> Nat]
          /\ \A p \in DOMAIN pending \ {o} : pending'[p] = pending[p]
          /\ Live(row) => pending'[o] = row.remaining
          /\ fills' = fills \cup {[order |-> o, day |-> day, shares |-> n, id |-> 0]}
          /\ Moved(ledger[o].side, ledger[o].symbol, n, l)
          /\ queue' = queue \ {o}
          /\ UNCHANGED <<day, nextSeq, phase, handoff>>
    BY ExecuteFillShape
<1> DEFINE new == [order |-> o, day |-> day, shares |-> n, id |-> 0]
           s == ledger[o].symbol
           side == ledger[o].side
<1>1. /\ ledger' = [ledger EXCEPT ![o] = row]
      /\ row.symbol = s /\ row.side = side
      /\ row.submitted = ledger[o].submitted
      /\ row.filled = ledger[o].filled + n /\ row.updated = day
      /\ row.replacedBy = ledger[o].replacedBy
      /\ fills' = fills \cup {new}
      /\ Moved(side, s, n, l)
      /\ phase' = phase
    BY <1>0
<1>2. /\ o \in DOMAIN ledger /\ ledger[o] \in AccountOrder /\ day \in Nat
      /\ ledger \in [1..(nextSeq - 1) -> AccountOrder]
    BY ServedOrder DEF IInv, LedgerInv, LedgerTypeOK
<1>3. /\ n \in Nat /\ s \in Symbols /\ side \in Sides
      /\ lots \in [Symbols -> [Days -> Nat]] /\ positions \in [Symbols -> Nat]
    <2>1. n \in Nat
        BY BoundsAssumption
    <2>2. s \in Symbols /\ side \in Sides
        BY <1>2 DEF AccountOrder
    <2> QED  BY <2>1, <2>2 DEF IInv, TypeOK
<1>4. new.order = o /\ new.day = day /\ new.shares = n /\ new \notin fills
    <2>1. new.order = o /\ new.day = day /\ new.shares = n
        OBVIOUS
    <2>2. \A f \in fills : f.day = day => ledger[f.order].symbol # ledger[o].symbol
        BY DEF SessionInv
    <2> QED  BY <2>1, <2>2
<1> HIDE DEF new
<1>5. /\ DOMAIN ledger' = DOMAIN ledger /\ ledger'[o] = row
      /\ \A p \in DOMAIN ledger : p # o => ledger'[p] = ledger[p]
    BY <1>1, <1>2
<1>6. \A f \in fills : /\ f.shares \in Nat /\ f.order \in DOMAIN ledger
                       /\ f.day \in Nat /\ f.day <= day
    BY FillFields
<1>7. IsFiniteSet(fills) /\ IsFiniteSet(fills')
    BY <1>1, FS_AddElement DEF FillsInv
<1>8. \A p \in DOMAIN ledger' : ledger'[p].replacedBy \in DOMAIN ledger' \cup {0}
    BY <1>1, <1>2, <1>5 DEF FillsInv
<1>9. \A p \in DOMAIN ledger : FilledShares(p, fills') = ledger'[p].filled
    <2> SUFFICES ASSUME NEW p \in DOMAIN ledger
                 PROVE  FilledShares(p, fills') = ledger'[p].filled
        OBVIOUS
    <2> DEFINE before == {f \in fills : f.order = p}
               after == {f \in fills' : f.order = p}
    <2>1. SumShares(before) = ledger[p].filled /\ FilledShares(p, fills') = SumShares(after)
        BY FilledSharesAre DEF FillsInv, FillsAgree
    <2>2. CASE p = o
        <3>1. after = before \cup {new} /\ new \notin before
            BY <1>1, <1>4, <2>2
        <3>2. IsFiniteSet(before) /\ \A f \in before \cup {new} : f.shares \in Nat
            BY <1>3, <1>4, <1>6, <1>7, FS_Subset
        <3> HIDE DEF before, after
        <3>3. SumShares(after) = n + SumShares(before) /\ SumShares(before) \in Nat
            BY <1>4, <3>1, <3>2, SharesAdd
        <3> QED  BY <1>1, <1>3, <1>5, <2>1, <2>2, <3>3
    <2>3. CASE p # o
        <3>1. after = before
            BY <1>1, <1>4, <2>3
        <3> QED  BY <1>5, <2>1, <2>3, <3>1
    <2> QED  BY <2>2, <2>3
<1>10. \A f \in fills' : /\ f.order \in DOMAIN ledger'
                         /\ f.day > ledger'[f.order].submitted
                         /\ f.day <= ledger'[f.order].updated
    <2> SUFFICES ASSUME NEW f \in fills'
                 PROVE  /\ f.order \in DOMAIN ledger'
                        /\ f.day > ledger'[f.order].submitted
                        /\ f.day <= ledger'[f.order].updated
        OBVIOUS
    <2>1. CASE f \in fills
        <3>1. f.day > ledger[f.order].submitted /\ f.day <= ledger[f.order].updated
            BY <2>1 DEF FillsInv, FillsAgree
        <3>2. CASE f.order = o
            BY <1>1, <1>5, <1>6, <2>1, <3>1, <3>2
        <3>3. CASE f.order # o
            BY <1>5, <1>6, <2>1, <3>1, <3>3
        <3> QED  BY <3>2, <3>3
    <2>2. CASE f = new
        <3>1. ledger[o].submitted < day /\ ledger[o].submitted \in Nat
            BY <1>2 DEF ExecuteFill, Executable, AccountOrder, Days
        <3> QED  BY <1>1, <1>2, <1>4, <1>5, <2>2, <3>1
    <2> QED  BY <1>1, <2>1, <2>2
<1>11. FillsAgree(ledger, fills)'
    <2>1. (\A p \in DOMAIN ledger : FilledShares(p, fills) = ledger[p].filled)'
        BY <1>5, <1>9
    <2> QED  BY <1>10, <2>1 DEF FillsAgree
<1>12. ASSUME NEW t \in Symbols
       PROVE  /\ positions'[t] = Total(lots'[t], Days)
              /\ positions'[t] + FilledLots(t, "SELL")' = FilledLots(t, "BUY")'
    <2>1. ASSUME NEW d \in Sides
          PROVE  /\ FilledLots(t, d) \in Nat
                 /\ FilledLots(t, d)' = FilledLots(t, d) + (IF t = s /\ d = side THEN n ELSE 0)
        <3> DEFINE before == FillsOf(t, d)
                   after == FillsOf(t, d)'
        <3>1. FilledLots(t, d) = SumShares(before) /\ FilledLots(t, d)' = SumShares(after)
            BY FilledLotsAre
        <3>2. \A f \in fills : /\ ledger'[f.order].symbol = ledger[f.order].symbol
                               /\ ledger'[f.order].side = ledger[f.order].side
            BY <1>1, <1>5, <1>6
        <3>3. ledger'[new.order].symbol = s /\ ledger'[new.order].side = side
            BY <1>1, <1>4, <1>5
        <3>4. before \subseteq fills /\ new \notin before
            BY <1>4 DEF FillsOf
        <3>5. after = IF t = s /\ d = side THEN before \cup {new} ELSE before
            BY <1>1, <3>2, <3>3 DEF FillsOf
        <3> HIDE DEF before, after
        <3>6. IsFiniteSet(before) /\ \A f \in before \cup {new} : f.shares \in Nat
            BY <1>3, <1>4, <1>6, <1>7, <3>4, FS_Subset
        <3>7. SumShares(before \cup {new}) = n + SumShares(before) /\ SumShares(before) \in Nat
            BY <1>4, <3>4, <3>6, SharesAdd
        <3> QED  BY <1>3, <3>1, <3>5, <3>7
    <2>2. /\ positions[t] = SumOf(lots[t], Days)
          /\ positions[t] + FilledLots(t, "SELL") = FilledLots(t, "BUY")
        BY TotalIs DEF FillsInv, LotsReconcile
    <2>3. Total(lots'[t], Days) = SumOf(lots'[t], Days)
        BY TotalIs
    <2>4. "BUY" \in Sides /\ "SELL" \in Sides /\ side \in {"BUY", "SELL"}
        BY <1>3 DEF Sides
    <2>5. CASE t = s
        <3>1. lots'[t] = l
            BY <1>1, <1>3, <2>5 DEF Moved
        <3>2. positions'[t] = IF side = "BUY" THEN positions[t] + n ELSE SumOf(l, Days)
            BY <1>1, <1>3, <2>5 DEF Moved
        <3>3. /\ SumOf(lots[t], Days) \in Nat /\ SumOf(l, Days) \in Nat
              /\ IF side = "BUY" THEN SumOf(l, Days) = SumOf(lots[t], Days) + n
                 ELSE SumOf(l, Days) + n = SumOf(lots[t], Days)
            BY <1>1, <2>5 DEF Moved
        <3>4. CASE side = "BUY"
            BY <1>3, <2>1, <2>2, <2>3, <2>4, <2>5, <3>1, <3>2, <3>3, <3>4
        <3>5. CASE side = "SELL"
            BY <1>3, <2>1, <2>2, <2>3, <2>4, <2>5, <3>1, <3>2, <3>3, <3>5
        <3> QED  BY <2>4, <3>4, <3>5
    <2>6. CASE t # s
        <3>1. lots'[t] = lots[t] /\ positions'[t] = positions[t]
            BY <1>1, <1>3, <2>6 DEF Moved
        <3> QED  BY <2>1, <2>2, <2>3, <2>4, <2>6, <3>1
    <2> QED  BY <2>5, <2>6
<1>13. LotsReconcile'
    BY <1>1, <1>12 DEF FillsInv, LotsReconcile
<1> QED
    BY <1>7, <1>8, <1>11, <1>13 DEF FillsInv

\* An order that is held, resized or found satisfied keeps its fills.
LEMMA ServeKeepsRow ==
    ASSUME IInv, NEW o \in queue,
           Hold(o) \/ (\E t \in EconomicTargets(o) : Resize(o, t)) \/ Satisfied(o)
    PROVE  RowsKept(DOMAIN ledger) /\ DOMAIN ledger' = DOMAIN ledger
<1>1. /\ o \in DOMAIN ledger /\ ledger[o] \in AccountOrder
      /\ ledger \in [1..(nextSeq - 1) -> AccountOrder] /\ ~AwaitingCancel(ledger[o])
    BY ServedOrder DEF IInv, LedgerInv, LedgerTypeOK
<1>2. PICK row : /\ ledger' = [ledger EXCEPT ![o] = row]
                 /\ row.filled = ledger[o].filled /\ row.submitted = ledger[o].submitted
                 /\ row.updated = day /\ row.replacedBy = ledger[o].replacedBy
    <2>1. CASE Hold(o)
        <3> DEFINE row == [ledger[o] EXCEPT !.status = ActiveStatus(ledger[o]), !.updated = day,
                                            !.event = "HELD"]
        <3>1. ledger' = [ledger EXCEPT ![o] = row]
            BY <1>1, <2>1 DEF Hold
        <3>2. /\ row.filled = ledger[o].filled /\ row.submitted = ledger[o].submitted
              /\ row.updated = day /\ row.replacedBy = ledger[o].replacedBy
            BY <1>1 DEF AccountOrder
        <3> QED  BY <3>1, <3>2
    <2>2. CASE \E t \in EconomicTargets(o) : Resize(o, t)
        <3>1. PICK t \in EconomicTargets(o) : Resize(o, t)
            BY <2>2
        <3> DEFINE row == [ledger[o] EXCEPT !.requested = ledger[o].filled + TargetRequested(o, t),
                               !.remaining = TargetRequested(o, t),
                               !.status = ActiveStatus(ledger[o]), !.updated = day,
                               !.event = "RESIZED"]
        <3>2. ledger' = [ledger EXCEPT ![o] = row]
            BY <1>1, <3>1 DEF Resize
        <3>3. /\ row.filled = ledger[o].filled /\ row.submitted = ledger[o].submitted
              /\ row.updated = day /\ row.replacedBy = ledger[o].replacedBy
            BY <1>1 DEF AccountOrder
        <3> QED  BY <3>2, <3>3
    <2>3. CASE Satisfied(o)
        <3> DEFINE row == [ledger[o] EXCEPT !.status = "CANCELLED", !.updated = day,
                               !.reason = "target already satisfied", !.event = "ZERO_REQUEST"]
        <3>1. ledger' = [ledger EXCEPT ![o] = row]
            BY <1>1, <2>3 DEF Satisfied
        <3>2. /\ row.filled = ledger[o].filled /\ row.submitted = ledger[o].submitted
              /\ row.updated = day /\ row.replacedBy = ledger[o].replacedBy
            BY <1>1 DEF AccountOrder
        <3> QED  BY <3>1, <3>2
    <2> QED  BY <2>1, <2>2, <2>3
<1> QED  BY <1>1, <1>2 DEF RowsKept

\* A decision fills nothing, and an order it replaces names one that is in the ledger.
LEMMA ReconcileKeepsRows ==
    ASSUME LedgerInv, day' = day,
           NEW kept \in SUBSET DOMAIN pending, NEW fresh \in FreshBatches, NEW freeze \in BOOLEAN,
           Reconcile(kept, fresh, freeze)
    PROVE  /\ RowsKept(DOMAIN ledger)
           /\ \A o \in DOMAIN ledger' \ DOMAIN ledger : ledger'[o].replacedBy = 0
<1>0. DecisionRows(kept, fresh, freeze)
    BY ReconcileRows
<1>1. /\ ledger \in [1..(nextSeq - 1) -> AccountOrder] /\ nextSeq \in 1..(MaxOrders + 1)
      /\ MaxOrders \in Nat /\ day \in Days /\ DOMAIN pending \subseteq DOMAIN ledger
    BY BoundsAssumption DEF LedgerInv, LedgerTypeOK
<1>2. nextSeq' \in nextSeq..(MaxOrders + 1) /\ DOMAIN ledger' = 1..(nextSeq' - 1)
    BY <1>0 DEF DecisionRows
<1>3. DOMAIN ledger' = DOMAIN ledger \cup nextSeq..(nextSeq' - 1)
    BY <1>1, <1>2
<1>4. ASSUME NEW o \in DOMAIN ledger
      PROVE  /\ ledger'[o].filled = ledger[o].filled
             /\ ledger'[o].submitted = ledger[o].submitted
             /\ ledger'[o].updated \in {ledger[o].updated, day}
             /\ ledger'[o].replacedBy \in {ledger[o].replacedBy} \cup DOMAIN ledger'
    <2>1. CASE o \in DOMAIN pending \ kept
        <3>1. PICK heirs \in SUBSET Orders :
                  \E book : /\ heirs \subseteq DOMAIN ledger'
                            /\ ledger'[o] = Withdrawn(ledger[o], heirs, book, freeze)
            BY <1>0, <2>1 DEF DecisionRows
        <3>2. PICK book : ledger'[o] = Withdrawn(ledger[o], heirs, book, freeze)
            BY <3>1
        <3>3. /\ ledger[o] \in AccountOrder
              /\ RowAgrees(ledger[o]) /\ ledger[o].submitted <= day
              /\ ledger[o].reason = Freeze => ledger[o].side = "BUY"
            BY <1>1 DEF LedgerInv, RowsAgree, FreezeOnlyBuys
        <3>4. Live(ledger[o]) /\ ~AwaitingCancel(ledger[o])
            BY <1>1, <2>1 DEF LedgerInv, PendingAgrees, LiveOrdersTracked
        <3> QED  BY <1>1, <3>1, <3>2, <3>3, <3>4, WithdrawnShape
    <2>2. CASE o \notin DOMAIN pending \ kept
        <3>1. ledger'[o] = ledger[o]
            BY <1>0, <2>2 DEF DecisionRows
        <3> QED  BY <3>1
    <2> QED  BY <2>1, <2>2
<1>5. ASSUME NEW o \in DOMAIN ledger' \ DOMAIN ledger PROVE ledger'[o].replacedBy = 0
    <2>1. o \in nextSeq..(nextSeq' - 1)
        BY <1>3
    <2>2. ledger'[o] = NewEntry(fresh[o])
        BY <1>0, <2>1 DEF DecisionRows
    <2> QED  BY <2>2 DEF NewEntry
<1> QED  BY <1>3, <1>4, <1>5 DEF RowsKept

\* Every step keeps the fills in agreement with the rows and with the tranches.
LEMMA FillsInvNext == IInv /\ SessionInv /\ FillsInv /\ [Next]_vars => FillsInv'
<1> SUFFICES ASSUME IInv, SessionInv, FillsInv, [Next]_vars PROVE FillsInv'
    OBVIOUS
<1>1. LedgerAdvances
    BY NextAdvances
<1>2. CASE \E o \in queue : Hold(o) \/ (\E t \in EconomicTargets(o) : Resize(o, t)) \/ Satisfied(o)
    <2>1. PICK o \in queue : Hold(o) \/ (\E t \in EconomicTargets(o) : Resize(o, t)) \/ Satisfied(o)
        BY <1>2
    <2>2. RowsKept(DOMAIN ledger) /\ DOMAIN ledger' = DOMAIN ledger
        BY <2>1, ServeKeepsRow
    <2>3. fills' = fills /\ positions' = positions /\ lots' = lots /\ phase' # "raised"
        BY <2>1 DEF Hold, Resize, Satisfied, holding, FillsInv, LotsReconcile
    <2> QED  BY <1>1, <2>2, <2>3, QuietStepKeepsFills
<1>3. CASE \E o \in queue : Trades(o)
    BY <1>1, <1>3, FillKeepsFills DEF Trades
<1>4. CASE Decide
    <2>1. PICK kept \in SUBSET DOMAIN pending, fresh \in FreshBatches, freeze \in BOOLEAN :
              Reconcile(kept, fresh, freeze)
        BY <1>4 DEF Decide
    <2>2. /\ day' = day /\ positions' = positions /\ lots' = lots /\ fills' = fills
          /\ phase' # "raised"
        BY <1>4, <2>1 DEF Decide, Reconcile, holding
    <2>3. /\ RowsKept(DOMAIN ledger)
          /\ \A o \in DOMAIN ledger' \ DOMAIN ledger : ledger'[o].replacedBy = 0
        BY <2>1, <2>2, ReconcileKeepsRows DEF IInv
    <2> QED  BY <1>1, <2>2, <2>3, QuietStepKeepsFills
<1>5. CASE NextSession \/ UNCHANGED vars
    <2>1. /\ ledger' = ledger /\ fills' = fills /\ positions' = positions /\ lots' = lots
          /\ phase' # "raised"
        BY <1>5 DEF NextSession, vars, holding, FillsInv, LotsReconcile
    <2>2. RowsKept(DOMAIN ledger)
        BY <2>1 DEF RowsKept
    <2> QED  BY <1>1, <2>1, <2>2, QuietStepKeepsFills
<1> QED
    BY <1>2, <1>3, <1>4, <1>5 DEF Next, Trades, Finished

\* The account starts with no fills and no shares.
LEMMA FillsInvInit == Init => FillsInv
<1> SUFFICES ASSUME Init PROVE FillsInv
    OBVIOUS
<1>1. /\ DOMAIN ledger = {} /\ fills = {} /\ phase # "raised"
      /\ positions = [s \in Symbols |-> 0] /\ lots = [s \in Symbols |-> [d \in Days |-> 0]]
    BY DEF Init, LedgerInit
<1>2. ASSUME NEW s \in Symbols
      PROVE  /\ positions[s] = Total(lots[s], Days)
             /\ positions[s] + FilledLots(s, "SELL") = FilledLots(s, "BUY")
    <2>1. FilledLots(s, "SELL") = 0 /\ FilledLots(s, "BUY") = 0
        <3>1. FillsOf(s, "SELL") = {} /\ FillsOf(s, "BUY") = {}
            BY <1>1 DEF FillsOf
        <3> QED  BY <3>1, FilledLotsAre, SharesNone
    <2>2. SumOf(lots[s], Days) = 0
        <3>1. \A d \in Days : lots[s][d] = 0
            BY <1>1
        <3>2. IsFiniteSet(Days)
            BY FS_Interval, BoundsAssumption DEF Days
        <3> QED  BY <3>1, <3>2, SumZero
    <2>3. Total(lots[s], Days) = SumOf(lots[s], Days)
        BY TotalIs
    <2> QED  BY <1>1, <2>1, <2>2, <2>3
<1> QED
    BY <1>1, <1>2, FS_EmptySet DEF FillsInv, FillsAgree, LotsReconcile

\* All three invariants of the replay together.
LEMMA FillsInductive == Spec => [](IInv /\ FillsInv)
<1> QED
    BY IInvInit, IInvNext, FillsInvInit, FillsInvNext, SessionInductive, PTL DEF Spec

\* Whatever the decisions and executions, every account the replay saves passes the
\* validator of validation_orders.py when it is loaded.
THEOREM AccountLoads == Spec => []SavedAccountLoads
<1>1. IInv /\ FillsInv => SavedAccountLoads
    BY DEF IInv, LedgerInv, RowsAgree, FillsInv, SavedAccountLoads, Loads
<1> QED
    BY <1>1, FillsInductive, PTL

\* Whichever tranches a sale visits, in whatever order, it finds its shares among those it may
\* sell: none raises after the cash has moved, and the position, its tranches and the purchases
\* less the sales remain one number.
THEOREM TranchesReconcile == Spec => []LotsReconcile
<1>1. FillsInv => LotsReconcile
    BY DEF FillsInv
<1> QED
    BY <1>1, FillsInductive, PTL

\* The replay implements the promise of the order ledger.
THEOREM Implements == Spec => ImplementsPromise
<1> DEFINE bar == [o \in DOMAIN ledger |->
                     [symbol |-> ledger[o].symbol, side |-> ledger[o].side,
                      working |-> Live(ledger[o]), done |-> ledger[o].filled]]
<1>1. Init => Promise!Init
  BY DEF Init, LedgerInit, Promise!Init
<1>2. IInv /\ IInv' /\ [Next]_vars => [Promise!Advance]_bar
  <2> SUFFICES ASSUME IInv, IInv', [Next]_vars PROVE Promise!Advance
    OBVIOUS
  <2>1. LedgerAdvances
    BY NextAdvances
  <2>2. NoOverlap'
    BY DEF IInv, LedgerInv
  <2>3. Promise!OneInstructionPerSide(bar')
    BY <2>2 DEF NoOverlap, Live, Promise!OneInstructionPerSide
  <2>4. \A o \in DOMAIN bar : Promise!Promised(bar[o], bar'[o])
    BY <2>1 DEF LedgerAdvances, Live, Promise!Promised
  <2>5. \A o \in DOMAIN bar' \ DOMAIN bar : Promise!Fresh(bar'[o])
    BY <2>1 DEF LedgerAdvances, Live, Promise!Fresh
  <2>6. DOMAIN bar \subseteq DOMAIN bar'
    BY <2>1 DEF LedgerAdvances
  <2> QED
    BY <2>3, <2>4, <2>5, <2>6 DEF Promise!Advance
<1> QED
  BY <1>1, <1>2, Inductive, PTL DEF Spec, ImplementsPromise, Promise!Spec

--------------------------------------------------------------------------------
(* Production: the import of a snapshot *)

\* The account as far as it is imported: what the first k executions make of start.
Imports(f, start, n) ==
    f = [k \in 0..n |-> IF k = 0 THEN start
                        ELSE IF k \in Novel(n) THEN ImportFill(f[k - 1], k) ELSE f[k - 1]]

ImportsUpTo(f, start, n, m) ==
    f = [k \in 0..m |-> IF k = 0 THEN start
                        ELSE IF k \in Novel(n) THEN ImportFill(f[k - 1], k) ELSE f[k - 1]]

\* The import is defined, whatever is imported.
LEMMA ImportsExist ==
    ASSUME NEW n \in Nat, NEW start
    PROVE  \E f : Imports(f, start, n) /\ Imported(start, n) = f[n]
<1> DEFINE U == {m \in 0..n : ~ \E f : ImportsUpTo(f, start, n, m)}
<1>1. U = {}
    <2> SUFFICES ASSUME U # {} PROVE FALSE
        OBVIOUS
    <2>1. PICK m \in U : m \in Nat /\ \A k \in U : m <= k
        <3>1. U \in SUBSET (0..n)
            OBVIOUS
        <3> HIDE DEF U
        <3> QED  BY <3>1, SmallestNumber
    <2>2. CASE m = 0
        <3> DEFINE f == [k \in 0..0 |-> start]
        <3>1. ImportsUpTo(f, start, n, 0)
            <4>1. 0..0 = {0}
                OBVIOUS
            <4> QED  BY <4>1 DEF ImportsUpTo
        <3> QED  BY <2>1, <2>2, <3>1
    <2>3. CASE m # 0
        <3>1. m - 1 \in 0..n /\ m - 1 \notin U /\ m - 1 \in Nat
            BY <2>1, <2>3
        <3>2. PICK f : ImportsUpTo(f, start, n, m - 1)
            BY <3>1
        <3> DEFINE Step(k, x) == IF k \in Novel(n) THEN ImportFill(x, k) ELSE x
                   g == [k \in 0..m |-> IF k = m THEN Step(m, f[m - 1]) ELSE f[k]]
        <3>3. \A k \in 0..(m - 1) : f[k] = IF k = 0 THEN start ELSE Step(k, f[k - 1])
            BY <3>2 DEF ImportsUpTo
        <3>4. \A k \in 0..(m - 1) : g[k] = f[k]
            BY <2>1
        <3>5. g[m] = Step(m, g[m - 1])
            BY <2>1, <2>3
        <3>6. \A k \in 0..m : k # 0 => k - 1 \in 0..(m - 1)
            BY <2>1
        <3>7. \A k \in 0..m : k = m \/ k \in 0..(m - 1)
            BY <2>1
        <3> HIDE DEF g, Step
        <3>8. \A k \in 0..m : g[k] = IF k = 0 THEN start ELSE Step(k, g[k - 1])
            BY <2>3, <3>3, <3>4, <3>5, <3>6, <3>7
        <3>9. g = [k \in 0..m |-> IF k = 0 THEN start ELSE Step(k, g[k - 1])]
            <4>1. g = [k \in 0..m |-> g[k]]
                BY DEF g
            <4> QED  BY <3>8, <4>1
        <3>10. ImportsUpTo(g, start, n, m)
            BY <3>9 DEF ImportsUpTo, Step
        <3> QED  BY <2>1, <3>10
    <2> QED  BY <2>2, <2>3
<1>2. \E f : Imports(f, start, n)
    BY <1>1 DEF ImportsUpTo, Imports
<1>3. Imported(start, n) = (CHOOSE f : Imports(f, start, n))[n]
    BY DEF Imported, Imports
<1> QED  BY <1>2, <1>3

--------------------------------------------------------------------------------
(* Production: what holds between the account, the broker and the last export *)

Execution == [order: Orders, day: Days, shares: Nat \ {0}, remaining: Nat]

SyncTypeOK ==
    /\ closedLoop \in BOOLEAN /\ asOf \in 0..MaxDay /\ ran \in 0..MaxDay
    /\ held \in [Symbols -> Int]
    /\ owner \in [Symbols -> Grants \cup {NoGrant}]
    /\ truth \in Seq(Execution)
    /\ working \in [DOMAIN ledger -> Nat]
    /\ DOMAIN dead \subseteq DOMAIN ledger /\ dead \in [DOMAIN dead -> Days]
    /\ snap \in [asOf: 0..MaxDay, n: Nat, dead: SUBSET Orders]
    /\ refused \subseteq Orders \cup {0}

\* The broker executes registered orders after their submission, in the order of the days,
\* and an execution leaves no fewer shares than the order still has.
TruthInv ==
    /\ \A k \in DOMAIN truth :
          /\ truth[k].order \in DOMAIN ledger
          /\ ledger[truth[k].order].submitted < truth[k].day /\ truth[k].day <= day
          /\ working[truth[k].order] <= truth[k].remaining
    /\ \A j, k \in DOMAIN truth : j <= k => truth[j].day <= truth[k].day
    /\ \A o \in DOMAIN dead : working[o] = 0

\* The last export lists the first executions: all before its day, none after it.
SnapInv ==
    /\ snap.asOf <= day /\ snap.n <= Len(truth) /\ snap.dead \subseteq DOMAIN dead
    /\ \A k \in DOMAIN truth : /\ k <= snap.n => truth[k].day <= snap.asOf
                               /\ k > snap.n => truth[k].day >= snap.asOf

FillOf(k) == [order |-> truth[k].order, day |-> truth[k].day, shares |-> truth[k].shares, id |-> k]
FillsUpTo(n) == {FillOf(k) : k \in 1..n}

Known == Cardinality(fills)

\* The account has imported the first executions, none twice, no more than the last export
\* lists and none after its own date.
KnownInv ==
    /\ Known \in Nat /\ Known <= snap.n /\ fills = FillsUpTo(Known)
    /\ \A k \in 1..Known : truth[k].day <= asOf

SyncInv ==
    /\ LedgerInv
    /\ SyncTypeOK
    /\ TruthInv
    /\ SnapInv
    /\ KnownInv
    /\ PositionsMatchFills
    /\ BrokerLiabilityKnown

\* The fields of an execution.
LEMMA TruthShape ==
    ASSUME SyncTypeOK
    PROVE  /\ Len(truth) \in Nat /\ DOMAIN truth = 1..Len(truth)
           /\ \A k \in DOMAIN truth :
                 /\ truth[k].order \in Orders /\ truth[k].day \in Days /\ truth[k].day \in Nat
                 /\ truth[k].shares \in Nat \ {0} /\ truth[k].remaining \in Nat
<1>1. truth \in Seq(Execution)
    BY DEF SyncTypeOK
<1>2. Len(truth) \in Nat /\ DOMAIN truth = 1..Len(truth)
    BY <1>1
<1>3. \A k \in DOMAIN truth : truth[k] \in Execution
    BY <1>1, <1>2
<1>4. \A k \in DOMAIN truth :
          /\ truth[k].order \in Orders /\ truth[k].day \in Days
          /\ truth[k].shares \in Nat \ {0} /\ truth[k].remaining \in Nat
    BY <1>3 DEF Execution
<1>5. \A k \in DOMAIN truth : truth[k].day \in Nat
    BY <1>4 DEF Days
<1> QED  BY <1>2, <1>4, <1>5

\* The executions up to a day are the first ones.
LEMMA FirstExecutions ==
    ASSUME SyncTypeOK, TruthInv, NEW d \in Nat
    PROVE  LET n == Cardinality({k \in DOMAIN truth : truth[k].day <= d})
           IN /\ n \in Nat /\ n <= Len(truth)
              /\ \A k \in DOMAIN truth : k <= n <=> truth[k].day <= d
<1> DEFINE D == {k \in DOMAIN truth : truth[k].day <= d}
           U == {m \in 0..Len(truth) : \A k \in DOMAIN truth : k > m => truth[k].day > d}
<1>1. /\ Len(truth) \in Nat /\ DOMAIN truth = 1..Len(truth)
      /\ \A k \in DOMAIN truth : truth[k].day \in Nat
    BY TruthShape
<1>2. PICK m \in U : m \in Nat /\ \A u \in U : m <= u
    <2>1. U \in SUBSET (0..Len(truth)) /\ Len(truth) \in U
        BY <1>1
    <2> HIDE DEF U
    <2> QED  BY <1>1, <2>1, SmallestNumber
<1>3. m = 0 \/ (m \in DOMAIN truth /\ truth[m].day <= d)
    <2> SUFFICES ASSUME m # 0 PROVE m \in DOMAIN truth /\ truth[m].day <= d
        OBVIOUS
    <2>1. m - 1 \in 0..Len(truth) /\ m - 1 \notin U /\ m \in DOMAIN truth
        BY <1>1, <1>2
    <2>2. PICK k \in DOMAIN truth : k > m - 1 /\ ~(truth[k].day > d)
        BY <2>1
    <2>3. k = m
        BY <1>1, <1>2, <2>2
    <2> QED  BY <1>1, <2>1, <2>2, <2>3
<1>4. \A k \in DOMAIN truth : k <= m <=> truth[k].day <= d
    <2> SUFFICES ASSUME NEW k \in DOMAIN truth PROVE k <= m <=> truth[k].day <= d
        OBVIOUS
    <2>1. k > m => truth[k].day > d
        BY <1>2
    <2>2. k <= m => truth[k].day <= truth[m].day /\ m # 0
        BY <1>1, <1>2, <1>3 DEF TruthInv
    <2> QED  BY <1>1, <1>2, <1>3, <2>1, <2>2
<1>5. D = 1..m
    BY <1>1, <1>2, <1>4
<1>6. Cardinality(1..m) = m
    BY <1>2, FS_Interval
<1>7. m <= Len(truth)
    BY <1>1
<1>8. D = {k \in DOMAIN truth : truth[k].day <= d}
    OBVIOUS
<1> HIDE DEF D, U
<1>9. Cardinality(D) = m
    BY <1>5, <1>6
<1> QED  BY <1>2, <1>4, <1>7, <1>8, <1>9

\* A snapshot file that is not older than the account lists what the account knows, at least.
LEMMA FileShape ==
    ASSUME SyncInv, NEW file \in SnapshotFiles, Current(file)
    PROVE  /\ file.n \in Nat /\ Known <= file.n /\ file.n <= snap.n /\ file.n <= Len(truth)
           /\ file.asOf \in Days /\ file.asOf <= day /\ file.asOf >= asOf
           /\ \A k \in 1..file.n : k \in DOMAIN truth /\ truth[k].day <= file.asOf
           /\ file.dead \subseteq DOMAIN dead
<1>1. /\ Len(truth) \in Nat /\ DOMAIN truth = 1..Len(truth)
      /\ \A k \in DOMAIN truth : truth[k].day \in Nat
      /\ snap.n \in Nat /\ snap.asOf \in 0..MaxDay /\ MaxDay \in Nat /\ asOf \in Nat
      /\ day \in Nat
    <2>1. /\ Len(truth) \in Nat /\ DOMAIN truth = 1..Len(truth)
          /\ \A k \in DOMAIN truth : truth[k].day \in Nat
        BY TruthShape DEF SyncInv
    <2>2. MaxDay \in Nat /\ day \in Nat
        BY BoundsAssumption DEF SyncInv, LedgerInv, LedgerTypeOK, Days
    <2> QED  BY <2>1, <2>2 DEF SyncInv, SyncTypeOK
<1>2. Known \in Nat /\ Known <= snap.n /\ \A k \in 1..Known : truth[k].day <= asOf
    BY DEF SyncInv, KnownInv
<1>3. CASE file = snap
    BY <1>1, <1>2, <1>3 DEF SyncInv, SnapInv, Current, Days
<1>4. ASSUME NEW d \in 1..(snap.asOf - 1), file = Statement(d)
      PROVE  /\ file.n \in Nat /\ Known <= file.n /\ file.n <= snap.n /\ file.n <= Len(truth)
             /\ file.asOf \in Days /\ file.asOf <= day /\ file.asOf >= asOf
             /\ \A k \in 1..file.n : k \in DOMAIN truth /\ truth[k].day <= file.asOf
             /\ file.dead \subseteq DOMAIN dead
    <2>1. /\ file.asOf = d /\ file.dead \subseteq DOMAIN dead
          /\ file.n = Cardinality({k \in DOMAIN truth : truth[k].day <= d})
        BY <1>4 DEF Statement
    <2>2. d \in Nat /\ d < snap.asOf /\ d \in Days /\ d <= day /\ d >= asOf
        BY <1>1, <1>4, <2>1 DEF SyncInv, SnapInv, Days, Current
    <2>3. /\ file.n \in Nat /\ file.n <= Len(truth)
          /\ \A k \in DOMAIN truth : k <= file.n <=> truth[k].day <= d
        BY <2>1, <2>2, FirstExecutions DEF SyncInv
    <2>4. Known <= file.n
        <3> SUFFICES ASSUME Known > file.n PROVE FALSE
            BY <1>2, <2>3
        <3>1. Known \in DOMAIN truth /\ Known \in 1..Known
            BY <1>1, <1>2, <2>3 DEF SyncInv, SnapInv
        <3> QED  BY <1>1, <1>2, <2>2, <2>3, <3>1
    <2>5. file.n <= snap.n
        <3> SUFFICES ASSUME file.n > snap.n PROVE FALSE
            BY <1>1, <2>3
        <3>1. file.n \in DOMAIN truth
            BY <1>1, <2>3
        <3> QED  BY <1>1, <2>2, <2>3, <3>1 DEF SyncInv, SnapInv
    <2>6. \A k \in 1..file.n : k \in DOMAIN truth /\ truth[k].day <= file.asOf
        BY <1>1, <2>1, <2>3
    <2> QED  BY <2>1, <2>2, <2>3, <2>4, <2>5, <2>6
<1> QED  BY <1>3, <1>4 DEF SnapshotFiles

\* What a sync may do to the row of order o: its identity stays and it never comes back to
\* life; it is closed only if the broker works nothing of it any more or a late fill ended it.
RowAdvances(o, row) ==
    /\ row \in AccountOrder
    /\ row.symbol = ledger[o].symbol /\ row.side = ledger[o].side
    /\ row.submitted = ledger[o].submitted
    /\ row.filled >= ledger[o].filled
    /\ Live(row) => Live(ledger[o]) /\ row.reason = ledger[o].reason
    /\ ~Live(ledger[o]) => row.filled = ledger[o].filled
    /\ row.reason = Freeze => ledger[o].reason = Freeze
    /\ ~Live(row) => working[o] = 0 \/ row.event = "LATE_FILL_SUPPRESSED_RETRY"

LEMMA ImportedRowAdvances ==
    ASSUME SyncInv, NEW k \in DOMAIN truth, NEW row, RowAdvances(truth[k].order, row),
           Importable(row, truth[k])
    PROVE  RowAdvances(truth[k].order, ImportedRow(row, truth[k]))
<1> DEFINE x == truth[k]
           o == x.order
           new == ImportedRow(row, x)
<1>1. /\ x.day \in Days /\ x.shares \in Nat /\ x.remaining \in Nat
      /\ o \in DOMAIN ledger /\ working[o] \in Nat /\ working[o] <= x.remaining
    BY TruthShape DEF SyncInv, SyncTypeOK, TruthInv
<1>2. /\ ledger[o] \in AccountOrder /\ ledger[o].filled \in Nat
      /\ row \in AccountOrder /\ row.filled \in Nat /\ row.requested \in Nat
    BY <1>1 DEF SyncInv, LedgerInv, LedgerTypeOK, RowAdvances, AccountOrder
<1>3. Live(row) /\ Live(ledger[o]) /\ row.filled >= ledger[o].filled
    BY DEF Importable, RowAdvances
<1> DEFINE status == IF x.remaining = 0 THEN "FILLED" ELSE "PARTIALLY_FILLED"
           requested == IF row.requested = 0 THEN row.filled + x.shares + x.remaining
                        ELSE row.requested
<1>4. new = [row EXCEPT !.filled = row.filled + x.shares, !.requested = requested,
                        !.remaining = x.remaining, !.status = status,
                        !.updated = x.day, !.event = "BROKER_FILL"]
    BY <1>2 DEF ImportedRow, AccountOrder
<1>5. /\ requested \in Nat /\ status \in Statuses /\ row.filled + x.shares \in Nat
      /\ "BROKER_FILL" \in Events
    BY <1>1, <1>2 DEF Statuses, Terminal, Events
<1>6. status \in Terminal => x.remaining = 0
    BY DEF Terminal
<1> HIDE DEF x, status, requested, new
<1>7. new \in AccountOrder
    BY <1>1, <1>2, <1>4, <1>5 DEF AccountOrder
<1>8. /\ new.symbol = row.symbol /\ new.side = row.side /\ new.submitted = row.submitted
      /\ new.reason = row.reason /\ new.filled = row.filled + x.shares /\ new.status = status
    BY <1>2, <1>4 DEF AccountOrder
<1>9. new.filled >= ledger[o].filled
    BY <1>1, <1>2, <1>3, <1>8
<1>10. ~Live(new) => working[o] = 0
    BY <1>1, <1>6, <1>8 DEF Live
<1>11. RowAdvances(o, row)
    BY DEF x
<1>12. RowAdvances(o, new)
    BY <1>3, <1>7, <1>8, <1>9, <1>10, <1>11 DEF RowAdvances
<1> QED  BY <1>12 DEF x, new

LEMMA SuppressedRowAdvances ==
    ASSUME NEW o, NEW row, NEW x, RowAdvances(o, row), x.day \in Days
    PROVE  RowAdvances(o, SuppressedRow(row, x)) /\ ~Live(SuppressedRow(row, x))
<1> DEFINE new == SuppressedRow(row, x)
           day1 == x.day
<1>1. CASE Live(row)
    <2>1. new = [row EXCEPT !.status = "CANCELLED",
                            !.reason = "late fill satisfied strategic grant",
                            !.updated = day1, !.event = "LATE_FILL_SUPPRESSED_RETRY"]
        BY <1>1 DEF SuppressedRow
    <2> HIDE DEF new, day1
    <2>2. row \in AccountOrder /\ day1 \in Days
        BY DEF RowAdvances, day1
    <2>3. new \in AccountOrder
        BY <2>1, <2>2 DEF AccountOrder, Statuses, Terminal, Reasons, Events
    <2>4. /\ new.symbol = row.symbol /\ new.side = row.side /\ new.submitted = row.submitted
          /\ new.filled = row.filled /\ new.status = "CANCELLED"
          /\ new.reason = "late fill satisfied strategic grant"
          /\ new.event = "LATE_FILL_SUPPRESSED_RETRY"
        BY <2>1, <2>2 DEF AccountOrder
    <2>5. ~Live(new) /\ new.reason # Freeze
        BY <2>4 DEF Live, Terminal, Freeze
    <2>6. RowAdvances(o, new)
        BY <1>1, <2>3, <2>4, <2>5 DEF RowAdvances
    <2> QED  BY <2>5, <2>6 DEF new
<1>2. CASE ~Live(row)
    BY <1>2 DEF SuppressedRow
<1> QED  BY <1>1, <1>2

LEMMA CancelledRowAdvances ==
    ASSUME NEW o, NEW row, RowAdvances(o, row), NEW date \in Days, working[o] = 0
    PROVE  LET new == [row EXCEPT !.status = "CANCELLED", !.updated = date,
                                  !.event = "BROKER_CANCELLED"]
           IN RowAdvances(o, new) /\ ~Live(new)
<1> DEFINE new == [row EXCEPT !.status = "CANCELLED", !.updated = date,
                              !.event = "BROKER_CANCELLED"]
<1>1. row \in AccountOrder
    BY DEF RowAdvances
<1>2. new \in AccountOrder
    BY <1>1 DEF AccountOrder, Statuses, Terminal, Events
<1>3. /\ new.symbol = row.symbol /\ new.side = row.side /\ new.submitted = row.submitted
      /\ new.filled = row.filled /\ new.status = "CANCELLED" /\ new.reason = row.reason
    BY <1>1 DEF AccountOrder
<1> HIDE DEF new
<1>4. ~Live(new)
    BY <1>3 DEF Live, Terminal
<1>5. RowAdvances(o, new)
    BY <1>2, <1>3, <1>4 DEF RowAdvances
<1> QED  BY <1>4, <1>5 DEF new

\* The row of an order before the sync.
LEMMA RowStands ==
    ASSUME SyncInv, NEW o \in DOMAIN ledger
    PROVE  RowAdvances(o, ledger[o])
<1>1. ledger[o] \in AccountOrder /\ ledger[o].filled \in Nat
    BY DEF SyncInv, LedgerInv, LedgerTypeOK, AccountOrder
<1>2. working \in [DOMAIN ledger -> Nat]
    BY DEF SyncInv, SyncTypeOK
<1>3. ~Live(ledger[o]) => working[o] = 0 \/ ledger[o].event = "LATE_FILL_SUPPRESSED_RETRY"
    BY <1>2 DEF SyncInv, BrokerLiabilityKnown
<1> QED  BY <1>1, <1>3 DEF RowAdvances

\* The account under import.
Work ==
    [bad: SUBSET (Orders \cup {0}), ledger: [DOMAIN ledger -> AccountOrder], done: SUBSET Orders,
     fills: SUBSET Fill, held: [Symbols -> Int], owner: [Symbols -> Grants \cup {NoGrant}]]

RowsImported(st) ==
    /\ \A o \in DOMAIN ledger : RowAdvances(o, st.ledger[o])
    /\ \A o \in st.done : o \in DOMAIN ledger /\ ~Live(st.ledger[o])

\* After the first k executions, unless one of them was refused.
ImportInv(st, k) ==
    /\ st \in Work
    /\ RowsImported(st)
    /\ st.bad = {} => st.fills = FillsUpTo(IF k < Known THEN Known ELSE k)

LEMMA NovelIs ==
    ASSUME KnownInv, NEW n \in Nat
    PROVE  \A k \in 1..n : k \in Novel(n) <=> k > Known
<1> SUFFICES ASSUME NEW k \in 1..n PROVE k \in Novel(n) <=> k > Known
    OBVIOUS
<1>1. Known \in Nat /\ fills = FillsUpTo(Known)
    BY DEF KnownInv
<1>2. k \in Novel(n) <=> \A f \in fills : f.id # k
    BY DEF Novel
<1>3. \A f \in fills : \E j \in 1..Known : f = FillOf(j) /\ f.id = j
    BY <1>1 DEF FillsUpTo, FillOf
<1>4. \A j \in 1..Known : FillOf(j) \in fills /\ FillOf(j).id = j
    BY <1>1 DEF FillsUpTo, FillOf
<1>5. k <= Known => k \notin Novel(n)
    <2> SUFFICES ASSUME k <= Known PROVE k \notin Novel(n)
        OBVIOUS
    <2>1. k \in 1..Known
        BY <1>1
    <2> QED  BY <1>2, <1>4, <2>1
<1>6. k > Known => k \in Novel(n)
    <2> SUFFICES ASSUME k > Known, NEW f \in fills PROVE f.id # k
        BY <1>2
    <2>1. PICK j \in 1..Known : f.id = j
        BY <1>3
    <2> QED  BY <1>1, <2>1
<1> QED  BY <1>1, <1>5, <1>6

\* What is imported of one execution, field by field.
LEMMA ImportFillFields ==
    ASSUME SyncInv, NEW k \in DOMAIN truth, NEW st \in Work,
           Importable(st.ledger[truth[k].order], truth[k])
    PROVE  LET x == truth[k]
               o == x.order
               new == ImportFill(st, k)
               others == Suppressed(o, x)
           IN /\ new = [bad |-> new.bad, ledger |-> new.ledger, done |-> new.done,
                        fills |-> new.fills, held |-> new.held, owner |-> new.owner]
              /\ new.bad = st.bad
              /\ new.ledger = [p \in DOMAIN ledger |-> new.ledger[p]]
              /\ new.ledger[o] = ImportedRow(st.ledger[o], x)
              /\ \A p \in DOMAIN ledger \ {o} :
                    new.ledger[p] = IF p \in others THEN SuppressedRow(st.ledger[p], x)
                                    ELSE st.ledger[p]
              /\ new.done = st.done \cup others \cup (IF x.remaining = 0 THEN {o} ELSE {})
              /\ new.fills = st.fills \cup {FillOf(k)}
              /\ new.held = ImportedHeld(st, st.ledger[o], x.shares)
              /\ new.held \in [Symbols -> Int]
              /\ new.owner \in [Symbols -> Grants \cup {NoGrant}]
<1> DEFINE x == truth[k]
           o == x.order
           e == st.ledger[o]
           others == Suppressed(o, x)
           Row(p) == CASE p = o -> ImportedRow(e, x)
                       [] p \in others -> SuppressedRow(st.ledger[p], x)
                       [] OTHER -> st.ledger[p]
           book == [p \in DOMAIN st.ledger |-> Row(p)]
           shares == ImportedHeld(st, e, x.shares)
           owners == ImportedOwner(st, e)
           done == st.done \cup others \cup (IF x.remaining = 0 THEN {o} ELSE {})
           deals == st.fills \cup {FillOf(k)}
           new == ImportFill(st, k)
<1>1. new = [st EXCEPT !.ledger = book, !.done = done, !.fills = deals,
                       !.held = shares, !.owner = owners]
    BY DEF ImportFill, Work, FillOf
<1>2. /\ o \in DOMAIN ledger /\ x.shares \in Nat
      /\ st.ledger \in [DOMAIN ledger -> AccountOrder] /\ st.held \in [Symbols -> Int]
      /\ st.owner \in [Symbols -> Grants \cup {NoGrant}]
    BY TruthShape DEF Work, SyncInv, TruthInv
<1>3. e \in AccountOrder /\ e.symbol \in Symbols /\ e.grant \in Grants \cup {NoGrant}
    BY <1>2 DEF AccountOrder
<1>4. /\ book = [p \in DOMAIN ledger |-> book[p]] /\ book[o] = ImportedRow(e, x)
      /\ \A p \in DOMAIN ledger \ {o} :
            book[p] = IF p \in others THEN SuppressedRow(st.ledger[p], x) ELSE st.ledger[p]
    <2>0. o \notin others
        BY DEF Suppressed
    <2>1. Row(o) = ImportedRow(e, x)
        <3> HIDE DEF others, o, e, x
        <3> QED  BY <2>0
    <2>2. \A p : p # o => Row(p) = IF p \in others THEN SuppressedRow(st.ledger[p], x)
                                   ELSE st.ledger[p]
        OBVIOUS
    <2> HIDE DEF Row
    <2>3. book = [p \in DOMAIN ledger |-> book[p]] /\ \A p \in DOMAIN ledger : book[p] = Row(p)
        BY <1>2
    <2> HIDE DEF book
    <2> QED  BY <1>2, <2>1, <2>2, <2>3
<1>5. shares \in [Symbols -> Int]
    <2>1. ImportedShares(st.held[e.symbol], e, x.shares) \in Int
        BY <1>2, <1>3 DEF ImportedShares
    <2> HIDE DEF e
    <2> QED  BY <1>2, <2>1 DEF ImportedHeld
<1>6. owners \in [Symbols -> Grants \cup {NoGrant}]
    BY <1>2, <1>3 DEF ImportedOwner
<1> HIDE DEF Row, book, done, deals, shares, owners
<1>7. /\ new = [bad |-> new.bad, ledger |-> new.ledger, done |-> new.done,
                fills |-> new.fills, held |-> new.held, owner |-> new.owner]
      /\ new.bad = st.bad /\ new.ledger = book /\ new.done = done /\ new.fills = deals
      /\ new.held = shares /\ new.owner = owners
    <2> HIDE DEF new
    <2> QED  BY <1>1 DEF Work
<1> HIDE DEF new
<1> QED  BY <1>4, <1>5, <1>6, <1>7 DEF done, deals, shares, new

\* A refused execution is marked and changes nothing else.
LEMMA RefusedFill ==
    ASSUME NEW k \in DOMAIN truth, NEW st \in Work, SyncTypeOK, NEW j, NEW i, ImportInv(st, j),
           ~Importable(st.ledger[truth[k].order], truth[k])
    PROVE  ImportInv(ImportFill(st, k), i)
<1> DEFINE o == truth[k].order
           new == [st EXCEPT !.bad = @ \cup {o}]
<1>1. ImportFill(st, k) = new
    BY DEF ImportFill
<1>2. o \in Orders
    BY TruthShape
<1>3. new \in Work /\ new.bad # {} /\ new.ledger = st.ledger /\ new.done = st.done
    <2> HIDE DEF o
    <2> QED  BY <1>2 DEF Work
<1> HIDE DEF new
<1> QED  BY <1>1, <1>3 DEF ImportInv, RowsImported

\* An accepted execution adds its fill, and moves its row and those it suppresses forward.
LEMMA ImportFillStep ==
    ASSUME SyncInv, NEW k \in DOMAIN truth, NEW st, ImportInv(st, k - 1), k > Known
    PROVE  ImportInv(ImportFill(st, k), k)
<1> DEFINE x == truth[k]
           o == x.order
           e == st.ledger[o]
           others == Suppressed(o, x)
           new == ImportFill(st, k)
<1>1. st \in Work /\ RowsImported(st) /\ Known \in Nat /\ k \in Nat \ {0}
    BY TruthShape DEF ImportInv, SyncInv, KnownInv
<1>2. CASE ~Importable(e, x)
    BY <1>1, <1>2, RefusedFill DEF SyncInv
<1>3. CASE Importable(e, x)
    <2>1. /\ new = [bad |-> new.bad, ledger |-> new.ledger, done |-> new.done,
                    fills |-> new.fills, held |-> new.held, owner |-> new.owner]
          /\ new.bad = st.bad
          /\ new.ledger = [p \in DOMAIN ledger |-> new.ledger[p]]
          /\ new.ledger[o] = ImportedRow(e, x)
          /\ \A p \in DOMAIN ledger \ {o} :
                new.ledger[p] = IF p \in others THEN SuppressedRow(st.ledger[p], x)
                                ELSE st.ledger[p]
          /\ new.done = st.done \cup others \cup (IF x.remaining = 0 THEN {o} ELSE {})
          /\ new.fills = st.fills \cup {FillOf(k)}
          /\ new.held \in [Symbols -> Int]
          /\ new.owner \in [Symbols -> Grants \cup {NoGrant}]
        BY <1>1, <1>3, ImportFillFields
    <2>2. /\ o \in DOMAIN ledger /\ DOMAIN ledger \subseteq Orders
          /\ others \subseteq DOMAIN ledger \ {o} /\ x.day \in Days
        <3>1. o \in DOMAIN ledger /\ x.day \in Days
            BY TruthShape DEF SyncInv, TruthInv
        <3>2. /\ DOMAIN pending \subseteq DOMAIN ledger /\ DOMAIN ledger = 1..(nextSeq - 1)
              /\ nextSeq \in 1..(MaxOrders + 1) /\ MaxOrders \in Nat
            BY BoundsAssumption DEF SyncInv, LedgerInv, LedgerTypeOK
        <3>3. others \subseteq DOMAIN pending \ {o}
            BY DEF Suppressed
        <3>4. 1..(nextSeq - 1) \subseteq Orders
            BY <3>2 DEF Orders
        <3> QED  BY <3>1, <3>2, <3>3, <3>4
    <2>3. RowAdvances(o, new.ledger[o])
        <3>1. RowAdvances(o, e)
            BY <1>1, <2>2 DEF RowsImported
        <3> QED  BY <1>3, <2>1, <3>1, ImportedRowAdvances
    <2>4. \A p \in others : RowAdvances(p, new.ledger[p]) /\ ~Live(new.ledger[p])
        <3> SUFFICES ASSUME NEW p \in others
                     PROVE  RowAdvances(p, new.ledger[p]) /\ ~Live(new.ledger[p])
            OBVIOUS
        <3>1. RowAdvances(p, st.ledger[p]) /\ new.ledger[p] = SuppressedRow(st.ledger[p], x)
            BY <1>1, <2>1, <2>2 DEF RowsImported
        <3> HIDE DEF x, others, new
        <3> QED  BY <2>2, <3>1, SuppressedRowAdvances
    <2>5. \A p \in DOMAIN ledger \ {o} : p \notin others => new.ledger[p] = st.ledger[p]
        BY <2>1
    <2>6. \A p \in DOMAIN ledger : RowAdvances(p, new.ledger[p])
        BY <1>1, <2>3, <2>4, <2>5 DEF RowsImported
    <2>7. x.remaining = 0 => ~Live(new.ledger[o])
        <3>1. e \in AccountOrder
            BY <1>1, <2>2 DEF RowsImported, RowAdvances
        <3>2. x.remaining = 0 => new.ledger[o].status = "FILLED"
            <4> HIDE DEF e, x
            <4> QED  BY <2>1, <3>1 DEF ImportedRow, AccountOrder
        <3> QED  BY <3>2 DEF Live, Terminal
    <2>8. \A p \in new.done : p \in DOMAIN ledger /\ ~Live(new.ledger[p])
        <3> SUFFICES ASSUME NEW p \in new.done PROVE p \in DOMAIN ledger /\ ~Live(new.ledger[p])
            OBVIOUS
        <3>1. CASE p \in others
            BY <2>2, <2>4, <3>1
        <3>2. CASE p = o /\ x.remaining = 0
            BY <2>2, <2>7, <3>2
        <3>3. CASE p \in st.done /\ p \notin others
            <4>1. p \in DOMAIN ledger /\ ~Live(st.ledger[p])
                BY <1>1, <3>3 DEF RowsImported
            <4>2. p # o
                BY <1>3, <4>1 DEF Importable
            <4> QED  BY <2>5, <3>3, <4>1, <4>2
        <3> QED  BY <2>1, <3>1, <3>2, <3>3
    <2>9. new.fills \subseteq Fill
        <3>1. FillOf(k) \in Fill
            BY <1>1, TruthShape DEF FillOf, Fill, SyncInv
        <3> QED  BY <1>1, <2>1, <3>1 DEF Work
    <2>10. new \in Work
        <3>1. new.ledger \in [DOMAIN ledger -> AccountOrder]
            <4>1. \A p \in DOMAIN ledger : new.ledger[p] \in AccountOrder
                BY <2>6 DEF RowAdvances
            <4> HIDE DEF new
            <4> QED  BY <2>1, <4>1
        <3>2. new.done \subseteq Orders /\ new.bad \subseteq Orders \cup {0}
            BY <1>1, <2>1, <2>2, <2>8 DEF Work
        <3> HIDE DEF new
        <3> QED  BY <2>1, <2>9, <3>1, <3>2 DEF Work
    <2>11. new.bad = {} => new.fills = FillsUpTo(k)
        <3> SUFFICES ASSUME st.bad = {} PROVE new.fills = FillsUpTo(k)
            BY <2>1
        <3>1. st.fills = FillsUpTo(k - 1)
            <4>1. k - 1 < Known => k - 1 = Known
                BY <1>1
            <4> QED  BY <4>1 DEF ImportInv
        <3>2. 1..k = 1..(k - 1) \cup {k}
            BY <1>1
        <3> HIDE DEF new
        <3> QED  BY <2>1, <3>1, <3>2 DEF FillsUpTo
    <2>12. ~(k < Known)
        BY <1>1
    <2> HIDE DEF new, x, o, e, others
    <2>13. ImportInv(new, k)
        BY <2>6, <2>8, <2>10, <2>11, <2>12 DEF ImportInv, RowsImported
    <2> QED  BY <2>13 DEF new
<1> QED  BY <1>2, <1>3

\* Whatever is imported, the working copy stays sound up to the last execution.
LEMMA ImportSound ==
    ASSUME SyncInv, NEW n \in Nat, Known <= n, n <= Len(truth), NEW start, ImportInv(start, 0)
    PROVE  ImportInv(Imported(start, n), n)
<1>1. PICK f : Imports(f, start, n) /\ Imported(start, n) = f[n]
    BY ImportsExist
<1>2. \A k \in 0..n : f[k] = IF k = 0 THEN start
                             ELSE IF k \in Novel(n) THEN ImportFill(f[k - 1], k) ELSE f[k - 1]
    BY <1>1 DEF Imports
<1>3. Known \in Nat /\ Len(truth) \in Nat /\ DOMAIN truth = 1..Len(truth)
    BY TruthShape DEF SyncInv, KnownInv
<1> DEFINE U == {m \in 0..n : ~ImportInv(f[m], m)}
<1> SUFFICES ASSUME U # {} PROVE FALSE
    BY <1>1
<1>4. PICK m \in U : m \in Nat /\ \A k \in U : m <= k
    <2>1. U \in SUBSET (0..n)
        OBVIOUS
    <2> HIDE DEF U
    <2> QED  BY <2>1, SmallestNumber
<1>5. m \in 1..n /\ ~ImportInv(f[m], m)
    BY <1>2, <1>4
<1>6. ImportInv(f[m - 1], m - 1)
    <2>1. m - 1 \in 0..n /\ m - 1 \notin U
        BY <1>4, <1>5
    <2> QED  BY <2>1
<1> HIDE DEF U
<1>7. CASE m > Known
    <2>1. f[m] = ImportFill(f[m - 1], m) /\ m \in DOMAIN truth
        BY <1>2, <1>3, <1>5, <1>7, NovelIs DEF SyncInv
    <2> QED  BY <1>5, <1>6, <1>7, <2>1, ImportFillStep
<1>8. CASE m <= Known
    <2>1. f[m] = f[m - 1]
        BY <1>2, <1>3, <1>5, <1>8, NovelIs DEF SyncInv
    <2>2. (IF m < Known THEN Known ELSE m) = (IF m - 1 < Known THEN Known ELSE m - 1)
        BY <1>3, <1>5, <1>8
    <2> QED  BY <1>5, <1>6, <2>1, <2>2 DEF ImportInv
<1> QED  BY <1>3, <1>5, <1>7, <1>8

\* The confirmations close rows of which the broker works nothing any more.
LEMMA CancelsSound ==
    ASSUME SyncInv, NEW st \in Work, RowsImported(st), NEW date \in Days,
           NEW orders \in SUBSET DOMAIN dead
    PROVE  LET new == ConfirmCancels(st, orders, date)
           IN new \in Work /\ RowsImported(new) /\ new.fills = st.fills
<1> DEFINE Row(o) == IF o \in orders
                     THEN [st.ledger[o] EXCEPT !.status = "CANCELLED", !.updated = date,
                                               !.event = "BROKER_CANCELLED"]
                     ELSE st.ledger[o]
           book == [o \in DOMAIN st.ledger |-> Row(o)]
           bad == st.bad \cup {o \in orders : st.ledger[o].status \in {"FILLED", "REPLACED"}}
           done == st.done \cup orders
           new == ConfirmCancels(st, orders, date)
<1>1. new = [st EXCEPT !.bad = bad, !.ledger = book, !.done = done]
    BY DEF ConfirmCancels
<1>2. /\ orders \subseteq DOMAIN ledger /\ \A o \in orders : working[o] = 0
      /\ DOMAIN ledger \subseteq Orders
    <2>1. orders \subseteq DOMAIN ledger /\ \A o \in orders : working[o] = 0
        BY DEF SyncInv, SyncTypeOK, TruthInv
    <2>2. DOMAIN ledger = 1..(nextSeq - 1) /\ nextSeq \in 1..(MaxOrders + 1) /\ MaxOrders \in Nat
        BY BoundsAssumption DEF SyncInv, LedgerInv, LedgerTypeOK
    <2>3. 1..(nextSeq - 1) \subseteq Orders
        BY <2>2 DEF Orders
    <2> QED  BY <2>1, <2>2, <2>3
<1>3. \A o \in DOMAIN ledger : RowAdvances(o, Row(o)) /\ (o \in orders => ~Live(Row(o)))
    <2> SUFFICES ASSUME NEW o \in DOMAIN ledger
                 PROVE  RowAdvances(o, Row(o)) /\ (o \in orders => ~Live(Row(o)))
        OBVIOUS
    <2>1. RowAdvances(o, st.ledger[o])
        BY DEF RowsImported
    <2> QED  BY <1>2, <2>1, CancelledRowAdvances
<1>4. \A o \in DOMAIN ledger : o \notin orders => Row(o) = st.ledger[o]
    OBVIOUS
<1> HIDE DEF Row
<1>5. book \in [DOMAIN ledger -> AccountOrder] /\ \A o \in DOMAIN ledger : book[o] = Row(o)
    BY <1>3 DEF RowAdvances, Work
<1>6. bad \subseteq Orders \cup {0} /\ done \subseteq Orders
    BY <1>2 DEF Work
<1> HIDE DEF book, bad, done, new
<1>7. /\ new \in Work /\ new.ledger = book /\ new.done = done /\ new.fills = st.fills
    BY <1>1, <1>5, <1>6 DEF Work
<1>8. \A o \in done : o \in DOMAIN ledger /\ ~Live(book[o])
    BY <1>2, <1>3, <1>4, <1>5 DEF RowsImported, done
<1>9. RowsImported(new)
    BY <1>3, <1>5, <1>7, <1>8 DEF RowsImported
<1> QED  BY <1>7, <1>9 DEF new

\* What an accepted snapshot makes of the account.
LEMMA SyncShape ==
    ASSUME SyncInv, NEW file \in SnapshotFiles, Sync(file)
    PROVE  /\ ledger' \in [DOMAIN ledger -> AccountOrder]
           /\ \A o \in DOMAIN ledger : RowAdvances(o, ledger'[o])
           /\ \E done \in SUBSET DOMAIN ledger :
                 /\ pending' = [o \in DOMAIN pending \ done |-> ledger'[o].remaining]
                 /\ \A o \in done : ~Live(ledger'[o])
           /\ fills' = FillsUpTo(file.n)
           /\ fills' \subseteq Fill
           /\ Loads(ledger', pending', fills')
           /\ held' = [s \in Symbols |-> TrueHeld(s, file.n)]
           /\ owner' \in [Symbols -> Grants \cup {NoGrant}]
           /\ asOf' = file.asOf /\ refused' = {}
           /\ UNCHANGED <<broker, closedLoop, day, nextSeq, ran, snap>>
<1> DEFINE start == [bad |-> Discontinued(file.n), ledger |-> ledger, done |-> {},
                     fills |-> fills, held |-> held, owner |-> owner]
           imported == IF start.bad # {} THEN start ELSE Imported(start, file.n)
           confirmed == ConfirmCancels(imported, file.dead, file.asOf)
           st == Applied(file)
<1>1. /\ Current(file) /\ Acceptable(st)
      /\ ledger' = st.ledger /\ pending' = Remaining(st) /\ fills' = st.fills
      /\ held' = st.held /\ owner' = st.owner
      /\ asOf' = file.asOf /\ refused' = {}
      /\ UNCHANGED <<broker, closedLoop, day, nextSeq, ran, snap>>
    BY DEF Sync
<1>2. /\ file.n \in Nat /\ Known <= file.n /\ file.n <= Len(truth)
      /\ file.asOf \in Days /\ file.dead \subseteq DOMAIN dead
    BY <1>1, FileShape
<1>3. st = IF imported.bad # {} THEN imported ELSE ReconcilePositions(confirmed, file.n)
    BY DEF Applied
<1>4. st.bad = {} /\ Loads(st.ledger, Remaining(st), st.fills)
    BY <1>1 DEF Acceptable
<1>5. imported.bad = {} /\ st = ReconcilePositions(confirmed, file.n)
    <2> HIDE DEF imported, confirmed, st
    <2> QED  BY <1>3, <1>4
<1>6. imported = Imported(start, file.n)
    BY <1>5
<1>7. ImportInv(start, 0)
    <2>1. start.bad = {}
        BY <1>5
    <2>2. /\ ledger \in [DOMAIN ledger -> AccountOrder] /\ fills \subseteq Fill
          /\ held \in [Symbols -> Int] /\ owner \in [Symbols -> Grants \cup {NoGrant}]
        BY DEF SyncInv, SyncTypeOK, LedgerInv, LedgerTypeOK
    <2>3. start \in Work
        <3>1. Discontinued(file.n) \subseteq Orders \cup {0}
            BY <2>1
        <3> QED  BY <2>2, <3>1 DEF Work
    <2>4. RowsImported(start)
        BY RowStands DEF RowsImported
    <2>5. start.fills = FillsUpTo(IF 0 < Known THEN Known ELSE 0)
        BY DEF SyncInv, KnownInv
    <2> QED  BY <2>3, <2>4, <2>5 DEF ImportInv
<1>8. ImportInv(imported, file.n)
    <2> HIDE DEF start, imported
    <2> QED  BY <1>2, <1>6, <1>7, ImportSound
<1> HIDE DEF start, imported
<1>9. imported \in Work /\ RowsImported(imported) /\ imported.fills = FillsUpTo(file.n)
    <2>1. Known \in Nat /\ ~(file.n < Known)
        BY <1>2 DEF SyncInv, KnownInv
    <2> QED  BY <1>5, <1>8, <2>1 DEF ImportInv
<1>10. confirmed \in Work /\ RowsImported(confirmed) /\ confirmed.fills = imported.fills
    BY <1>2, <1>9, CancelsSound
<1> HIDE DEF confirmed, st
<1>11. /\ st.ledger = confirmed.ledger /\ st.done = confirmed.done /\ st.fills = confirmed.fills
       /\ st.held = [s \in Symbols |-> TrueHeld(s, file.n)]
       /\ st.owner = [s \in Symbols |-> IF TrueHeld(s, file.n) = 0 THEN NoGrant
                                        ELSE confirmed.owner[s]]
    BY <1>5, <1>10 DEF ReconcilePositions, Work
<1>12. owner' \in [Symbols -> Grants \cup {NoGrant}]
    BY <1>1, <1>10, <1>11 DEF Work
<1>13. /\ ledger' \in [DOMAIN ledger -> AccountOrder] /\ fills' \subseteq Fill
       /\ \A o \in DOMAIN ledger : RowAdvances(o, ledger'[o])
    BY <1>1, <1>10, <1>11 DEF Work, RowsImported
<1>14. /\ st.done \in SUBSET DOMAIN ledger
       /\ pending' = [o \in DOMAIN pending \ st.done |-> ledger'[o].remaining]
       /\ \A o \in st.done : ~Live(ledger'[o])
    BY <1>1, <1>10, <1>11 DEF Remaining, RowsImported
<1> QED  BY <1>1, <1>4, <1>9, <1>10, <1>11, <1>12, <1>13, <1>14

\* A refused snapshot is refused for orders, or for the positions.
LEMMA RefusedFor ==
    ASSUME SyncInv, NEW file \in SnapshotFiles, Current(file)
    PROVE  Applied(file).bad \subseteq Orders \cup {0}
<1> DEFINE start == [bad |-> Discontinued(file.n), ledger |-> ledger, done |-> {},
                     fills |-> fills, held |-> held, owner |-> owner]
           imported == IF start.bad # {} THEN start ELSE Imported(start, file.n)
           confirmed == ConfirmCancels(imported, file.dead, file.asOf)
           short == \E s \in Symbols : TrueHeld(s, file.n) > confirmed.held[s]
           st == Applied(file)
<1>1. /\ file.n \in Nat /\ Known <= file.n /\ file.n <= Len(truth)
      /\ file.asOf \in Days /\ file.dead \subseteq DOMAIN dead
    BY FileShape
<1>2. st = IF imported.bad # {} THEN imported ELSE ReconcilePositions(confirmed, file.n)
    BY DEF Applied
<1>3. Discontinued(file.n) \subseteq Orders
    <2>1. \A k \in Novel(file.n) : k \in DOMAIN truth /\ truth[k].order \in Orders
        BY <1>1, TruthShape DEF Novel, SyncInv
    <2> QED  BY <2>1 DEF Discontinued
<1>4. CASE start.bad # {}
    BY <1>2, <1>3, <1>4
<1>5. CASE start.bad = {}
    <2>1. /\ ledger \in [DOMAIN ledger -> AccountOrder] /\ fills \subseteq Fill
          /\ held \in [Symbols -> Int] /\ owner \in [Symbols -> Grants \cup {NoGrant}]
        BY DEF SyncInv, SyncTypeOK, LedgerInv, LedgerTypeOK
    <2>2. start \in Work
        BY <1>3, <2>1 DEF Work
    <2>3. RowsImported(start)
        BY RowStands DEF RowsImported
    <2>4. start.fills = FillsUpTo(IF 0 < Known THEN Known ELSE 0)
        BY DEF SyncInv, KnownInv
    <2>5. ImportInv(start, 0)
        BY <2>2, <2>3, <2>4 DEF ImportInv
    <2>6. imported = Imported(start, file.n)
        BY <1>5
    <2> HIDE DEF start, imported
    <2>7. imported \in Work /\ RowsImported(imported)
        BY <1>1, <2>5, <2>6, ImportSound DEF ImportInv
    <2>8. confirmed \in Work
        BY <1>1, <2>7, CancelsSound
    <2> HIDE DEF confirmed, st
    <2>9. ReconcilePositions(confirmed, file.n).bad
             = confirmed.bad \cup (IF short THEN {0} ELSE {})
        BY <2>8 DEF ReconcilePositions, Work
    <2> HIDE DEF short
    <2>10. st.bad \subseteq Orders \cup {0}
        BY <1>2, <2>7, <2>8, <2>9 DEF Work
    <2> QED  BY <2>10 DEF st
<1> QED  BY <1>4, <1>5

--------------------------------------------------------------------------------
(* Production: the true holdings *)

\* The shares of executions S of the list t, and what the first n of them leave of a symbol.
ListSum(h, t, S) ==
    h = [s \in SUBSET S |-> IF s = {} THEN 0 ELSE t[First(s)].shares + h[s \ {First(s)}]]
ListShares(t, S) == (CHOOSE h : ListSum(h, t, S))[S]
ListOf(t, book, s, side, n) ==
    {k \in 1..n : book[t[k].order].symbol = s /\ book[t[k].order].side = side}
HeldIn(t, book, s, n) ==
    ListShares(t, ListOf(t, book, s, "BUY", n)) - ListShares(t, ListOf(t, book, s, "SELL", n))

LEMMA TrueHeldIs ==
    ASSUME NEW s, NEW n
    PROVE  TrueHeld(s, n) = HeldIn(truth, ledger, s, n)
BY DEF TrueHeld, Shares, Executions, HeldIn, ListShares, ListSum, ListOf, MapThenSumSet,
       MapThenFoldSet, First

LEMMA PositionsAre ==
    /\ PositionsMatchFills <=> \A s \in Symbols : held[s] = HeldIn(truth, ledger, s, Known)
    /\ PositionsMatchFills' <=>
          \A s \in Symbols : held'[s] = HeldIn(truth', ledger', s, Cardinality(fills'))
BY DEF PositionsMatchFills, TrueHeld, Shares, Executions, HeldIn, ListShares, ListSum, ListOf,
       MapThenSumSet, MapThenFoldSet, First, Known

LEMMA ListSharesAre ==
    ASSUME NEW t, NEW S, IsFiniteSet(S)
    PROVE  ListShares(t, S) = SumOf([k \in S |-> t[k].shares], S)
<1> DEFINE w == [k \in S |-> t[k].shares]
<1>1. \A s \in SUBSET S : s # {} => w[First(s)] = t[First(s)].shares
    <2>1. \A s \in SUBSET S : s # {} => First(s) \in S
        BY DEF First
    <2> QED  BY <2>1
<1>2. \A h : ListSum(h, t, S) <=> Sums(h, w, S)
    <2> TAKE h
    <2> DEFINE a == [s \in SUBSET S |->
                        IF s = {} THEN 0 ELSE t[First(s)].shares + h[s \ {First(s)}]]
               b == [s \in SUBSET S |-> IF s = {} THEN 0 ELSE w[First(s)] + h[s \ {First(s)}]]
    <2> HIDE DEF w
    <2>1. a = b
        BY <1>1
    <2> QED  BY <2>1 DEF ListSum, Sums
<1> HIDE DEF w
<1> DEFINE g == CHOOSE h : ListSum(h, t, S)
<1>3. ListSum(g, t, S)
    BY <1>2, SumsExist
<1>4. PICK h : Sums(h, w, S) /\ SumOf(w, S) = h[S]
    BY SumExists
<1>5. Sums(g, w, S)
    BY <1>2, <1>3
<1>6. ListShares(t, S) = g[S]
    BY DEF ListShares
<1> HIDE DEF g
<1>7. ListShares(t, S) = SumOf(w, S)
    BY <1>4, <1>5, <1>6, SumsUnique
<1> QED  BY <1>7 DEF w

LEMMA ListFinite ==
    ASSUME NEW t, NEW book, NEW s, NEW side, NEW n \in Nat
    PROVE  IsFiniteSet(ListOf(t, book, s, side, n))
<1>1. IsFiniteSet(1..n)
    BY FS_Interval
<1>2. ListOf(t, book, s, side, n) \subseteq 1..n
    BY DEF ListOf
<1> QED  BY <1>1, <1>2, FS_Subset

\* What is held by the first executions depends on them and on the identity of their orders.
LEMMA HeldInSame ==
    ASSUME NEW t, NEW u, NEW a, NEW b, NEW s, NEW n \in Nat, \A k \in 1..n : u[k] = t[k],
           \A k \in 1..n : /\ a[t[k].order].symbol = b[t[k].order].symbol
                           /\ a[t[k].order].side = b[t[k].order].side
    PROVE  HeldIn(t, a, s, n) = HeldIn(u, b, s, n)
<1>1. ASSUME NEW side
      PROVE  ListShares(t, ListOf(t, a, s, side, n)) = ListShares(u, ListOf(u, b, s, side, n))
    <2> DEFINE S == ListOf(t, a, s, side, n)
               w == [k \in S |-> t[k].shares]
               v == [k \in S |-> u[k].shares]
    <2>1. S = ListOf(u, b, s, side, n) /\ S \subseteq 1..n
        BY DEF ListOf
    <2>2. IsFiniteSet(S)
        BY ListFinite
    <2> HIDE DEF S
    <2>3. \A k \in S : w[k] = v[k]
        BY <2>1
    <2> HIDE DEF w, v
    <2>4. SumOf(w, S) = SumOf(v, S)
        BY <2>2, <2>3, SumSame
    <2>5. ListShares(t, S) = SumOf(w, S) /\ ListShares(u, S) = SumOf(v, S)
        BY <2>2, ListSharesAre DEF w, v
    <2> QED  BY <2>1, <2>4, <2>5 DEF S
<1> QED  BY <1>1 DEF HeldIn

LEMMA HeldInType ==
    ASSUME NEW t, NEW book, NEW s, NEW n \in Nat, \A k \in 1..n : t[k].shares \in Nat
    PROVE  HeldIn(t, book, s, n) \in Int
<1>1. ASSUME NEW side PROVE ListShares(t, ListOf(t, book, s, side, n)) \in Nat
    <2> DEFINE S == ListOf(t, book, s, side, n)
               w == [k \in S |-> t[k].shares]
    <2>1. S \subseteq 1..n
        BY DEF ListOf
    <2>2. IsFiniteSet(S)
        BY ListFinite
    <2> HIDE DEF S
    <2>3. \A k \in S : w[k] \in Nat
        BY <2>1
    <2> HIDE DEF w
    <2>4. SumOf(w, S) \in Nat
        BY <2>2, <2>3, SumNat
    <2>5. ListShares(t, S) = SumOf(w, S)
        BY <2>2, ListSharesAre DEF w
    <2> QED  BY <2>4, <2>5 DEF S
<1> QED  BY <1>1 DEF HeldIn

\* As many fills are known as the numbers they carry.
LEMMA FillsCounted ==
    ASSUME NEW n \in Nat
    PROVE  IsFiniteSet(FillsUpTo(n)) /\ Cardinality(FillsUpTo(n)) = n
<1> DEFINE S == 1..n
           f == [k \in S |-> FillOf(k)]
           T == FillsUpTo(n)
<1>1. IsFiniteSet(S) /\ Cardinality(S) = n
    BY FS_Interval
<1>2. \A k \in S : FillOf(k).id = k
    BY DEF FillOf
<1>3. f \in Bijection(S, T)
    <2>1. f \in [S -> T] /\ \A k \in S : f[k] = FillOf(k)
        BY DEF FillsUpTo
    <2>2. \A x \in T : \E k \in S : f[k] = x
        BY DEF FillsUpTo
    <2> HIDE DEF S, T, f
    <2>3. \A j, k \in S : f[j] = f[k] => j = k
        BY <1>2, <2>1
    <2>4. f \in Injection(S, T)
        BY <2>1, <2>3 DEF Injection, IsInjective
    <2>5. f \in Surjection(S, T)
        BY <2>1, <2>2 DEF Surjection
    <2> QED  BY <2>4, <2>5 DEF Bijection
<1> HIDE DEF S, T, f
<1>4. IsFiniteSet(T) /\ Cardinality(T) = n
    BY <1>1, <1>3, FS_Bijection DEF ExistsBijection
<1> QED  BY <1>4 DEF T

--------------------------------------------------------------------------------
(* Production: each action keeps the invariant *)

\* The rows, intents and fills that a sync leaves keep the ledger invariant: what it closes
\* it also drops.
LEMMA SyncKeepsLedgerInv ==
    ASSUME SyncInv, NEW file \in SnapshotFiles, Sync(file)
    PROVE  LedgerInv'
<1>1. /\ ledger' \in [DOMAIN ledger -> AccountOrder]
      /\ \A o \in DOMAIN ledger : RowAdvances(o, ledger'[o])
      /\ fills' \subseteq Fill
      /\ Loads(ledger', pending', fills')
      /\ day' = day /\ nextSeq' = nextSeq
    BY SyncShape
<1>2. PICK done \in SUBSET DOMAIN ledger :
          /\ pending' = [o \in DOMAIN pending \ done |-> ledger'[o].remaining]
          /\ \A o \in done : ~Live(ledger'[o])
    BY SyncShape
<1>3. /\ LedgerTypeOK /\ RowsAgree /\ FreezeOnlyBuys /\ LiveOrdersTracked /\ NoOverlap
      /\ DOMAIN pending \subseteq DOMAIN ledger /\ ledger \in [1..(nextSeq - 1) -> AccountOrder]
    BY DEF SyncInv, LedgerInv, LedgerTypeOK
<1>4. DOMAIN ledger' = DOMAIN ledger /\ DOMAIN pending' = DOMAIN pending \ done
    BY <1>1, <1>2
<1>5. \A o \in DOMAIN ledger :
          /\ ledger'[o] \in AccountOrder
          /\ ledger'[o].symbol = ledger[o].symbol /\ ledger'[o].side = ledger[o].side
          /\ ledger'[o].submitted = ledger[o].submitted
          /\ Live(ledger'[o]) => Live(ledger[o]) /\ ledger'[o].reason = ledger[o].reason
          /\ ledger'[o].reason = Freeze => ledger[o].reason = Freeze
    BY <1>1 DEF RowAdvances
<1>6. LedgerTypeOK'
    <2>1. pending' \in [DOMAIN pending' -> Nat]
        <3>1. \A o \in DOMAIN pending \ done : ledger'[o].remaining \in Nat
            BY <1>3, <1>5 DEF AccountOrder
        <3> QED  BY <1>2, <3>1
    <2>2. ledger' \in [1..(nextSeq' - 1) -> AccountOrder]
        BY <1>1, <1>3
    <2> QED  BY <1>1, <1>3, <1>4, <2>1, <2>2 DEF LedgerTypeOK
<1>7. RowsAgree'
    <2>1. \A o \in DOMAIN ledger : RowAgrees(ledger'[o]) /\ ledger'[o].submitted <= day
        BY <1>1, <1>3, <1>4, <1>5 DEF Loads, RowsAgree
    <2> QED  BY <1>1, <1>4, <2>1 DEF RowsAgree, RowAgrees
<1>8. PendingAgrees(ledger, pending)'
    <2>1. \A o \in DOMAIN pending' : Live(ledger'[o]) /\ ledger'[o].remaining = pending'[o]
        BY <1>1 DEF Loads, PendingAgrees
    <2> QED  BY <2>1 DEF PendingAgrees, Live
<1>9. FreezeOnlyBuys'
    BY <1>3, <1>4, <1>5 DEF FreezeOnlyBuys
<1>10. LiveOrdersTracked'
    <2> SUFFICES ASSUME NEW o \in DOMAIN ledger, Live(ledger'[o])
                 PROVE  (o \in DOMAIN pending') # AwaitingCancel(ledger'[o])
        BY <1>4 DEF LiveOrdersTracked, Live, AwaitingCancel
    <2>1. o \notin done /\ Live(ledger[o])
        BY <1>2, <1>5
    <2>2. (o \in DOMAIN pending) # AwaitingCancel(ledger[o])
        BY <1>3, <2>1 DEF LiveOrdersTracked
    <2>3. AwaitingCancel(ledger'[o]) <=> AwaitingCancel(ledger[o])
        BY <1>5, <2>1 DEF AwaitingCancel
    <2>4. (o \in DOMAIN pending') <=> (o \in DOMAIN pending)
        BY <1>4, <2>1
    <2> QED  BY <2>2, <2>3, <2>4 DEF AwaitingCancel
<1>11. NoOverlap'
    <2>1. \A o, p \in DOMAIN ledger' :
             (o # p /\ Live(ledger'[o]) /\ Live(ledger'[p]) /\ ledger'[o].side = ledger'[p].side)
                => ledger'[o].symbol # ledger'[p].symbol
        BY <1>3, <1>4, <1>5 DEF NoOverlap
    <2>2. \A o, p \in DOMAIN pending' : o # p => ledger'[o].symbol # ledger'[p].symbol
        BY <1>3, <1>4, <1>5 DEF NoOverlap
    <2> QED  BY <2>1, <2>2 DEF NoOverlap, Live
<1> QED  BY <1>6, <1>7, <1>8, <1>9, <1>10, <1>11 DEF LedgerInv

\* What a snapshot lists is imported, all of it, and the positions are those of its executions.
LEMMA SyncKeepsSyncInv ==
    ASSUME SyncInv, NEW file \in SnapshotFiles, Sync(file)
    PROVE  SyncInv'
<1>1. /\ ledger' \in [DOMAIN ledger -> AccountOrder]
      /\ \A o \in DOMAIN ledger : RowAdvances(o, ledger'[o])
      /\ fills' = FillsUpTo(file.n)
      /\ held' = [s \in Symbols |-> TrueHeld(s, file.n)]
      /\ owner' \in [Symbols -> Grants \cup {NoGrant}]
      /\ asOf' = file.asOf /\ refused' = {}
      /\ UNCHANGED <<truth, working, dead, closedLoop, day, nextSeq, ran, snap>>
    BY SyncShape DEF broker
<1>2. /\ file.n \in Nat /\ Known <= file.n /\ file.n <= snap.n /\ file.n <= Len(truth)
      /\ file.asOf \in Days /\ file.asOf <= day /\ file.asOf >= asOf
      /\ \A k \in 1..file.n : k \in DOMAIN truth /\ truth[k].day <= file.asOf
    BY FileShape DEF Sync
<1>3. SyncTypeOK /\ TruthInv /\ SnapInv /\ BrokerLiabilityKnown
    BY DEF SyncInv
<1>4. /\ DOMAIN ledger' = DOMAIN ledger
      /\ \A o \in DOMAIN ledger :
            /\ ledger'[o].symbol = ledger[o].symbol /\ ledger'[o].side = ledger[o].side
            /\ ledger'[o].submitted = ledger[o].submitted
            /\ ~Live(ledger'[o]) =>
                  working[o] = 0 \/ ledger'[o].event = "LATE_FILL_SUPPRESSED_RETRY"
    BY <1>1 DEF RowAdvances
<1>5. \A k \in 1..file.n : truth[k].shares \in Nat /\ truth[k].order \in DOMAIN ledger
    BY <1>2, <1>3, TruthShape DEF TruthInv
<1>6. held' = [s \in Symbols |-> HeldIn(truth, ledger, s, file.n)]
    <2>1. \A s \in Symbols : TrueHeld(s, file.n) = HeldIn(truth, ledger, s, file.n)
        BY TrueHeldIs
    <2> QED  BY <1>1, <2>1
<1>7. SyncTypeOK'
    <2>1. held' \in [Symbols -> Int]
        <3>1. \A s \in Symbols : HeldIn(truth, ledger, s, file.n) \in Int
            BY <1>2, <1>5, HeldInType
        <3> QED  BY <1>6, <3>1
    <2>2. asOf' \in 0..MaxDay
        BY <1>1, <1>2, BoundsAssumption DEF Days
    <2> QED  BY <1>1, <1>3, <1>4, <2>1, <2>2 DEF SyncTypeOK
<1>8. TruthInv'
    BY <1>1, <1>3, <1>4 DEF TruthInv
<1>9. SnapInv'
    BY <1>1, <1>3 DEF SnapInv
<1>10. Cardinality(fills') = file.n
    BY <1>1, <1>2, FillsCounted
<1>11. KnownInv'
    <2>1. Known' = file.n
        BY <1>10 DEF Known
    <2>2. FillsUpTo(file.n) = {[order |-> truth[k].order, day |-> truth[k].day,
                                shares |-> truth[k].shares, id |-> k] : k \in 1..file.n}
        BY DEF FillsUpTo, FillOf
    <2>3. FillsUpTo(Known)' = {[order |-> truth'[k].order, day |-> truth'[k].day,
                                shares |-> truth'[k].shares, id |-> k] : k \in 1..Known'}
        BY DEF FillsUpTo, FillOf
    <2>4. fills' = FillsUpTo(Known)'
        BY <1>1, <2>1, <2>2, <2>3
    <2> QED  BY <1>1, <1>2, <2>1, <2>4 DEF KnownInv
<1>12. PositionsMatchFills'
    <2>1. \A s \in Symbols : HeldIn(truth, ledger, s, file.n) = HeldIn(truth', ledger', s, file.n)
        BY <1>1, <1>2, <1>4, <1>5, HeldInSame
    <2> QED  BY <1>6, <1>10, <2>1, PositionsAre
<1>13. BrokerLiabilityKnown'
    BY <1>1, <1>3, <1>4 DEF BrokerLiabilityKnown, SyncTypeOK, Live
<1>14. LedgerInv'
    BY SyncKeepsLedgerInv
<1> QED  BY <1>7, <1>8, <1>9, <1>11, <1>12, <1>13, <1>14 DEF SyncInv

\* The ledger invariant outlives a step that leaves the ledger alone, a new day included.
LEMMA LedgerInvStays ==
    ASSUME LedgerInv, UNCHANGED <<ledger, pending, nextSeq, fills>>, day' \in Days, day' >= day
    PROVE  LedgerInv'
<1>1. \A o \in DOMAIN ledger : ledger[o].submitted \in Nat /\ ledger[o].submitted <= day'
    <2>1. \A o \in DOMAIN ledger : ledger[o] \in AccountOrder /\ ledger[o].submitted <= day
        BY DEF LedgerInv, LedgerTypeOK, RowsAgree
    <2>2. \A o \in DOMAIN ledger : ledger[o].submitted \in Nat
        BY <2>1 DEF AccountOrder, Days
    <2>3. day \in Nat /\ day' \in Nat
        BY DEF LedgerInv, LedgerTypeOK, Days
    <2> QED  BY <2>1, <2>2, <2>3
<1>2. LedgerTypeOK'
    BY DEF LedgerInv, LedgerTypeOK
<1>3. RowsAgree'
    BY <1>1 DEF LedgerInv, RowsAgree, RowAgrees
<1>4. /\ PendingAgrees(ledger, pending)' /\ FreezeOnlyBuys' /\ LiveOrdersTracked' /\ NoOverlap'
    BY DEF LedgerInv, PendingAgrees, FreezeOnlyBuys, LiveOrdersTracked, NoOverlap, Live,
           AwaitingCancel
<1> QED  BY <1>2, <1>3, <1>4 DEF LedgerInv

\* What the account knows stays true when the broker executes more, and when rows change
\* that keep their identity.
LEMMA KnownStays ==
    ASSUME SyncInv, UNCHANGED <<fills, asOf, held>>, snap'.n \in Nat, snap'.n >= snap.n,
           \A k \in DOMAIN truth : truth'[k] = truth[k],
           \A o \in DOMAIN ledger : /\ ledger'[o].symbol = ledger[o].symbol
                                    /\ ledger'[o].side = ledger[o].side
    PROVE  KnownInv' /\ PositionsMatchFills'
<1>1. /\ Known \in Nat /\ Known <= snap.n /\ fills = FillsUpTo(Known) /\ snap.n <= Len(truth)
      /\ \A k \in 1..Known : truth[k].day <= asOf
      /\ snap.n \in Nat /\ Len(truth) \in Nat /\ DOMAIN truth = 1..Len(truth)
    BY TruthShape DEF SyncInv, KnownInv, SnapInv, SyncTypeOK
<1>2. \A k \in 1..Known : k \in DOMAIN truth /\ truth'[k] = truth[k]
                          /\ truth[k].order \in DOMAIN ledger
    BY <1>1 DEF SyncInv, TruthInv
<1>3. Known' = Known /\ Cardinality(fills') = Known
    BY DEF Known
<1>4. FillsUpTo(Known) = {[order |-> truth[k].order, day |-> truth[k].day,
                           shares |-> truth[k].shares, id |-> k] : k \in 1..Known}
    BY DEF FillsUpTo, FillOf
<1>5. FillsUpTo(Known)' = {[order |-> truth'[k].order, day |-> truth'[k].day,
                            shares |-> truth'[k].shares, id |-> k] : k \in 1..Known'}
    BY DEF FillsUpTo, FillOf
<1>6. fills' = FillsUpTo(Known)'
    BY <1>1, <1>2, <1>3, <1>4, <1>5
<1>7. KnownInv'
    BY <1>1, <1>2, <1>3, <1>6 DEF KnownInv
<1>8. PositionsMatchFills'
    <2> DEFINE c == Known
    <2>1. c \in Nat /\ \A k \in 1..c : /\ truth'[k] = truth[k]
                                       /\ truth[k].order \in DOMAIN ledger
        BY <1>1, <1>2
    <2>2. \A s \in Symbols : held[s] = HeldIn(truth, ledger, s, c)
        BY PositionsAre DEF SyncInv
    <2>3. PositionsMatchFills' <=> \A s \in Symbols : held'[s] = HeldIn(truth', ledger', s, c)
        BY <1>3, PositionsAre
    <2> HIDE DEF c
    <2>4. \A s \in Symbols : HeldIn(truth, ledger, s, c) = HeldIn(truth', ledger', s, c)
        BY <2>1, HeldInSame
    <2> QED  BY <2>2, <2>3, <2>4
<1> QED  BY <1>7, <1>8

\* The broker executes what the order still has.
LEMMA BrokerFillsKeeps ==
    ASSUME SyncInv, NEW o \in DOMAIN working, NEW n \in 1..MaxShares, BrokerFills(o, n)
    PROVE  SyncInv'
<1> DEFINE new == [order |-> o, day |-> day, shares |-> n, remaining |-> working[o] - n]
<1>1. /\ ledger[o].submitted < day /\ n <= working[o]
      /\ truth' = Append(truth, new)
      /\ working' = [working EXCEPT ![o] = @ - n]
      /\ UNCHANGED <<ledger, pending, nextSeq, fills, asOf, ran, held, owner,
                     closedLoop, day, dead, snap, refused>>
    BY DEF BrokerFills, account
<1>2. /\ SyncTypeOK /\ TruthInv /\ SnapInv /\ BrokerLiabilityKnown /\ LedgerInv
      /\ o \in DOMAIN ledger /\ working \in [DOMAIN ledger -> Nat] /\ working[o] \in Nat
      /\ day \in Days /\ day \in Nat /\ n \in Nat \ {0} /\ o \in Orders
    <2>1. o \in DOMAIN ledger /\ working \in [DOMAIN ledger -> Nat] /\ n \in Nat \ {0}
        BY BoundsAssumption DEF SyncInv, SyncTypeOK
    <2>2. o \in Orders /\ day \in Days
        BY <2>1, BoundsAssumption DEF SyncInv, LedgerInv, LedgerTypeOK, Orders
    <2> QED  BY <2>1, <2>2 DEF SyncInv, Days
<1>3. /\ new.order = o /\ new.day = day /\ new.remaining = working[o] - n /\ new \in Execution
    BY <1>1, <1>2 DEF Execution
<1> HIDE DEF new
<1>4. /\ truth' \in Seq(Execution) /\ Len(truth') = Len(truth) + 1
      /\ DOMAIN truth = 1..Len(truth) /\ DOMAIN truth' = 1..(Len(truth) + 1)
      /\ Len(truth) \in Nat
      /\ \A k \in DOMAIN truth : truth'[k] = truth[k]
      /\ truth'[Len(truth) + 1] = new
    BY <1>1, <1>2, <1>3 DEF SyncTypeOK
<1>5. /\ working' \in [DOMAIN ledger' -> Nat] /\ working'[o] = working[o] - n
      /\ \A p \in DOMAIN ledger : p # o => working'[p] = working[p]
      /\ \A p \in DOMAIN ledger : working'[p] <= working[p] /\ working[p] \in Nat
    BY <1>1, <1>2
<1>6. SyncTypeOK'
    BY <1>1, <1>2, <1>4, <1>5 DEF SyncTypeOK
<1>7. TruthInv'
    <2>1. \A k \in DOMAIN truth : /\ truth[k].order \in DOMAIN ledger
                                  /\ ledger[truth[k].order].submitted < truth[k].day
                                  /\ truth[k].day <= day
                                  /\ working[truth[k].order] <= truth[k].remaining
                                  /\ truth[k].remaining \in Nat /\ truth[k].day \in Nat
        BY <1>2, TruthShape DEF TruthInv
    <2>2. ASSUME NEW k \in DOMAIN truth'
          PROVE  /\ truth'[k].order \in DOMAIN ledger'
                 /\ ledger'[truth'[k].order].submitted < truth'[k].day /\ truth'[k].day <= day'
                 /\ working'[truth'[k].order] <= truth'[k].remaining
        <3>1. CASE k \in DOMAIN truth
            <4>1. working'[truth[k].order] \in Nat
                BY <1>1, <1>5, <2>1, <3>1
            <4> QED  BY <1>1, <1>4, <1>5, <2>1, <3>1, <4>1
        <3>2. CASE k = Len(truth) + 1
            BY <1>1, <1>2, <1>3, <1>4, <1>5, <3>2
        <3> QED  BY <1>4, <3>1, <3>2
    <2>3. ASSUME NEW j \in DOMAIN truth', NEW k \in DOMAIN truth', j <= k
          PROVE  truth'[j].day <= truth'[k].day
        <3>1. CASE k \in DOMAIN truth
            <4>1. j \in DOMAIN truth
                BY <1>4, <2>3, <3>1
            <4> QED  BY <1>2, <1>4, <2>3, <3>1, <4>1 DEF TruthInv
        <3>2. CASE k = Len(truth) + 1
            BY <1>2, <1>3, <1>4, <2>1, <3>2
        <3> QED  BY <1>4, <3>1, <3>2
    <2>4. \A p \in DOMAIN dead' : working'[p] = 0
        <3>1. \A p \in DOMAIN dead : p \in DOMAIN ledger /\ working[p] = 0
            BY <1>2 DEF TruthInv, SyncTypeOK
        <3>2. o \notin DOMAIN dead
            BY <1>1, <1>2, <3>1
        <3> QED  BY <1>1, <1>5, <3>1, <3>2
    <2> QED  BY <2>2, <2>3, <2>4 DEF TruthInv
<1>8. SnapInv'
    <2>1. /\ snap.asOf <= day /\ snap.n <= Len(truth) /\ snap.dead \subseteq DOMAIN dead
          /\ snap.n \in Nat
          /\ \A k \in DOMAIN truth : /\ k <= snap.n => truth[k].day <= snap.asOf
                                     /\ k > snap.n => truth[k].day >= snap.asOf
        BY <1>2 DEF SnapInv, SyncTypeOK
    <2>2. ASSUME NEW k \in DOMAIN truth'
          PROVE  /\ k <= snap.n => truth'[k].day <= snap.asOf
                 /\ k > snap.n => truth'[k].day >= snap.asOf
        <3>1. CASE k \in DOMAIN truth
            BY <1>4, <2>1, <3>1
        <3>2. CASE k = Len(truth) + 1
            BY <1>3, <1>4, <2>1, <3>2 DEF SyncTypeOK
        <3> QED  BY <1>4, <3>1, <3>2
    <2>3. snap.n <= Len(truth')
        BY <1>4, <2>1
    <2> QED  BY <1>1, <2>1, <2>2, <2>3 DEF SnapInv
<1>9. KnownInv' /\ PositionsMatchFills'
    <2>1. snap'.n \in Nat /\ snap'.n >= snap.n
        BY <1>1, <1>2 DEF SyncTypeOK
    <2> QED  BY <1>1, <1>4, <2>1, KnownStays
<1>10. BrokerLiabilityKnown'
    <2>1. \A p \in DOMAIN ledger : working'[p] > 0 => working[p] > 0
        BY <1>1, <1>5
    <2> QED  BY <1>1, <1>2, <1>5, <2>1 DEF BrokerLiabilityKnown, Live
<1>11. LedgerInv'
    BY <1>1, <1>2, LedgerInvStays
<1> QED  BY <1>6, <1>7, <1>8, <1>9, <1>10, <1>11 DEF SyncInv


\* The broker cancels an order that works.
LEMMA BrokerCancelsKeeps ==
    ASSUME SyncInv, NEW o \in DOMAIN working, BrokerCancels(o)
    PROVE  SyncInv'
<1>1. /\ working' = [working EXCEPT ![o] = 0]
      /\ dead' = [p \in DOMAIN dead \cup {o} |-> IF p = o THEN day ELSE dead[p]]
      /\ UNCHANGED <<ledger, pending, nextSeq, fills, asOf, ran, held, owner,
                     closedLoop, day, truth, snap, refused>>
    BY DEF BrokerCancels, account
<1>2. /\ SyncTypeOK /\ TruthInv /\ SnapInv /\ BrokerLiabilityKnown /\ LedgerInv
      /\ o \in DOMAIN ledger /\ working \in [DOMAIN ledger -> Nat] /\ day \in Days
      /\ DOMAIN dead \subseteq DOMAIN ledger /\ dead \in [DOMAIN dead -> Days]
    BY DEF SyncInv, SyncTypeOK, LedgerInv, LedgerTypeOK
<1>3. /\ working' \in [DOMAIN ledger' -> Nat] /\ working'[o] = 0
      /\ \A p \in DOMAIN ledger : p # o => working'[p] = working[p]
    BY <1>1, <1>2
<1>4. DOMAIN dead' = DOMAIN dead \cup {o} /\ dead' \in [DOMAIN dead' -> Days]
    BY <1>1, <1>2
<1>5. SyncTypeOK'
    BY <1>1, <1>2, <1>3, <1>4 DEF SyncTypeOK
<1>6. TruthInv'
    <2>1. \A k \in DOMAIN truth : /\ truth[k].order \in DOMAIN ledger
                                  /\ truth[k].remaining \in Nat
        BY <1>2, TruthShape DEF TruthInv
    <2>2. \A k \in DOMAIN truth : working'[truth[k].order] <= truth[k].remaining
        BY <1>2, <1>3, <2>1 DEF TruthInv
    <2>3. \A p \in DOMAIN dead' : working'[p] = 0
        BY <1>2, <1>3, <1>4 DEF TruthInv
    <2> QED  BY <1>1, <1>2, <2>2, <2>3 DEF TruthInv
<1>7. SnapInv'
    BY <1>1, <1>2, <1>4 DEF SnapInv
<1>8. KnownInv' /\ PositionsMatchFills'
    <2>1. snap'.n \in Nat /\ snap'.n >= snap.n
        BY <1>1, <1>2 DEF SyncTypeOK
    <2> QED  BY <1>1, <2>1, KnownStays
<1>9. BrokerLiabilityKnown'
    BY <1>1, <1>2, <1>3 DEF BrokerLiabilityKnown, Live
<1>10. LedgerInv'
    <2>1. day' >= day
        BY <1>1, <1>2 DEF Days
    <2> QED  BY <1>1, <1>2, <2>1, LedgerInvStays
<1> QED  BY <1>5, <1>6, <1>7, <1>8, <1>9, <1>10 DEF SyncInv

\* The export of today's snapshot lists every execution.
LEMMA ExportKeeps ==
    ASSUME SyncInv, Export
    PROVE  SyncInv'
<1> DEFINE n == Cardinality({k \in DOMAIN truth : truth[k].day <= day})
<1>1. /\ snap' = [asOf |-> day, n |-> n, dead |-> {o \in DOMAIN dead : dead[o] <= day}]
      /\ UNCHANGED <<ledger, pending, nextSeq, fills, asOf, ran, held, owner,
                     closedLoop, day, truth, working, dead, refused>>
    BY DEF Export, Statement, account, broker
<1>2. /\ SyncTypeOK /\ TruthInv /\ SnapInv /\ BrokerLiabilityKnown /\ LedgerInv
      /\ day \in Days /\ day \in Nat /\ DOMAIN dead \subseteq Orders /\ MaxDay \in Nat
    <2>1. DOMAIN ledger \subseteq Orders /\ day \in Days /\ MaxDay \in Nat
        BY BoundsAssumption DEF SyncInv, LedgerInv, LedgerTypeOK, Orders
    <2> QED  BY <2>1 DEF SyncInv, SyncTypeOK, Days
<1>3. /\ n \in Nat /\ n <= Len(truth)
      /\ \A k \in DOMAIN truth : k <= n <=> truth[k].day <= day
    BY <1>2, FirstExecutions
<1> HIDE DEF n
<1>4. /\ snap'.asOf = day /\ snap'.n = n /\ snap'.dead = {o \in DOMAIN dead : dead[o] <= day}
      /\ snap' \in [asOf: 0..MaxDay, n: Nat, dead: SUBSET Orders]
    BY <1>1, <1>2, <1>3 DEF Days
<1>5. SyncTypeOK' /\ TruthInv' /\ BrokerLiabilityKnown'
    BY <1>1, <1>2, <1>4 DEF SyncTypeOK, TruthInv, BrokerLiabilityKnown, Live
<1>6. /\ Len(truth) \in Nat /\ DOMAIN truth = 1..Len(truth)
      /\ \A k \in DOMAIN truth : truth[k].day \in Nat
    BY <1>2, TruthShape
<1>7. SnapInv'
    BY <1>1, <1>2, <1>3, <1>4, <1>6 DEF SnapInv
<1>8. snap'.n >= snap.n
    <2>1. \A k \in DOMAIN truth : k <= n
        BY <1>2, <1>3 DEF TruthInv
    <2>2. n = Len(truth)
        <3>0. n \in Nat /\ n <= Len(truth) /\ Len(truth) \in Nat
            BY <1>3, <1>6
        <3>1. CASE Len(truth) = 0
            BY <1>3, <3>1
        <3>2. CASE Len(truth) # 0
            <4>1. Len(truth) \in DOMAIN truth
                BY <1>6, <3>2
            <4>2. Len(truth) <= n
                BY <2>1, <4>1
            <4> QED  BY <3>0, <4>2
        <3> QED  BY <3>1, <3>2
    <2> QED  BY <1>2, <1>4, <2>2 DEF SnapInv
<1>9. KnownInv' /\ PositionsMatchFills'
    BY <1>1, <1>3, <1>4, <1>8, KnownStays
<1>10. LedgerInv'
    BY <1>1, <1>2, LedgerInvStays
<1> QED  BY <1>5, <1>7, <1>9, <1>10 DEF SyncInv

\* A refused snapshot changes nothing but the reasons recorded.
LEMMA RefuseSyncKeeps ==
    ASSUME SyncInv, NEW file \in SnapshotFiles, RefuseSync(file)
    PROVE  SyncInv'
<1>1. /\ refused' \subseteq Orders \cup {0}
      /\ UNCHANGED <<ledger, pending, nextSeq, fills, asOf, ran, held, owner,
                     closedLoop, day, truth, working, dead, snap>>
    BY RefusedFor DEF RefuseSync, account, broker
<1>2. /\ SyncTypeOK /\ TruthInv /\ SnapInv /\ BrokerLiabilityKnown /\ LedgerInv
      /\ day \in Days /\ day \in Nat /\ snap.n \in Nat
    BY DEF SyncInv, SyncTypeOK, LedgerInv, LedgerTypeOK, Days
<1>3. SyncTypeOK' /\ TruthInv' /\ SnapInv' /\ BrokerLiabilityKnown'
    BY <1>1, <1>2 DEF SyncTypeOK, TruthInv, SnapInv, BrokerLiabilityKnown, Live
<1>4. KnownInv' /\ PositionsMatchFills'
    BY <1>1, <1>2, KnownStays
<1>5. LedgerInv'
    BY <1>1, <1>2, LedgerInvStays
<1> QED  BY <1>3, <1>4, <1>5 DEF SyncInv

\* Time passes.
LEMMA NextDayKeeps ==
    ASSUME SyncInv, NextDay
    PROVE  SyncInv'
<1>1. /\ day < MaxDay /\ day' = day + 1
      /\ UNCHANGED <<ledger, pending, nextSeq, fills, asOf, ran, held, owner,
                     closedLoop, truth, working, dead, snap, refused>>
    BY DEF NextDay, account, broker
<1>2. /\ SyncTypeOK /\ TruthInv /\ SnapInv /\ BrokerLiabilityKnown /\ LedgerInv
      /\ day \in Nat /\ day' \in Days /\ snap.n \in Nat /\ snap.asOf \in Nat
      /\ \A k \in DOMAIN truth : truth[k].day \in Nat
    <2>1. day \in Nat /\ day' \in Days /\ snap.n \in Nat /\ snap.asOf \in Nat
        BY <1>1, BoundsAssumption DEF SyncInv, SyncTypeOK, LedgerInv, LedgerTypeOK, Days
    <2> QED  BY <2>1, TruthShape DEF SyncInv
<1>3. SyncTypeOK' /\ BrokerLiabilityKnown'
    BY <1>1, <1>2 DEF SyncTypeOK, BrokerLiabilityKnown, Live
<1>4. TruthInv' /\ SnapInv'
    BY <1>1, <1>2 DEF TruthInv, SnapInv
<1>5. KnownInv' /\ PositionsMatchFills'
    BY <1>1, <1>2, KnownStays
<1>6. LedgerInv'
    BY <1>1, <1>2, LedgerInvStays
<1> QED  BY <1>3, <1>4, <1>5, <1>6 DEF SyncInv

\* A decision changes rows and intents only; what works at the broker it withdraws or places.
LEMMA DecisionKeeps ==
    ASSUME SyncInv, ProductionDecide
    PROVE  SyncInv' /\ LedgerAdvances
<1>1. PICK kept \in SUBSET DOMAIN pending, fresh \in FreshBatches, freeze \in BOOLEAN :
          /\ Reconcile(kept, fresh, freeze)
          /\ \E q \in Placements(fresh) :
                 working' = [o \in DOMAIN ledger' |->
                     CASE o \in DOMAIN fresh -> q[o]
                       [] o \in DOMAIN ledger /\ Live(ledger'[o]) -> working[o]
                       [] OTHER -> 0]
    BY DEF ProductionDecide
<1>2. PICK q \in Placements(fresh) :
          working' = [o \in DOMAIN ledger' |->
                         CASE o \in DOMAIN fresh -> q[o]
                           [] o \in DOMAIN ledger /\ Live(ledger'[o]) -> working[o]
                           [] OTHER -> 0]
    BY <1>1
<1>3. /\ ran' = day
      /\ UNCHANGED <<closedLoop, day, asOf, held, owner, truth, dead, snap, refused>>
    BY DEF ProductionDecide
<1>4. /\ LedgerInv /\ SyncTypeOK /\ TruthInv /\ SnapInv /\ BrokerLiabilityKnown
      /\ day \in Days /\ day \in Nat /\ day <= MaxDay /\ MaxDay \in Nat /\ snap.n \in Nat
      /\ nextSeq \in Nat /\ DOMAIN ledger = 1..(nextSeq - 1)
      /\ DOMAIN pending \subseteq DOMAIN ledger
    BY BoundsAssumption DEF SyncInv, SyncTypeOK, LedgerInv, LedgerTypeOK, Days
<1>5. DecisionRows(kept, fresh, freeze)
    BY <1>1, <1>3, <1>4, ReconcileRows
<1>6. LedgerInv' /\ LedgerAdvances /\ RowsKept(DOMAIN ledger)
    BY <1>1, <1>3, <1>4, ReconcileKeepsLedgerInv, ReconcileAdvances, ReconcileKeepsRows
<1>7. /\ fills' = fills /\ DOMAIN ledger \subseteq DOMAIN ledger'
      /\ \A o \in DOMAIN ledger :
            /\ ledger'[o].symbol = ledger[o].symbol /\ ledger'[o].side = ledger[o].side
            /\ ledger'[o].submitted = ledger[o].submitted
            /\ ~Live(ledger[o]) => ledger'[o] = ledger[o]
      /\ \A o \in DOMAIN ledger' \ DOMAIN ledger : Live(ledger'[o])
    BY <1>5, <1>6 DEF DecisionRows, LedgerAdvances, RowsKept
<1>8. DOMAIN fresh \cap DOMAIN ledger = {} /\ \A o \in DOMAIN fresh : q[o] \in Nat
    <2>1. nextSeq' \in Nat /\ DOMAIN fresh = nextSeq..(nextSeq' - 1)
        BY <1>4, <1>5, BoundsAssumption DEF DecisionRows
    <2>2. q \in [DOMAIN fresh -> 1..MaxShares]
        BY <1>2 DEF Placements
    <2>3. DOMAIN fresh \cap DOMAIN ledger = {}
        <3>1. \A o \in DOMAIN fresh : o \in Int /\ o >= nextSeq
            BY <1>4, <2>1
        <3>2. \A o \in DOMAIN ledger : o \in Int /\ o < nextSeq
            BY <1>4
        <3>3. nextSeq \in Int
            BY <1>4
        <3> QED  BY <3>1, <3>2, <3>3
    <2>4. \A o \in DOMAIN fresh : q[o] \in 1..MaxShares
        BY <2>2
    <2>5. \A n \in 1..MaxShares : n \in Nat
        BY BoundsAssumption
    <2> QED  BY <2>3, <2>4, <2>5
<1>9. \A o \in DOMAIN ledger : /\ working[o] \in Nat
                               /\ working'[o] = IF Live(ledger'[o]) THEN working[o] ELSE 0
    BY <1>2, <1>4, <1>7, <1>8 DEF SyncTypeOK
<1>10. \A o \in DOMAIN ledger' : working'[o] \in Nat
    <2> SUFFICES ASSUME NEW o \in DOMAIN ledger' PROVE working'[o] \in Nat
        OBVIOUS
    <2>1. CASE o \in DOMAIN fresh
        <3>1. working'[o] = q[o]
            BY <1>2, <1>8, <2>1
        <3> QED  BY <1>8, <2>1, <3>1
    <2>2. CASE o \in DOMAIN ledger
        BY <1>9, <2>2
    <2>3. CASE o \notin DOMAIN fresh /\ o \notin DOMAIN ledger
        <3>1. working'[o] = 0
            BY <1>2, <2>3
        <3> QED  BY <3>1
    <2> QED  BY <2>1, <2>2, <2>3
<1>11. SyncTypeOK'
    <2>1. working' \in [DOMAIN ledger' -> Nat]
        BY <1>2, <1>10
    <2>2. ran' \in 0..MaxDay
        BY <1>3, <1>4
    <2> QED  BY <1>3, <1>4, <1>7, <2>1, <2>2 DEF SyncTypeOK
<1>12. TruthInv'
    <2>1. \A k \in DOMAIN truth : /\ truth[k].order \in DOMAIN ledger
                                  /\ truth[k].remaining \in Nat
        BY <1>4, TruthShape DEF TruthInv
    <2>2. \A k \in DOMAIN truth : /\ working'[truth[k].order] <= truth[k].remaining
                                  /\ truth[k].order \in DOMAIN ledger'
                                  /\ ledger'[truth[k].order].submitted < truth[k].day
        BY <1>4, <1>7, <1>9, <2>1 DEF TruthInv
    <2>3. \A o \in DOMAIN dead : working'[o] = 0
        BY <1>4, <1>9 DEF TruthInv, SyncTypeOK
    <2> QED  BY <1>3, <1>4, <2>2, <2>3 DEF TruthInv
<1>13. SnapInv'
    BY <1>3, <1>4 DEF SnapInv
<1>14. KnownInv' /\ PositionsMatchFills'
    BY <1>3, <1>4, <1>7, KnownStays
<1>15. BrokerLiabilityKnown'
    <2> SUFFICES ASSUME NEW o \in DOMAIN working', working'[o] > 0, ~Live(ledger'[o])
                 PROVE  ledger'[o].event = "LATE_FILL_SUPPRESSED_RETRY"
        BY DEF BrokerLiabilityKnown, Live
    <2>1. o \in DOMAIN ledger' /\ o \in DOMAIN ledger
        BY <1>2, <1>7
    <2>2. working'[o] = 0
        BY <1>9, <2>1
    <2> QED  BY <2>2
<1> QED  BY <1>6, <1>11, <1>12, <1>13, <1>14, <1>15 DEF SyncInv

\* Nothing is known and nothing was executed.
LEMMA SyncInvInit == ProductionInit => SyncInv
<1> SUFFICES ASSUME ProductionInit PROVE SyncInv
    OBVIOUS
<1>1. /\ LedgerInit /\ DOMAIN ledger = {} /\ fills = {} /\ day = 1
      /\ truth = <<>> /\ DOMAIN working = {} /\ DOMAIN dead = {}
      /\ snap = [asOf |-> 0, n |-> 0, dead |-> {}]
    BY DEF ProductionInit, LedgerInit
<1>2. LedgerInv
    BY <1>1, LedgerInvInit
<1>3. SyncTypeOK
    <2>1. working \in [DOMAIN ledger -> Nat] /\ dead \in [DOMAIN dead -> Days]
        BY <1>1 DEF ProductionInit
    <2>2. truth \in Seq(Execution)
        BY <1>1
    <2>3. snap \in [asOf: 0..MaxDay, n: Nat, dead: SUBSET Orders]
        BY <1>1, BoundsAssumption
    <2>4. held \in [Symbols -> Int] /\ owner \in [Symbols -> Grants \cup {NoGrant}]
        BY DEF ProductionInit
    <2> QED  BY <1>1, <2>1, <2>2, <2>3, <2>4, BoundsAssumption DEF SyncTypeOK, ProductionInit
<1>4. Len(truth) = 0 /\ DOMAIN truth = {}
    BY <1>1
<1>5. TruthInv /\ SnapInv /\ BrokerLiabilityKnown
    BY <1>1, <1>4 DEF TruthInv, SnapInv, BrokerLiabilityKnown
<1>6. Known = 0
    BY <1>1, FS_EmptySet DEF Known
<1>7. KnownInv
    <2>1. FillsUpTo(0) = {}
        BY DEF FillsUpTo
    <2> QED  BY <1>1, <1>6, <2>1 DEF KnownInv
<1>8. PositionsMatchFills
    <2>1. \A s \in Symbols : HeldIn(truth, ledger, s, 0) = 0
        <3>1. \A s \in Symbols : \A side : ListOf(truth, ledger, s, side, 0) = {}
            BY DEF ListOf
        <3>2. ListShares(truth, {}) = 0
            BY ListSharesAre, FS_EmptySet, SumEmpty
        <3> QED  BY <3>1, <3>2 DEF HeldIn
    <2> QED  BY <1>6, <2>1, PositionsAre DEF ProductionInit
<1> QED  BY <1>2, <1>3, <1>5, <1>7, <1>8 DEF SyncInv

\* A step that changes nothing.
LEMMA SyncInvStutters == SyncInv /\ UNCHANGED productionVars => SyncInv'
<1> SUFFICES ASSUME SyncInv, UNCHANGED productionVars PROVE SyncInv'
    OBVIOUS
<1>1. UNCHANGED <<day, ledger, pending, nextSeq, fills, closedLoop, asOf, ran, held, owner,
                  truth, working, dead, snap, refused>>
    BY DEF productionVars
<1>2. /\ SyncTypeOK /\ TruthInv /\ SnapInv /\ BrokerLiabilityKnown /\ LedgerInv
      /\ day \in Days /\ day \in Nat /\ snap.n \in Nat
    BY DEF SyncInv, SyncTypeOK, LedgerInv, LedgerTypeOK, Days
<1>3. SyncTypeOK' /\ TruthInv' /\ SnapInv' /\ BrokerLiabilityKnown'
    BY <1>1, <1>2 DEF SyncTypeOK, TruthInv, SnapInv, BrokerLiabilityKnown, Live
<1>4. KnownInv' /\ PositionsMatchFills'
    BY <1>1, <1>2, KnownStays
<1>5. LedgerInv'
    BY <1>1, <1>2, LedgerInvStays
<1> QED  BY <1>3, <1>4, <1>5 DEF SyncInv

LEMMA SyncInvNext == SyncInv /\ [ProductionNext]_productionVars => SyncInv'
<1> SUFFICES ASSUME SyncInv, [ProductionNext]_productionVars PROVE SyncInv'
    OBVIOUS
<1>1. ASSUME NEW o \in DOMAIN working, NEW n \in 1..MaxShares, BrokerFills(o, n) PROVE SyncInv'
    BY <1>1, BrokerFillsKeeps
<1>2. ASSUME NEW o \in DOMAIN working, BrokerCancels(o) PROVE SyncInv'
    BY <1>2, BrokerCancelsKeeps
<1>3. CASE Export
    BY <1>3, ExportKeeps
<1>4. ASSUME NEW file \in SnapshotFiles, Sync(file) PROVE SyncInv'
    BY <1>4, SyncKeepsSyncInv
<1>5. ASSUME NEW file \in SnapshotFiles, RefuseSync(file) PROVE SyncInv'
    BY <1>5, RefuseSyncKeeps
<1>6. CASE ProductionDecide
    BY <1>6, DecisionKeeps
<1>7. CASE NextDay
    BY <1>7, NextDayKeeps
<1>8. CASE UNCHANGED productionVars
    BY <1>8, SyncInvStutters
<1> QED
    BY <1>1, <1>2, <1>3, <1>4, <1>5, <1>6, <1>7, <1>8 DEF ProductionNext

\* Whatever the broker does and whichever snapshots are applied, in whatever order with the
\* decisions (broker.py), the account and the broker stay related as SyncInv says.
THEOREM ProductionInductive == ProductionSpec => []SyncInv
<1> QED
    BY SyncInvInit, SyncInvNext, PTL DEF ProductionSpec

\* The fields of the fills the account has imported.
LEMMA KnownFills ==
    ASSUME SyncInv, NEW f \in fills
    PROVE  f.order \in DOMAIN ledger /\ f.day <= day
<1>1. Known \in Nat /\ Known <= snap.n /\ fills = FillsUpTo(Known) /\ snap.n <= Len(truth)
    BY DEF SyncInv, KnownInv, SnapInv
<1>2. /\ Len(truth) \in Nat /\ DOMAIN truth = 1..Len(truth)
      /\ \A k \in DOMAIN truth : truth[k].order \in DOMAIN ledger /\ truth[k].day <= day
    BY TruthShape DEF SyncInv, TruthInv
<1>3. PICK k \in 1..Known : f = FillOf(k)
    BY <1>1 DEF FillsUpTo
<1>4. k \in DOMAIN truth
    BY <1>1, <1>2 DEF SyncInv, SyncTypeOK
<1> QED  BY <1>2, <1>3, <1>4 DEF FillOf

\* A decision keeps the fills in agreement with the rows.
LEMMA DecisionKeepsFills ==
    ASSUME SyncInv, SyncInv', LedgerAdvances, SavedAccountLoads, RowsKept(DOMAIN ledger),
           fills' = fills,
           \A o \in DOMAIN ledger' \ DOMAIN ledger : ledger'[o].replacedBy = 0
    PROVE  SavedAccountLoads'
<1>1. /\ DOMAIN ledger \subseteq DOMAIN ledger'
      /\ \A o \in DOMAIN ledger : /\ ledger[o].replacedBy \in DOMAIN ledger \cup {0}
                                  /\ FilledShares(o, fills) = ledger[o].filled
      /\ \A f \in fills : /\ f.day > ledger[f.order].submitted
                          /\ f.day <= ledger[f.order].updated
    BY DEF LedgerAdvances, SavedAccountLoads, Loads, FillsAgree
<1>2. \A o \in DOMAIN ledger' : ledger'[o].replacedBy \in DOMAIN ledger' \cup {0}
    BY <1>1 DEF RowsKept
<1>3. \A o \in DOMAIN ledger' : FilledShares(o, fills) = ledger'[o].filled
    <2> SUFFICES ASSUME NEW o \in DOMAIN ledger'
                 PROVE  FilledShares(o, fills) = ledger'[o].filled
        OBVIOUS
    <2>1. CASE o \in DOMAIN ledger
        BY <1>1, <2>1 DEF RowsKept
    <2>2. CASE o \notin DOMAIN ledger
        <3>1. {f \in fills : f.order = o} = {}
            BY <2>2, KnownFills
        <3>2. FilledShares(o, fills) = 0
            BY <3>1, FilledSharesAre, SharesNone
        <3>3. ledger'[o].filled = 0
            BY <2>2 DEF LedgerAdvances
        <3> QED  BY <3>2, <3>3
    <2> QED  BY <2>1, <2>2
<1>4. \A f \in fills : /\ f.order \in DOMAIN ledger'
                       /\ f.day > ledger'[f.order].submitted
                       /\ f.day <= ledger'[f.order].updated
    BY <1>1, KnownFills DEF RowsKept
<1>5. FillsAgree(ledger', fills')
    BY <1>3, <1>4 DEF FillsAgree
<1>6. /\ \A o \in DOMAIN ledger' : RowAgrees(ledger'[o])
      /\ PendingAgrees(ledger', pending')
    BY DEF SyncInv, LedgerInv, RowsAgree, RowAgrees, PendingAgrees, Live
<1>7. Loads(ledger', pending', fills')
    BY <1>2, <1>5, <1>6 DEF Loads
<1> QED  BY <1>7 DEF SavedAccountLoads

LEMMA ProductionLoadsNext ==
    ASSUME SyncInv, SyncInv', SavedAccountLoads, [ProductionNext]_productionVars
    PROVE  SavedAccountLoads'
<1>1. CASE UNCHANGED <<ledger, pending, fills>>
    BY <1>1 DEF SavedAccountLoads
<1>2. ASSUME NEW file \in SnapshotFiles, Sync(file) PROVE SavedAccountLoads'
    <2>1. Loads(ledger', pending', fills')
        BY <1>2, SyncShape
    <2> QED  BY <2>1 DEF SavedAccountLoads
<1>3. CASE ProductionDecide
    <2>1. PICK kept \in SUBSET DOMAIN pending, fresh \in FreshBatches, freeze \in BOOLEAN :
              Reconcile(kept, fresh, freeze)
        BY <1>3 DEF ProductionDecide
    <2>2. day' = day /\ fills' = fills /\ LedgerInv
        BY <1>3, <2>1 DEF ProductionDecide, Reconcile, SyncInv
    <2>3. /\ RowsKept(DOMAIN ledger)
          /\ \A o \in DOMAIN ledger' \ DOMAIN ledger : ledger'[o].replacedBy = 0
        BY <2>1, <2>2, ReconcileKeepsRows
    <2>4. LedgerAdvances
        BY <1>3, DecisionKeeps
    <2> QED  BY <2>2, <2>3, <2>4, DecisionKeepsFills
<1> QED
    BY <1>1, <1>2, <1>3
    DEF ProductionNext, BrokerFills, BrokerCancels, Export, RefuseSync, NextDay, account,
        productionVars

\* In production too, whatever decisions and snapshots led to it, a saved account passes the
\* validator of validation_orders.py when it is loaded.
THEOREM ProductionLoads == ProductionSpec => []SavedAccountLoads
<1>1. ProductionInit => SavedAccountLoads
    BY DEF ProductionInit, LedgerInit, SavedAccountLoads, Loads, PendingAgrees, FillsAgree
<1>2. SyncInv /\ SyncInv' /\ SavedAccountLoads /\ [ProductionNext]_productionVars
         => SavedAccountLoads'
    BY ProductionLoadsNext
<1> QED
    BY <1>1, <1>2, ProductionInductive, PTL DEF ProductionSpec

\* The position the account believes in is what the executions it imported left at the
\* broker: no older, repeated or refused snapshot loses shares or counts them twice.
THEOREM PositionsMatch == ProductionSpec => []PositionsMatchFills
<1>1. SyncInv => PositionsMatchFills
    BY DEF SyncInv
<1> QED
    BY <1>1, ProductionInductive, PTL

\* No order that works at the broker is closed in the account, but by the suppression of a
\* late strategic fill.
THEOREM LiabilityKnown == ProductionSpec => []BrokerLiabilityKnown
<1>1. SyncInv => BrokerLiabilityKnown
    BY DEF SyncInv
<1> QED
    BY <1>1, ProductionInductive, PTL

\* A symbol never has two live instructions on one side, whatever snapshots are imported.
THEOREM ProductionDisjoint == ProductionSpec => []NoOverlap
<1>1. SyncInv => NoOverlap
    BY DEF SyncInv, LedgerInv
<1> QED
    BY <1>1, ProductionInductive, PTL

\* Decisions and snapshots together implement the promise of the order ledger: an import
\* advances live rows, closes some, and changes neither the shares nor the identity of a
\* closed one.
THEOREM ProductionImplements == ProductionSpec => ProductionKeepsPromise
<1> DEFINE bar == [o \in DOMAIN ledger |->
                     [symbol |-> ledger[o].symbol, side |-> ledger[o].side,
                      working |-> Live(ledger[o]), done |-> ledger[o].filled]]
<1>1. ProductionInit => ProductionPromise!Init
    BY DEF ProductionInit, LedgerInit, ProductionPromise!Init
<1>2. SyncInv /\ SyncInv' /\ [ProductionNext]_productionVars => [ProductionPromise!Advance]_bar
    <2> SUFFICES ASSUME SyncInv, SyncInv', [ProductionNext]_productionVars
                 PROVE  [ProductionPromise!Advance]_bar
        OBVIOUS
    <2>1. ProductionPromise!OneInstructionPerSide(bar')
        BY DEF SyncInv, LedgerInv, NoOverlap, Live, ProductionPromise!OneInstructionPerSide
    <2>2. ASSUME NEW file \in SnapshotFiles, Sync(file) PROVE ProductionPromise!Advance
        <3>1. /\ ledger' \in [DOMAIN ledger -> AccountOrder]
              /\ \A o \in DOMAIN ledger : RowAdvances(o, ledger'[o])
            BY <2>2, SyncShape
        <3>2. \A o \in DOMAIN bar : ProductionPromise!Promised(bar[o], bar'[o])
            BY <3>1 DEF RowAdvances, Live, ProductionPromise!Promised
        <3>3. DOMAIN bar' = DOMAIN bar
            BY <3>1
        <3> QED  BY <2>1, <3>2, <3>3 DEF ProductionPromise!Advance
    <2>3. CASE ProductionDecide
        <3>1. LedgerAdvances
            BY <2>3, DecisionKeeps
        <3>2. \A o \in DOMAIN bar : ProductionPromise!Promised(bar[o], bar'[o])
            BY <3>1 DEF LedgerAdvances, Live, ProductionPromise!Promised
        <3>3. \A o \in DOMAIN bar' \ DOMAIN bar : ProductionPromise!Fresh(bar'[o])
            BY <3>1 DEF LedgerAdvances, Live, ProductionPromise!Fresh
        <3>4. DOMAIN bar \subseteq DOMAIN bar'
            BY <3>1 DEF LedgerAdvances
        <3> QED  BY <2>1, <3>2, <3>3, <3>4 DEF ProductionPromise!Advance
    <2>4. CASE UNCHANGED ledger
        BY <2>4 DEF Live
    <2> QED
        BY <2>2, <2>3, <2>4
        DEF ProductionNext, BrokerFills, BrokerCancels, Export, RefuseSync, NextDay, account,
            productionVars
<1> QED
    BY <1>1, <1>2, ProductionInductive, PTL
    DEF ProductionSpec, ProductionKeepsPromise, ProductionPromise!Spec

--------------------------------------------------------------------------------
(* Production: in the closed loop the truth is accepted *)

\* Of the first n executions of the list t, k is the last one of order o.
LastIn(t, o, k, n) ==
    /\ k \in 1..n
    /\ t[k].order = o
    /\ \A j \in 1..n : j > k => t[j].order # o

\* The executions of an order continue one another down to what still works, and end with
\* its cancellation.
ChainInv ==
    /\ \A j, k \in DOMAIN truth :
          (j < k /\ truth[j].order = truth[k].order) => truth[j].remaining > 0
    /\ \A j, k \in DOMAIN truth :
          LastIn(truth, truth[k].order, j, k - 1) =>
              truth[j].remaining = truth[k].shares + truth[k].remaining
    /\ \A k \in DOMAIN truth :
          LastIn(truth, truth[k].order, k, Len(truth)) =>
              working[truth[k].order] \in {0, truth[k].remaining}
    /\ \A k \in DOMAIN truth :
          /\ truth[k].order \in DOMAIN dead =>
                 truth[k].remaining > 0 /\ truth[k].day <= dead[truth[k].order]
          /\ truth[k].order \in snap.dead => k <= snap.n

\* A sized row shows what its last imported execution left; a suppressed one is cancelled
\* and strategic.
RowTells(o, row, n) ==
    row.requested > 0 => \E k \in 1..n : LastIn(truth, o, k, n) /\ row.remaining = truth[k].remaining
SuppressionTells(o, row) ==
    row.event = "LATE_FILL_SUPPRESSED_RETRY" =>
        ledger[o].grant # NoGrant /\ row.status = "CANCELLED"
RowsTell ==
    \A o \in DOMAIN ledger : RowTells(o, ledger[o], Known) /\ SuppressionTells(o, ledger[o])

\* The date of a partly filled row is one of its imported fills, or no later than the last
\* decision.
DateKept(o, row, deals) ==
    row.filled > 0 /\ Live(row) =>
        row.updated <= ran \/ \E f \in deals : f.order = o /\ f.day = row.updated

Ordinary(o) == ledger[o].grant = NoGrant

\* What the account does not know happened after the last decision, to orders that are live
\* in the account; no order was registered after that decision, and no confirmed one was
\* replaced.
LoopInv ==
    /\ RowsTell
    /\ \A k \in DOMAIN truth :
          k > Known => /\ truth[k].day > ran
                       /\ Ordinary(truth[k].order) => Live(ledger[truth[k].order])
    /\ \A o \in DOMAIN ledger : ledger[o].submitted <= ran /\ DateKept(o, ledger[o], fills)
    /\ \A o \in DOMAIN dead : ledger[o].status # "REPLACED"
    /\ \A o \in refused : o \in DOMAIN ledger /\ ~Ordinary(o)

AcceptInv ==
    /\ SyncInv
    /\ SavedAccountLoads
    /\ ChainInv
    /\ closedLoop => LoopInv

\* Only the account moves, or orders are withdrawn from the broker.
LEMMA ChainStays ==
    ASSUME SyncInv, ChainInv, UNCHANGED <<truth, dead, snap>>,
           \A o \in DOMAIN ledger : working'[o] \in {0, working[o]}
    PROVE  ChainInv'
<1>1. \A k \in DOMAIN truth : truth[k].order \in DOMAIN ledger
    BY DEF SyncInv, TruthInv
<1>2. \A k \in DOMAIN truth :
          LastIn(truth, truth[k].order, k, Len(truth)) =>
              working'[truth[k].order] \in {0, truth[k].remaining}
    BY <1>1 DEF ChainInv
<1> QED  BY <1>2 DEF ChainInv

\* An execution takes from what its last one left.
LEMMA ChainFills ==
    ASSUME SyncInv, SyncInv', ChainInv, NEW o \in DOMAIN working, NEW n \in 1..MaxShares,
           BrokerFills(o, n)
    PROVE  ChainInv'
<1> DEFINE new == [order |-> o, day |-> day, shares |-> n, remaining |-> working[o] - n]
           l == Len(truth)
<1>1. /\ n <= working[o] /\ truth' = Append(truth, new)
      /\ working' = [working EXCEPT ![o] = @ - n]
      /\ dead' = dead /\ snap' = snap
    BY DEF BrokerFills, account
<1>2. /\ o \in DOMAIN ledger /\ working \in [DOMAIN ledger -> Nat] /\ working[o] \in Nat
      /\ n \in Nat \ {0} /\ truth \in Seq(Execution) /\ snap.n \in Nat
    BY BoundsAssumption DEF SyncInv, SyncTypeOK
<1>3. /\ new.order = o /\ new.day = day /\ new.shares = n /\ new.remaining = working[o] - n
    OBVIOUS
<1>4. /\ l \in Nat /\ DOMAIN truth = 1..l /\ Len(truth') = l + 1 /\ DOMAIN truth' = 1..(l + 1)
      /\ \A k \in DOMAIN truth : /\ truth'[k] = truth[k] /\ truth[k].order \in DOMAIN ledger
                                 /\ truth[k].remaining \in Nat /\ k \in Nat
                                 /\ working[truth[k].order] <= truth[k].remaining
      /\ truth'[l + 1] = new
    <2>1. truth' = Append(truth, new)
        BY <1>1
    <2> HIDE DEF new
    <2>2. \A k \in DOMAIN truth : truth[k].remaining \in Nat
        BY TruthShape DEF SyncInv
    <2>3. \A k \in DOMAIN truth : /\ truth[k].order \in DOMAIN ledger
                                  /\ working[truth[k].order] <= truth[k].remaining
        BY DEF SyncInv, TruthInv
    <2>4. /\ l \in Nat /\ DOMAIN truth = 1..l /\ Len(truth') = l + 1
          /\ DOMAIN truth' = 1..(l + 1)
          /\ \A k \in DOMAIN truth : truth'[k] = truth[k] /\ k \in Nat
          /\ truth'[l + 1] = new
        BY <1>2, <2>1
    <2> QED  BY <2>2, <2>3, <2>4
<1> HIDE DEF new, l
<1>5. /\ working'[o] = working[o] - n
      /\ \A p \in DOMAIN ledger : p # o => working'[p] = working[p]
    BY <1>1, <1>2
<1>6. o \notin DOMAIN dead /\ snap.dead \subseteq DOMAIN dead /\ snap.n <= l
    BY <1>1, <1>2 DEF SyncInv, TruthInv, SnapInv, l
<1>7. \A p, j, i : i \in 0..l => (LastIn(truth', p, j, i) <=> LastIn(truth, p, j, i))
    <2> SUFFICES ASSUME NEW p, NEW j, NEW i \in 0..l
                 PROVE  LastIn(truth', p, j, i) <=> LastIn(truth, p, j, i)
        OBVIOUS
    <2>1. \A m \in 1..i : truth'[m] = truth[m]
        BY <1>4
    <2> QED  BY <2>1 DEF LastIn
<1>8. \A p, j : LastIn(truth', p, j, l + 1) => (j = l + 1 /\ p = o) \/ (LastIn(truth, p, j, l) /\ p # o)
    <2> SUFFICES ASSUME NEW p, NEW j, LastIn(truth', p, j, l + 1)
                 PROVE  (j = l + 1 /\ p = o) \/ (LastIn(truth, p, j, l) /\ p # o)
        OBVIOUS
    <2>1. /\ j \in 1..(l + 1) /\ truth'[j].order = p
          /\ \A i \in 1..(l + 1) : i > j => truth'[i].order # p
        BY DEF LastIn
    <2>2. CASE j = l + 1
        BY <1>3, <1>4, <2>1, <2>2
    <2>3. CASE j # l + 1
        <3>1. j \in 1..l /\ l + 1 > j /\ l + 1 \in 1..(l + 1)
            BY <1>4, <2>1, <2>3
        <3>2. p # o
            BY <1>3, <1>4, <2>1, <3>1
        <3>3. \A i \in 1..l : i \in 1..(l + 1) /\ truth'[i] = truth[i]
            BY <1>4
        <3> QED  BY <1>4, <2>1, <3>1, <3>2, <3>3 DEF LastIn
    <2> QED  BY <2>2, <2>3
<1>9. ASSUME NEW j \in DOMAIN truth', NEW k \in DOMAIN truth', j < k,
             truth'[j].order = truth'[k].order
      PROVE  truth'[j].remaining > 0
    <2>1. j \in DOMAIN truth
        BY <1>4, <1>9
    <2>2. CASE k \in DOMAIN truth
        BY <1>4, <1>9, <2>1, <2>2 DEF ChainInv
    <2>3. CASE k = l + 1
        <3>1. truth[j].order = o
            BY <1>3, <1>4, <1>9, <2>1, <2>3
        <3>2. working[o] <= truth[j].remaining /\ truth[j].remaining \in Nat
            BY <1>4, <2>1, <3>1
        <3> QED  BY <1>1, <1>2, <1>4, <2>1, <3>2
    <2> QED  BY <1>4, <2>2, <2>3
<1>10. ASSUME NEW j \in DOMAIN truth', NEW k \in DOMAIN truth',
              LastIn(truth', truth'[k].order, j, k - 1)
       PROVE  truth'[j].remaining = truth'[k].shares + truth'[k].remaining
    <2>1. k \in Nat /\ k - 1 \in 0..l
        BY <1>4
    <2>2. LastIn(truth, truth'[k].order, j, k - 1)
        BY <1>7, <1>10, <2>1
    <2>3. j \in 1..(k - 1) /\ j \in DOMAIN truth /\ truth[j].order = truth'[k].order
        BY <1>4, <2>1, <2>2 DEF LastIn
    <2>4. CASE k \in DOMAIN truth
        BY <1>4, <2>2, <2>3, <2>4 DEF ChainInv
    <2>5. CASE k = l + 1
        <3>1. k - 1 = l /\ truth[j].order = o
            BY <1>3, <1>4, <2>3, <2>5
        <3>2. LastIn(truth, truth[j].order, j, Len(truth))
            BY <1>3, <1>4, <2>2, <2>5, <3>1 DEF l
        <3>3. working[o] \in {0, truth[j].remaining}
            BY <2>3, <3>1, <3>2 DEF ChainInv
        <3> QED  BY <1>1, <1>2, <1>3, <1>4, <2>3, <2>5, <3>3
    <2> QED  BY <1>4, <2>4, <2>5
<1>11. ASSUME NEW k \in DOMAIN truth', LastIn(truth', truth'[k].order, k, Len(truth'))
       PROVE  working'[truth'[k].order] \in {0, truth'[k].remaining}
    <2>1. LastIn(truth', truth'[k].order, k, l + 1)
        BY <1>4, <1>11
    <2>2. CASE k = l + 1
        BY <1>3, <1>4, <1>5, <2>2
    <2>3. CASE LastIn(truth, truth'[k].order, k, l) /\ truth'[k].order # o
        <3>1. k \in DOMAIN truth /\ truth'[k] = truth[k]
            BY <1>4, <2>3 DEF LastIn
        <3>2. working[truth[k].order] \in {0, truth[k].remaining}
            BY <2>3, <3>1 DEF ChainInv, l
        <3> QED  BY <1>4, <1>5, <2>3, <3>1, <3>2
    <2> QED  BY <1>8, <2>1, <2>2, <2>3
<1>12. ASSUME NEW k \in DOMAIN truth'
       PROVE  /\ truth'[k].order \in DOMAIN dead' =>
                     truth'[k].remaining > 0 /\ truth'[k].day <= dead'[truth'[k].order]
              /\ truth'[k].order \in snap'.dead => k <= snap'.n
    <2>1. CASE k \in DOMAIN truth
        BY <1>1, <1>4, <2>1 DEF ChainInv
    <2>2. CASE k = l + 1
        BY <1>1, <1>3, <1>4, <1>6, <2>2
    <2> QED  BY <1>4, <2>1, <2>2
<1> QED  BY <1>9, <1>10, <1>11, <1>12 DEF ChainInv

\* A cancelled order has executions that left something, none of them later.
LEMMA ChainCancels ==
    ASSUME SyncInv, ChainInv, NEW o \in DOMAIN working, BrokerCancels(o)
    PROVE  ChainInv'
<1>1. /\ working[o] > 0 /\ working' = [working EXCEPT ![o] = 0]
      /\ dead' = [p \in DOMAIN dead \cup {o} |-> IF p = o THEN day ELSE dead[p]]
      /\ truth' = truth /\ snap' = snap
    BY DEF BrokerCancels, account
<1>2. /\ o \in DOMAIN ledger /\ working \in [DOMAIN ledger -> Nat]
      /\ dead \in [DOMAIN dead -> Days]
    BY DEF SyncInv, SyncTypeOK
<1>3. \A k \in DOMAIN truth : /\ truth[k].order \in DOMAIN ledger /\ truth[k].day <= day
                              /\ working[truth[k].order] <= truth[k].remaining
                              /\ working[truth[k].order] \in Nat /\ truth[k].remaining \in Nat
    BY <1>2, TruthShape DEF SyncInv, TruthInv
<1>4. \A k \in DOMAIN truth :
          LastIn(truth, truth[k].order, k, Len(truth)) =>
              working'[truth[k].order] \in {0, truth[k].remaining}
    BY <1>1, <1>2, <1>3 DEF ChainInv
<1>5. ASSUME NEW k \in DOMAIN truth, truth[k].order \in DOMAIN dead'
      PROVE  truth[k].remaining > 0 /\ truth[k].day <= dead'[truth[k].order]
    <2>1. CASE truth[k].order = o
        BY <1>1, <1>2, <1>3, <2>1
    <2>2. CASE truth[k].order # o
        BY <1>1, <1>5, <2>2 DEF ChainInv
    <2> QED  BY <2>1, <2>2
<1> QED  BY <1>1, <1>4, <1>5 DEF ChainInv

\* The export lists every execution.
LEMMA ChainExport ==
    ASSUME SyncInv, ChainInv, Export
    PROVE  ChainInv'
<1> DEFINE n == Cardinality({k \in DOMAIN truth : truth[k].day <= day})
<1>1. /\ snap' = [asOf |-> day, n |-> n, dead |-> {o \in DOMAIN dead : dead[o] <= day}]
      /\ truth' = truth /\ working' = working /\ dead' = dead
    BY DEF Export, Statement, broker
<1>2. /\ day \in Nat /\ SyncTypeOK /\ TruthInv
      /\ \A k \in DOMAIN truth : truth[k].day <= day
    BY DEF SyncInv, LedgerInv, LedgerTypeOK, Days, TruthInv
<1>3. \A k \in DOMAIN truth : k <= n
    BY <1>2, FirstExecutions
<1> HIDE DEF n
<1>4. snap'.n = n
    BY <1>1
<1> QED  BY <1>1, <1>3, <1>4 DEF ChainInv

\* An older file lists no confirmation of an order whose executions it does not list.
LEMMA FileConfirms ==
    ASSUME SyncInv, ChainInv, NEW file \in SnapshotFiles, Current(file)
    PROVE  \A k \in DOMAIN truth :
              truth[k].order \in file.dead => k <= file.n /\ truth[k].remaining > 0
<1> SUFFICES ASSUME NEW k \in DOMAIN truth, truth[k].order \in file.dead
             PROVE  k <= file.n /\ truth[k].remaining > 0
    OBVIOUS
<1>1. truth[k].order \in DOMAIN dead
    BY FileShape
<1>2. truth[k].remaining > 0 /\ truth[k].day <= dead[truth[k].order]
    BY <1>1 DEF ChainInv
<1>3. CASE file = snap
    BY <1>2, <1>3 DEF ChainInv
<1>4. ASSUME NEW d \in 1..(snap.asOf - 1), file = Statement(d) PROVE k <= file.n
    <2>1. /\ file.asOf = d /\ file.dead = {o \in DOMAIN dead : dead[o] <= d}
          /\ file.n = Cardinality({i \in DOMAIN truth : truth[i].day <= d})
        BY <1>4 DEF Statement
    <2>2. d \in Nat /\ snap.asOf \in Nat
        BY <1>4 DEF SyncInv, SyncTypeOK
    <2>3. \A i \in DOMAIN truth : i <= file.n <=> truth[i].day <= d
        BY <2>1, <2>2, FirstExecutions DEF SyncInv
    <2>4. dead[truth[k].order] <= d /\ dead[truth[k].order] \in Nat /\ truth[k].day \in Nat
        BY <1>1, <2>1, TruthShape DEF SyncInv, SyncTypeOK, Days
    <2> QED  BY <1>2, <2>2, <2>3, <2>4
<1> QED  BY <1>2, <1>3, <1>4 DEF SnapshotFiles

\* Every step keeps the chain of executions.
LEMMA ChainInvNext ==
    ASSUME SyncInv, SyncInv', ChainInv, [ProductionNext]_productionVars
    PROVE  ChainInv'
<1>0. \A o \in DOMAIN ledger : working[o] \in Nat
    BY DEF SyncInv, SyncTypeOK
<1>1. ASSUME NEW o \in DOMAIN working, NEW n \in 1..MaxShares, BrokerFills(o, n)
      PROVE  ChainInv'
    BY <1>1, ChainFills
<1>2. ASSUME NEW o \in DOMAIN working, BrokerCancels(o) PROVE ChainInv'
    BY <1>2, ChainCancels
<1>3. CASE Export
    BY <1>3, ChainExport
<1>4. CASE UNCHANGED <<truth, working, dead, snap>>
    BY <1>4, ChainStays
<1>5. CASE ProductionDecide
    <2>1. PICK kept \in SUBSET DOMAIN pending, fresh \in FreshBatches, freeze \in BOOLEAN :
              /\ Reconcile(kept, fresh, freeze)
              /\ \E q \in Placements(fresh) : working' = [o \in DOMAIN ledger' |->
                     CASE o \in DOMAIN fresh -> q[o]
                       [] o \in DOMAIN ledger /\ Live(ledger'[o]) -> working[o]
                       [] OTHER -> 0]
        BY <1>5 DEF ProductionDecide
    <2>6. PICK q \in Placements(fresh) : working' = [o \in DOMAIN ledger' |->
                     CASE o \in DOMAIN fresh -> q[o]
                       [] o \in DOMAIN ledger /\ Live(ledger'[o]) -> working[o]
                       [] OTHER -> 0]
        BY <2>1
    <2>2. day' = day /\ UNCHANGED <<truth, dead, snap>>
        BY <1>5 DEF ProductionDecide
    <2>3. DecisionRows(kept, fresh, freeze)
        BY <2>1, <2>2, ReconcileRows DEF SyncInv
    <2>4. \A o \in DOMAIN ledger : o \notin DOMAIN fresh /\ o \in DOMAIN ledger'
        <3>1. /\ nextSeq \in Nat /\ nextSeq' \in Nat /\ nextSeq' >= nextSeq
              /\ DOMAIN ledger = 1..(nextSeq - 1) /\ DOMAIN ledger' = 1..(nextSeq' - 1)
              /\ DOMAIN fresh = nextSeq..(nextSeq' - 1)
            BY <2>3, BoundsAssumption DEF SyncInv, LedgerInv, LedgerTypeOK, DecisionRows
        <3>2. \A o \in DOMAIN ledger : o \in Int /\ o < nextSeq /\ o \in DOMAIN ledger'
            BY <3>1
        <3>3. \A o \in DOMAIN fresh : o >= nextSeq
            BY <3>1
        <3> QED  BY <3>1, <3>2, <3>3
    <2>5. \A o \in DOMAIN ledger : working'[o] \in {0, working[o]}
        <3> SUFFICES ASSUME NEW o \in DOMAIN ledger PROVE working'[o] \in {0, working[o]}
            OBVIOUS
        <3>1. working'[o] = CASE o \in DOMAIN fresh -> q[o]
                              [] o \in DOMAIN ledger /\ Live(ledger'[o]) -> working[o]
                              [] OTHER -> 0
            BY <2>4, <2>6
        <3>2. working'[o] = IF Live(ledger'[o]) THEN working[o] ELSE 0
            BY <2>4, <3>1
        <3> QED  BY <3>2
    <2> QED  BY <2>2, <2>5, ChainStays
<1> QED
    BY <1>1, <1>2, <1>3, <1>4, <1>5
    DEF ProductionNext, Sync, RefuseSync, NextDay, account, broker, productionVars

\* A withdrawn row keeps its quantities.
LEMMA WithdrawnLeaves ==
    ASSUME NEW e \in AccountOrder, NEW heirs, NEW book, NEW freeze
    PROVE  LET w == Withdrawn(e, heirs, book, freeze)
           IN /\ w.grant = e.grant /\ w.filled = e.filled
              /\ w.requested = e.requested /\ w.remaining = e.remaining
              /\ w.updated \in {e.updated, day}
              /\ w.event = "LATE_FILL_SUPPRESSED_RETRY" => w = e
              /\ Live(w) => Live(e)
<1> DEFINE w == Withdrawn(e, heirs, book, freeze)
           a == [e EXCEPT !.reason = Freeze, !.event = "CANCEL_REQUESTED", !.updated = day]
           b == [e EXCEPT !.status = "CANCELLED", !.reason = "daily target removed",
                          !.event = "CANCELLED", !.updated = day]
           c == [e EXCEPT !.status = "REPLACED", !.reason = "daily target changed",
                          !.event = "REPLACED", !.updated = day,
                          !.replacedBy = CHOOSE h \in heirs : TRUE]
<1>1. w = e \/ (Live(e) /\ (w = a \/ w = b \/ w = c))
    BY DEF Withdrawn, CancelRequested, Superseded
<1>2. /\ a.grant = e.grant /\ a.filled = e.filled /\ a.requested = e.requested
      /\ a.remaining = e.remaining /\ a.updated = day /\ a.event = "CANCEL_REQUESTED"
    BY DEF AccountOrder
<1>3. /\ b.grant = e.grant /\ b.filled = e.filled /\ b.requested = e.requested
      /\ b.remaining = e.remaining /\ b.updated = day /\ b.event = "CANCELLED"
    BY DEF AccountOrder
<1>4. /\ c.grant = e.grant /\ c.filled = e.filled /\ c.requested = e.requested
      /\ c.remaining = e.remaining /\ c.updated = day /\ c.event = "REPLACED"
    BY DEF AccountOrder
<1> HIDE DEF a, b, c, w
<1> QED  BY <1>1, <1>2, <1>3, <1>4 DEF w

\* What a decision leaves of the rows for the broker's later answers.
LEMMA DecisionLeaves ==
    ASSUME SyncInv, ProductionDecide
    PROVE  /\ \A o \in DOMAIN ledger :
                 /\ o \in DOMAIN ledger' /\ ledger'[o].grant = ledger[o].grant
                 /\ ledger'[o].filled = ledger[o].filled
                 /\ ledger'[o].requested = ledger[o].requested
                 /\ ledger'[o].remaining = ledger[o].remaining
                 /\ ledger'[o].updated \in {ledger[o].updated, day}
                 /\ ledger'[o].event = "LATE_FILL_SUPPRESSED_RETRY" => ledger'[o] = ledger[o]
                 /\ Live(ledger'[o]) => Live(ledger[o])
           /\ \A o \in DOMAIN ledger' \ DOMAIN ledger :
                 /\ ledger'[o].requested = 0 /\ ledger'[o].filled = 0
                 /\ ledger'[o].event = "SUBMITTED"
           /\ fills' = fills
<1>1. PICK kept \in SUBSET DOMAIN pending, fresh \in FreshBatches, freeze \in BOOLEAN :
          Reconcile(kept, fresh, freeze)
    BY DEF ProductionDecide
<1>2. day' = day
    BY DEF ProductionDecide
<1>3. DecisionRows(kept, fresh, freeze)
    BY <1>1, <1>2, ReconcileRows DEF SyncInv
<1>4. /\ DOMAIN ledger = 1..(nextSeq - 1) /\ nextSeq \in Nat /\ nextSeq' \in Nat
      /\ nextSeq' >= nextSeq /\ DOMAIN ledger' = 1..(nextSeq' - 1)
      /\ \A o \in DOMAIN ledger : ledger[o] \in AccountOrder
    BY <1>3, BoundsAssumption DEF SyncInv, LedgerInv, LedgerTypeOK, DecisionRows
<1>5. \A o \in DOMAIN ledger : o \in DOMAIN ledger'
    BY <1>4
<1>6. ASSUME NEW o \in DOMAIN ledger
      PROVE  /\ ledger'[o].grant = ledger[o].grant /\ ledger'[o].filled = ledger[o].filled
             /\ ledger'[o].requested = ledger[o].requested
             /\ ledger'[o].remaining = ledger[o].remaining
             /\ ledger'[o].updated \in {ledger[o].updated, day}
             /\ ledger'[o].event = "LATE_FILL_SUPPRESSED_RETRY" => ledger'[o] = ledger[o]
             /\ Live(ledger'[o]) => Live(ledger[o])
    <2>1. CASE o \in DOMAIN pending \ kept
        <3>1. PICK heirs \in SUBSET Orders : \E book :
                  ledger'[o] = Withdrawn(ledger[o], heirs, book, freeze)
            BY <1>3, <2>1 DEF DecisionRows
        <3>2. PICK book : ledger'[o] = Withdrawn(ledger[o], heirs, book, freeze)
            BY <3>1
        <3>3. ledger[o] \in AccountOrder
            BY <1>4
        <3> QED  BY <3>2, <3>3, WithdrawnLeaves
    <2>2. CASE o \notin DOMAIN pending \ kept
        <3>1. ledger'[o] = ledger[o]
            BY <1>3, <2>2 DEF DecisionRows
        <3> QED  BY <3>1
    <2> QED  BY <2>1, <2>2
<1>7. ASSUME NEW o \in DOMAIN ledger' \ DOMAIN ledger
      PROVE  /\ ledger'[o].requested = 0 /\ ledger'[o].filled = 0
             /\ ledger'[o].event = "SUBMITTED"
    <2>1. o \in nextSeq..(nextSeq' - 1)
        BY <1>4
    <2>2. ledger'[o] = NewEntry(fresh[o])
        BY <1>3, <2>1 DEF DecisionRows
    <2> QED  BY <2>2 DEF NewEntry
<1> QED  BY <1>3, <1>5, <1>6, <1>7 DEF DecisionRows

LEMMA LoopDecision ==
    ASSUME SyncInv, SyncInv', LoopInv, closedLoop, ProductionDecide
    PROVE  LoopInv'
<1>1. /\ ran' = day /\ ran < day /\ UpToDate
      /\ UNCHANGED <<day, truth, dead, refused>>
    BY DEF ProductionDecide
<1>2. LedgerAdvances
    BY DecisionKeeps
<1>3. /\ \A o \in DOMAIN ledger :
             /\ o \in DOMAIN ledger' /\ ledger'[o].grant = ledger[o].grant
             /\ ledger'[o].filled = ledger[o].filled
             /\ ledger'[o].requested = ledger[o].requested
             /\ ledger'[o].remaining = ledger[o].remaining
             /\ ledger'[o].updated \in {ledger[o].updated, day}
             /\ ledger'[o].event = "LATE_FILL_SUPPRESSED_RETRY" => ledger'[o] = ledger[o]
             /\ Live(ledger'[o]) => Live(ledger[o])
      /\ \A o \in DOMAIN ledger' \ DOMAIN ledger :
             /\ ledger'[o].requested = 0 /\ ledger'[o].filled = 0
             /\ ledger'[o].event = "SUBMITTED"
      /\ fills' = fills
    BY DecisionLeaves
<1>4. Known' = Known
    BY <1>3 DEF Known
<1>5. RowsTell'
    <2>1. ASSUME NEW o \in DOMAIN ledger'
          PROVE  RowTells(o, ledger[o], Known)' /\ SuppressionTells(o, ledger[o])'
        <3>1. CASE o \in DOMAIN ledger
            BY <1>1, <1>3, <1>4, <3>1 DEF LoopInv, RowsTell, RowTells, SuppressionTells
        <3>2. CASE o \notin DOMAIN ledger
            BY <1>3, <3>2 DEF RowTells, SuppressionTells
        <3> QED  BY <3>1, <3>2
    <2> QED  BY <2>1 DEF RowsTell, RowTells, SuppressionTells
<1>6. Known = Len(truth) /\ \A o \in DOMAIN dead : ~Live(ledger[o])
    BY <1>1 DEF UpToDate, Known
<1>7. \A k \in DOMAIN truth' : ~(k > Known')
    <2>1. Len(truth) \in Nat /\ DOMAIN truth = 1..Len(truth)
        BY TruthShape DEF SyncInv
    <2>2. DOMAIN truth' = DOMAIN truth /\ Known' = Len(truth)
        BY <1>1, <1>4, <1>6
    <2> QED  BY <2>1, <2>2
<1>8. ASSUME NEW o \in DOMAIN ledger' PROVE DateKept(o, ledger[o], fills)'
    <2>1. CASE o \in DOMAIN ledger
        <3>1. DateKept(o, ledger[o], fills)
            BY <2>1 DEF LoopInv
        <3>2. ledger[o].updated \in Nat
            BY <2>1 DEF SyncInv, LedgerInv, LedgerTypeOK, AccountOrder, Days
        <3>3. ran \in Nat /\ day \in Nat
            BY BoundsAssumption DEF SyncInv, SyncTypeOK, LedgerInv, LedgerTypeOK, Days
        <3> QED  BY <1>1, <1>3, <2>1, <3>1, <3>2, <3>3 DEF DateKept
    <2>2. CASE o \notin DOMAIN ledger
        BY <1>3, <2>2 DEF DateKept
    <2> QED  BY <2>1, <2>2
<1>9. \A o \in DOMAIN ledger' : ledger'[o].submitted <= ran'
    BY <1>1 DEF SyncInv, LedgerInv, RowsAgree
<1>10. \A o \in DOMAIN dead : ledger'[o].status # "REPLACED"
    <2>1. \A o \in DOMAIN dead : o \in DOMAIN ledger
        BY DEF SyncInv, SyncTypeOK
    <2> QED  BY <1>2, <1>6, <2>1 DEF LedgerAdvances, LoopInv
<1>11. \A o \in refused : o \in DOMAIN ledger' /\ ledger'[o].grant # NoGrant
    BY <1>3 DEF LoopInv, Ordinary
<1> QED  BY <1>1, <1>5, <1>7, <1>8, <1>9, <1>10, <1>11 DEF LoopInv, Ordinary, DateKept

LEMMA LastInSame ==
    ASSUME NEW t, NEW u, NEW n, \A m \in 1..n : u[m] = t[m], NEW o, NEW k
    PROVE  LastIn(u, o, k, n) <=> LastIn(t, o, k, n)
BY DEF LastIn

\* What the broker still works on is live in the account or was suppressed.
LEMMA WorkingRow ==
    ASSUME SyncInv, RowsTell, NEW o \in DOMAIN working, working[o] > 0
    PROVE  /\ o \in DOMAIN ledger
           /\ Live(ledger[o]) \/ (ledger[o].grant # NoGrant /\ ledger[o].status = "CANCELLED")
<1>1. o \in DOMAIN ledger
    BY DEF SyncInv, SyncTypeOK
<1> QED  BY <1>1 DEF SyncInv, BrokerLiabilityKnown, RowsTell, SuppressionTells

LEMMA LoopFills ==
    ASSUME SyncInv, LoopInv, NEW o \in DOMAIN working, NEW n \in 1..MaxShares, BrokerFills(o, n)
    PROVE  LoopInv'
<1> DEFINE new == [order |-> o, day |-> day, shares |-> n, remaining |-> working[o] - n]
<1>1. /\ ran < day /\ n <= working[o] /\ truth' = Append(truth, new)
      /\ UNCHANGED <<ledger, fills, ran, dead, refused>>
    BY DEF BrokerFills, account
<1>2. /\ Known \in Nat /\ Known <= snap.n /\ snap.n <= Len(truth) /\ snap.n \in Nat
      /\ truth \in Seq(Execution) /\ Len(truth) \in Nat
      /\ n \in Nat \ {0} /\ working[o] \in Nat
    BY BoundsAssumption DEF SyncInv, SyncTypeOK, SnapInv, KnownInv
<1>3. new.order = o /\ new.day = day
    OBVIOUS
<1> HIDE DEF new
<1>4. /\ DOMAIN truth' = 1..(Len(truth) + 1) /\ truth'[Len(truth) + 1] = new
      /\ DOMAIN truth = 1..Len(truth)
      /\ \A k \in DOMAIN truth : truth'[k] = truth[k]
      /\ \A k \in 1..Known : truth'[k] = truth[k]
    BY <1>1, <1>2
<1>5. Known' = Known
    BY <1>1 DEF Known
<1>6. RowsTell'
    <2>1. \A p, k : LastIn(truth', p, k, Known) <=> LastIn(truth, p, k, Known)
        BY <1>4, LastInSame
    <2>2. \A k \in 1..Known : truth'[k].remaining = truth[k].remaining
        BY <1>4
    <2>3. ASSUME NEW p \in DOMAIN ledger
          PROVE  RowTells(p, ledger[p], Known)' /\ SuppressionTells(p, ledger[p])'
        <3>0. RowTells(p, ledger[p], Known) /\ SuppressionTells(p, ledger[p])
            BY DEF LoopInv, RowsTell
        <3>1. CASE ledger[p].requested > 0
            <4>1. PICK k \in 1..Known : /\ LastIn(truth, p, k, Known)
                                       /\ ledger[p].remaining = truth[k].remaining
                BY <3>0, <3>1 DEF RowTells
            <4>2. LastIn(truth', p, k, Known') /\ ledger'[p].remaining = truth'[k].remaining
                BY <1>1, <1>5, <2>1, <2>2, <4>1
            <4> QED  BY <1>1, <1>5, <3>0, <4>2 DEF RowTells, SuppressionTells
        <3>2. CASE ~(ledger[p].requested > 0)
            BY <1>1, <3>0, <3>2 DEF RowTells, SuppressionTells
        <3> QED  BY <3>1, <3>2
    <2> QED  BY <1>1, <2>3 DEF RowsTell, RowTells, SuppressionTells
<1>7. ASSUME NEW k \in DOMAIN truth', k > Known'
      PROVE  /\ truth'[k].day > ran
             /\ ledger[truth'[k].order].grant = NoGrant => Live(ledger[truth'[k].order])
    <2>1. CASE k \in DOMAIN truth
        BY <1>4, <1>5, <1>7, <2>1 DEF LoopInv, Ordinary
    <2>2. CASE k = Len(truth) + 1
        <3>1. working[o] > 0
            BY <1>1, <1>2
        <3>2. truth'[k].day = day /\ truth'[k].order = o
            BY <1>3, <1>4, <2>2
        <3>3. day \in Nat /\ ran \in Nat /\ day > ran
            BY <1>1, BoundsAssumption
            DEF SyncInv, SyncTypeOK, LedgerInv, LedgerTypeOK, Days
        <3> QED  BY <3>1, <3>2, <3>3, WorkingRow DEF LoopInv
    <2> QED  BY <1>2, <1>4, <2>1, <2>2
<1> QED  BY <1>1, <1>6, <1>7 DEF LoopInv, Ordinary, DateKept

LEMMA LoopCancels ==
    ASSUME SyncInv, LoopInv, NEW o \in DOMAIN working, BrokerCancels(o)
    PROVE  LoopInv'
<1>1. /\ working[o] > 0 /\ DOMAIN dead' = DOMAIN dead \cup {o}
      /\ UNCHANGED <<ledger, fills, ran, truth, refused>>
    BY DEF BrokerCancels, account
<1>2. RowsTell'
    BY <1>1 DEF LoopInv, RowsTell, RowTells, SuppressionTells, Known
<1>3. ledger[o].status # "REPLACED"
    BY <1>1, WorkingRow DEF Live, Terminal, LoopInv
<1> QED  BY <1>1, <1>2, <1>3 DEF LoopInv, Ordinary, DateKept, Known

\* Anything that neither the account's orders nor the broker's answers depend on.
LEMMA LoopStays ==
    ASSUME LoopInv, UNCHANGED <<ledger, fills, ran, truth, dead>>,
           \A o \in refused' : o \in DOMAIN ledger /\ ~Ordinary(o)
    PROVE  LoopInv'
<1>1. RowsTell'
    BY DEF LoopInv, RowsTell, RowTells, SuppressionTells, Known
<1> QED  BY <1>1 DEF LoopInv, Ordinary, DateKept, Known

--------------------------------------------------------------------------------
(* Production: what the import of a truthful snapshot leaves of the rows *)

\* One more execution counts for the symbol it trades.
LEMMA HeldInNext ==
    ASSUME NEW t, NEW book, NEW s, NEW k \in Nat \ {0}, \A j \in 1..k : t[j].shares \in Nat,
           book[t[k].order].side \in Sides
    PROVE  HeldIn(t, book, s, k) = HeldIn(t, book, s, k - 1)
              + (IF book[t[k].order].symbol # s THEN 0
                 ELSE IF book[t[k].order].side = "BUY" THEN t[k].shares ELSE 0 - t[k].shares)
<1>1. ASSUME NEW side
      PROVE  /\ ListShares(t, ListOf(t, book, s, side, k - 1)) \in Nat
             /\ ListShares(t, ListOf(t, book, s, side, k))
                  = ListShares(t, ListOf(t, book, s, side, k - 1))
                      + (IF book[t[k].order].symbol = s /\ book[t[k].order].side = side
                         THEN t[k].shares ELSE 0)
    <2> DEFINE S == ListOf(t, book, s, side, k - 1)
               T == ListOf(t, book, s, side, k)
               v == [j \in S |-> t[j].shares]
               w == [j \in T |-> t[j].shares]
    <2>1. k - 1 \in Nat /\ 1..k = 1..(k - 1) \cup {k} /\ k \notin 1..(k - 1)
        OBVIOUS
    <2>2. /\ T = IF book[t[k].order].symbol = s /\ book[t[k].order].side = side
                 THEN S \cup {k} ELSE S
          /\ k \notin S /\ S \subseteq 1..k
        BY <2>1 DEF ListOf
    <2>3. IsFiniteSet(S) /\ IsFiniteSet(T)
        BY <2>1, ListFinite
    <2>4. /\ ListShares(t, S) = SumOf(v, S)
          /\ ListShares(t, T) = SumOf(w, T)
        BY <2>3, ListSharesAre
    <2> HIDE DEF S, T
    <2>5. \A j \in S : v[j] = t[j].shares /\ v[j] \in Nat
        BY <2>2
    <2>6. \A j \in T : w[j] = t[j].shares /\ w[j] \in Nat
        BY <2>2
    <2> HIDE DEF v, w
    <2>7. SumOf(v, S) \in Nat
        BY <2>3, <2>5, SumNat
    <2>8. CASE T = S
        <3>1. SumOf(w, S) = SumOf(v, S)
            BY <2>3, <2>5, <2>6, <2>8, SumSame
        <3>2. ~(book[t[k].order].symbol = s /\ book[t[k].order].side = side)
            BY <2>2, <2>8
        <3> QED  BY <2>4, <2>7, <2>8, <3>1, <3>2 DEF S, T
    <2>9. CASE T = S \cup {k} /\ book[t[k].order].symbol = s /\ book[t[k].order].side = side
        <3>1. \A j \in S \cup {k} : w[j] \in Nat
            BY <2>6, <2>9
        <3>2. SumOf(w, S \cup {k}) = w[k] + SumOf(w, S)
            BY <2>2, <2>3, <3>1, SumAdd
        <3>3. SumOf(w, S) = SumOf(v, S)
            BY <2>3, <2>5, <2>6, <2>9, SumSame
        <3>4. w[k] = t[k].shares /\ w[k] \in Nat
            BY <2>6, <2>9
        <3>5. ListShares(t, T) = ListShares(t, S) + t[k].shares
            BY <2>4, <2>7, <2>9, <3>2, <3>3, <3>4
        <3> QED  BY <2>4, <2>7, <2>9, <3>5 DEF S, T
    <2> QED  BY <2>2, <2>8, <2>9
<1> DEFINE B(n) == ListShares(t, ListOf(t, book, s, "BUY", n))
           C(n) == ListShares(t, ListOf(t, book, s, "SELL", n))
<1>2. /\ B(k - 1) \in Nat
      /\ B(k) = B(k - 1) + (IF book[t[k].order].symbol = s /\ book[t[k].order].side = "BUY"
                            THEN t[k].shares ELSE 0)
      /\ C(k - 1) \in Nat
      /\ C(k) = C(k - 1) + (IF book[t[k].order].symbol = s /\ book[t[k].order].side = "SELL"
                            THEN t[k].shares ELSE 0)
    BY <1>1
<1>3. HeldIn(t, book, s, k) = B(k) - C(k) /\ HeldIn(t, book, s, k - 1) = B(k - 1) - C(k - 1)
    BY DEF HeldIn
<1>4. t[k].shares \in Nat /\ book[t[k].order].side \in {"BUY", "SELL"}
    BY DEF Sides
<1> HIDE DEF B, C
<1> QED  BY <1>2, <1>3, <1>4

\* A fill more is shares more of its order.
LEMMA FilledByOne ==
    ASSUME NEW deals, IsFiniteSet(deals), NEW f, f \notin deals, NEW o,
           \A g \in deals \cup {f} : g.shares \in Nat
    PROVE  /\ FilledShares(o, deals) \in Nat
           /\ FilledShares(o, deals \cup {f})
                 = FilledShares(o, deals) + (IF f.order = o THEN f.shares ELSE 0)
<1> DEFINE S == {g \in deals : g.order = o}
           T == {g \in deals \cup {f} : g.order = o}
<1>1. FilledShares(o, deals) = SumShares(S) /\ FilledShares(o, deals \cup {f}) = SumShares(T)
    BY FilledSharesAre
<1>2. T = (IF f.order = o THEN S \cup {f} ELSE S) /\ f \notin S /\ S \subseteq deals
    OBVIOUS
<1>3. IsFiniteSet(S)
    BY <1>2, FS_Subset
<1> HIDE DEF S, T
<1>4. \A g \in S \cup {f} : g.shares \in Nat
    BY <1>2
<1>5. SumShares(S \cup {f}) = f.shares + SumShares(S) /\ SumShares(S) \in Nat
    BY <1>2, <1>3, <1>4, SharesAdd
<1>6. f.shares \in Nat
    OBVIOUS
<1> QED  BY <1>1, <1>2, <1>5, <1>6

\* The row of order o once the first m executions are imported.
RowFollows(o, row, m) ==
    /\ RowAgrees(row)
    /\ row.grant = ledger[o].grant /\ row.replacedBy = ledger[o].replacedBy
    /\ row.status = "REPLACED" => ledger[o].status = "REPLACED"
    /\ SuppressionTells(o, row)
    /\ (Ordinary(o) /\ Live(ledger[o]) /\ ~Live(row)) =>
          \E j \in 1..m : truth[j].order = o /\ truth[j].remaining = 0

LEMMA ImportedRowFollows ==
    ASSUME SyncInv, NEW k \in DOMAIN truth, NEW row \in AccountOrder,
           RowFollows(truth[k].order, row, k - 1), Importable(row, truth[k])
    PROVE  LET new == ImportedRow(row, truth[k])
           IN /\ RowFollows(truth[k].order, new, k)
              /\ RowTells(truth[k].order, new, k)
              /\ new.filled = row.filled + truth[k].shares /\ new.updated = truth[k].day
              /\ ~Live(new) => truth[k].remaining = 0
<1> DEFINE x == truth[k]
           o == x.order
           new == ImportedRow(row, x)
           status == IF x.remaining = 0 THEN "FILLED" ELSE "PARTIALLY_FILLED"
           requested == IF row.requested = 0 THEN row.filled + x.shares + x.remaining
                        ELSE row.requested
<1>1. /\ x.day \in Days /\ x.day \in Nat /\ x.shares \in Nat \ {0} /\ x.remaining \in Nat
      /\ k \in Nat \ {0} /\ k \in 1..k
    BY TruthShape DEF SyncInv
<1>2. /\ row.filled \in Nat /\ row.requested \in Nat /\ row.submitted \in Nat
    BY DEF AccountOrder, Days
<1>3. Live(row) /\ x.day > row.submitted
      /\ (row.requested > 0 => row.filled + x.shares + x.remaining = row.requested)
    BY DEF Importable
<1>4. new = [row EXCEPT !.filled = row.filled + x.shares, !.requested = requested,
                        !.remaining = x.remaining, !.status = status,
                        !.updated = x.day, !.event = "BROKER_FILL"]
    BY DEF ImportedRow, AccountOrder
<1>5. RowFollows(o, row, k - 1)
    OBVIOUS
<1>6. \/ status = "FILLED" /\ x.remaining = 0
      \/ status = "PARTIALLY_FILLED" /\ x.remaining # 0
    OBVIOUS
<1>7. requested = row.filled + x.shares + x.remaining
    BY <1>2, <1>3
<1>8. truth[k].order = o /\ truth[k].remaining = x.remaining
    OBVIOUS
<1> HIDE DEF x, o, new, status, requested
<1>9. /\ new.submitted = row.submitted /\ new.grant = row.grant
      /\ new.replacedBy = row.replacedBy /\ new.filled = row.filled + x.shares
      /\ new.requested = requested /\ new.remaining = x.remaining /\ new.status = status
      /\ new.updated = x.day /\ new.event = "BROKER_FILL"
    BY <1>4 DEF AccountOrder
<1>10. RowAgrees(new)
    BY <1>1, <1>2, <1>3, <1>6, <1>7, <1>9 DEF RowAgrees
<1>11. ~Live(new) => x.remaining = 0
    BY <1>6, <1>9 DEF Live, Terminal
<1>12. RowFollows(o, new, k)
    BY <1>1, <1>5, <1>6, <1>8, <1>9, <1>10, <1>11 DEF RowFollows, SuppressionTells
<1>13. RowTells(o, new, k)
    <2>1. LastIn(truth, o, k, k)
        BY <1>1, <1>8 DEF LastIn
    <2> QED  BY <1>1, <1>8, <1>9, <2>1 DEF RowTells
<1> QED  BY <1>9, <1>11, <1>12, <1>13 DEF x, o, new

LEMMA SuppressedRowFollows ==
    ASSUME NEW o, NEW row \in AccountOrder, NEW x, NEW m \in Nat, NEW n \in Nat, m <= n,
           RowFollows(o, row, m), ~Ordinary(o), x.day \in Nat, x.day >= row.submitted
    PROVE  LET new == SuppressedRow(row, x)
           IN /\ RowFollows(o, new, n)
              /\ new.filled = row.filled /\ new.requested = row.requested
              /\ new.remaining = row.remaining /\ new.updated \in {row.updated, x.day}
              /\ ~Live(new)
<1> DEFINE new == SuppressedRow(row, x)
           day1 == x.day
<1>0. row.submitted \in Nat
    BY DEF AccountOrder, Days
<1>1. CASE Live(row)
    <2>1. new = [row EXCEPT !.status = "CANCELLED",
                            !.reason = "late fill satisfied strategic grant",
                            !.updated = day1, !.event = "LATE_FILL_SUPPRESSED_RETRY"]
        BY <1>1 DEF SuppressedRow
    <2>2. day1 \in Nat /\ day1 >= row.submitted
        OBVIOUS
    <2> HIDE DEF new, day1
    <2>3. /\ new.submitted = row.submitted /\ new.grant = row.grant
          /\ new.replacedBy = row.replacedBy /\ new.filled = row.filled
          /\ new.requested = row.requested /\ new.remaining = row.remaining
          /\ new.status = "CANCELLED" /\ new.updated = day1
          /\ new.event = "LATE_FILL_SUPPRESSED_RETRY"
        BY <2>1 DEF AccountOrder
    <2>4. RowAgrees(new)
        BY <1>0, <2>2, <2>3 DEF RowAgrees, RowFollows
    <2>5. RowFollows(o, new, n)
        BY <2>3, <2>4 DEF RowFollows, SuppressionTells, Ordinary
    <2>6. ~Live(new)
        BY <2>3 DEF Live, Terminal
    <2> QED  BY <2>3, <2>5, <2>6 DEF new, day1
<1>2. CASE ~Live(row)
    <2>1. RowFollows(o, row, n)
        BY DEF RowFollows, Ordinary
    <2> QED  BY <1>2, <2>1 DEF SuppressedRow
<1> QED  BY <1>1, <1>2

LEMMA CancelledRowFollows ==
    ASSUME NEW row \in AccountOrder, NEW date \in Nat, date >= row.submitted, RowAgrees(row)
    PROVE  LET new == [row EXCEPT !.status = "CANCELLED", !.updated = date,
                                  !.event = "BROKER_CANCELLED"]
           IN /\ RowAgrees(new) /\ new.grant = row.grant /\ new.replacedBy = row.replacedBy
              /\ new.filled = row.filled /\ new.requested = row.requested
              /\ new.remaining = row.remaining /\ new.updated = date
              /\ new.status = "CANCELLED" /\ new.event = "BROKER_CANCELLED"
<1> DEFINE new == [row EXCEPT !.status = "CANCELLED", !.updated = date,
                              !.event = "BROKER_CANCELLED"]
<1>1. /\ new.submitted = row.submitted /\ new.grant = row.grant
      /\ new.replacedBy = row.replacedBy /\ new.filled = row.filled
      /\ new.requested = row.requested /\ new.remaining = row.remaining
      /\ new.status = "CANCELLED" /\ new.updated = date /\ new.event = "BROKER_CANCELLED"
    BY DEF AccountOrder
<1>2. row.submitted \in Nat
    BY DEF AccountOrder, Days
<1> HIDE DEF new
<1>3. RowAgrees(new)
    BY <1>1, <1>2 DEF RowAgrees
<1> QED  BY <1>1, <1>3 DEF new

\* The fills of the working copy are executions, and are what its rows count and date.
FillsFollow(st, m) ==
    /\ st.fills \subseteq FillsUpTo(m)
    /\ \A o \in DOMAIN ledger : FilledShares(o, st.fills) = st.ledger[o].filled
    /\ \A f \in st.fills : /\ f.day > ledger[f.order].submitted
                           /\ f.day <= st.ledger[f.order].updated

\* The working copy once the first m executions are imported or refused, in the closed loop.
TruthImport(st, m) ==
    /\ \A o \in DOMAIN ledger :
          /\ RowFollows(o, st.ledger[o], m)
          /\ o \in st.bad \/ RowTells(o, st.ledger[o], m)
          /\ (o \in DOMAIN pending /\ ~Live(st.ledger[o])) => o \in st.done
          /\ DateKept(o, st.ledger[o], st.fills)
    /\ FillsFollow(st, m)
    /\ \A o \in st.bad : o \in DOMAIN ledger /\ ~Ordinary(o)
    /\ st.bad = {} => \A s \in Symbols : st.held[s] >= HeldIn(truth, ledger, s, m)

\* Another order's execution says nothing of a row.
LEMMA RowLater ==
    ASSUME NEW o, NEW row, NEW k \in Nat \ {0}, truth[k].order # o
    PROVE  /\ RowTells(o, row, k - 1) => RowTells(o, row, k)
           /\ RowFollows(o, row, k - 1) => RowFollows(o, row, k)
<1>1. \A j \in 1..(k - 1) : j \in 1..k
    OBVIOUS
<1>2. \A j : LastIn(truth, o, j, k - 1) => LastIn(truth, o, j, k)
    <2>1. \A i \in 1..k : i \in 1..(k - 1) \/ i = k
        OBVIOUS
    <2> QED  BY <1>1, <2>1 DEF LastIn
<1> QED  BY <1>1, <1>2 DEF RowTells, RowFollows

\* An execution the account does not know continues its order, if that order is ordinary.
LEMMA OrdinaryImportable ==
    ASSUME SyncInv, ChainInv, LoopInv, NEW k \in DOMAIN truth, k > Known, NEW st \in Work,
           RowsImported(st), TruthImport(st, k - 1), Ordinary(truth[k].order)
    PROVE  Importable(st.ledger[truth[k].order], truth[k])
<1> DEFINE x == truth[k]
           o == x.order
           e == st.ledger[o]
<1>1. /\ DOMAIN truth = 1..Len(truth) /\ Len(truth) \in Nat /\ k \in Nat \ {0}
      /\ x.shares \in Nat /\ x.remaining \in Nat
    BY TruthShape DEF SyncInv
<1>2. o \in DOMAIN ledger /\ ledger[o].submitted < x.day
    BY DEF SyncInv, TruthInv
<1>3. /\ e \in AccountOrder /\ e.submitted = ledger[o].submitted
      /\ ledger[o].submitted \in Nat /\ x.day \in Nat
    BY <1>2, TruthShape
    DEF RowsImported, RowAdvances, SyncInv, LedgerInv, LedgerTypeOK, AccountOrder, Days
<1>4. /\ RowFollows(o, e, k - 1) /\ RowTells(o, e, k - 1)
    BY <1>2 DEF TruthImport
<1>5. \A j \in 1..(k - 1) : j \in DOMAIN truth /\ j < k
    BY <1>1
<1>6. Live(e)
    <2> SUFFICES ASSUME ~Live(e) PROVE FALSE
        OBVIOUS
    <2>1. Live(ledger[o])
        BY DEF LoopInv
    <2>2. PICK j \in 1..(k - 1) : truth[j].order = o /\ truth[j].remaining = 0
        BY <1>4, <2>1 DEF RowFollows
    <2>3. truth[j].remaining > 0
        BY <1>5, <2>2 DEF ChainInv
    <2> QED  BY <2>2, <2>3
<1>7. ASSUME e.requested > 0 PROVE e.filled + x.shares + x.remaining = e.requested
    <2>1. PICK j \in 1..(k - 1) : LastIn(truth, o, j, k - 1) /\ e.remaining = truth[j].remaining
        BY <1>4, <1>7 DEF RowTells
    <2>2. e.remaining = x.shares + x.remaining
        BY <1>5, <2>1 DEF ChainInv
    <2>3. e.filled + e.remaining = e.requested /\ e.filled \in Nat
        BY <1>3, <1>4 DEF RowFollows, RowAgrees, AccountOrder
    <2> HIDE DEF x, e
    <2> QED  BY <1>1, <2>2, <2>3
<1>8. x.day > e.submitted
    BY <1>2, <1>3
<1> QED  BY <1>6, <1>7, <1>8 DEF Importable

\* A refused execution is of a strategic order, and changes no row.
LEMMA TruthRefusedStep ==
    ASSUME SyncInv, ChainInv, LoopInv, NEW k \in DOMAIN truth, k > Known, NEW st \in Work,
           RowsImported(st), TruthImport(st, k - 1),
           ~Importable(st.ledger[truth[k].order], truth[k])
    PROVE  TruthImport(ImportFill(st, k), k)
<1> DEFINE o == truth[k].order
           new == [st EXCEPT !.bad = @ \cup {o}]
<1>1. ImportFill(st, k) = new
    BY DEF ImportFill
<1>2. o \in DOMAIN ledger /\ ~Ordinary(o) /\ k \in Nat \ {0}
    BY OrdinaryImportable, TruthShape DEF SyncInv, TruthInv
<1>3. truth[k].order = o
    OBVIOUS
<1> HIDE DEF o
<1>4. /\ new.bad = st.bad \cup {o} /\ new.ledger = st.ledger /\ new.done = st.done
      /\ new.fills = st.fills
    BY DEF Work
<1> HIDE DEF new
<1>5. ASSUME NEW p \in DOMAIN ledger
      PROVE  /\ RowFollows(p, st.ledger[p], k)
             /\ p \in new.bad \/ RowTells(p, st.ledger[p], k)
             /\ (p \in DOMAIN pending /\ ~Live(st.ledger[p])) => p \in st.done
             /\ DateKept(p, st.ledger[p], st.fills)
    <2>1. /\ RowFollows(p, st.ledger[p], k - 1)
          /\ p \in st.bad \/ RowTells(p, st.ledger[p], k - 1)
          /\ (p \in DOMAIN pending /\ ~Live(st.ledger[p])) => p \in st.done
          /\ DateKept(p, st.ledger[p], st.fills)
        BY DEF TruthImport
    <2>2. CASE p = o
        <3>1. RowFollows(p, st.ledger[p], k)
            BY <1>2, <2>1, <2>2 DEF RowFollows
        <3> QED  BY <1>4, <2>1, <2>2, <3>1
    <2>3. CASE p # o
        BY <1>2, <1>3, <1>4, <2>1, <2>3, RowLater
    <2> QED  BY <2>2, <2>3
<1>6. st.fills \subseteq FillsUpTo(k)
    <2>1. st.fills \subseteq FillsUpTo(k - 1)
        BY DEF TruthImport, FillsFollow
    <2>2. 1..(k - 1) \subseteq 1..k
        BY <1>2
    <2> QED  BY <2>1, <2>2 DEF FillsUpTo
<1>7. FillsFollow(new, k)
    BY <1>4, <1>6 DEF TruthImport, FillsFollow
<1>8. new.bad # {} /\ \A p \in new.bad : p \in DOMAIN ledger /\ ~Ordinary(p)
    BY <1>2, <1>4 DEF TruthImport
<1>9. TruthImport(new, k)
    BY <1>4, <1>5, <1>7, <1>8 DEF TruthImport
<1> QED  BY <1>1, <1>9

\* An imported execution keeps the fills in agreement with the rows.
LEMMA FillsFollowNext ==
    ASSUME SyncInv, NEW k \in DOMAIN truth, NEW st \in Work, RowsImported(st), NEW new,
           FillsFollow(st, k - 1), ledger[truth[k].order].submitted < truth[k].day,
           new.fills = st.fills \cup {FillOf(k)},
           new.ledger[truth[k].order].filled
              = st.ledger[truth[k].order].filled + truth[k].shares,
           new.ledger[truth[k].order].updated = truth[k].day,
           \A p \in DOMAIN ledger \ {truth[k].order} :
              /\ new.ledger[p].filled = st.ledger[p].filled
              /\ new.ledger[p].updated \in {st.ledger[p].updated, truth[k].day}
    PROVE  FillsFollow(new, k)
<1> DEFINE f == FillOf(k)
<1>1. /\ f.order = truth[k].order /\ f.day = truth[k].day /\ f.shares = truth[k].shares
      /\ f.id = k
    BY DEF FillOf
<1>2. /\ k \in Nat \ {0} /\ DOMAIN truth = 1..Len(truth) /\ Len(truth) \in Nat
      /\ truth[k].order \in DOMAIN ledger /\ truth[k].shares \in Nat /\ truth[k].day \in Nat
    BY TruthShape DEF SyncInv, TruthInv
<1>3. ASSUME NEW g \in st.fills
      PROVE  /\ g.id # k /\ g.shares \in Nat /\ g.order \in DOMAIN ledger
             /\ g.day <= truth[k].day /\ g.day \in Nat
    <2>1. PICK j \in 1..(k - 1) : g = FillOf(j)
        BY DEF FillsFollow, FillsUpTo
    <2>2. j \in DOMAIN truth /\ j # k /\ j <= k
        BY <1>2
    <2>3. /\ g.id = j /\ g.shares = truth[j].shares /\ g.order = truth[j].order
          /\ g.day = truth[j].day
        BY <2>1 DEF FillOf
    <2>4. /\ truth[j].shares \in Nat /\ truth[j].order \in DOMAIN ledger
          /\ truth[j].day <= truth[k].day /\ truth[j].day \in Nat
        BY <2>2, TruthShape DEF SyncInv, TruthInv
    <2> QED  BY <2>2, <2>3, <2>4
<1>4. f \notin st.fills
    BY <1>1, <1>3
<1>5. IsFiniteSet(st.fills)
    <2>1. k - 1 \in Nat
        BY <1>2
    <2>2. IsFiniteSet(FillsUpTo(k - 1))
        BY <2>1, FillsCounted
    <2> QED  BY <2>2, FS_Subset DEF FillsFollow
<1>6. \A g \in st.fills \cup {f} : g.shares \in Nat
    BY <1>1, <1>2, <1>3
<1> HIDE DEF f
<1>7. ASSUME NEW p \in DOMAIN ledger PROVE FilledShares(p, new.fills) = new.ledger[p].filled
    <2>1. FilledShares(p, st.fills) = st.ledger[p].filled
        BY DEF FillsFollow
    <2>2. FilledShares(p, st.fills \cup {f})
             = FilledShares(p, st.fills) + (IF f.order = p THEN f.shares ELSE 0)
        BY <1>4, <1>5, <1>6, FilledByOne
    <2>3. FilledShares(p, new.fills) = FilledShares(p, st.fills \cup {f})
        BY DEF f
    <2>4. st.ledger[p].filled \in Nat
        BY DEF RowsImported, RowAdvances, AccountOrder
    <2> QED  BY <1>1, <1>2, <2>1, <2>2, <2>3, <2>4
<1>8. ASSUME NEW g \in new.fills
      PROVE  g.day > ledger[g.order].submitted /\ g.day <= new.ledger[g.order].updated
    <2>1. CASE g \in st.fills
        <3>1. /\ g.day > ledger[g.order].submitted /\ g.day <= st.ledger[g.order].updated
            BY <2>1 DEF FillsFollow
        <3> QED  BY <1>3, <2>1, <3>1
    <2>2. CASE g = f
        BY <1>1, <1>2, <2>2
    <2> QED  BY <2>1, <2>2 DEF f
<1>9. new.fills \subseteq FillsUpTo(k)
    <2>1. 1..k = 1..(k - 1) \cup {k}
        BY <1>2
    <2> QED  BY <2>1 DEF FillsFollow, FillsUpTo
<1> QED  BY <1>7, <1>8, <1>9 DEF FillsFollow

\* The shares the import leaves of a symbol are at least the true ones: a sale can be short
\* of lots, a purchase cannot.
LEMMA HeldFollows ==
    ASSUME SyncInv, NEW k \in DOMAIN truth, NEW st \in Work, RowsImported(st),
           \A s \in Symbols : st.held[s] >= HeldIn(truth, ledger, s, k - 1), NEW s \in Symbols
    PROVE  ImportedHeld(st, st.ledger[truth[k].order], truth[k].shares)[s]
              >= HeldIn(truth, ledger, s, k)
<1> DEFINE o == truth[k].order
           e == st.ledger[o]
           n == truth[k].shares
           h == HeldIn(truth, ledger, s, k - 1)
           r == HeldIn(truth, ledger, s, k)
<1>1. /\ k \in Nat \ {0} /\ o \in DOMAIN ledger /\ n \in Nat
      /\ \A j \in 1..k : truth[j].shares \in Nat
    <2>1. DOMAIN truth = 1..Len(truth) /\ Len(truth) \in Nat /\ k \in Nat \ {0}
        BY TruthShape DEF SyncInv
    <2>2. \A j \in 1..k : j \in DOMAIN truth
        BY <2>1
    <2> QED  BY <2>1, <2>2, TruthShape DEF SyncInv, TruthInv
<1>2. /\ e.symbol = ledger[o].symbol /\ e.side = ledger[o].side
      /\ ledger[o].side \in Sides /\ e.symbol \in Symbols
    BY <1>1 DEF RowsImported, RowAdvances, SyncInv, LedgerInv, LedgerTypeOK, AccountOrder
<1>3. r = h + (IF ledger[o].symbol # s THEN 0
               ELSE IF ledger[o].side = "BUY" THEN n ELSE 0 - n)
    BY <1>1, <1>2, HeldInNext
<1>4. h \in Int
    <2>1. k - 1 \in Nat /\ \A j \in 1..(k - 1) : truth[j].shares \in Nat
        BY <1>1
    <2> QED  BY <2>1, HeldInType
<1>5. st.held \in [Symbols -> Int] /\ st.held[s] \in Int /\ st.held[s] >= h
    BY DEF Work
<1> HIDE DEF o, e, n, h, r
<1>6. ImportedHeld(st, e, n)[s]
         = IF e.symbol = s THEN ImportedShares(st.held[s], e, n) ELSE st.held[s]
    BY <1>2, <1>5 DEF ImportedHeld
<1>7. ImportedHeld(st, e, n)[s] >= r
    <2>1. CASE e.symbol # s
        BY <1>2, <1>3, <1>4, <1>5, <1>6, <2>1
    <2>2. CASE e.symbol = s /\ e.side = "BUY"
        BY <1>1, <1>2, <1>3, <1>4, <1>5, <1>6, <2>2 DEF ImportedShares
    <2>3. CASE e.symbol = s /\ e.side = "SELL"
        BY <1>1, <1>2, <1>3, <1>4, <1>5, <1>6, <2>3 DEF ImportedShares
    <2> QED  BY <1>2, <2>1, <2>2, <2>3 DEF Sides
<1> QED  BY <1>7 DEF o, e, n, r

\* An imported execution keeps what the working copy says.
LEMMA TruthFillStep ==
    ASSUME SyncInv, LoopInv, NEW k \in DOMAIN truth, k > Known, NEW st \in Work,
           RowsImported(st), TruthImport(st, k - 1),
           Importable(st.ledger[truth[k].order], truth[k])
    PROVE  TruthImport(ImportFill(st, k), k)
<1> DEFINE x == truth[k]
           o == x.order
           e == st.ledger[o]
           others == Suppressed(o, x)
           new == ImportFill(st, k)
<1>1. /\ new.bad = st.bad
      /\ new.ledger[o] = ImportedRow(e, x)
      /\ \A p \in DOMAIN ledger \ {o} :
            new.ledger[p] = IF p \in others THEN SuppressedRow(st.ledger[p], x)
                            ELSE st.ledger[p]
      /\ new.done = st.done \cup others \cup (IF x.remaining = 0 THEN {o} ELSE {})
      /\ new.fills = st.fills \cup {FillOf(k)}
      /\ new.held = ImportedHeld(st, e, x.shares)
    BY ImportFillFields
<1>2. /\ k \in Nat \ {0} /\ k - 1 \in Nat /\ o \in DOMAIN ledger /\ x.day \in Nat
      /\ ledger[o].submitted < x.day /\ x.day > ran /\ truth[k].order = o
      /\ FillOf(k).order = o /\ FillOf(k).day = x.day
    BY TruthShape DEF SyncInv, TruthInv, LoopInv, FillOf
<1>3. \A p \in DOMAIN ledger : /\ st.ledger[p] \in AccountOrder
                               /\ st.ledger[p].submitted = ledger[p].submitted
                               /\ st.ledger[p].filled \in Nat
    BY DEF RowsImported, RowAdvances, AccountOrder
<1>4. \A p \in others : p \in DOMAIN ledger \ {o} /\ p \in DOMAIN pending /\ ~Ordinary(p)
    BY DEF Suppressed, Ordinary, SyncInv, LedgerInv, LedgerTypeOK
<1>5. /\ RowFollows(o, new.ledger[o], k) /\ RowTells(o, new.ledger[o], k)
      /\ new.ledger[o].filled = e.filled + x.shares /\ new.ledger[o].updated = x.day
      /\ ~Live(new.ledger[o]) => x.remaining = 0
    <2>1. e \in AccountOrder /\ RowFollows(o, e, k - 1)
        BY <1>2, <1>3 DEF TruthImport
    <2> HIDE DEF new
    <2> QED  BY <1>1, <2>1, ImportedRowFollows
<1>6. ASSUME NEW p \in others
      PROVE  /\ RowFollows(p, new.ledger[p], k)
             /\ new.ledger[p].filled = st.ledger[p].filled
             /\ new.ledger[p].requested = st.ledger[p].requested
             /\ new.ledger[p].remaining = st.ledger[p].remaining
             /\ new.ledger[p].updated \in {st.ledger[p].updated, x.day}
             /\ ~Live(new.ledger[p])
    <2>1. p \in DOMAIN ledger \ {o} /\ ~Ordinary(p) /\ st.ledger[p] \in AccountOrder
        BY <1>3, <1>4
    <2>2. RowFollows(p, st.ledger[p], k - 1)
        BY <2>1 DEF TruthImport
    <2>3. x.day >= st.ledger[p].submitted
        <3>1. ledger[p].submitted <= ran /\ ledger[p].submitted \in Nat /\ ran \in Nat
            BY <2>1, BoundsAssumption
            DEF LoopInv, SyncInv, SyncTypeOK, LedgerInv, LedgerTypeOK, AccountOrder, Days
        <3>2. st.ledger[p].submitted = ledger[p].submitted
            BY <1>3, <2>1
        <3> QED  BY <1>2, <3>1, <3>2
    <2>4. new.ledger[p] = SuppressedRow(st.ledger[p], x)
        BY <1>1, <2>1
    <2>5. k - 1 <= k /\ k \in Nat
        BY <1>2
    <2> HIDE DEF new, x, others
    <2> QED  BY <1>2, <2>1, <2>2, <2>3, <2>4, <2>5, SuppressedRowFollows
<1> HIDE DEF new, others, e
<1>7. ASSUME NEW p \in DOMAIN ledger
      PROVE  /\ RowFollows(p, new.ledger[p], k)
             /\ p \in new.bad \/ RowTells(p, new.ledger[p], k)
             /\ (p \in DOMAIN pending /\ ~Live(new.ledger[p])) => p \in new.done
             /\ DateKept(p, new.ledger[p], new.fills)
    <2>1. /\ RowFollows(p, st.ledger[p], k - 1)
          /\ p \in st.bad \/ RowTells(p, st.ledger[p], k - 1)
          /\ (p \in DOMAIN pending /\ ~Live(st.ledger[p])) => p \in st.done
          /\ DateKept(p, st.ledger[p], st.fills)
        BY DEF TruthImport
    <2>2. CASE p = o
        <3>1. DateKept(p, new.ledger[p], new.fills)
            BY <1>1, <1>2, <1>5, <2>2 DEF DateKept
        <3> QED  BY <1>1, <1>5, <2>2, <3>1
    <2>3. p # o => (RowTells(p, st.ledger[p], k - 1) => RowTells(p, st.ledger[p], k))
                   /\ (RowFollows(p, st.ledger[p], k - 1) => RowFollows(p, st.ledger[p], k))
        BY <1>2, RowLater
    <2>4. CASE p \in others
        <3>1. p # o
            BY <1>4, <2>4
        <3>2. p \in new.bad \/ RowTells(p, new.ledger[p], k)
            BY <1>1, <1>6, <2>1, <2>3, <2>4, <3>1 DEF RowTells
        <3>3. DateKept(p, new.ledger[p], new.fills)
            BY <1>6, <2>4 DEF DateKept
        <3> QED  BY <1>1, <1>6, <2>4, <3>2, <3>3
    <2>5. CASE p # o /\ p \notin others
        <3>1. new.ledger[p] = st.ledger[p]
            BY <1>1, <2>5
        <3>2. DateKept(p, new.ledger[p], new.fills)
            BY <1>1, <2>1, <3>1 DEF DateKept
        <3> QED  BY <1>1, <2>1, <2>3, <2>5, <3>1, <3>2
    <2> QED  BY <2>2, <2>4, <2>5
<1>8. FillsFollow(new, k)
    <2>1. FillsFollow(st, k - 1)
        BY DEF TruthImport
    <2>2. \A p \in DOMAIN ledger \ {o} :
              /\ new.ledger[p].filled = st.ledger[p].filled
              /\ new.ledger[p].updated \in {st.ledger[p].updated, x.day}
        BY <1>1, <1>6
    <2>3. new.ledger[o].filled = st.ledger[o].filled + x.shares
        BY <1>5 DEF e
    <2> QED  BY <1>1, <1>2, <1>5, <2>1, <2>2, <2>3, FillsFollowNext
<1>9. \A p \in new.bad : p \in DOMAIN ledger /\ ~Ordinary(p)
    BY <1>1 DEF TruthImport
<1>10. new.bad = {} => \A s \in Symbols : new.held[s] >= HeldIn(truth, ledger, s, k)
    <2> SUFFICES ASSUME new.bad = {}, NEW s \in Symbols
                 PROVE  new.held[s] >= HeldIn(truth, ledger, s, k)
        OBVIOUS
    <2>1. \A t \in Symbols : st.held[t] >= HeldIn(truth, ledger, t, k - 1)
        BY <1>1 DEF TruthImport
    <2>2. ImportedHeld(st, e, x.shares)[s] >= HeldIn(truth, ledger, s, k)
        BY <2>1, HeldFollows DEF e
    <2> QED  BY <1>1, <2>2
<1>11. TruthImport(new, k)
    BY <1>7, <1>8, <1>9, <1>10 DEF TruthImport
<1> QED  BY <1>11 DEF new

\* Whatever of the truth is imported, the working copy says so, up to the last execution.
LEMMA TruthImported ==
    ASSUME SyncInv, ChainInv, LoopInv, NEW n \in Nat, Known <= n, n <= Len(truth), NEW start,
           ImportInv(start, 0), TruthImport(start, Known)
    PROVE  TruthImport(Imported(start, n), n)
<1> DEFINE Reached(m) == IF m < Known THEN Known ELSE m
           Sound(st, m) == ImportInv(st, m) /\ TruthImport(st, Reached(m))
<1>1. PICK f : Imports(f, start, n) /\ Imported(start, n) = f[n]
    BY ImportsExist
<1>2. \A k \in 0..n : f[k] = IF k = 0 THEN start
                             ELSE IF k \in Novel(n) THEN ImportFill(f[k - 1], k) ELSE f[k - 1]
    BY <1>1 DEF Imports
<1>3. Known \in Nat /\ Len(truth) \in Nat /\ DOMAIN truth = 1..Len(truth)
    BY TruthShape DEF SyncInv, KnownInv
<1> DEFINE U == {m \in 0..n : ~Sound(f[m], m)}
<1> SUFFICES ASSUME U # {} PROVE FALSE
    <2>1. U = {} => Sound(f[n], n)
        OBVIOUS
    <2>2. Reached(n) = n
        BY <1>3
    <2> QED  BY <1>1, <2>1, <2>2
<1>4. PICK m \in U : m \in Nat /\ \A k \in U : m <= k
    <2>1. U \in SUBSET (0..n)
        OBVIOUS
    <2> HIDE DEF U
    <2> QED  BY <2>1, SmallestNumber
<1>5. m \in 0..n /\ ~Sound(f[m], m)
    BY <1>4
<1>6. Sound(f[0], 0)
    <2>1. f[0] = start
        BY <1>2
    <2>2. Reached(0) = Known
        BY <1>3
    <2> QED  BY <2>1, <2>2
<1>7. m \in 1..n
    BY <1>5, <1>6
<1>8. Sound(f[m - 1], m - 1)
    <2>1. m - 1 \in 0..n /\ m - 1 \notin U
        BY <1>4, <1>7
    <2> QED  BY <2>1
<1> HIDE DEF U
<1>9. CASE m > Known
    <2>1. f[m] = ImportFill(f[m - 1], m) /\ m \in DOMAIN truth
        BY <1>2, <1>3, <1>7, <1>9, NovelIs DEF SyncInv
    <2>2. ImportInv(f[m - 1], m - 1) /\ TruthImport(f[m - 1], m - 1)
        <3>1. Reached(m - 1) = m - 1
            BY <1>3, <1>7, <1>9
        <3> QED  BY <1>8, <3>1
    <2>3. f[m - 1] \in Work /\ RowsImported(f[m - 1])
        BY <2>2 DEF ImportInv
    <2>4. ImportInv(f[m], m)
        BY <1>9, <2>1, <2>2, ImportFillStep
    <2>5. TruthImport(f[m], m)
        BY <1>9, <2>1, <2>2, <2>3, TruthFillStep, TruthRefusedStep
    <2>6. Reached(m) = m
        BY <1>3, <1>7, <1>9
    <2> QED  BY <1>5, <2>4, <2>5, <2>6
<1>10. CASE m <= Known
    <2>1. f[m] = f[m - 1]
        BY <1>2, <1>3, <1>7, <1>10, NovelIs DEF SyncInv
    <2>2. Reached(m) = Reached(m - 1)
        BY <1>3, <1>7, <1>10
    <2>3. ImportInv(f[m], m)
        <3>1. (IF m < Known THEN Known ELSE m) = (IF m - 1 < Known THEN Known ELSE m - 1)
            BY <2>2
        <3> QED  BY <1>8, <2>1, <3>1 DEF ImportInv
    <2> QED  BY <1>5, <1>8, <2>1, <2>2, <2>3
<1> QED  BY <1>3, <1>7, <1>9, <1>10

\* An order of which the broker tells more than continues it is not an ordinary one.
LEMMA DiscontinuedStrategic ==
    ASSUME SyncInv, LoopInv, NEW n \in Nat, Known <= n, n <= Len(truth)
    PROVE  \A o \in Discontinued(n) : o \in DOMAIN ledger /\ ~Ordinary(o)
<1> SUFFICES ASSUME NEW o \in Discontinued(n) PROVE o \in DOMAIN ledger /\ ~Ordinary(o)
    OBVIOUS
<1> DEFINE S == {k \in Novel(n) : truth[k].order = o}
           first == Min(S)
<1>1. S # {} /\ S \in SUBSET (0..n) /\ ~Continues(o, n)
    BY DEF Discontinued, Novel
<1>2. first \in S
    <2>1. PICK m \in S : \A k \in S : m <= k
        BY <1>1, SmallestNumber
    <2> HIDE DEF S
    <2> QED  BY <2>1 DEF Min
<1>3. first \in Novel(n) /\ truth[first].order = o /\ first \in 1..n
    BY <1>2 DEF Novel
<1>4. first > Known /\ first \in DOMAIN truth
    <2>1. Len(truth) \in Nat /\ DOMAIN truth = 1..Len(truth) /\ KnownInv
        BY TruthShape DEF SyncInv
    <2> HIDE DEF first
    <2> QED  BY <1>3, <2>1, NovelIs
<1>5. Continues(o, n) <=>
          /\ Live(ledger[o])
          /\ ledger[o].filled > 0 =>
               \/ truth[first].day > ledger[o].updated
               \/ /\ truth[first].day = ledger[o].updated
                  /\ \E f \in fills : f.order = o /\ f.day = ledger[o].updated
    BY DEF Continues
<1> HIDE DEF first, S
<1>6. /\ o \in DOMAIN ledger /\ truth[first].day > ran /\ truth[first].day \in Nat
      /\ ledger[o].updated \in Nat /\ ran \in Nat
    <2>1. o \in DOMAIN ledger /\ truth[first].day > ran /\ truth[first].day \in Nat
        BY <1>3, <1>4, TruthShape DEF LoopInv, SyncInv, TruthInv
    <2>2. ledger[o].updated \in Nat
        BY <2>1 DEF SyncInv, LedgerInv, LedgerTypeOK, AccountOrder, Days
    <2>3. ran \in Nat
        BY BoundsAssumption DEF SyncInv, SyncTypeOK
    <2> QED  BY <2>1, <2>2, <2>3
<1>7. ASSUME Ordinary(o) PROVE FALSE
    <2>1. Live(ledger[o]) /\ DateKept(o, ledger[o], fills)
        BY <1>3, <1>4, <1>6, <1>7 DEF LoopInv
    <2>2. ledger[o].filled > 0
        BY <1>1, <1>5, <2>1
    <2>3. CASE ledger[o].updated <= ran
        BY <1>1, <1>5, <1>6, <2>1, <2>3
    <2>4. ASSUME NEW f \in fills, f.order = o, f.day = ledger[o].updated PROVE FALSE
        <3>1. PICK j \in 1..Known : f = FillOf(j)
            BY DEF SyncInv, KnownInv, FillsUpTo
        <3>2. /\ Known \in Nat /\ Known <= Len(truth) /\ Len(truth) \in Nat
              /\ DOMAIN truth = 1..Len(truth)
            BY TruthShape DEF SyncInv, KnownInv, SnapInv, SyncTypeOK
        <3>3. j \in DOMAIN truth /\ j <= first
            BY <1>4, <3>2
        <3>4. truth[j].day <= truth[first].day /\ truth[j].day \in Nat
            BY <1>4, <3>3, TruthShape DEF SyncInv, TruthInv
        <3>5. ledger[o].updated = truth[j].day
            BY <2>4, <3>1 DEF FillOf
        <3> QED  BY <1>1, <1>5, <1>6, <2>1, <2>4, <3>4, <3>5
    <2> QED  BY <2>1, <2>2, <2>3, <2>4 DEF DateKept
<1> QED  BY <1>6, <1>7

\* The account before the import.
LEMMA TruthStart ==
    ASSUME SyncInv, SavedAccountLoads, LoopInv, NEW start,
           start = [bad |-> {}, ledger |-> ledger, done |-> {}, fills |-> fills,
                    held |-> held, owner |-> owner]
    PROVE  ImportInv(start, 0) /\ TruthImport(start, Known)
<1>1. /\ start.bad = {} /\ start.ledger = ledger /\ start.done = {} /\ start.fills = fills
      /\ start.held = held /\ start.owner = owner
    OBVIOUS
<1>2. start \in Work
    BY DEF Work, SyncInv, SyncTypeOK, LedgerInv, LedgerTypeOK
<1>3. RowsImported(start)
    BY <1>1, RowStands DEF RowsImported
<1>4. ImportInv(start, 0)
    BY <1>1, <1>2, <1>3 DEF ImportInv, SyncInv, KnownInv
<1>5. ASSUME NEW o \in DOMAIN ledger
      PROVE  /\ RowFollows(o, ledger[o], Known)
             /\ RowTells(o, ledger[o], Known)
             /\ o \in DOMAIN pending => Live(ledger[o])
             /\ DateKept(o, ledger[o], fills)
    BY DEF LoopInv, RowsTell, RowFollows, SyncInv, LedgerInv, RowsAgree, PendingAgrees
<1>6. FillsFollow(start, Known)
    BY <1>1 DEF FillsFollow, SavedAccountLoads, Loads, FillsAgree, SyncInv, KnownInv
<1>7. \A s \in Symbols : held[s] >= HeldIn(truth, ledger, s, Known)
    <2>1. \A s \in Symbols : held[s] = HeldIn(truth, ledger, s, Known) /\ held[s] \in Int
        BY PositionsAre DEF SyncInv, SyncTypeOK
    <2> QED  BY <2>1
<1>8. TruthImport(start, Known)
    BY <1>1, <1>5, <1>6, <1>7 DEF TruthImport
<1> QED  BY <1>4, <1>8

\* The confirmations of a truthful file refuse nothing and leave rows that load.
LEMMA TruthConfirmed ==
    ASSUME SyncInv, SavedAccountLoads, ChainInv, LoopInv,
           NEW file \in SnapshotFiles, Current(file),
           NEW st \in Work, RowsImported(st), TruthImport(st, file.n), st.bad = {},
           st.fills = FillsUpTo(file.n)
    PROVE  LET new == ConfirmCancels(st, file.dead, file.asOf)
           IN /\ new.bad = {} /\ new.fills = st.fills /\ new.held = st.held
              /\ Loads(new.ledger, Remaining(new), new.fills)
              /\ \A o \in DOMAIN ledger :
                    /\ RowTells(o, new.ledger[o], file.n)
                    /\ SuppressionTells(o, new.ledger[o])
                    /\ DateKept(o, new.ledger[o], new.fills)
                    /\ new.ledger[o].grant = ledger[o].grant
                    /\ new.ledger[o].status = "REPLACED" => ledger[o].status = "REPLACED"
                    /\ (Ordinary(o) /\ Live(ledger[o]) /\ ~Live(new.ledger[o])) =>
                          \/ o \in file.dead
                          \/ \E j \in 1..file.n : truth[j].order = o /\ truth[j].remaining = 0
<1> DEFINE orders == file.dead
           date == file.asOf
           Row(o) == IF o \in orders
                     THEN [st.ledger[o] EXCEPT !.status = "CANCELLED", !.updated = date,
                                               !.event = "BROKER_CANCELLED"]
                     ELSE st.ledger[o]
           book == [o \in DOMAIN st.ledger |-> Row(o)]
           bad == st.bad \cup {o \in orders : st.ledger[o].status \in {"FILLED", "REPLACED"}}
           done == st.done \cup orders
           new == ConfirmCancels(st, orders, date)
<1>1. new = [st EXCEPT !.bad = bad, !.ledger = book, !.done = done]
    BY DEF ConfirmCancels
<1>2. /\ file.n \in Nat /\ file.n <= Len(truth) /\ date \in Days /\ date \in Nat /\ date >= ran
      /\ orders \subseteq DOMAIN dead /\ orders \subseteq DOMAIN ledger
      /\ \A k \in 1..file.n : k \in DOMAIN truth /\ truth[k].day <= date
    BY FileShape DEF Current, SyncInv, SyncTypeOK, Days
<1>3. ASSUME NEW o \in DOMAIN ledger
      PROVE  /\ RowFollows(o, st.ledger[o], file.n) /\ RowTells(o, st.ledger[o], file.n)
             /\ (o \in DOMAIN pending /\ ~Live(st.ledger[o])) => o \in st.done
             /\ DateKept(o, st.ledger[o], st.fills)
    BY DEF TruthImport
<1>4. ASSUME NEW o \in DOMAIN ledger
      PROVE  /\ st.ledger[o] \in AccountOrder /\ st.ledger[o].submitted = ledger[o].submitted
             /\ date >= st.ledger[o].submitted
    <2>1. st.ledger[o] \in AccountOrder /\ st.ledger[o].submitted = ledger[o].submitted
        BY DEF RowsImported, RowAdvances
    <2>2. ledger[o].submitted <= ran /\ ran \in Nat
        BY BoundsAssumption DEF LoopInv, SyncInv, SyncTypeOK
    <2>3. st.ledger[o].submitted \in Nat
        BY <2>1 DEF AccountOrder, Days
    <2> QED  BY <1>2, <2>1, <2>2, <2>3
<1>5. ASSUME NEW o \in orders
      PROVE  st.ledger[o].status # "FILLED" /\ st.ledger[o].status # "REPLACED"
    <2>1. o \in DOMAIN ledger /\ o \in DOMAIN dead
        BY <1>2
    <2>2. st.ledger[o].status # "REPLACED"
        BY <1>3, <2>1 DEF RowFollows, LoopInv
    <2>3. ASSUME st.ledger[o].status = "FILLED" PROVE FALSE
        <3>1. st.ledger[o].remaining = 0 /\ st.ledger[o].requested > 0
            <4>1. /\ st.ledger[o].filled + st.ledger[o].remaining = st.ledger[o].requested
                  /\ st.ledger[o].remaining = 0 /\ st.ledger[o].filled > 0
                BY <1>3, <2>1, <2>3 DEF RowFollows, RowAgrees
            <4>2. st.ledger[o].filled \in Nat
                BY <1>4, <2>1 DEF AccountOrder
            <4> QED  BY <4>1, <4>2
        <3>2. PICK k \in 1..file.n : /\ LastIn(truth, o, k, file.n)
                                     /\ st.ledger[o].remaining = truth[k].remaining
            BY <1>3, <2>1, <3>1 DEF RowTells
        <3>3. k \in DOMAIN truth /\ truth[k].order = o
            BY <1>2, <3>2 DEF LastIn
        <3>4. truth[k].remaining > 0
            BY <3>3, FileConfirms
        <3> QED  BY <3>1, <3>2, <3>4
    <2> QED  BY <2>2, <2>3
<1>6. ASSUME NEW o \in DOMAIN ledger
      PROVE  /\ RowAgrees(Row(o)) /\ SuppressionTells(o, Row(o))
             /\ Row(o).grant = ledger[o].grant /\ Row(o).replacedBy = ledger[o].replacedBy
             /\ Row(o).filled = st.ledger[o].filled
             /\ Row(o).requested = st.ledger[o].requested
             /\ Row(o).remaining = st.ledger[o].remaining
             /\ Row(o).updated = IF o \in orders THEN date ELSE st.ledger[o].updated
             /\ o \notin orders => Row(o) = st.ledger[o]
             /\ o \in orders => Row(o).status = "CANCELLED"
    <2>1. /\ RowAgrees(st.ledger[o]) /\ SuppressionTells(o, st.ledger[o])
          /\ st.ledger[o].grant = ledger[o].grant
          /\ st.ledger[o].replacedBy = ledger[o].replacedBy
        BY <1>3 DEF RowFollows
    <2>2. CASE o \in orders
        <3>1. Row(o) = [st.ledger[o] EXCEPT !.status = "CANCELLED", !.updated = date,
                                               !.event = "BROKER_CANCELLED"]
            BY <2>2
        <3>2. /\ st.ledger[o] \in AccountOrder /\ date \in Nat /\ date >= st.ledger[o].submitted
              /\ RowAgrees(st.ledger[o])
            BY <1>2, <1>4, <2>1
        <3> DEFINE e == st.ledger[o]
                   r == [e EXCEPT !.status = "CANCELLED", !.updated = date,
                                  !.event = "BROKER_CANCELLED"]
        <3>3. /\ RowAgrees(r) /\ r.grant = e.grant /\ r.replacedBy = e.replacedBy
              /\ r.filled = e.filled /\ r.requested = e.requested
              /\ r.remaining = e.remaining /\ r.updated = date
              /\ r.status = "CANCELLED" /\ r.event = "BROKER_CANCELLED"
            <4> HIDE DEF e, date
            <4> QED  BY <3>2, CancelledRowFollows DEF e
        <3>4. Row(o) = r
            BY <3>1
        <3> HIDE DEF Row, r, date
        <3> QED  BY <2>1, <2>2, <3>3, <3>4 DEF SuppressionTells
    <2>3. CASE o \notin orders
        BY <2>1, <2>3
    <2> QED  BY <2>2, <2>3
<1> HIDE DEF Row
<1>7. \A o \in DOMAIN ledger : book[o] = Row(o)
    BY DEF Work
<1>8. DOMAIN book = DOMAIN ledger /\ bad = {}
    BY <1>5 DEF Work
<1> HIDE DEF book, bad, done, new
<1>9. /\ new.bad = bad /\ new.ledger = book /\ new.done = done /\ new.fills = st.fills
      /\ new.held = st.held
    BY <1>1 DEF Work
<1>10. \A o \in DOMAIN book : RowAgrees(book[o]) /\ book[o].replacedBy \in DOMAIN book \cup {0}
    BY <1>6, <1>7, <1>8 DEF SavedAccountLoads, Loads
<1>11. PendingAgrees(book, Remaining(new))
    <2>1. Remaining(new) = [o \in DOMAIN pending \ done |-> book[o].remaining]
        BY <1>9 DEF Remaining
    <2>2. \A o \in DOMAIN pending \ done : Live(book[o])
        <3> SUFFICES ASSUME NEW o \in DOMAIN pending \ done PROVE Live(book[o])
            OBVIOUS
        <3>1. o \in DOMAIN ledger /\ o \notin st.done /\ o \notin orders
            BY DEF done, SyncInv, LedgerInv, LedgerTypeOK
        <3> QED  BY <1>3, <1>6, <1>7, <3>1
    <2> QED  BY <2>1, <2>2 DEF PendingAgrees
<1>12. FillsAgree(book, st.fills)
    <2>1. \A o \in DOMAIN book : FilledShares(o, st.fills) = book[o].filled
        BY <1>6, <1>7, <1>8 DEF TruthImport, FillsFollow
    <2>2. ASSUME NEW f \in st.fills
          PROVE  /\ f.order \in DOMAIN book /\ f.day > book[f.order].submitted
                 /\ f.day <= book[f.order].updated
        <3>1. PICK k \in 1..file.n : f = FillOf(k)
            BY DEF FillsUpTo
        <3>2. f.order = truth[k].order /\ f.day = truth[k].day /\ k \in DOMAIN truth
            BY <1>2, <3>1 DEF FillOf
        <3>3. f.order \in DOMAIN ledger /\ f.day <= date
            BY <1>2, <3>2 DEF SyncInv, TruthInv
        <3>4. f.day > ledger[f.order].submitted /\ f.day <= st.ledger[f.order].updated
            BY DEF TruthImport, FillsFollow
        <3>5. book[f.order].submitted = ledger[f.order].submitted
            <4>1. st.ledger[f.order].submitted = ledger[f.order].submitted
                BY <1>4, <3>3
            <4>2. st.ledger[f.order] \in AccountOrder
                BY <1>4, <3>3
            <4>3. Row(f.order).submitted = st.ledger[f.order].submitted
                BY <4>2 DEF Row, AccountOrder
            <4> QED  BY <1>7, <3>3, <4>1, <4>3
        <3> QED  BY <1>6, <1>7, <1>8, <3>3, <3>4, <3>5
    <2> QED  BY <2>1, <2>2 DEF FillsAgree
<1>13. Loads(new.ledger, Remaining(new), new.fills)
    BY <1>9, <1>10, <1>11, <1>12 DEF Loads
<1>14. ASSUME NEW o \in DOMAIN ledger
       PROVE  /\ RowTells(o, book[o], file.n)
              /\ SuppressionTells(o, book[o])
              /\ DateKept(o, book[o], st.fills)
              /\ book[o].grant = ledger[o].grant
              /\ book[o].status = "REPLACED" => ledger[o].status = "REPLACED"
              /\ (Ordinary(o) /\ Live(ledger[o]) /\ ~Live(book[o])) =>
                    \/ o \in file.dead
                    \/ \E j \in 1..file.n : truth[j].order = o /\ truth[j].remaining = 0
    <2>1. RowTells(o, book[o], file.n)
        BY <1>3, <1>6, <1>7 DEF RowTells
    <2>2. CASE o \in orders
        <3>1. book[o].status = "CANCELLED"
            BY <1>6, <1>7, <2>2
        <3>2. ~Live(book[o])
            BY <3>1 DEF Live, Terminal
        <3> QED  BY <1>6, <1>7, <2>1, <2>2, <3>1, <3>2 DEF DateKept
    <2>3. CASE o \notin orders
        <3>1. book[o] = st.ledger[o]
            BY <1>6, <1>7, <2>3
        <3> QED  BY <1>3, <2>1, <3>1 DEF RowFollows
    <2> QED  BY <2>2, <2>3
<1> QED  BY <1>8, <1>9, <1>13, <1>14 DEF new

\* What the rows of an accepted snapshot say, as LoopInv needs it.
RowsTruthful(book, file) ==
    \A o \in DOMAIN ledger :
        /\ RowTells(o, book[o], file.n)
        /\ SuppressionTells(o, book[o])
        /\ DateKept(o, book[o], FillsUpTo(file.n))
        /\ book[o].grant = ledger[o].grant
        /\ book[o].status = "REPLACED" => ledger[o].status = "REPLACED"
        /\ (Ordinary(o) /\ Live(ledger[o]) /\ ~Live(book[o])) =>
              \/ o \in file.dead
              \/ \E j \in 1..file.n : truth[j].order = o /\ truth[j].remaining = 0

\* A truthful file is refused for strategic orders only, never for the positions and never by
\* the validator.
LEMMA TruthApplied ==
    ASSUME SyncInv, SavedAccountLoads, ChainInv, LoopInv,
           NEW file \in SnapshotFiles, Current(file)
    PROVE  /\ \A o \in Applied(file).bad : o \in DOMAIN ledger /\ ~Ordinary(o)
           /\ Applied(file).bad = {} => /\ Acceptable(Applied(file))
                                        /\ RowsTruthful(Applied(file).ledger, file)
<1> DEFINE start == [bad |-> Discontinued(file.n), ledger |-> ledger, done |-> {},
                     fills |-> fills, held |-> held, owner |-> owner]
           imported == IF start.bad # {} THEN start ELSE Imported(start, file.n)
           confirmed == ConfirmCancels(imported, file.dead, file.asOf)
           short == \E s \in Symbols : TrueHeld(s, file.n) > confirmed.held[s]
           st == Applied(file)
<1>1. /\ file.n \in Nat /\ Known <= file.n /\ file.n <= Len(truth)
      /\ file.asOf \in Days /\ file.dead \subseteq DOMAIN dead
    BY FileShape
<1>2. st = IF imported.bad # {} THEN imported ELSE ReconcilePositions(confirmed, file.n)
    BY DEF Applied
<1>3. \A o \in Discontinued(file.n) : o \in DOMAIN ledger /\ ~Ordinary(o)
    BY <1>1, DiscontinuedStrategic
<1>4. CASE start.bad # {}
    BY <1>2, <1>3, <1>4
<1>5. CASE start.bad = {}
    <2>1. start = [bad |-> {}, ledger |-> ledger, done |-> {}, fills |-> fills,
                   held |-> held, owner |-> owner]
        BY <1>5
    <2>2. imported = Imported(start, file.n)
        BY <1>5
    <2> HIDE DEF start, imported
    <2>3. ImportInv(start, 0) /\ TruthImport(start, Known)
        BY <2>1, TruthStart
    <2>4. ImportInv(imported, file.n) /\ TruthImport(imported, file.n)
        BY <1>1, <2>2, <2>3, ImportSound, TruthImported
    <2>5. imported \in Work /\ RowsImported(imported)
        BY <2>4 DEF ImportInv
    <2>6. CASE imported.bad # {}
        <3>1. st = imported
            BY <1>2, <2>6
        <3> HIDE DEF st
        <3>2. \A o \in st.bad : o \in DOMAIN ledger /\ ~Ordinary(o)
            BY <2>4, <3>1 DEF TruthImport
        <3> QED  BY <2>6, <3>1, <3>2 DEF st
    <2>7. CASE imported.bad = {}
        <3>1. imported.fills = FillsUpTo(file.n)
            <4>1. Known \in Nat /\ ~(file.n < Known)
                BY <1>1 DEF SyncInv, KnownInv
            <4> QED  BY <2>4, <2>7, <4>1 DEF ImportInv
        <3>2. /\ confirmed.bad = {} /\ confirmed.fills = imported.fills
              /\ confirmed.held = imported.held
              /\ Loads(confirmed.ledger, Remaining(confirmed), confirmed.fills)
              /\ RowsTruthful(confirmed.ledger, file)
            BY <2>4, <2>5, <2>7, <3>1, TruthConfirmed DEF RowsTruthful
        <3>3. confirmed \in Work
            BY <1>1, <2>5, CancelsSound
        <3>4. st = ReconcilePositions(confirmed, file.n)
            BY <1>2, <2>7
        <3>5. ~short
            <4> SUFFICES ASSUME NEW s \in Symbols PROVE ~(TrueHeld(s, file.n) > confirmed.held[s])
                OBVIOUS
            <4> HIDE DEF confirmed
            <4>1. imported.held[s] >= HeldIn(truth, ledger, s, file.n)
                BY <2>4, <2>7 DEF TruthImport
            <4>2. TrueHeld(s, file.n) = HeldIn(truth, ledger, s, file.n)
                BY TrueHeldIs
            <4>3. HeldIn(truth, ledger, s, file.n) \in Int
                <5>1. \A k \in 1..file.n : k \in DOMAIN truth
                    BY FileShape
                <5>2. \A k \in 1..file.n : truth[k].shares \in Nat
                    BY <5>1, TruthShape DEF SyncInv
                <5> QED  BY <1>1, <5>2, HeldInType
            <4>4. imported.held[s] \in Int
                BY <2>5 DEF Work
            <4> QED  BY <3>2, <4>1, <4>2, <4>3, <4>4
        <3> HIDE DEF confirmed, st
        <3>6. st.bad = confirmed.bad \cup (IF short THEN {0} ELSE {})
            BY <3>3, <3>4 DEF ReconcilePositions, Work
        <3>7. /\ st.ledger = confirmed.ledger /\ st.done = confirmed.done
              /\ st.fills = confirmed.fills
            BY <3>3, <3>4 DEF ReconcilePositions, Work
        <3> HIDE DEF short
        <3>8. st.bad = {}
            BY <3>2, <3>5, <3>6
        <3>9. Remaining(st) = Remaining(confirmed)
            BY <3>7 DEF Remaining
        <3>10. Acceptable(st) /\ RowsTruthful(st.ledger, file)
            BY <3>2, <3>7, <3>8, <3>9 DEF Acceptable
        <3> QED  BY <3>8, <3>10 DEF st
    <2> QED  BY <2>6, <2>7
<1> QED  BY <1>4, <1>5

LEMMA LoopSync ==
    ASSUME SyncInv, SyncInv', SavedAccountLoads, ChainInv, LoopInv,
           NEW file \in SnapshotFiles, Sync(file)
    PROVE  LoopInv'
<1> DEFINE st == Applied(file)
<1>1. /\ Current(file) /\ st.bad = {} /\ ledger' = st.ledger /\ fills' = st.fills
      /\ refused' = {}
      /\ UNCHANGED <<truth, dead, ran>>
    BY DEF Sync, Acceptable, broker
<1>2. RowsTruthful(st.ledger, file)
    BY <1>1, TruthApplied
<1>3. /\ fills' = FillsUpTo(file.n) /\ ledger' \in [DOMAIN ledger -> AccountOrder]
      /\ \A o \in DOMAIN ledger : ledger'[o].submitted = ledger[o].submitted
    BY SyncShape DEF RowAdvances
<1> HIDE DEF st
<1>4. /\ file.n \in Nat /\ Known <= file.n /\ file.n <= Len(truth) /\ Known \in Nat
      /\ Len(truth) \in Nat /\ DOMAIN truth = 1..Len(truth)
    BY <1>1, FileShape, TruthShape DEF SyncInv, KnownInv
<1>5. Known' = file.n
    BY <1>3, <1>4, FillsCounted DEF Known
<1>6. DOMAIN ledger' = DOMAIN ledger
    BY <1>3
<1>7. ASSUME NEW o \in DOMAIN ledger
      PROVE  /\ RowTells(o, ledger'[o], file.n)
             /\ SuppressionTells(o, ledger'[o])
             /\ DateKept(o, ledger'[o], fills')
             /\ ledger'[o].grant = ledger[o].grant
             /\ ledger'[o].status = "REPLACED" => ledger[o].status = "REPLACED"
             /\ (Ordinary(o) /\ Live(ledger[o]) /\ ~Live(ledger'[o])) =>
                   \/ o \in file.dead
                   \/ \E j \in 1..file.n : truth[j].order = o /\ truth[j].remaining = 0
    BY <1>1, <1>2, <1>3 DEF RowsTruthful
<1>8. RowsTell'
    BY <1>1, <1>5, <1>6, <1>7 DEF RowsTell, RowTells, SuppressionTells
<1>9. ASSUME NEW k \in DOMAIN truth, k > file.n
      PROVE  /\ truth[k].day > ran
             /\ ledger'[truth[k].order].grant = NoGrant => Live(ledger'[truth[k].order])
    <2> DEFINE o == truth[k].order
    <2>1. k > Known /\ o \in DOMAIN ledger
        BY <1>4, <1>9 DEF SyncInv, TruthInv
    <2>2. truth[k].day > ran /\ (Ordinary(o) => Live(ledger[o]))
        BY <2>1 DEF LoopInv
    <2>3. ASSUME ledger'[o].grant = NoGrant, ~Live(ledger'[o]) PROVE FALSE
        <3>1. Ordinary(o) /\ Live(ledger[o])
            BY <1>7, <2>1, <2>2, <2>3 DEF Ordinary
        <3>2. CASE o \in file.dead
            <4>1. k <= file.n
                BY <1>1, <3>2, FileConfirms
            <4> QED  BY <1>4, <1>9, <4>1
        <3>3. ASSUME NEW j \in 1..file.n, truth[j].order = o, truth[j].remaining = 0 PROVE FALSE
            <4>1. j \in DOMAIN truth /\ j < k
                BY <1>4, <1>9
            <4>2. truth[j].remaining > 0
                BY <3>3, <4>1 DEF ChainInv
            <4> QED  BY <3>3, <4>2
        <3> QED  BY <1>7, <2>1, <2>3, <3>1, <3>2, <3>3
    <2> QED  BY <2>2, <2>3
<1>10. \A o \in DOMAIN ledger : ledger'[o].submitted <= ran
    BY <1>3 DEF LoopInv
<1>11. \A o \in DOMAIN dead : ledger'[o].status # "REPLACED"
    BY <1>7 DEF LoopInv, SyncInv, SyncTypeOK
<1> QED
    BY <1>1, <1>5, <1>6, <1>7, <1>8, <1>9, <1>10, <1>11 DEF LoopInv, Ordinary, DateKept

LEMMA LoopRefuse ==
    ASSUME SyncInv, SavedAccountLoads, ChainInv, LoopInv,
           NEW file \in SnapshotFiles, RefuseSync(file)
    PROVE  LoopInv'
<1> DEFINE st == Applied(file)
<1>1. /\ Current(file) /\ ~Acceptable(st) /\ refused' = IF st.bad = {} THEN {0} ELSE st.bad
      /\ UNCHANGED <<ledger, fills, ran, truth, dead>>
    BY DEF RefuseSync, account, broker
<1>2. /\ \A o \in st.bad : o \in DOMAIN ledger /\ ~Ordinary(o)
      /\ st.bad # {}
    BY <1>1, TruthApplied
<1> QED  BY <1>1, <1>2, LoopStays

--------------------------------------------------------------------------------
(* Production: the truth is accepted *)

LEMMA AcceptInvInit == ProductionInit => AcceptInv
<1> SUFFICES ASSUME ProductionInit PROVE AcceptInv
    OBVIOUS
<1>1. SyncInv
    BY SyncInvInit
<1>2. SavedAccountLoads
    BY DEF ProductionInit, LedgerInit, SavedAccountLoads, Loads, PendingAgrees, FillsAgree
<1>3. DOMAIN ledger = {} /\ DOMAIN truth = {} /\ DOMAIN dead = {} /\ refused = {}
    BY DEF ProductionInit, LedgerInit
<1>4. ChainInv
    BY <1>3 DEF ChainInv
<1>5. LoopInv
    BY <1>3 DEF LoopInv, RowsTell
<1> QED  BY <1>1, <1>2, <1>4, <1>5 DEF AcceptInv

LEMMA AcceptInvNext == AcceptInv /\ [ProductionNext]_productionVars => AcceptInv'
<1> SUFFICES ASSUME AcceptInv, [ProductionNext]_productionVars PROVE AcceptInv'
    OBVIOUS
<1>1. /\ SyncInv /\ SavedAccountLoads /\ ChainInv
      /\ closedLoop => LoopInv
    BY DEF AcceptInv
<1>2. SyncInv'
    BY <1>1, SyncInvNext
<1>3. SavedAccountLoads' /\ ChainInv'
    BY <1>1, <1>2, ProductionLoadsNext, ChainInvNext
<1>4. closedLoop' = closedLoop
    BY DEF ProductionNext, BrokerFills, BrokerCancels, Export, Sync, RefuseSync,
           ProductionDecide, NextDay, productionVars
<1>5. ASSUME closedLoop PROVE LoopInv'
    <2>0. LoopInv
        BY <1>1, <1>5
    <2>1. ASSUME NEW o \in DOMAIN working, NEW n \in 1..MaxShares, BrokerFills(o, n)
          PROVE  LoopInv'
        BY <1>1, <2>0, <2>1, LoopFills
    <2>2. ASSUME NEW o \in DOMAIN working, BrokerCancels(o) PROVE LoopInv'
        BY <1>1, <2>0, <2>2, LoopCancels
    <2>3. ASSUME NEW file \in SnapshotFiles, Sync(file) PROVE LoopInv'
        BY <1>1, <1>2, <2>0, <2>3, LoopSync
    <2>4. ASSUME NEW file \in SnapshotFiles, RefuseSync(file) PROVE LoopInv'
        BY <1>1, <2>0, <2>4, LoopRefuse
    <2>5. CASE ProductionDecide
        BY <1>1, <1>2, <1>5, <2>0, <2>5, LoopDecision
    <2>6. CASE UNCHANGED <<ledger, fills, ran, truth, dead, refused>>
        <3>1. \A o \in refused' : o \in DOMAIN ledger /\ ~Ordinary(o)
            BY <2>0, <2>6 DEF LoopInv
        <3> QED  BY <2>0, <2>6, <3>1, LoopStays
    <2>7. Export \/ NextDay \/ UNCHANGED productionVars
              => UNCHANGED <<ledger, fills, ran, truth, dead, refused>>
        BY DEF Export, NextDay, account, broker, productionVars
    <2> QED  BY <2>1, <2>2, <2>3, <2>4, <2>5, <2>6, <2>7 DEF ProductionNext
<1> QED  BY <1>1, <1>2, <1>3, <1>4, <1>5 DEF AcceptInv

\* When every daily run starts from the day's complete snapshot, a truthful snapshot is
\* accepted, again and again: whatever the broker fills or cancels between two runs, no sync
\* is refused for the positions, for the validator or for an ordinary order.
THEOREM TruthIsAccepted == ProductionSpec => []TruthAccepted
<1>1. AcceptInv => TruthAccepted
    <2> SUFFICES ASSUME AcceptInv, closedLoop, NEW o \in refused
                 PROVE  o # 0 /\ ledger[o].grant # NoGrant
        BY DEF TruthAccepted
    <2>1. /\ o \in DOMAIN ledger /\ ledger[o].grant # NoGrant
          /\ DOMAIN ledger = 1..(nextSeq - 1) /\ nextSeq \in 1..(MaxOrders + 1)
        BY DEF AcceptInv, LoopInv, Ordinary, SyncInv, LedgerInv, LedgerTypeOK
    <2>2. 0 \notin 1..(nextSeq - 1)
        OBVIOUS
    <2> QED  BY <2>1, <2>2
<1> QED
    BY <1>1, AcceptInvInit, AcceptInvNext, PTL DEF ProductionSpec

================================================================================
