# A TLA+ model of uquant's order, broker and account life cycle

uquant is a decision system for A-share technology stocks. Once a day, after the close, it
turns market data and a durable account file into target weights and next-open orders. In a
replay (`uquant backtest`) a simulated opening auction executes the orders; in production a
person places them at a broker and feeds the broker's snapshot back (`uquant account-sync`,
`uquant daily --broker-snapshot`). The program is sequential, yet its account has several
authors that do not see each other: the evening decision, the opening auction, the broker,
the person who exports and applies snapshots, and the file system. What is hard here is that
an order, its pending intent, its fills, the position it leaves and the report about it stay
consistent whatever these authors do in whatever order. This directory models that.

## Inventory

| component (source) | state | operations | interacts with | hard behaviour | correct when |
|---|---|---|---|---|---|
| order ledger, reconciliation (`execution/reconciliation.py`, `models/trading.py`) | `order_ledger`, `pending_orders`, `next_order_sequence` | register, retain, replace, close, request cancellation | decision calls it; auction, broker sync and validators read it | a frozen BUY stays live outside the local intents | no live order forgotten or doubled, ids never reused, a saved account loads |
| planning and merge (`execution/order_planning.py`, `pending.py`) | none | targets to intents, merge with the pending ones | decision, ledger | blocked symbols, retained partials | one instruction per symbol |
| opening auction (`execution/open_execution.py`, `tranches.py`) | `fills`, positions, tranches, cash | hold, resize, satisfy, fill | ledger, positions, strategic grant | sells before buys, T+1, hand-offs, partial strategic orders | tranches equal fills, no same-day sale, remainders resumable |
| replay (`application/backtest.py`) | the account in memory | auction, decision, next session | all of the above | long legal sequences | as above at every session |
| broker sync (`broker.py`, `broker_contract.py`) | `broker_as_of`, fills, positions | validate, import fills, confirm cancellations, reconcile positions, commit | operator's file, ledger, strategic state | late, repeated, same-day partial reports; all or nothing | positions equal the broker's, a truthful snapshot is accepted, no liability lost |
| lots of a position (`broker.py`, `tranches.py`) | tranches, the sold tranches of fills | open, sell by FIFO or by risk, drop a deficit, split by what is sellable | broker sync | incomplete, older and repeated snapshots, lots that are split again and again | shares conserved, ids unique, old lots sold first, a snapshot applied twice changes nothing |
| daily run, atomic files (`cli.py`, `account/store.py`, `infrastructure/atomic_files.py`) | account file, reports, ready files | stage, save, publish | decision, operator's recovery | crash or failure between any two writes | a published report is backed by a durable account, a saved decision can be shown |
| account validation, codec (`account/`) | none | validate, encode, migrate | save, load, sync | every writer must leave a loadable account | accepts whatever the program writes |
| decision pipeline (`application/decision.py`) | `last_successful_run`, hashes | decide | everything above | chronology against broker and file | strictly later dates only |
| strategic grants, epochs (`models/strategic_grant.py`, `strategic_epoch.py`, `portfolio/strategic/`) | the current grant, the epochs, the active pointer, the cohort and its targets | form, revalidate, submit, fill, expire, settle, release, complete | decision, auction, sync | late fills after expiry, settlement beside outstanding orders, a revoked BUY that survives | capital has one owner, no fill is refused, an epoch ends by what it owned, a grant does not wait for ever |
| capital repair and cash rearm (`portfolio/strategic/rearm.py`, `rearm_predicates.py`, `models/strategic_rearm.py`) | the repair episode of the account, the authorization that names it | observe, count, reset, authorize, consume by a grant or by an ordinary order | decision, grants, ledger, account validator | two observations of a session, an attempt that never fills, an episode that changes under its authorization | damaged capital waits as long as its level asks for, an unfilled attempt costs no second wait, the account can be saved |
| risk state machine (`risk/`, `risk_sector.py`) | state, sector guard, streaks, last shock, protected rights, cooldown, events | evacuate, cool down, wait, repair, break, transition | decision, positions | six ways to end one assessment that share the state, boundaries of counts | the guard holds, the cooldown is served, no cut for the same damage, a calm market leads back to NORMAL |
| risk sentinel (`risk_sentinel/`) | evidence history | opinion | decision (freeze of new purchases) | stale evidence | authorizes a freeze only with evidence |
| portfolio allocation (`portfolio/`) | cohorts, anchors, tenure | allocate | decision | numeric | caps kept |
| market data, features, leaders (`data.py`, `market/`, `features.py`, `leader.py`) | price tables | load, compute | decision | numeric, causal cut-off | no look-ahead |
| execution journal (`observation/`, `validation/holdout/cli_operations.py`) | append-only file, checkpoint outside it | append, checkpoint, verify | operator, production observation | short writes, failing rollbacks, kills, power loss, commands side by side | acknowledged records stay, one chain, an honest journal is never accused |
| holdout append and artifact transactions (`validation/holdout/`) | appended sessions; replay, decision and checkpoint files; file locks | append, lock, snapshot, write, verify, roll back | observation runs of several checkouts, people who edit outputs | lock order, writes that raise after the rename, an append whose check grows stale | bundles all or nothing, appended sessions always sealed, others' files kept |
| production observation (`validation/production_observation.py`) | observation lock, backup directory, receipt | back up, append, replay, daily, archive, seal, verify | all of the holdout, `uquant daily`, journal | failure or kill between receipt and manifest | a sealed backup is whole, verifies and never changes |
| file locks (`infrastructure/file_lock.py`) | advisory locks | acquire, release | holdout, observation | waiting in a cycle | a lock ends with its process |
| promotion, generalization, attribution, reports, configuration, provenance | documents | compute | - | none that depends on order | - |
| research, scripts, tools | - | offline | - | - | - |

`PROJECT.json` lists every component with its status, and every hazard with the line where
it bites.

## Modules

* **OrderLedger** - the ledger, the pending intents and one decision's reconciliation.
  `Reconcile(kept, fresh, freeze)` is `reconcile_account_orders` with what the merge hands it:
  which pending orders survive, which new intents are planned, and whether Sentinel freezes
  new purchases. `Withdrawn` says what becomes of a dropped order: the branches of
  `_reconcile_removed_orders`. The filter on blocked symbols is a guard (`Admissible`): a
  decision that plans or keeps a blocked BUY is the same as one that does not. `Loads` is
  `validate_order_state`. It has no next-state relation of its own; the next two modules share it.
* **OpenExecution** - the replay. `phase` alternates between the auction and the decision;
  `queue` holds the orders that `execute_open` has not reached. `Hold`, `Resize`, `Satisfied`
  and `ExecuteFill` are the four ways the loop body ends for one order. Price, cash, volume and
  lot rules choose a number of shares; the model lets that number be any one the rules could
  leave (`EconomicTargets`, `Tradable`). `positions` is `Position.shares` and `lots` the tranches,
  by entry session, as two states that the code keeps side by side. A sale is the loop of
  `_consume_sell_tranches`: `Consumed` visits the tranches it may sell in one of the `Turns` (FIFO
  or fragile first; the policy's data is left out, so any order may come), and each gives what it can.
  A sale that does not find its shares ends in phase `raised`: tranches are gone and neither the
  position, nor the ledger, nor a fill knows of it. `Tradable` is the code's own limit, the shares
  of tranches that may be sold; that the loop then finds them is a property and no guard.
* **BrokerSync** - production. The broker (`truth`, `working`, `dead`) fills and cancels on its
  own; `Export` writes a truthful snapshot, and the files of earlier days stay around
  (`SnapshotFiles`: of one day, the operator keeps the newest); `Sync` is `sync_broker_snapshot` on a working copy
  that is validated and committed as a whole, `RefuseSync` its exception. `Imported` takes the executions
  the account does not know one by one (`ImportFill`). `ProductionDecide` is the
  evening decision followed by the operator placing and withdrawing orders. `refused` records
  the orders that made the last sync fail, for the properties only.
* **OrderPromise** - the abstract ledger: an id names one instruction for ever, shares trade
  only while it works, a closed order never moves, one working instruction per symbol and side.
  `ImplementsPromise` in OpenExecution and `ProductionKeepsPromise` in BrokerSync are the
  refinements, with `working` mapped to `Live` and `done` to `filled_shares`.
* **DailyRun** - the files of `uquant daily`: ready files staged, account renamed and flushed,
  reports published, ready files removed; each file in the version a reader sees and in the one
  that survives a power loss. The operator restores a ready report as docs/OPERATIONS.md says.
* **HoldoutEvidence** - concurrent production observations. `LockObservation` is the lock of a
  repository, `ValidateAppend` and `Install` the two halves of `append_holdout_snapshot`,
  `AcquireCarrier` one file lock of the bundle, `Generate` the checks before anything is
  written, `Write` one carrier with its readback, `ClaimCarrier` and `RestoreCarrier` the two
  halves of `_restore_owned_artifact`. File contents are the generation they stand for, which is
  sound because replays are deterministic. The bundle lock of the repository and the lock of its
  checkpoint file are always taken by the same runs and are one lock here.
* **BackupCheckpoint** - the backup directory of one observation: `present` are its files,
  `manifest` and `receipt` its two documents. `Verifies` is `verify_backup_checkpoint`. Each
  write may return, raise before its rename or raise after it. It is separate from
  HoldoutEvidence because a run's backup is touched by no other run (`mkdir` fails on a used
  run id); `Observe` stands there for everything that HoldoutEvidence and DailyRun detail.
* **StrategicGrant** - the grant, its epoch and the cohort. `account` is a record with the
  fields of the account that matter, because a decision is a chain of functions from account to
  account: `Revalidate` (`revalidate_strategic_grant`), `SettleTerminal`, `Form`, `RunCohort`,
  `Ordered`, in the order of the code. `FillBuy`, `FillSell`, `EndBuy`, `EndSell` and `Deficit`
  stand for the auction and for the sync alike. Evidence is one of five outcomes a session can
  have for the candidate. The order of a grant is an abstraction of the ledger: executable,
  frozen or gone; OrderLedger has the details.
* **RiskState** - `Assess` is one session of `_assess_base_risk`: the six ways it ends are its
  disjuncts, each guarded by the negation of the ways before it, as the early returns of the code
  are. Market data enters as free evidence, restricted only by what the book makes possible.
  `Trade` changes the book between sessions; `CalmDown` starts a market that stays calm.
* **ExecutionJournal** - the journal file as it is read (`file`) and as the disk has it
  (`stable`, `named`), the checkpoint, and processes that `Open`, `Acquire`, `Write` in parts,
  `Sync` and `Acknowledge`, or roll back. `written` and `synced` separate the two flushes.
* **LotInventory** - the lots behind the number of shares that BrokerSync has. `Trade` is the
  broker; `Sync` imports the executions that a file lists (`Import`: a BUY opens a lot, a SELL
  takes from lots, FIFO or by risk, and books what it does not find as degraded), drops the lots
  of a share deficit and splits lots so that as many shares are sellable as the file says
  (`Aligned`). A file may be older than the last one of its day, list fewer executions than its
  position contains, or withhold shares of a working SELL; `careful` says that the operator
  applies complete files only. A `fill_id` is free text; `Stem` says which ids begin with one
  another ("1", "10", "100" have one stem), and `IdBefore` is the comparison of the texts of two
  tranche ids, in which such a beginning decides.
* **CashRearm** - the repair of an all-cash account. `account` is again one record, and a decision
  a chain of functions: `Observe` (the repair, before anything strategic), `Revalidated`,
  `SettleExpired`, `Discovered` (observe again, authorize, perhaps `Granted`), `Closed`,
  `Ordered`, `Repaired` (the ordinary order), and `Save`, which refuses an account that does not
  validate (`Loads`). `DecideFrozen` is the session that the sentinel alone freezes, in which only
  `Observe` and the withdrawal of BUYs reach the account; a damaged level freezes by itself, so it
  exists at level 0 only. `served` and `refused` are history for the properties.
* **OrderLedgerProofs** (the ledger, the replay and production), **DailyRunProofs**,
  **EvidenceProofs** (HoldoutEvidence and BackupCheckpoint), **DecisionProofs** (StrategicGrant and
  RiskState), **ExecutionJournalProofs**, **CashRearmProofs**, **LotInventoryProofs** - the theorems;
  **SumTheorems** - the laws of sums over finite sets, used wherever shares are added up.
  BackupCheckpoint and RiskState name their specification after themselves (`BackupSpec`,
  `RiskSpec`), because they share a module of proofs with another one.
* **MC_...** - the modules TLC is started on, one per instance of a component.

What the model leaves out of these components: the released remainder of *legacy* strategic
chains (`cancel_reason = "strategic partial remainder replaced"`; only migrated accounts hold
it), `attempts`, prices, weights and texts, and broker reports that state a position which never
was. Snapshots that are incomplete, or older than the applied one of the same day (the code compares dates
only and accepts them), are in LotInventory and not in BrokerSync.

A definition whose name starts like another one's and whose comment says "Mutant of" is a
plausible bug in that definition; it is not used by the specification, and for each property
one of them shows that the property can fail.

## Runs

| run | instance | states | shows |
|---|---|---|---|
| `open_execution` | 2 symbols (symmetric), 1 grant, 2 lots, 3 orders, 4 sessions | 1,318,741 | type and safety invariants, action properties and refinement of the replay |
| `broker_sync` | 1 symbol, 1 grant, 2 lots, 3 orders, 3 days | 127 666 | the same questions for production, with late, repeated and outdated snapshots; a requested cancellation is answered in the account |
| `daily_run` | 2 documents, 2 dates, 3 runs | 23 883 | crash consistency of account and reports |
| `evidence` | 3 observations, 2 repositories with exchanged output paths, 2 sessions, 1 outside edit | 252 486 | rollback, append and termination of concurrent observations |
| `backup` | the 5 inputs and 7 documents of a run with a journal | 372 | every failure and kill in the life of a backup directory |
| `risk_state` | the confirmations of the code, its long waits 2 or 3 sessions | 114,049 | guard, cooldown, distance of shocks, return to NORMAL |
| `strategic_grant` | 2 grants, 2 lots, 2 retries | 11,395 | ownership, fills, settlement and expiry of strategic capital |
| `lots` | 3 executions of 1 or 2 shares, 3 days, at most 2 shares withheld, fill ids that begin with one another or do not | 602,957 | the lots of a position under snapshots of every kind |
| `rearm` | 2 levels, 2 identities of the references, 3 episodes | 46,204 | the wait of a damaged account, its authorization and both consumptions; a flat account becomes ready although bad sessions come between |
| `journal` | 2 processes, 1 plan of 2 lots, 4 records, processes symmetric | 1.9 million (which of two symmetric states TLC keeps varies) | the journal under concurrency, failing writes, kills and power loss |
| `late_fill`, `suppression` | see the cfg | - | two disagreements with the documentation, below |

Why the bounds are enough. Orders interact only through their symbol, their grant and the order
of a queue: two symbols and three orders give a frozen BUY, its SELL and a purchase elsewhere in
one queue; two lots distinguish nothing, part and all of an order. Three sessions are the
shortest history in which an order is registered, partly filled, withdrawn or frozen, and met
again by an auction or a snapshot. `suppression` needs a fourth day, and so does `open_execution`:
a sale that crosses two tranches follows purchases on two days. A history of it ends with the
auction of its last session, so there are three decisions. Its symbols are interchangeable
and it checks no liveness, so the symmetry is sound. In `lots`, two stems give every relation of
two ids: one the beginning of the other, or neither. Two withheld shares (`MaxWithheld`) split a
lot or leave all of one unsellable.
That no symbol is bought beside an outstanding cancellation (`FrozenSymbolNotBought`) is proved
for every bound.
The broker acts between any two steps, so one symbol suffices for the sync. Two dates with three
runs allow a run to fail, to be retried for the same date, and to be followed by another.

Three observations are two of one repository (a session, its repetition or its successor, and
what each sees of the other) and one of a second checkout whose replay path is the first one's
decision path: the smallest instance in which the order of the locks matters, since both name
the shared carriers in opposite order. Two sessions give a first bundle, which has no
predecessor, and one that continues it. One edit may come before, between or after any two
steps of a rollback. The backup run uses the real list of files and needs no bound.

Two grants are a grant and its successor, which is all that a decision looks at; two lots give a
part and a remainder, two retries a count that can be reached by sessions before, between and
after fills. In `risk_state` the confirmations are those of the code; a longer wait only repeats
a session, so each is as short as the order among the waits allows (a test of a wait of one
session would not tell "not yet" from "never"). Counters are kept up to the bound the next
session compares them with, which makes the instance finite without cutting a behaviour. Four
records are a plan, two partial fills that close it and one that must be refused, or a record
lost and its repetition; one plan suffices because plans only meet in the chain.

Three executions are two purchases and a sale, or a purchase and two sales, in any order over three
days: a lot, another one of its day or of a later day, and what takes shares from them; two shares
are the least that a lot can be split into, and a repeated file splits it again. Two levels of
damage with waits of two and three sessions let the damage rise and fall, and let a wait be
interrupted with and without a session served; two identities let an episode be replaced at the
same level. Three episodes are the one of the account, the one that an old authorization names
and a new one; an identity is reused when nothing names it any more.

Every run checks deadlock: BrokerSync, LotInventory, DailyRun, RiskState, StrategicGrant, CashRearm
and the journal can always take another step (an export, a write-back, a session), and the replay, the observations
and the backup end with `Finished` (`BackupFinished`).
In `evidence` a kill is always possible and so hides a cycle of waiting runs from that check;
`ObservationEnds` is the property that would show it.

**Fairness** in run `broker_sync`: the broker answers a requested cancellation, and the operator
goes on exporting and applying snapshots (weak fairness of `BrokerCancels` for an awaited order,
of `Export`, and of `Sync` or `RefuseSync` of the last export). Nothing in the code makes the
broker answer: the code only waits, and the documented daily procedure (docs/OPERATIONS.md,
"broker reconciliation") is what is assumed. `closedLoop` says that the operator gives every
daily run the complete snapshot of its day, which is that procedure too; `FrozenResolved` and
`TruthAccepted` assume it, every other property is checked with and without it. Without it
`FrozenResolved` fails: a late fill can wedge the sync, which is finding `late_fill`. With it, one
thing can still keep an answer out: a snapshot refused for a strategic sale, finding
`suppression`, since a sync is all or nothing; the property allows for that.

In run `strategic_grant` sessions go on in which the candidate qualifies and nothing obstructs
the deployment (weak fairness of that decision), and a requested cancellation is answered. In run
`risk_state` weak fairness of `Assess` only: a session is assessed each day. Which evidence it
finds is left to the market, except that `RiskLifts` asks what happens once it stays calm.

In run `rearm` sessions that are healthy at the level and the references of the episode
recur (weak fairness of `HealthySession`, in which no candidate qualifies, so that nothing else
ends the wait). That the market is healthy again and again is an assumption about the market, not
about the code; it is the weakest one under which a wait of healthy sessions can end, and bad
sessions may come between any two of them for ever.

In run `evidence` fairness is weak fairness of `Step(p)` for each command: the operating system
keeps scheduling a process that can go on. Kills and outside edits are not fair. Each command
runs once, since `flock` does not promise that a waiting process is served before new ones; with
an endless supply of commands a single one could starve.

## Properties

* `SavedAccountLoads` - every account the program writes passes its own validator. The sync runs
  that validator itself and refuses, so its question is besides whether it accepts the truth,
  `TruthAccepted`.
* `LiveOrdersTracked`, `NoOverlap` - a live order is pending or awaits a cancellation, never
  both; no symbol has two live instructions on one side.
* `LotsReconcile` - no sale runs out of tranches after cash has moved, and the three counts that the
  replay keeps apart stay one number: the position, the sum of its tranches, the purchases less
  the sales of the ledger. A loop that stops at its first tranche breaks it (`ConsumedOnce`).
* `RemainderResumable` - no exception from a strategic remainder in the middle of an auction.
  `OneDirectionPerSession`, no symbol bought and sold in one session, is a theorem and not in a run.
* `HandoffSellFunded`, and `FrozenSymbolNotBought` among the theorems - no purchase that its conditions forbid, in any
  order of the queue.
* `PositionsMatchFills`, `BrokerLiabilityKnown`, `TruthAccepted`, `FrozenResolved` - the account
  follows the broker, never drops an order the broker works, accepts a truthful report in the
  closed loop, and learns the answer to every cancellation it asked for.
* `ReportBacked`, `ReportRecoverable` - a report never outlives its account, an account never
  loses its report.
* `AllOrNothing`, `ForeignKept` - a bundle is wholly old or wholly new when its locks are
  released, and the rollback never takes a file away that somebody else put there.
* `AppendSealed` - the prefix of sessions grows only beyond a checkpoint that seals all of it,
  although check and rename are two steps; it rests on the observation lock alone. The commands
  `append` and `replay` of docs/HOLDOUT.md, run by hand beside an observation, take no such lock;
  the documentation excludes that use and so does the model.
* `ObservationEnds` - no cycle of waiting, and no step after which a command is stuck.
* `Trustworthy` (`FinalVerifies`, `EndedVerifies` and `CompletedWhole`), `SealedForever` - a backup that says
  COMPLETED or FAILED verifies wherever the command stopped; only a kill can leave a prepared
  one that does not; COMPLETED means that all evidence is bound; a sealed directory is final
  although the failing command tries to seal it again.
* `OwnerBound`, `FillsAdmitted` - one epoch owns strategic capital, and whatever order may still
  fill at the broker belongs to it: a settlement that looked at `pending_orders` only would close
  the epoch under a frozen BUY, and its fill would abort a whole sync.
* `EntriesCounted`, `ExpiryFinal` - how an epoch ends and how often a risk generation starts,
  under every order of expiry, late fills, sales and settlement.
* `RefusedUnanswered`, `GrantSpent` - the one case in which forming a grant raises, and that a
  grant ends although the market never lets it buy.
* `GuardHolds`, `CooldownServed`, `ShocksSpaced`, `RiskLifts` - the assessment ends
  in six places that share the state; each property is what all of them have to respect.
* `OldestFirst` - what splits, sales and deficits make of the lots in any order. `Resync` - a file
  that was applied, applied again, books nothing and takes no share from a purchase, whatever the
  ids are; and it changes nothing at all unless the fill_id of one lot begins with that of another
  lot of its day (`Unambiguous`), the condition that the docstring does not state.
  `SharesExplained` says that every share of a purchase is live, sold or lost, that complete
  snapshots lose nothing, and that a complete one is refused only after an incomplete one dropped
  lots.
* `WaitServed`, `WaitKept`, `RepairCompletes` - the wait counted by a history of the sessions that
  is independent of the count the account keeps: never shortened by two observations of a session,
  by another level or by an attempt that traded, never lost by one that did not, and never endless. `RefusedStranded` - what a
  decision that cannot be saved found in the account, see the disagreements; an ordinary order
  never leads to one.
* `Durable`, `OneChain`, `NeverAccused` - an acknowledged record is never lost, the records of all
  processes form one valid chain, and a verification that runs beside appends and checkpoints, or
  after a crash, never reports an acknowledged record as missing.

## What is proved

`OrderLedgerProofs` proves, for all symbols, grants and bounds, with the assumptions
`GrantsAssumption` (no grant is the empty id) and `BoundsAssumption` (bounds are numbers):
`TypeCorrect`, `Tracked`, `Disjoint`, `Resumable`, `OneDirection`, `HandoffFunded`,
`FrozenNotBought`, `AccountLoads`, `TranchesReconcile` and the refinement `Implements` of the
replay, and of production `PositionsMatch`, `LiabilityKnown`, `ProductionLoads`,
`ProductionDisjoint`, `TruthIsAccepted` and the refinement `ProductionImplements`.

The properties are not inductive as they stand. For instance `LiveOrdersTracked` survives an
auction only because an order in `pending` has never been frozen, and the remainder of a
strategic order is right only because intents and rows agree. The inductive invariant is

    LedgerInv == LedgerTypeOK /\ RowsAgree /\ PendingAgrees /\ FreezeOnlyBuys
                 /\ LiveOrdersTracked /\ NoOverlap
    IInv      == LedgerInv /\ TypeOK

Its first part proves what both compositions need of the ledger alone: a decision keeps
`LedgerInv` (`ReconcileKeepsLedgerInv`, which rests on `BatchShape`, the ids of a batch, and
`WithdrawnShape`, what a withdrawn row looks like), a row update of an auction keeps it
(`RowUpdateKeepsLedgerInv`), and a decision is a step of the promise (`ReconcileAdvances`).
The rest shows that each action is one of these two, which gives `Inductive`;
every safety theorem then follows from it, the action properties with one case per action.
`OneDirection` needs one thing more, `SessionInv`: what still waits in the queue is of another
symbol than everything that has traded today. A fill keeps it because the symbols of the
pending intents differ, a new session because all fills are older than it.

`AccountLoads` and `TranchesReconcile` add up fills and tranches. The laws of such sums (a sum
grows by the element added, is zero over zeros, is the same for equal summands, adds over a
disjoint union) are in SumTheorems. They would be an
induction over finite sets; they are proved instead from one fact, `SmallestSubset`: if a statement
fails for a subset of a finite set, it fails for one whose proper subsets all have it. From it
`SumsUnique` and `SumsExist` give the sum its recursive equation, and the laws follow. The
invariant is `FillsInv`: the fills of a row add up to its `filled`, position and tranches are purchases less
sales, and what the validator asks of each row. A fill disturbs one row, one symbol and one
sum of each (`FillMoves`, `FillKeepsFills`). What a sale takes from the tranches is the result of a
loop, and has a loop invariant, `Selling`: no share is lost between the tranches and what is
still to be sold, and while something is left to sell, every tranche visited so far is empty.
`SellingStep` is one turn. At the end all tranches that may be sold have been visited, so a
remainder would mean that they held less than `Tradable` allows (`SaleShape`): for any number of
tranches and any order of visiting them, no sale raises. That a second fill of an order in a session
is not lost in the set of fills is `SessionInv` again.

Production shares `LedgerInv`, which a decision keeps by the same lemma. What a snapshot keeps
needs to know how the account, the broker and the last export are related:

    SyncInv == LedgerInv /\ SyncTypeOK /\ TruthInv /\ SnapInv /\ KnownInv
               /\ PositionsMatchFills /\ BrokerLiabilityKnown

`KnownInv` is the core: the fills of the account are the first executions of the broker, none
twice, no more than the last export lists and none after `asOf`. A file that is not older than the
account therefore lists all of them (`FileShape`), and what an import adds is the next stretch of
executions, so that `held` is again the true holding. `TruthInv` says that an execution leaves no
fewer shares than the broker still works: a row that an import closes as FILLED, or a
confirmation as CANCELLED, is one of which nothing works any more. An import is a recursion over
the executions, whose invariant (`ImportInv`) would need an induction; it is proved from
`SmallestNumber` instead: the first execution after which it failed had a sound working copy
before it, and `ImportFillStep` gives a sound one after it. `RowAdvances` is what an import and the
confirmations may do to a row, from which the promise follows. `PositionsMatchFills` adds up
shares of executions with the laws of sums above. The theorems hold for every broker that
`BrokerFills` and `BrokerCancels` allow, with and without the closed loop.

`TruthIsAccepted` shows more: that no guard of the import (`_apply_fill`, the row contract, the
confirmations, the totals of the positions, the validator) fails on a truthful file, except for
a strategic order. It holds in the closed loop only, and its invariant is

    AcceptInv == SyncInv /\ SavedAccountLoads /\ ChainInv /\ (closedLoop => LoopInv)

`ChainInv` is about the broker alone: the executions of an order continue one another, down to
what still works, and its cancellation comes last. `LoopInv` is what the closed loop adds: all
that the account has not imported happened after the last decision, to orders that are live
in the account unless they are strategic, and the remainder of a row is what its last imported
execution left (`RowsTell`). So each imported execution meets a row that is open, whose remainder is the
execution's shares plus what it left, and whose date is not later (`TruthFillStep`), and each
confirmation a row that has nothing to lose by it (`TruthConfirmed`). What stays out
is the suppression (the first disagreement below), which closes strategic rows whose orders still
work; the second one, the moved date of a frozen row, needs a decision without the day's snapshot. The first refused execution of a file is found as
before (`TruthImport`), and it is a strategic one.

`EvidenceProofs` proves of BackupCheckpoint, for any list of inputs and evidence without a common name
(`FilesAssumption`), that a backup with a terminal status verifies (`FinalsVerify`), that an
unkilled command leaves no prepared one that does not (`EndsVerify`), that COMPLETED binds all
evidence (`CompletedIsWhole`), together `DirectoryTrustworthy`, and that a sealed directory is final (`SealedStays`). Its
invariant says, for each point of the command, what is in the directory: why a receipt is
sealed only where it is right is that the manifest says PREPARED and binds just the files that
are there at each call (`Archived`, `Failing`), and why a cleaned-up archive verifies again is
that `Withdrawn` is exactly what was copied before the run.

`DecisionProofs` proves of StrategicGrant, for any number of grants, any sizes and any retry window
(`GrantAssumption`), every safety property: `TypeCorrect`, `OneOwner`,
`NoFillRefused`, `EndsCounted`, `ExpiredForGood`, `RefusalsExplained`. The invariant is about one
account value, `Sound(account)`, and each function of a decision is shown to keep `Sound` by a
lemma of its own, so that the lemma for the decision is their composition. Its parts: `Sized`
(what a BUY has left fits beside what is held, which keeps the type of a fill), `Numbered`
(epochs up to the current grant exist, all older ones are terminal), `Pointed` (the active
pointer), `Owning` (shares and SELLs need an ACTIVE epoch, a BUY an open one, and `entered` is
what the status says), `Untouched` (an unfilled owner runs its cohort until its grant expires:
it is what shows that a decision meets an unsettled prior epoch only after an expiry, which settles
it unless an order is outstanding: `RefusedUnanswered`), `Earned` and `Counted` (generations against the epochs that bought, with one
in hand while a grant deploys). `OwnerBound` alone is not inductive: that a new grant may be
formed depends on `Numbered` and `Untouched`.

`DailyRunProofs` proves, for any documents, dates and number of runs (`DailyRunAssumption`: the
bounds are numbers), `Backed`, `Recoverable` and `Advance` (no report is replaced by one of an
earlier decision). A power loss may bring back the account as it is or as the disk has it, with
either copy of each ready directory; the invariant therefore asks of every such pair that it
shows the latest decision (`AllShown`), that the stable account begins the current one, and that
the decisions of an account are of rising dates. `Progress` is what makes it inductive: how far
the decision under way has come, document by document, at each point of the process.

`EvidenceProofs` proves of HoldoutEvidence, for any number of observations and repositories, any assignment of
output paths in which the two of a repository differ (`PathsAssumption`), and any total order of
the carriers (`RankAssumption`): `Atomic`, `KeptForeign` and `SealedAppends`. The invariant says of
each run by itself what its locks give it (`Locked`), that a validated append is still the next
one (`Appending`), and what every carrier holds at each step of its transaction, forward
(`GoingForward`) and back (`GoingBack`); a step of another run leaves this alone because the two
share no carrier while both are in a transaction. `AllOrNothing` reads the last step of either
direction. `NoCircle` is the safety behind `ObservationEnds`: the locks along a chain of waiting
commands rise in the order of their names, so no chain closes. That the commands then do end
is checked by TLC.

`DecisionProofs` proves of RiskState, for all confirmations, windows and waits with the relations that
`config/validation/risk.py` enforces or the values of the code have (`RiskAssumption`), `GuardAlwaysHolds`,
`CooldownIsServed` and `ShocksAreSpaced`. `GuardHolds` needs the type of the guard, and the
cooldown needs `CoolsInCrisis`: without it a state could be cooling at RISK_OFF, where the streaks
of a repair would end it early. One lemma per way an assessment ends.

`ExecutionJournalProofs` proves, for any processes, plans, shares and records
(`JournalAssumption`), `AppendsDurable`, `JournalIsOneChain` and `NeverFalselyAccused`. The lock has one
holder (`Exclusion`), so the file is what that holder made of a readable start (`Unfinished`,
with `Begun` the file at each part of a write). From it follow that complete lines are out of
reach of a writer (`Kept`), hence that an acknowledged record stays through rollbacks and losses,
and that both copies of the file are valid chains. `NeverAccused` needs besides that ids
are unique among all records anybody still knows (`Unique`) and that no checkpoint names a record
that is still being written or is to come (`Unnamed`, `Truthful`).

`CashRearmProofs` proves, for any levels, waits and references and at least three episodes
(`RearmAssumption`; an identity that nothing names must exist), `WaitIsKept`, `WaitIsServed` and
`RefusalsAreStranded`. The core is `Backed`: the count the account keeps is covered by the sessions
that were served, or has been spent by shares that the next decision finds. That it survives
the reset and the renewal of an episode needs `Owned` (an unfilled authorised grant has its
consumption, or nothing served is left), `Spent` (what a reset or a withdrawn BUY leaves) and
`NoLateBuy` (the next decision withdraws the BUY of an expired grant). A decision is a chain of
functions, and the proof follows it: one predicate on the account between two functions of the
chain, one lemma per function, and the saved account at the end. `WaitServed` is then a statement
about one decision, from the invariant before it.

`LotInventoryProofs` proves, for any number of executions, any shares and days
(`LotAssumption`), all of LotInventory: `SharesAreExplained`, `OldestAreFirst`, and
`SyncIsIdempotent`, which has no hypothesis on the ids: its condition is a part of the property. The invariant is

    LotInv == TypeInv /\ TruthInv /\ Booked(...) /\ (careful => CarefulInv)
              /\ (after an accepted file => AlignedInv) /\ (refused => RefusedInv)
              /\ OldFirst(lots) /\ what is known happened by asOf

`SoundLots` (in `Booked`) is what makes names unique after any splits: the names of two parts of one
purchase differ at a place that both have (`Apart`), and a split only makes names longer. Unique
names alone are not inductive: the paths `<<>>` and `<<0>>` differ, and a split of the first makes
another `<<0>>`. `Booked` is the balance of each purchase, which a sale, a deficit and a split keep;
`Allocated` and `Aligned` take shares lot by lot in an order, and what they leave is added up with
the sums over all lots before a lot. `AlignedInv` says what the last file left: as many shares as
it says, as many sellable, and where no name of a day begins with another (`Unambiguous`) the
sellable lots come before the others by age and name, so that the next alignment finds nothing to split (`SyncIsIdempotent`). `Timely`
belongs to complete snapshots: on every day on which the account can have missed nothing, the lots
let sell as much as T+1 lets the broker sell, so that a sale finds its lots. `RefusedInv` is then
the last sentence of `SharesExplained`: a complete file is refused only when an earlier deficit
dropped lots. The import of many executions is a recursive function; that the books stay
balanced along it is shown as for production, by the first execution after which they would not be.

**Only model-checked**: `FrozenResolved`, `ObservationEnds`, `GrantSpent`, `RiskLifts` and
`RepairCompletes`, because liveness under fairness is out of the prover's reach. Every invariant
and every other action property that a passing run checks is a theorem.

## Disagreements with the documentation

1. `suppression`: the last fill of a strategic BUY cancels every other pending order of the
   grant (`broker.py:642`), an independent SELL included, although docs/OPERATIONS.md:157 and
   docs/ARCHITECTURE.md:232 say that it stays executable. The broker still works the SELL, and
   its fill is refused afterwards.
2. `late_fill`: a cancel request moves `last_update_date`; a late fill of a partly filled BUY
   from before the request is refused (`broker_contract.py:206`), although
   docs/OPERATIONS.md:154-155 says that late fills are accepted.

Met while modelling, without a run of their own:

* A strategic order that replaced another one does not keep its registered quantity: the remainder
  is not requested (`execution/open_execution.py:81`), although the docstring at line 64 and
  docs/OPERATIONS.md:160 say so. OpenExecution has the behaviour (`Resize`).
* `_expire_strategic_grant` drops the BUY of the grant from `account.pending_orders`, but the
  decision merges a copy it made before (`application/decision.py:612`); a partly filled BUY whose
  held part has reached the target weight stays pending and may buy its remainder later, although
  docs/ARCHITECTURE.md:231 says that the BUY of an expired grant is removed. StrategicGrant has
  the behaviour (`Ordered`).
* `_align_sellability` orders the lots of a day by the text of `tranche_id` and renames those it
  splits (`broker.py:163`). When the `fill_id` of one lot begins with that of another ("1" and
  "10"), the same snapshot, applied again, makes other lots sellable, although `broker.py:910` calls
  the sync idempotent. The `lots` run has such ids, and `Resync` makes the exception explicit: TLC
  finds the second effect as soon as its condition `Unambiguous` is dropped.
* A decision whose account cannot be saved, for which there are three ways. An authorization that could not be
  deployed is followed by a session that is not healthy and in which no candidate has a snapshot:
  the repair is lowered (`discovery.py:1152`), the authorization that names it is not looked at
  (`discovery.py:1014`), and `save_account` refuses the account of the day
  (`validation_strategy.py:356`, "strategic rearm requires a ready repair episode"). Or the grant
  that consumed the repair expired unfilled, and the repair starts anew in a session without a
  snapshot of a candidate: the consumption names the old episode (`validation_strategy.py:351`). Or the damage clears while that
  grant is open and unfilled, which resets the repair, and returns: the repair is CONSUMED again
  with no session counted (`rearm.py:296`; `models/strategic_rearm.py`, "consumed flat-book capital
  repair was never ready"). `RefusedStranded` says that an authorization or such a
  consumption is always what was left behind.
* docs/OPERATIONS.md:558 says that a PREPARED backup holds the backup from before the run only; a
  run whose second seal fails leaves one, accepted by `verify-backup`, that holds all the evidence
  of the finished run (`production_observation.py:189`).
* docs/ARCHITECTURE.md:208 says that a strategic grant waits for the settlement of the prior one;
  the code chooses the new cohort first and raises afterwards (`portfolio/strategic/ownership.py:375`),
  so that the decision of that day fails. `RefusedUnanswered` says when.
* docs/ARCHITECTURE.md:204-206 says that the first fill of a Pair or Single epoch enters CORE; the
  code sets ACTIVE at every first fill, as docs/STRATEGY.md:161 says.
* The gross cap of an active sector guard is not kept by a crisis declared meanwhile
  (`risk/transition_resolution.py:110`); the next assessment computes it anew.
* An append to the execution journal that is killed, or whose rollback fails, one byte short of
  its newline leaves a record that decodes. The next append is accepted and acknowledged, on the
  same line, and the journal cannot be read any more (`observation/execution_journal/store.py:38`
  splits lines without asking for the last newline). `Durable` exempts such a record (`joined`)
  and holds for all others; without the exemption TLC finds the case in nine steps.
* An append whose flush raises leaves its record in the journal. A plan that is repeated after the
  error is refused as a duplicate; a partial fill that is repeated counts twice.
* Two `journal checkpoint` commands may move the checkpoint backwards: the tail is read under the
  lock and written after it. A verification then checks less, but accuses nobody.

A kill between two carriers leaves a replay that its checkpoint does not seal, and no later
observation is accepted until somebody restores the file. The model has this behaviour; no
document promises a recovery, so no property asks for one.

## Plan

1. (done) OrderLedger, OpenExecution, OrderPromise; invariants and refinement proved.
2. (done) BrokerSync over the same ledger; DailyRun.
3. (done) HoldoutEvidence, BackupCheckpoint, ExecutionJournal: the files around an observation.
4. (done) StrategicGrant and RiskState, the two state machines a decision carries from day to day;
   StrategicGrant proved.
5. (done) Proofs of DailyRun, HoldoutEvidence, ExecutionJournal and RiskState.
6. (done) LotInventory: `_align_sellability` applied repeatedly, deficits and late sells of
   incomplete snapshots. CashRearm: repair episodes and rearm authorizations.
7. (done) Proofs of CashRearm, and of what OpenExecution adds up.
8. (done) Proofs of BrokerSync, `TruthAccepted` included.
9. (done) Proofs of LotInventory, its idempotence included.
10. Composition of StrategicGrant with OrderLedger, so that the suppression is seen with the grant
   it is about; the capital overlays of the risk state.

## Not modelled

Portfolio allocation, risk sentinel, market data, features and leaders are floating-point
computations over price tables: TLC has no numbers for them, and what they decide enters the
models as a free choice (targets, freeze, evidence). Attribution, reports, promotion and
generalization validation, configuration and provenance compute documents from finished runs and
keep no state that a later step depends on. Research, scripts and tools are offline. Of the
modelled components the following is left out: weights and promotion of
epochs, companions of a full cohort, restore weights and protected rights in the repair of the
account; the capital overlays, chronic damage and the strategic damage
guard of the risk state, which lower caps only; cash, fees and prices of the auction and the sync; migrations of old accounts and journals.
