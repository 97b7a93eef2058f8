------------------------------ MODULE Services ------------------------------
(***************************************************************************)
(* The operations of InventoryService, AccountingService and               *)
(* BillingService.  Each one validates its command against the files,      *)
(* appends a pending record to the write-ahead log, appends its records    *)
(* one at a time (calling other services in between), and appends the      *)
(* committed record.  Here an operation is its validation (Admissible),    *)
(* and the steps that follow the pending record (Steps): "put" appends one *)
(* record, "call" runs an operation of another service, "commit" appends   *)
(* the committed record.                                                   *)
(*                                                                         *)
(* Actors, memos and most attributes of items are left out: each is        *)
(* validated before anything is written and changes no amount.  So is the  *)
(* type of a movement, which must go with the sign of its quantity: it may *)
(* always be an adjustment, which goes with both.                          *)
(***************************************************************************)
EXTENDS Books

CONSTANTS
  TaxRate,          \* tax_rate_basis_points
  NoData            \* the data of a record nothing is computed from

ASSUME TaxRateAssumption == TaxRate \in Nat

Put(kind, doc, n, data) ==
  [do |-> "put", rec |-> [kind |-> kind, doc |-> doc, n |-> n, data |-> data]]

Call(c) == [do |-> "call", cmd |-> c]

Commit(txn) == [do |-> "commit", txn |-> txn]

(* Most operations end with an audit record and a business event.          *)
AuditAndEvent(action, event, doc, n) ==
  << Put(action, doc, n, NoData), Put(event, doc, n, NoData) >>

-----------------------------------------------------------------------------
(* Journals.                                                               *)

Debit(account, amount) == [account |-> account, debit |-> amount, credit |-> 0]

Credit(account, amount) == [account |-> account, debit |-> 0, credit |-> amount]

If(condition, steps) == IF condition THEN steps ELSE << >>

Debits(lines) == SumFunction([i \in DOMAIN lines |-> lines[i].debit])

Credits(lines) == SumFunction([i \in DOMAIN lines |-> lines[i].credit])

(* All lines of a journal are in one currency.                             *)
Journal(doc, period, source, currency, lines) ==
  [op |-> "accounting.post_journal", doc |-> doc, period |-> period,
   source |-> source, currency |-> currency, lines |-> lines]

(* The accounts the program knows, all of them active.                     *)
Chart == {"1000", "1010", "1100", "1200", "1300", "2000", "2100", "3000",
          "4000", "4100", "5000", "5100"}

ValidLine(line) ==
  /\ line.account \in Chart
  /\ line.debit >= 0 /\ line.credit >= 0
  /\ (line.debit = 0) # (line.credit = 0)

(* Variant: the closed period not looked at.                               *)
JournalAdmissibleAnyPeriod(c, disk, closed) ==
  /\ Len(c.lines) >= 2
  /\ \A i \in DOMAIN c.lines : ValidLine(c.lines[i])
  /\ Debits(c.lines) = Credits(c.lines)
  /\ ~Has(disk, "journal_entries", c.doc)

JournalAdmissible(c, disk, closed) ==
  /\ c.period \notin closed
  /\ Len(c.lines) >= 2
  /\ \A i \in DOMAIN c.lines : ValidLine(c.lines[i])
  /\ Debits(c.lines) = Credits(c.lines)
  /\ ~Has(disk, "journal_entries", c.doc)

JournalSteps(c) ==
  << Put("journal_entries", c.doc, 0,
         [period |-> c.period, source |-> c.source,
          debit |-> Debits(c.lines), credit |-> Credits(c.lines)]) >>
  \o [i \in DOMAIN c.lines |->
        Put("journal_lines", c.doc, i,
            [period |-> c.period, currency |-> c.currency,
             account |-> c.lines[i].account, debit |-> c.lines[i].debit, credit |-> c.lines[i].credit])]
  \o AuditAndEvent("accounting.journal_posted", "accounting.journal_posted.v1", c.doc, 0)

-----------------------------------------------------------------------------
(* Stock movements.  "by" says who asked: the stock movement use case,     *)
(* which posts a journal when the movement is done, or a sale or a return. *)

Movement(doc, n, item, quantity, cost, period, by) ==
  [op |-> "inventory.commit_movement", doc |-> doc, n |-> n, item |-> item,
   quantity |-> quantity, cost |-> cost, period |-> period, by |-> by]

(* A sale takes the average cost at the moment of its call.                *)
Priced(c, disk) ==
  IF c.op = "inventory.commit_movement" /\ c.by = "sale"
  THEN [c EXCEPT !.cost = WeightedAverageUnitCost(disk, c.item)]
  ELSE c

ActiveItem(disk, item) == \E r \in Of(disk, "items") : r.doc = item /\ r.data.active

MovementAdmissible(c, disk, closed) ==
  /\ c.by = "use_case" => c.period \notin closed
  /\ c.quantity # 0 /\ c.cost >= 0
  /\ Key([kind |-> "stock_movements", doc |-> c.doc, n |-> c.n])
       \notin {Key(r) : r \in disk}
  /\ ActiveItem(disk, c.item)
  /\ StockOnHand(disk, c.item) + c.quantity >= 0

UnitCost(c, disk) ==
  IF c.quantity > 0 \/ c.cost # 0 THEN c.cost
  ELSE WeightedAverageUnitCost(disk, c.item)

ValueDelta(c, disk) == c.quantity * UnitCost(c, disk)

MovementSteps(c, disk) ==
  << Put("stock_movements", c.doc, c.n,
         [item |-> c.item, quantity |-> c.quantity, period |-> c.period,
          value |-> ValueDelta(c, disk)]) >>
  \o AuditAndEvent("inventory.stock_moved", "inventory.stock_moved.v1", c.doc, c.n)

(* CommitStockMovementUseCase: the journal of the movement's value, always *)
(* in the default currency.                                                *)
MovementJournal(c, value) ==
  Journal(c.doc, c.period, c.doc, "INR",
    IF value > 0 THEN << Debit("1200", value), Credit("3000", value) >>
                 ELSE << Debit("5100", -value), Credit("1200", -value) >>)

AfterCommit(c, disk) ==
  If(/\ c.op = "inventory.commit_movement" /\ c.by = "use_case"
     /\ ValueDelta(c, disk) # 0,
     << Call(MovementJournal(c, ValueDelta(c, disk))) >>)

-----------------------------------------------------------------------------
(* Items and periods.                                                      *)

ItemSteps(c) ==
  << Put("items", c.doc, 0, [unit |-> c.unit, active |-> c.active]) >>
  \o AuditAndEvent("inventory.item_registered", "inventory.item_registered.v1", c.doc, 0)

(* ClosePeriodUseCase and close_period.  Closing a period that the session *)
(* knows to be closed returns without doing anything.                      *)
CloseAdmissible(c, disk, closed) ==
  /\ Reconciles(disk, c.doc)
  /\ c.doc \notin closed
  /\ TrialBalanced(disk, c.doc)

(* Variant: the period record forgotten.                                   *)
CloseStepsUnrecorded(c) ==
  AuditAndEvent("accounting.period_closed", "accounting.period_closed.v1", c.doc, 0)

CloseSteps(c) ==
  << Put("periods", c.doc, 0, NoData) >>
  \o AuditAndEvent("accounting.period_closed", "accounting.period_closed.v1", c.doc, 0)

-----------------------------------------------------------------------------
(* Invoices and refunds.                                                   *)

Subtotal(lines) ==
  SumFunction([i \in DOMAIN lines |-> lines[i].quantity * lines[i].price])

Tax(lines) == (Subtotal(lines) * TaxRate) \div 10000

Requested(lines, chosen) == SumFunction([i \in chosen |-> lines[i].quantity])

(* Variant: stock left for commit_movement to check.                       *)
InvoiceAdmissibleUnstocked(c, disk, closed) ==
  /\ ~Has(disk, "invoices", c.doc)
  /\ c.period \notin closed
  /\ \A i \in DOMAIN c.lines : ActiveItem(disk, c.lines[i].item)

InvoiceAdmissible(c, disk, closed) ==
  /\ Len(c.lines) > 0
  /\ \A i \in DOMAIN c.lines : c.lines[i].quantity > 0 /\ c.lines[i].price >= 0
  /\ ~Has(disk, "invoices", c.doc)
  /\ c.period \notin closed
  /\ \A i \in DOMAIN c.lines :
       LET item == c.lines[i].item IN
       /\ ActiveItem(disk, item)
       /\ StockOnHand(disk, item)
            >= Requested(c.lines, {j \in DOMAIN c.lines : c.lines[j].item = item})

InvoiceCogs(c, disk) ==
  [i \in DOMAIN c.lines |->
     c.lines[i].quantity * WeightedAverageUnitCost(disk, c.lines[i].item)]

InvoiceJournal(c, cogs) ==
  Journal(c.doc, c.period, c.doc, c.currency,
    << Debit("1000", Subtotal(c.lines) + Tax(c.lines)),
       Credit("4000", Subtotal(c.lines)) >>
    \o If(Tax(c.lines) # 0, << Credit("2100", Tax(c.lines)) >>)
    \o If(cogs # 0, << Debit("5000", cogs), Credit("1200", cogs) >>))

(* A line of an invoice or refund with its item's business unit, which     *)
(* never changes once the item is registered.                              *)
LineData(c, i, cogs, disk) ==
  [item |-> c.lines[i].item, quantity |-> c.lines[i].quantity,
   price |-> c.lines[i].price, cogs |-> cogs[i],
   subtotal |-> c.lines[i].quantity * c.lines[i].price,
   currency |-> c.currency, unit |-> BusinessUnit(disk, c.lines[i].item)]

(* Variant: the lines before the header.                                   *)
InvoiceStepsLinesFirst(c, disk) ==
  LET cogs == InvoiceCogs(c, disk) IN
  << Call(InvoiceJournal(c, SumFunction(cogs))) >>
  \o [i \in DOMAIN c.lines |->
        Call(Movement(c.doc, i, c.lines[i].item, -c.lines[i].quantity, 0,
                      c.movePeriod, "sale"))]
  \o [i \in DOMAIN c.lines |-> Put("invoice_lines", c.doc, i, LineData(c, i, cogs, disk))]
  \o << Put("invoices", c.doc, 0,
            [period |-> c.period, currency |-> c.currency,
             subtotal |-> Subtotal(c.lines), tax |-> Tax(c.lines)]),
        Put("billing.invoice_created", c.doc, 0, NoData),
        Put("billing.sale_completed.v1", c.doc, 0, NoData) >>

InvoiceSteps(c, disk) ==
  LET cogs == InvoiceCogs(c, disk) IN
  << Call(InvoiceJournal(c, SumFunction(cogs))) >>
  \o [i \in DOMAIN c.lines |->
        Call(Movement(c.doc, i, c.lines[i].item, -c.lines[i].quantity, 0,
                      c.movePeriod, "sale"))]
  \o << Put("invoices", c.doc, 0,
            [period |-> c.period, currency |-> c.currency,
             subtotal |-> Subtotal(c.lines), tax |-> Tax(c.lines)]) >>
  \o [i \in DOMAIN c.lines |-> Put("invoice_lines", c.doc, i, LineData(c, i, cogs, disk))]
  \o << Put("billing.invoice_created", c.doc, 0, NoData),
        Put("billing.sale_completed.v1", c.doc, 0, NoData) >>

RefundAdmissible(c, disk, closed) ==
  /\ Len(c.lines) > 0
  /\ \A i \in DOMAIN c.lines : c.lines[i].quantity > 0 /\ c.lines[i].price >= 0
  /\ ~Has(disk, "refunds", c.doc)
  /\ \E v \in Of(disk, "invoices") : v.doc = c.invoice /\ v.data.currency = c.currency
  /\ c.period \notin closed
  /\ \A i \in DOMAIN c.lines :
       LET item  == c.lines[i].item
           price == c.lines[i].price
       IN  Requested(c.lines, {j \in DOMAIN c.lines : /\ c.lines[j].item = item
                                                      /\ c.lines[j].price = price})
             <= Refundable(disk, c.invoice, item, price)

RefundUnitCost(c, disk, i) ==
  SoldUnitCost(disk, c.invoice, c.lines[i].item, c.lines[i].price)

(* Variant: cost restored for goods that do not come back.                 *)
RefundCogsAlways(c, disk) ==
  [i \in DOMAIN c.lines |-> c.lines[i].quantity * RefundUnitCost(c, disk, i)]

RefundCogs(c, disk) ==
  [i \in DOMAIN c.lines |->
     IF c.lines[i].restock THEN c.lines[i].quantity * RefundUnitCost(c, disk, i) ELSE 0]

RefundJournal(c, cogs) ==
  Journal(c.doc, c.period, c.doc, c.currency,
    << Debit("4100", Subtotal(c.lines)),
       Credit("1000", Subtotal(c.lines) + Tax(c.lines)) >>
    \o If(Tax(c.lines) # 0, << Debit("2100", Tax(c.lines)) >>)
    \o If(cogs # 0, << Debit("1200", cogs), Credit("5000", cogs) >>))

(* The lines whose goods come back, and the k-th of them.                  *)
Restocked(lines) == {i \in DOMAIN lines : lines[i].restock}

KthRestocked(lines, k) ==
  CHOOSE i \in Restocked(lines) : Cardinality({j \in Restocked(lines) : j <= i}) = k

ReturnMovement(c, i, disk) ==
  Movement(c.doc, i, c.lines[i].item, c.lines[i].quantity,
           RefundUnitCost(c, disk, i), c.movePeriod, "return")

RefundSteps(c, disk) ==
  LET cogs == RefundCogs(c, disk) IN
  << Call(RefundJournal(c, SumFunction(cogs))) >>
  \o [k \in 1..Cardinality(Restocked(c.lines)) |->
        Call(ReturnMovement(c, KthRestocked(c.lines, k), disk))]
  \o << Put("refunds", c.doc, 0,
            [invoice |-> c.invoice, period |-> c.period, currency |-> c.currency,
             subtotal |-> Subtotal(c.lines), tax |-> Tax(c.lines)]) >>
  \o [i \in DOMAIN c.lines |-> Put("refund_lines", c.doc, i, LineData(c, i, cogs, disk))]
  \o << Put("billing.refund_created", c.doc, 0, NoData),
        Put("billing.refund_completed.v1", c.doc, 0, NoData) >>

-----------------------------------------------------------------------------

(* A command has the fields of its operation, and its lines are a sequence.*)
Fields(op) ==
  CASE op = "inventory.register_item"   -> {"op", "doc", "unit", "active"}
    [] op = "inventory.commit_movement" ->
         {"op", "doc", "n", "item", "quantity", "cost", "period", "by"}
    [] op = "accounting.post_journal"   ->
         {"op", "doc", "period", "source", "currency", "lines"}
    [] op = "accounting.close_period"   -> {"op", "doc"}
    [] op = "billing.create_invoice"    ->
         {"op", "doc", "period", "movePeriod", "currency", "lines"}
    [] op = "billing.create_refund"     ->
         {"op", "doc", "invoice", "period", "movePeriod", "currency", "lines"}

Operations ==
  {"inventory.register_item", "inventory.commit_movement", "accounting.post_journal",
   "accounting.close_period", "billing.create_invoice", "billing.create_refund"}

Command(c) ==
  /\ c.op \in Operations
  /\ DOMAIN c = Fields(c.op)
  /\ "lines" \in DOMAIN c => Len(c.lines) \in Nat /\ DOMAIN c.lines = 1..Len(c.lines)

(* Quantities are counted and amounts are in minor units.                  *)
Numbers(c) ==
  /\ c.op = "inventory.commit_movement" => c.quantity \in Int /\ c.cost \in Int
  /\ c.op = "accounting.post_journal" =>
       \A i \in DOMAIN c.lines : c.lines[i].debit \in Int /\ c.lines[i].credit \in Int
  /\ c.op \in {"billing.create_invoice", "billing.create_refund"} =>
       \A i \in DOMAIN c.lines : c.lines[i].quantity \in Int /\ c.lines[i].price \in Int

Admissible(c, disk, closed) ==
  CASE c.op = "inventory.register_item"   -> ~Has(disk, "items", c.doc)
    [] c.op = "inventory.commit_movement" -> MovementAdmissible(c, disk, closed)
    [] c.op = "accounting.post_journal"   -> JournalAdmissible(c, disk, closed)
    [] c.op = "accounting.close_period"   -> CloseAdmissible(c, disk, closed)
    [] c.op = "billing.create_invoice"    -> InvoiceAdmissible(c, disk, closed)
    [] c.op = "billing.create_refund"     -> RefundAdmissible(c, disk, closed)

Steps(c, disk) ==
  CASE c.op = "inventory.register_item"   -> ItemSteps(c)
    [] c.op = "inventory.commit_movement" -> MovementSteps(c, disk)
    [] c.op = "accounting.post_journal"   -> JournalSteps(c)
    [] c.op = "accounting.close_period"   -> CloseSteps(c)
    [] c.op = "billing.create_invoice"    -> InvoiceSteps(c, disk)
    [] c.op = "billing.create_refund"     -> RefundSteps(c, disk)

(* Variants: an operation whose records recovery does not look for.        *)
ScannedFilesButItems(op) ==
  IF op = "accounting.post_journal" THEN {"journal_entries", "journal_lines"}
  ELSE IF op = "inventory.commit_movement" THEN {"stock_movements"}
  ELSE {"invoices", "refunds", "journal_entries", "stock_movements"}

ScannedFilesButJournals(op) ==
  IF op = "inventory.commit_movement" THEN {"stock_movements"} ELSE {"items"}

(* What recovery looks for before it rolls a pending transaction back.     *)
ScannedFiles(op) ==
  CASE op = "billing.create_invoice" ->
         {"invoices", "invoice_lines", "journal_entries", "journal_lines", "stock_movements"}
    [] op = "billing.create_refund" ->
         {"refunds", "refund_lines", "journal_entries", "journal_lines", "stock_movements"}
    [] op = "accounting.post_journal"   -> {"journal_entries", "journal_lines"}
    [] op = "inventory.commit_movement" -> {"stock_movements"}
    [] op = "inventory.register_item"   -> {"items"}
    [] OTHER -> {}

SideEffects(c, disk) ==
  {r \in disk : /\ r.kind \in ScannedFiles(c.op) /\ r.doc = c.doc
                /\ c.op = "inventory.commit_movement" => r.n = c.n}
=============================================================================
