------------------------------- MODULE Books -------------------------------
(***************************************************************************)
(* What the services read from the append-only files: stock and value on   *)
(* hand, ledger totals, the trial balance, the reconciliation report that  *)
(* gates a period close, and what is left to refund of an invoice.         *)
(*                                                                         *)
(* The files are one set of records.  A record is [kind, doc, n, data]:    *)
(* kind names the file (or the audit action, or the event type), doc is    *)
(* the id of the document it belongs to and n its line; together they are  *)
(* the idempotency key the store refuses to append twice.                  *)
(***************************************************************************)
EXTENDS Integers, Sequences, FiniteSets, FiniteSetsExt, Functions

Of(disk, kind) == {r \in disk : r.kind = kind}

Key(r) == <<r.kind, r.doc, r.n>>

SumOf(field, records) == SumFunction([r \in records |-> r.data[field]])

Has(disk, kind, doc) == \E r \in disk : r.kind = kind /\ r.doc = doc

-----------------------------------------------------------------------------
(* InventoryService.                                                       *)

BusinessUnit(disk, item) ==
  IF Has(disk, "items", item)
  THEN (CHOOSE r \in Of(disk, "items") : r.doc = item).data.unit ELSE "retail"

StockMovements(disk, item) ==
  {r \in Of(disk, "stock_movements") : r.data.item = item}

StockOnHand(disk, item) ==
  SumOf("quantity", StockMovements(disk, item))

InventoryValue(disk, item) ==
  SumOf("value", StockMovements(disk, item))

(* Variant: rounded up.                                                    *)
WeightedAverageUnitCostUp(disk, item) ==
  LET quantity == StockOnHand(disk, item) IN
  IF quantity <= 0 THEN 0
  ELSE (InventoryValue(disk, item) + quantity - 1) \div quantity

(* Floor division, as // of Python.                                        *)
WeightedAverageUnitCost(disk, item) ==
  IF StockOnHand(disk, item) <= 0 THEN 0
  ELSE InventoryValue(disk, item) \div StockOnHand(disk, item)

-----------------------------------------------------------------------------
(* AccountingService.                                                      *)

ClosedPeriods(disk) == {r.doc : r \in Of(disk, "periods")}

InPeriod(disk, kind, p) == {r \in Of(disk, kind) : r.data.period = p}

(* Totals of the journal headers, not of the journal lines.                *)
TrialBalanced(disk, p) ==
  LET entries == InPeriod(disk, "journal_entries", p) IN
  SumOf("debit", entries)
    = SumOf("credit", entries)

LedgerLines(disk, p, account) ==
  {r \in InPeriod(disk, "journal_lines", p) : r.data.account = account}

(* get_ledger_balances refuses a period in which an account was posted in  *)
(* two currencies.                                                         *)
OneCurrencyPerAccount(disk, p) ==
  \A a, b \in InPeriod(disk, "journal_lines", p) :
    a.data.account = b.data.account => a.data.currency = b.data.currency

DebitTotal(disk, p, account) ==
  SumOf("debit", LedgerLines(disk, p, account))

CreditTotal(disk, p, account) ==
  SumOf("credit", LedgerLines(disk, p, account))

DebitBalance(disk, p, account) ==
  DebitTotal(disk, p, account) - CreditTotal(disk, p, account)

-----------------------------------------------------------------------------
(* ReconciliationService.get_reconciliation_report: five checks, none of   *)
(* them about cash (1000), owner equity (3000) or adjustments (5100).      *)

InventoryValueDelta(disk, p) ==
  SumOf("value", InPeriod(disk, "stock_movements", p))

Subtotals(disk, kind, p) ==
  SumOf("subtotal", InPeriod(disk, kind, p))

Taxes(disk, kind, p) ==
  SumOf("tax", InPeriod(disk, kind, p))

(* Lines count in the period of their document's header.                   *)
Cogs(disk, header, line, p) ==
  SumOf("cogs",
    {r \in Of(disk, line) : \E h \in InPeriod(disk, header, p) : h.doc = r.doc})

Reconciles(disk, p) ==
  /\ OneCurrencyPerAccount(disk, p)
  /\ InventoryValueDelta(disk, p) = DebitBalance(disk, p, "1200")
  /\ Taxes(disk, "invoices", p) - Taxes(disk, "refunds", p)
       = -DebitBalance(disk, p, "2100")
  /\ Subtotals(disk, "invoices", p) = CreditTotal(disk, p, "4000")
  /\ Subtotals(disk, "refunds", p) = DebitTotal(disk, p, "4100")
  /\ Cogs(disk, "invoices", "invoice_lines", p)
       - Cogs(disk, "refunds", "refund_lines", p) = DebitBalance(disk, p, "5000")

-----------------------------------------------------------------------------
(* BillingService: invoice lines are pooled by item and unit price.        *)

SoldLines(disk, invoice, item, price) ==
  {r \in Of(disk, "invoice_lines") :
     r.doc = invoice /\ r.data.item = item /\ r.data.price = price}

(* Variant: earlier refunds not counted.                                   *)
RefundedLinesNone(disk, invoice, item, price) == {}

(* Only refund lines whose header was written count against an invoice.    *)
RefundedLines(disk, invoice, item, price) ==
  {r \in Of(disk, "refund_lines") :
     /\ r.data.item = item /\ r.data.price = price
     /\ \E h \in Of(disk, "refunds") : h.doc = r.doc /\ h.data.invoice = invoice}

Quantity(lineRecords) == SumOf("quantity", lineRecords)

Refundable(disk, invoice, item, price) ==
  Quantity(SoldLines(disk, invoice, item, price))
    - Quantity(RefundedLines(disk, invoice, item, price))

SoldUnitCost(disk, invoice, item, price) ==
  LET sold == SoldLines(disk, invoice, item, price) IN
  IF Quantity(sold) <= 0 THEN 0
  ELSE SumOf("cogs", sold) \div Quantity(sold)
=============================================================================
