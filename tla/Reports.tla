------------------------------ MODULE Reports ------------------------------
(***************************************************************************)
(* ReportingService: projections of the record files.  A report covers a   *)
(* set of periods, one or all.  Rows keep the numbers; names, descriptions *)
(* and timestamps copied from the records are left out, and so is sorting. *)
(***************************************************************************)
EXTENDS Books

-----------------------------------------------------------------------------
(* Invoices and refunds, from their headers.                               *)

Headers(disk, kind, periods) == {h \in Of(disk, kind) : h.data.period \in periods}

Totals(headers) ==
  [subtotal |-> SumOf("subtotal", headers),
   tax      |-> SumOf("tax", headers)]

InvoiceReport(disk, periods, currency) ==
  Totals({h \in Headers(disk, "invoices", periods) : h.data.currency = currency})

RefundReport(disk, periods, currency) ==
  Totals({h \in Headers(disk, "refunds", periods) : h.data.currency = currency})

-----------------------------------------------------------------------------
(* What is left to refund, from lines.  A line whose header is not there   *)
(* makes the report fail, and so does a refund of an unknown invoice.      *)

AvailabilityReadable(disk) ==
  /\ \A l \in Of(disk, "invoice_lines") : Has(disk, "invoices", l.doc)
  /\ \A l \in Of(disk, "refund_lines") :
       \E h \in Of(disk, "refunds") : h.doc = l.doc /\ Has(disk, "invoices", h.data.invoice)

LinesUnder(disk, kind, headers) ==
  {l \in Of(disk, kind) : \E h \in headers : h.doc = l.doc}

AvailabilityRows(disk, periods) ==
  {[invoice |-> l.doc, item |-> l.data.item, price |-> l.data.price] :
     l \in LinesUnder(disk, "invoice_lines", Headers(disk, "invoices", periods))}

OriginalQuantity(disk, row) ==
  SumOf("quantity",
    {l \in Of(disk, "invoice_lines") :
       [invoice |-> l.doc, item |-> l.data.item, price |-> l.data.price] = row})

(* Variant: refunds not told apart by invoice.                             *)
RefundedQuantityAnyInvoice(disk, row) ==
  SumOf("quantity",
    {l \in Of(disk, "refund_lines") : l.data.item = row.item /\ l.data.price = row.price})

(* The period of a refund does not matter, only that of its invoice.       *)
RefundedQuantity(disk, row) ==
  LET refunds == {h \in Of(disk, "refunds") : h.data.invoice = row.invoice} IN
  SumOf("quantity",
    {l \in LinesUnder(disk, "refund_lines", refunds) :
       l.data.item = row.item /\ l.data.price = row.price})

RemainingQuantity(disk, row) ==
  Max({OriginalQuantity(disk, row) - RefundedQuantity(disk, row), 0})

-----------------------------------------------------------------------------
(* Revenue by business unit, from lines, each in its header's period.      *)

UnitSubtotal(disk, line, headers, currency, unit) ==
  SumOf("subtotal",
    {l \in LinesUnder(disk, line, headers) :
       l.data.currency = currency /\ l.data.unit = unit})

(* Variant: refunds added.                                                 *)
UnitRevenueGross(disk, periods, currency, unit) ==
  UnitSubtotal(disk, "invoice_lines", Headers(disk, "invoices", periods), currency, unit)
    + UnitSubtotal(disk, "refund_lines", Headers(disk, "refunds", periods), currency, unit)

UnitRevenue(disk, periods, currency, unit) ==
  UnitSubtotal(disk, "invoice_lines", Headers(disk, "invoices", periods), currency, unit)
    - UnitSubtotal(disk, "refund_lines", Headers(disk, "refunds", periods), currency, unit)

BusinessUnits(disk) ==
  {l.data.unit : l \in Of(disk, "invoice_lines") \cup Of(disk, "refund_lines")}

BusinessUnitRevenue(disk, periods, currency) ==
  [u \in BusinessUnits(disk) |-> UnitRevenue(disk, periods, currency, u)]

-----------------------------------------------------------------------------
(* Stock.                                                                  *)

StockReport(disk, threshold) ==
  [i \in {r.doc : r \in Of(disk, "items")} |->
     [quantity |-> StockOnHand(disk, i),
      cost     |-> WeightedAverageUnitCost(disk, i),
      value    |-> InventoryValue(disk, i),
      low      |-> StockOnHand(disk, i) <= threshold]]

-----------------------------------------------------------------------------
(* The ledger of one period.  All of these fail when get_ledger_balances   *)
(* does (OneCurrencyPerAccount).                                           *)

AccountsPosted(disk, p, currency) ==
  {l.data.account : l \in {l \in InPeriod(disk, "journal_lines", p) :
                             l.data.currency = currency}}

Revenue == {"4000", "4100"}

Expense == {"5000", "5100"}

DebitNormal == {"1000", "1010", "1100", "1200", "1300"} \cup Expense

LedgerReport(disk, p, currency) ==
  [a \in AccountsPosted(disk, p, currency) |->
     [debit   |-> DebitTotal(disk, p, a),
      credit  |-> CreditTotal(disk, p, a),
      balance |-> IF a \in DebitNormal THEN DebitBalance(disk, p, a)
                                       ELSE -DebitBalance(disk, p, a)]]

NetRevenue(disk, p, currency) ==
  SumFunction([a \in AccountsPosted(disk, p, currency) \cap Revenue |->
                 LedgerReport(disk, p, currency)[a].balance])

(* Variant: expenses by their debits.                                      *)
NetExpenseDebits(disk, p, currency, accounts) ==
  SumFunction([a \in AccountsPosted(disk, p, currency) \cap accounts |->
                 LedgerReport(disk, p, currency)[a].debit])

(* An expense account that was credited more than debited counts as zero.  *)
NetExpense(disk, p, currency, accounts) ==
  SumFunction([a \in AccountsPosted(disk, p, currency) \cap accounts |->
                 Max({LedgerReport(disk, p, currency)[a].balance, 0})])

ProfitAndLoss(disk, p, currency) ==
  LET revenue   == NetRevenue(disk, p, currency)
      cogs      == NetExpense(disk, p, currency, {"5000"})
      operating == NetExpense(disk, p, currency, Expense) - cogs
  IN  [netRevenue |-> revenue, cogs |-> cogs, grossProfit |-> revenue - cogs,
       operatingExpense |-> operating, netIncome |-> revenue - cogs - operating]

TaxReport(disk, p, currency) ==
  [collected |-> InvoiceReport(disk, {p}, currency).tax,
   payable   |-> IF "2100" \in AccountsPosted(disk, p, currency)
                 THEN LedgerReport(disk, p, currency)["2100"].balance ELSE 0]
=============================================================================
