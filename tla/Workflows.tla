----------------------------- MODULE Workflows -----------------------------
(***************************************************************************)
(* The application and the recovery command at work on one data directory. *)
(* A run of an operation is a list of steps still to do; between any two   *)
(* of them a step may be refused, the store may fail, or the process may   *)
(* die, and whatever was appended stays.                                   *)
(*                                                                         *)
(* wal[n] is transaction n: every attempt draws a fresh transaction id.    *)
(* The log is the one Wal refines: whole lines, atomic rollback.           *)
(***************************************************************************)
EXTENDS Services, Reports

CONSTANTS
  Commands,         \* what users may ask the application for
  Corrections,      \* journals offered to the recovery command
  Decisions,        \* reconciliation decisions an administrator may take
  RejectedEvents,   \* event types whose payload the event schema refuses
  Faults,           \* subset of {"error", "crash"}
  MaxTxns,          \* bound: no new run once the log holds this many
  MaxFaults         \* bound: faults in one behaviour

ASSUME WorkflowsAssumption ==
  /\ Faults \subseteq {"error", "crash"}
  /\ MaxTxns \in Nat /\ MaxFaults \in Nat
  /\ Decisions \subseteq {"accepted_existing_records", "voided_as_incomplete",
                          "requires_accounting_adjustment",
                          "requires_restore_from_backup"}
  /\ \A c \in Commands \cup Corrections : Command(c) /\ Numbers(c)
  /\ \A c \in Corrections : c.op = "accounting.post_journal"

VARIABLES
  wal,       \* sequence of [cmd, state]
  disk,      \* the records of all other files
  todo,      \* steps left of the run in progress
  process,   \* "none", the "app", or the recovery "cli"
  closed,    \* closed_periods of the process's AccountingService
  faults     \* how many there were

vars == <<wal, disk, todo, process, closed, faults>>

Txns == DOMAIN wal

Pending == {n \in Txns : wal[n].state = "pending"}

TypeOK ==
  /\ \A n \in Txns : wal[n].state \in {"pending", "committed", "rolledback"}
  /\ \A r \in disk : DOMAIN r = {"kind", "doc", "n", "data"}
  /\ \A i \in DOMAIN todo : todo[i].do \in {"put", "call", "commit"}
  /\ process \in {"none", "app", "cli"}
  /\ process = "none" => todo = << >>
  /\ closed \subseteq ClosedPeriods(disk)
  /\ faults \in 0..MaxFaults

Init ==
  /\ wal = << >>
  /\ disk = {}
  /\ todo = << >>
  /\ process = "none"
  /\ closed = {}
  /\ faults = 0

-----------------------------------------------------------------------------
(* Running an operation: validation and the pending record, then its steps *)
(* and its committed record, then what its caller goes on with.            *)

(* Variant: the committed record written with the pending one.             *)
EnterCommitFirst(c, known, rest) ==
  /\ Admissible(c, disk, known)
  /\ wal' = Append(wal, [cmd |-> c, state |-> "pending"])
  /\ todo' = << Commit(Len(wal) + 1) >> \o Steps(c, disk) \o AfterCommit(c, disk) \o rest

Enter(c, known, rest) ==
  /\ Admissible(c, disk, known)
  /\ wal' = Append(wal, [cmd |-> c, state |-> "pending"])
  /\ todo' = Steps(c, disk) \o << Commit(Len(wal) + 1) >> \o AfterCommit(c, disk) \o rest

(* start_application refuses to start unless the log is clean.             *)
StartApplication ==
  /\ process = "none" /\ Pending = {}
  /\ process' = "app"
  /\ closed' = ClosedPeriods(disk)
  /\ UNCHANGED <<wal, disk, todo, faults>>

Begin(c) ==
  /\ process = "app" /\ todo = << >> /\ Len(wal) < MaxTxns
  /\ Enter(c, closed, << >>)
  /\ UNCHANGED <<disk, process, closed, faults>>

-----------------------------------------------------------------------------
(* One step of the run.                                                    *)

Ends == IF process' = "none" THEN {} ELSE closed

Leave(rest) ==
  /\ todo' = rest
  /\ process' = IF process = "cli" /\ rest = << >> THEN "none" ELSE process

Appendable(rec) ==
  /\ \A r \in disk : Key(r) # Key(rec)
  /\ rec.kind \notin RejectedEvents

Doing(what) == todo # << >> /\ Head(todo).do = what

AppendRecord ==
  /\ Doing("put")
  /\ Appendable(Head(todo).rec)
  /\ disk' = disk \cup {Head(todo).rec}
  /\ Leave(Tail(todo))
  /\ closed' = Ends
  /\ UNCHANGED <<wal, faults>>

CallOperation ==
  /\ Doing("call")
  /\ Enter(Priced(Head(todo).cmd, disk), closed, Tail(todo))
  /\ UNCHANGED <<disk, process, closed, faults>>

CommitTransaction ==
  /\ Doing("commit")
  /\ LET n == Head(todo).txn IN
     /\ wal' = [wal EXCEPT ![n].state = "committed"]
     /\ Leave(Tail(todo))
     /\ closed' = IF wal[n].cmd.op = "accounting.close_period" /\ process = "app"
                  THEN closed \cup {wal[n].cmd.doc} ELSE Ends
  /\ UNCHANGED <<disk, faults>>

(* The run ends with an exception; an application goes on.                 *)
Abandon ==
  /\ todo # << >>
  /\ todo' = << >>
  /\ process' = IF process = "cli" THEN "none" ELSE process
  /\ closed' = Ends
  /\ UNCHANGED <<wal, disk>>

(* ... because the record's key exists, the event's payload does not fit   *)
(* its schema, or the operation called refuses its command ...             *)
Refused ==
  /\ \/ Doing("put") /\ ~Appendable(Head(todo).rec)
     \/ Doing("call") /\ ~Admissible(Priced(Head(todo).cmd, disk), disk, closed)
  /\ Abandon
  /\ UNCHANGED faults

(* ... or because the store reported an error.                             *)
StoreFails ==
  /\ "error" \in Faults /\ faults < MaxFaults
  /\ Abandon
  /\ faults' = faults + 1

Crash ==
  /\ "crash" \in Faults /\ faults < MaxFaults
  /\ process # "none" /\ todo # << >>
  /\ process' = "none" /\ todo' = << >> /\ closed' = {}
  /\ faults' = faults + 1
  /\ UNCHANGED <<wal, disk>>

Stop ==
  /\ process = "app" /\ todo = << >>
  /\ process' = "none" /\ closed' = {}
  /\ UNCHANGED <<wal, disk, todo, faults>>

-----------------------------------------------------------------------------
(* The recovery command, run while the application is not.                 *)

UnsafePending == {n \in Pending : SideEffects(wal[n].cmd, disk) # {}}

(* Variant: only the transactions without records rolled back.             *)
RecoverSafeOnes ==
  /\ process = "none"
  /\ Pending \ UnsafePending # {}
  /\ wal' = [n \in Txns |-> IF n \in Pending \ UnsafePending
                            THEN [wal[n] EXCEPT !.state = "rolledback"] ELSE wal[n]]
  /\ UNCHANGED <<disk, todo, process, closed, faults>>

Recover ==
  /\ process = "none"
  /\ Pending # {} /\ UnsafePending = {}
  /\ wal' = [n \in Txns |-> IF n \in Pending THEN [wal[n] EXCEPT !.state = "rolledback"]
                                             ELSE wal[n]]
  /\ UNCHANGED <<disk, todo, process, closed, faults>>

Reconciled(n) == Has(disk, "reconciliation_records", n)

(* Variant: the decision recorded, the transaction left pending.           *)
ReconcileUncommitted(n, decision) ==
  /\ process = "none"
  /\ n \in Pending /\ ~Reconciled(n)
  /\ todo' = << Put("reconciliation_records", n, 0, [decision |-> decision]) >>
  /\ process' = "cli"
  /\ UNCHANGED <<wal, disk, closed, faults>>

Reconcile(n, decision) ==
  /\ process = "none"
  /\ n \in Pending /\ ~Reconciled(n)
  /\ todo' = << Put("reconciliation_records", n, 0, [decision |-> decision]) >>
             \o AuditAndEvent("recovery.reconciliation_recorded",
                              "recovery.reconciliation_recorded.v1", n, 0)
             \o If(decision = "accepted_existing_records", << Commit(n) >>)
  /\ process' = "cli"
  /\ UNCHANGED <<wal, disk, closed, faults>>

AwaitsAdjustment(n) ==
  /\ n \in Pending
  /\ \E r \in Of(disk, "reconciliation_records") :
       r.doc = n /\ r.n = 0 /\ r.data.decision = "requires_accounting_adjustment"
  /\ \A r \in Of(disk, "reconciliation_records") : r.doc = n => r.n = 0

(* Variant: the correction posted, the resolution not recorded.            *)
AdjustUnrecorded(n, c) ==
  /\ process = "none" /\ AwaitsAdjustment(n) /\ Len(wal) < MaxTxns
  /\ Enter([c EXCEPT !.source = n], ClosedPeriods(disk), << >>)
  /\ process' = "cli"
  /\ closed' = ClosedPeriods(disk)
  /\ UNCHANGED <<disk, faults>>

Adjust(n, c) ==
  /\ process = "none" /\ AwaitsAdjustment(n) /\ Len(wal) < MaxTxns
  /\ Enter([c EXCEPT !.source = n], ClosedPeriods(disk),
       << Put("reconciliation_records", n, 1, [decision |-> "requires_accounting_adjustment"]) >>
       \o AuditAndEvent("recovery.accounting_adjustment_resolved",
                        "recovery.reconciliation_recorded.v1", n, 1)
       \o << Commit(n) >>)
  /\ process' = "cli"
  /\ closed' = ClosedPeriods(disk)
  /\ UNCHANGED <<disk, faults>>

(* What the inspection report tells the operator to do next.  Pending      *)
(* transactions are looked at in log order, and the first that was not     *)
(* simply accepted decides.                                                *)
Decided(n) ==
  {r.data.decision : r \in {r \in Of(disk, "reconciliation_records") : r.doc = n /\ r.n = 0}}

FirstOpen == Min({n \in Pending : Decided(n) # {"accepted_existing_records"}})

AdviceFor(n) ==
  CASE Decided(n) = {} -> "reconcile"
    [] Decided(n) = {"requires_accounting_adjustment"} ->
         IF AwaitsAdjustment(n) THEN "resolve_accounting_adjustment" ELSE "inspect"
    [] Decided(n) = {"requires_restore_from_backup"} -> "restore_from_backup"
    [] Decided(n) = {"voided_as_incomplete"} -> "manual_void_resolution"

RecommendedNextAction ==
  IF Pending = {} THEN "normal_startup_allowed"
  ELSE IF UnsafePending = {} THEN "recover"
  ELSE IF \A n \in Pending : Decided(n) = {"accepted_existing_records"} THEN "inspect"
  ELSE AdviceFor(FirstOpen)

(* The operator does what the report says, for the transaction it is about.*)
FollowAdvice ==
  CASE RecommendedNextAction = "recover"   -> Recover
    [] RecommendedNextAction = "reconcile" -> \E d \in Decisions : Reconcile(FirstOpen, d)
    [] RecommendedNextAction = "resolve_accounting_adjustment" ->
         \E c \in Corrections : Adjust(FirstOpen, c)
    [] OTHER -> FALSE

Next ==
  \/ StartApplication \/ Stop
  \/ \E c \in Commands : Begin(c)
  \/ AppendRecord \/ CallOperation \/ CommitTransaction
  \/ Refused \/ StoreFails \/ Crash
  \/ Recover
  \/ \E n \in Txns : \/ \E d \in Decisions : Reconcile(n, d)
                     \/ \E c \in Corrections : Adjust(n, c)

Spec == Init /\ [][Next]_vars

(* The recovery command gets to run to its end each time it is started.    *)
Uninterrupted == process = "cli" => faults' = faults

(* The application may fail as often as it likes and recovery does not;    *)
(* a running command goes on, and while it does not run the operator gets  *)
(* to do what the report says.                                             *)
RecoverySpec ==
  /\ Init /\ [][Next /\ Uninterrupted]_vars
  /\ WF_vars(AppendRecord \/ CallOperation \/ CommitTransaction \/ Refused)
  /\ WF_vars(FollowAdvice)

-----------------------------------------------------------------------------
(* Properties.                                                             *)

Keys == {Key(r) : r \in disk}

(* The records an operation owes the files once it is committed.           *)
Owed(c) ==
  LET only(kinds) == {<<k, c.doc, 0>> : k \in kinds}
      each(kind)  == {<<kind, c.doc, i>> : i \in DOMAIN c.lines}
  IN
  CASE c.op = "inventory.register_item" ->
         only({"items", "inventory.item_registered", "inventory.item_registered.v1"})
    [] c.op = "inventory.commit_movement" ->
         {<<k, c.doc, c.n>> : k \in {"stock_movements", "inventory.stock_moved",
                                     "inventory.stock_moved.v1"}}
    [] c.op = "accounting.post_journal" ->
         only({"journal_entries", "accounting.journal_posted",
               "accounting.journal_posted.v1"}) \cup each("journal_lines")
    [] c.op = "accounting.close_period" ->
         only({"periods", "accounting.period_closed", "accounting.period_closed.v1"})
    [] c.op = "billing.create_invoice" ->
         only({"invoices", "journal_entries", "billing.invoice_created",
               "billing.sale_completed.v1"})
           \cup each("invoice_lines") \cup each("stock_movements")
    [] c.op = "billing.create_refund" ->
         only({"refunds", "journal_entries", "billing.refund_created",
               "billing.refund_completed.v1"})
           \cup each("refund_lines")
           \cup {<<"stock_movements", c.doc, i>> : i \in Restocked(c.lines)}

(* A committed transaction has all its records, audit record, event and    *)
(* nested journal and movements included, unless an administrator          *)
(* accepted it as it was.                                                  *)
CommittedComplete ==
  \A n \in Txns :
    wal[n].state = "committed" /\ ~Reconciled(n) => Owed(wal[n].cmd) \subseteq Keys

(* When the log is clean, every record in every file is owed by a          *)
(* committed transaction: automatic rollback never leaves a record behind. *)
HealthyMeansCovered ==
  Pending = {} =>
    \A r \in disk : r.doc \notin Txns =>
      \E n \in Txns : wal[n].state = "committed" /\ Key(r) \in Owed(wal[n].cmd)

(* The services use the log as TxnLog allows: no transaction is committed  *)
(* twice, or after a rollback, and a rollback takes all pending ones.      *)
LogStatus ==
  [n \in 1..(MaxTxns + 4) |-> IF n \in Txns THEN wal[n].state ELSE "absent"]

Log == INSTANCE TxnLog WITH Txn <- 1..(MaxTxns + 4), status <- LogStatus

LogRefinement == Log!Spec

(* Without faults every operation that began ends with its log record      *)
(* committed: what a service validates up front is enough for the          *)
(* operations it calls, and for the event schemas.                         *)
FaultFreeStaysHealthy == todo = << >> => Pending = {}

PeriodsInUse ==
  {r.data.period : r \in UNION {Of(disk, k) :
     k \in {"journal_entries", "stock_movements", "invoices", "refunds"}}}

(* Whenever the system is idle with a clean log the reconciliation report  *)
(* passes for every period: the close can never be blocked by what the     *)
(* system itself wrote.                                                    *)
BooksReconcile ==
  todo = << >> /\ Pending = {} => \A p \in PeriodsInUse : Reconciles(disk, p)

(* The refund availability report offers exactly what create_refund        *)
(* accepts: any smaller quantity of a row goes through, one more does not. *)
RefundOf(row, quantity) ==
  [op |-> "billing.create_refund", doc |-> NoData, invoice |-> row.invoice,
   period |-> NoData, movePeriod |-> NoData,
   currency |-> (CHOOSE h \in Of(disk, "invoices") : h.doc = row.invoice).data.currency,
   lines |-> << [item |-> row.item, quantity |-> quantity, price |-> row.price,
                 restock |-> FALSE] >>]

AvailabilityExact ==
  \A row \in AvailabilityRows(disk, PeriodsInUse) :
    \A quantity \in 1..(OriginalQuantity(disk, row) + 1) :
      RefundAdmissible(RefundOf(row, quantity), disk, closed)
        <=> quantity <= RemainingQuantity(disk, row)

(* No failure leaves lines that make the availability and revenue reports  *)
(* fail: a line is on disk only under its header, and a refund only under  *)
(* its invoice, whatever was interrupted, rolled back or accepted.         *)
ReportsReadable == AvailabilityReadable(disk)

Currencies == {h.data.currency : h \in Of(disk, "invoices") \cup Of(disk, "refunds")}

(* Revenue is the same read from the ledger (profit and loss), from        *)
(* headers (invoice and refund reports) and from lines (by business unit). *)
RevenueAgrees ==
  todo = << >> /\ Pending = {} =>
    \A p \in PeriodsInUse, currency \in Currencies :
      LET ledger  == ProfitAndLoss(disk, p, currency).netRevenue
          byUnit  == BusinessUnitRevenue(disk, {p}, currency)
      IN  /\ ledger = InvoiceReport(disk, {p}, currency).subtotal
                        - RefundReport(disk, {p}, currency).subtotal
          /\ ledger = SumFunction(byUnit)

(* Net income is what the revenue and expense accounts of the period come  *)
(* to, and the tax report shows what was collected less what was returned. *)
IncomeFromLedger ==
  todo = << >> /\ Pending = {} =>
    \A p \in PeriodsInUse, currency \in Currencies :
      /\ OneCurrencyPerAccount(disk, p)
      /\ ProfitAndLoss(disk, p, currency).netIncome
           = -SumFunction([a \in Revenue \cup Expense |-> DebitBalance(disk, p, a)])
      /\ LET tax == TaxReport(disk, p, currency) IN
         tax.payable = tax.collected - RefundReport(disk, {p}, currency).tax

(* Selling at a rounded average and taking goods back at what they were    *)
(* sold for, in any order with new purchases, never makes the stock of an  *)
(* item in the stock report, or its value, negative.                       *)
StockValueSound ==
  LET rows == StockReport(disk, 0) IN
  \A i \in DOMAIN rows : rows[i].quantity >= 0 /\ rows[i].value >= 0

(* The journal lines of a closed period balance.                           *)
ClosedBooksBalance ==
  \A p \in ClosedPeriods(disk) :
    SumOf("debit", InPeriod(disk, "journal_lines", p))
      = SumOf("credit", InPeriod(disk, "journal_lines", p))

(* However many refunds are asked for, retried or interrupted, the ledger  *)
(* never returns more of an invoice than was sold.                         *)
RefundsWithinInvoice ==
  \A v \in Of(disk, "invoices") :
    SumOf("debit",
      {r \in Of(disk, "journal_lines") :
         /\ r.data.account = "4100"
         /\ \E c \in Commands :
              c.op = "billing.create_refund" /\ c.invoice = v.doc /\ c.doc = r.doc})
    <= v.data.subtotal

Financial(d, p) ==
  UNION {InPeriod(d, k, p) : k \in {"journal_entries", "journal_lines",
                                    "stock_movements", "invoices", "refunds"}}

(* Once the record that closes a period is on disk, no step of any process *)
(* adds a financial record to that period.                                 *)
ClosedPeriodSealed ==
  [][\A p \in ClosedPeriods(disk) : Financial(disk', p) = Financial(disk, p)]_vars

(* While transactions are pending and no process runs, some recovery       *)
(* command applies, unless an administrator chose one of the decisions     *)
(* that end automatic handling.                                            *)
RecoveryPossible ==
  process = "none" /\ Pending # {} =>
    \/ UnsafePending = {}
    \/ \E n \in Pending : ~Reconciled(n) \/ AwaitsAdjustment(n)
    \/ \E r \in Of(disk, "reconciliation_records") :
         r.data.decision \in {"voided_as_incomplete", "requires_restore_from_backup"}

(* The report never leaves the operator with nothing to do but look again. *)
NeverJustInspect ==
  process = "none" /\ Pending # {} => RecommendedNextAction # "inspect"

(* Whatever a crash left pending, an operator who keeps doing what the     *)
(* report says gets to a clean log, or to a decision of an administrator   *)
(* that needs work outside the program; never to a report that only says   *)
(* to look again.                                                          *)
AdviceLeadsOut ==
  process = "none" /\ Pending # {}
    ~> RecommendedNextAction \in {"normal_startup_allowed", "restore_from_backup",
                                  "manual_void_resolution"}

(* A transaction is corrected by one journal at most.                      *)
OneCorrectionPerTransaction ==
  \A n \in Txns :
    Cardinality({r \in Of(disk, "journal_entries") : r.data.source = n}) <= 1
=============================================================================
