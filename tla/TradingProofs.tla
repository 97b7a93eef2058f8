---------------------------- MODULE TradingProofs ----------------------------
(***************************************************************************)
(* What the numbers in the files come to, for every set of commands,       *)
(* every tax rate and files of any size: stock and its value, what is      *)
(* left to refund, closed books and completion without faults.             *)
(***************************************************************************)
EXTENDS WorkflowsProofs, BooksProofs

-----------------------------------------------------------------------------
(* The steps of each operation.                                            *)

LEMMA Audited ==
  ASSUME NEW kind, NEW action, NEW event, NEW doc, NEW n, NEW data
  PROVE  LET s == << Put(kind, doc, n, data) >> \o AuditAndEvent(action, event, doc, n) IN
         \A x : In(x, s) => \/ x = Put(kind, doc, n, data)
                            \/ x = Put(action, doc, n, NoData)
                            \/ x = Put(event, doc, n, NoData)
BY OneStep, TwoSteps, Members DEF AuditAndEvent

EntryPut(c) ==
  Put("journal_entries", c.doc, 0,
      [period |-> c.period, source |-> c.source,
       debit |-> Debits(c.lines), credit |-> Credits(c.lines)])

LinePut(c, i) ==
  Put("journal_lines", c.doc, i,
      [period |-> c.period, currency |-> c.currency, account |-> c.lines[i].account,
       debit |-> c.lines[i].debit, credit |-> c.lines[i].credit])

LEMMA LinesAre ==
  ASSUME NEW c, Command(c), "lines" \in DOMAIN c
  PROVE  Len(c.lines) \in Nat /\ DOMAIN c.lines = 1..Len(c.lines) /\ IsFiniteSet(DOMAIN c.lines)
BY FS_Interval DEF Command

LEMMA JournalIs ==
  ASSUME NEW c, Command(c), c.op = "accounting.post_journal"
  PROVE  \A x : In(x, JournalSteps(c)) =>
           \/ x = EntryPut(c)
           \/ \E i \in DOMAIN c.lines : x = LinePut(c, i)
           \/ x = Put("accounting.journal_posted", c.doc, 0, NoData)
           \/ x = Put("accounting.journal_posted.v1", c.doc, 0, NoData)
<1>. DEFINE f == [i \in DOMAIN c.lines |-> LinePut(c, i)]
            s == << EntryPut(c) >> \o f
            e == AuditAndEvent("accounting.journal_posted", "accounting.journal_posted.v1",
                               c.doc, 0)
<1>1. JournalSteps(c) = s \o e
  BY DEF JournalSteps, EntryPut, LinePut
<1>2. Len(c.lines) \in Nat /\ DOMAIN c.lines = 1..Len(c.lines)
  BY LinesAre DEF Command, Fields
<1>3. IsSeq(f) /\ \A x : In(x, f) <=> \E i \in DOMAIN c.lines : x = f[i]
  <2>1. f = [i \in 1..Len(c.lines) |-> f[i]]
    BY <1>2
  <2>. HIDE DEF f
  <2>. QED  BY <1>2, <2>1, OneStepPerLine
<1>4. \A x : In(x, f) => \E i \in DOMAIN c.lines : x = LinePut(c, i)
  BY <1>3
<1>. HIDE DEF f
<1>5. IsSeq(s) /\ \A x : In(x, s) => x = EntryPut(c) \/ In(x, f)
  BY <1>3, OneStep, Concatenation, Members
<1>6. IsSeq(e) /\ \A x : In(x, e) => \/ x = Put("accounting.journal_posted", c.doc, 0, NoData)
                                     \/ x = Put("accounting.journal_posted.v1", c.doc, 0, NoData)
  BY TwoSteps DEF AuditAndEvent
<1>. HIDE DEF s, e
<1>. QED  BY <1>1, <1>4, <1>5, <1>6, Members

(* Sales and refunds.                                                      *)
LEMMA DocumentIs ==
  ASSUME NEW a, NEW m, NEW h, NEW f, NEW b, NEW e, IsSeq(m), IsSeq(f), NEW x,
         In(x, << a >> \o m \o << h >> \o f \o << b, e >>)
  PROVE  x = a \/ In(x, m) \/ x = h \/ In(x, f) \/ x = b \/ x = e
<1>. DEFINE s1 == << a >> \o m
            s2 == s1 \o << h >>
            s3 == s2 \o f
<1>1. IsSeq(s1) /\ \A y : In(y, s1) => y = a \/ In(y, m)
  BY OneStep, Concatenation, Members
<1>2. In(x, s3 \o << b, e >>)
  OBVIOUS
<1>. HIDE DEF s1
<1>3. IsSeq(s2) /\ \A y : In(y, s2) => y = h \/ In(y, s1)
  BY <1>1, OneStep, Concatenation, Members
<1>. HIDE DEF s2
<1>4. IsSeq(s3) /\ \A y : In(y, s3) => In(y, s2) \/ In(y, f)
  BY <1>3, Concatenation, Members
<1>. HIDE DEF s3
<1>5. In(x, s3) \/ x = b \/ x = e
  BY <1>2, <1>4, TwoSteps, Members
<1>. QED  BY <1>1, <1>3, <1>4, <1>5

SaleMovement(c, i) ==
  Movement(c.doc, i, c.lines[i].item, -c.lines[i].quantity, 0, c.movePeriod, "sale")

InvoicePut(c) ==
  Put("invoices", c.doc, 0, [period |-> c.period, currency |-> c.currency,
                             subtotal |-> Subtotal(c.lines), tax |-> Tax(c.lines)])

InvoiceLinePut(c, d, i) ==
  Put("invoice_lines", c.doc, i, LineData(c, i, InvoiceCogs(c, d), d))

LEMMA InvoiceIs ==
  ASSUME NEW c, NEW d, Command(c), c.op = "billing.create_invoice"
  PROVE  \A x : In(x, InvoiceSteps(c, d)) =>
           \/ x = Call(InvoiceJournal(c, SumFunction(InvoiceCogs(c, d))))
           \/ \E i \in DOMAIN c.lines : x = Call(SaleMovement(c, i))
           \/ x = InvoicePut(c)
           \/ \E i \in DOMAIN c.lines : x = InvoiceLinePut(c, d, i)
           \/ x = Put("billing.invoice_created", c.doc, 0, NoData)
           \/ x = Put("billing.sale_completed.v1", c.doc, 0, NoData)
<1>. DEFINE a == Call(InvoiceJournal(c, SumFunction(InvoiceCogs(c, d))))
            m == [i \in DOMAIN c.lines |-> Call(SaleMovement(c, i))]
            f == [i \in DOMAIN c.lines |-> InvoiceLinePut(c, d, i)]
            b == Put("billing.invoice_created", c.doc, 0, NoData)
            e == Put("billing.sale_completed.v1", c.doc, 0, NoData)
<1>1. InvoiceSteps(c, d) = << a >> \o m \o << InvoicePut(c) >> \o f \o << b, e >>
  BY DEF InvoiceSteps, SaleMovement, InvoicePut, InvoiceLinePut
<1>2. Len(c.lines) \in Nat /\ DOMAIN c.lines = 1..Len(c.lines)
  BY LinesAre DEF Command, Fields
<1>3. /\ IsSeq(m) /\ \A x : In(x, m) <=> \E i \in DOMAIN c.lines : x = m[i]
      /\ IsSeq(f) /\ \A x : In(x, f) <=> \E i \in DOMAIN c.lines : x = f[i]
  <2>1. m = [i \in 1..Len(c.lines) |-> m[i]] /\ f = [i \in 1..Len(c.lines) |-> f[i]]
    BY <1>2
  <2>. HIDE DEF m, f
  <2>2. IsSeq(m) /\ \A x : In(x, m) <=> \E i \in 1..Len(c.lines) : x = m[i]
    BY <1>2, <2>1, OneStepPerLine
  <2>3. IsSeq(f) /\ \A x : In(x, f) <=> \E i \in 1..Len(c.lines) : x = f[i]
    BY <1>2, <2>1, OneStepPerLine
  <2>. QED  BY <1>2, <2>2, <2>3
<1>4. /\ \A x : In(x, m) => \E i \in DOMAIN c.lines : x = Call(SaleMovement(c, i))
      /\ \A x : In(x, f) => \E i \in DOMAIN c.lines : x = InvoiceLinePut(c, d, i)
  BY <1>3
<1>. HIDE DEF a, m, f, b, e
<1>5. ASSUME NEW x, In(x, InvoiceSteps(c, d))
      PROVE  x = a \/ In(x, m) \/ x = InvoicePut(c) \/ In(x, f) \/ x = b \/ x = e
  BY <1>1, <1>3, <1>5, DocumentIs
<1>. QED  BY <1>4, <1>5 DEF a, b, e

RefundPut(c) ==
  Put("refunds", c.doc, 0, [invoice |-> c.invoice, period |-> c.period,
                            currency |-> c.currency,
                            subtotal |-> Subtotal(c.lines), tax |-> Tax(c.lines)])

RefundLinePut(c, d, i) ==
  Put("refund_lines", c.doc, i, LineData(c, i, RefundCogs(c, d), d))

LEMMA RestockedLines ==
  ASSUME NEW c, Command(c), "lines" \in DOMAIN c
  PROVE  LET n == Cardinality(Restocked(c.lines)) IN
         /\ n \in Nat
         /\ \A k \in 1..n : KthRestocked(c.lines, k) \in DOMAIN c.lines
<1>1. PICK lines : lines = c.lines
  OBVIOUS
<1>2. Len(lines) \in Nat /\ DOMAIN lines = 1..Len(lines)
  BY <1>1, LinesAre
<1>3. /\ Cardinality(Restocked(lines)) \in Nat
      /\ \A k \in 1..Cardinality(Restocked(lines)) : KthRestocked(lines, k) \in Restocked(lines)
  BY ONLY <1>2, EveryRestockedLine
<1>4. Restocked(lines) \subseteq DOMAIN lines
  BY DEF Restocked
<1>. QED  BY ONLY <1>1, <1>3, <1>4

LEMMA RefundIs ==
  ASSUME NEW c, NEW d, Command(c), c.op = "billing.create_refund"
  PROVE  \A x : In(x, RefundSteps(c, d)) =>
           \/ x = Call(RefundJournal(c, SumFunction(RefundCogs(c, d))))
           \/ \E i \in DOMAIN c.lines : x = Call(ReturnMovement(c, i, d))
           \/ x = RefundPut(c)
           \/ \E i \in DOMAIN c.lines : x = RefundLinePut(c, d, i)
           \/ x = Put("billing.refund_created", c.doc, 0, NoData)
           \/ x = Put("billing.refund_completed.v1", c.doc, 0, NoData)
<1>. DEFINE n == Cardinality(Restocked(c.lines))
            a == Call(RefundJournal(c, SumFunction(RefundCogs(c, d))))
            m == [k \in 1..n |-> Call(ReturnMovement(c, KthRestocked(c.lines, k), d))]
            f == [i \in DOMAIN c.lines |-> RefundLinePut(c, d, i)]
            b == Put("billing.refund_created", c.doc, 0, NoData)
            e == Put("billing.refund_completed.v1", c.doc, 0, NoData)
<1>1. RefundSteps(c, d) = << a >> \o m \o << RefundPut(c) >> \o f \o << b, e >>
  BY DEF RefundSteps, RefundPut, RefundLinePut
<1>2. "lines" \in DOMAIN c /\ Len(c.lines) \in Nat /\ DOMAIN c.lines = 1..Len(c.lines)
  BY LinesAre DEF Command, Fields
<1>3. n \in Nat /\ \A k \in 1..n : KthRestocked(c.lines, k) \in DOMAIN c.lines
  BY <1>2, RestockedLines
<1>4. /\ IsSeq(m) /\ \A x : In(x, m) <=> \E k \in 1..n : x = m[k]
      /\ IsSeq(f) /\ \A x : In(x, f) <=> \E i \in DOMAIN c.lines : x = f[i]
  <2>1. m = [k \in 1..n |-> m[k]] /\ f = [i \in 1..Len(c.lines) |-> f[i]]
    BY <1>2
  <2>. HIDE DEF m, f, n
  <2>2. IsSeq(m) /\ \A x : In(x, m) <=> \E k \in 1..n : x = m[k]
    BY <1>3, <2>1, OneStepPerLine
  <2>3. IsSeq(f) /\ \A x : In(x, f) <=> \E i \in 1..Len(c.lines) : x = f[i]
    BY <1>2, <2>1, OneStepPerLine
  <2>. QED  BY <1>2, <2>2, <2>3
<1>5. /\ \A x : In(x, m) => \E i \in DOMAIN c.lines : x = Call(ReturnMovement(c, i, d))
      /\ \A x : In(x, f) => \E i \in DOMAIN c.lines : x = RefundLinePut(c, d, i)
  BY <1>3, <1>4
<1>. HIDE DEF a, m, f, b, e
<1>6. ASSUME NEW x, In(x, RefundSteps(c, d))
      PROVE  x = a \/ In(x, m) \/ x = RefundPut(c) \/ In(x, f) \/ x = b \/ x = e
  BY <1>1, <1>4, <1>6, DocumentIs
<1>. QED  BY <1>5, <1>6 DEF a, b, e

(* What an operation leaves to do: its own steps, the committed record and *)
(* the journal of a movement.                                              *)
LEMMA PieceIs ==
  ASSUME NEW c, NEW d, NEW n, Command(c)
  PROVE  \A x : In(x, Piece(c, d, n)) =>
           \/ In(x, Steps(c, d))
           \/ x = Commit(n)
           \/ /\ c.op = "inventory.commit_movement" /\ c.by = "use_case"
              /\ ValueDelta(c, d) # 0
              /\ x = Call(MovementJournal(c, ValueDelta(c, d)))
<1>. DEFINE p == Piece(c, d, n)
            s == Len(Steps(c, d))
<1>1. /\ IsSeq(p) /\ s \in Nat /\ p[s + 1] = Commit(n)
      /\ \A i \in 1..s : p[i] = Steps(c, d)[i]
      /\ \A i \in DOMAIN p : i > s + 1 => In(p[i], AfterCommit(c, d))
  BY PieceFacts
<1>2. DOMAIN p = 1..Len(p) /\ Len(p) \in Nat /\ DOMAIN Steps(c, d) = 1..s
  BY <1>1, StepsFulfil, Concatenation DEF Fulfil
<1>. HIDE DEF p, s
<1>3. \A i \in DOMAIN p : i \in 1..s \/ i = s + 1 \/ i > s + 1
  BY <1>1, <1>2
<1>4. \A x : In(x, AfterCommit(c, d)) =>
        /\ c.op = "inventory.commit_movement" /\ c.by = "use_case"
        /\ ValueDelta(c, d) # 0
        /\ x = Call(MovementJournal(c, ValueDelta(c, d)))
  BY OneStep, NoSteps DEF AfterCommit, If
<1>. QED  BY <1>1, <1>2, <1>3, <1>4 DEF In, p

-----------------------------------------------------------------------------
(* Records hold whole numbers, and an operation calls no other but the     *)
(* posting of a journal and, to issue goods for a sale or to take back     *)
(* those of a refund, the movement of stock.                               *)

Docs == {c.doc : c \in Commands}

SaneRecord(r) ==
  /\ r.kind = "stock_movements" => r.data.quantity \in Int /\ r.data.value \in Int
  /\ r.kind \in {"journal_entries", "journal_lines"} =>
       r.data.debit \in Int /\ r.data.credit \in Int
  /\ r.kind \in {"invoices", "refunds"} => r.data.subtotal \in Int /\ r.data.tax \in Int
  /\ r.kind \in {"invoice_lines", "refund_lines"} =>
       r.data.quantity \in Int /\ r.data.cogs \in Int /\ r.data.subtotal \in Int
  /\ r.kind = "invoice_lines" => r.data.price \in Nat
  /\ r.kind \in {"refunds", "periods"} => r.doc \in Docs

SaneCall(c) ==
  /\ Command(c) /\ Numbers(c)
  /\ c.op \in {"accounting.post_journal", "inventory.commit_movement"}
  /\ c.op = "inventory.commit_movement" /\ c.quantity < 0 => c.by = "sale"

Sane(x) ==
  /\ x.do = "put" => SaneRecord(x.rec)
  /\ x.do = "call" => SaneCall(x.cmd)

SaneDisk(d) == IsFiniteSet(d) /\ \A r \in d : SaneRecord(r)

LEMMA Divided ==
  ASSUME NEW a \in Int, NEW b \in Int, b > 0
  PROVE  a \div b \in Int
OBVIOUS

LEMMA SaneStock ==
  ASSUME NEW d, SaneDisk(d), NEW item
  PROVE  /\ Integral("quantity", StockMovements(d, item))
         /\ Integral("value", StockMovements(d, item))
         /\ StockOnHand(d, item) \in Int
         /\ InventoryValue(d, item) \in Int
         /\ WeightedAverageUnitCost(d, item) \in Int
<1>1. IsFiniteSet(StockMovements(d, item))
  BY FS_Subset DEF StockMovements, Of, SaneDisk
<1>2. /\ Integral("quantity", StockMovements(d, item))
      /\ Integral("value", StockMovements(d, item))
  BY <1>1 DEF StockMovements, Of, SaneDisk, SaneRecord, Integral
<1>3. StockOnHand(d, item) \in Int /\ InventoryValue(d, item) \in Int
  BY <1>2, SumOfType DEF StockOnHand, InventoryValue
<1>. QED  BY <1>2, <1>3, Divided DEF WeightedAverageUnitCost

LEMMA SaneSold ==
  ASSUME NEW d, SaneDisk(d), NEW invoice, NEW item, NEW price
  PROVE  /\ Quantity(SoldLines(d, invoice, item, price)) \in Int
         /\ Quantity(RefundedLines(d, invoice, item, price)) \in Int
         /\ SoldUnitCost(d, invoice, item, price) \in Int
<1>. DEFINE S == SoldLines(d, invoice, item, price)
            R == RefundedLines(d, invoice, item, price)
<1>1. IsFiniteSet(S) /\ IsFiniteSet(R)
  BY FS_Subset DEF SoldLines, RefundedLines, Of, SaneDisk
<1>2. Integral("quantity", S) /\ Integral("cogs", S) /\ Integral("quantity", R)
  BY <1>1 DEF SoldLines, RefundedLines, Of, SaneDisk, SaneRecord, Integral
<1>3. Quantity(S) \in Int /\ SumOf("cogs", S) \in Int /\ Quantity(R) \in Int
  BY <1>2, SumOfType DEF Quantity
<1>. HIDE DEF S, R
<1>4. SoldUnitCost(d, invoice, item, price)
        = IF Quantity(S) <= 0 THEN 0 ELSE SumOf("cogs", S) \div Quantity(S)
  BY DEF SoldUnitCost, S
<1>. QED  BY <1>3, <1>4, Divided DEF S, R

LEMMA SumLines ==
  ASSUME NEW f, IsFiniteSet(DOMAIN f), \A i \in DOMAIN f : f[i] \in Int
  PROVE  SumFunction(f) \in Int
BY SumType DEF SumFunction

LEMMA SaneTotals ==
  ASSUME NEW c, Command(c), Numbers(c),
         c.op \in {"billing.create_invoice", "billing.create_refund"}
  PROVE  Subtotal(c.lines) \in Int /\ Tax(c.lines) \in Int
<1>. DEFINE f == [i \in DOMAIN c.lines |-> c.lines[i].quantity * c.lines[i].price]
<1>1. "lines" \in DOMAIN c
  BY DEF Command, Fields
<1>2. IsFiniteSet(DOMAIN f) /\ \A i \in DOMAIN f : f[i] \in Int
  BY <1>1, LinesAre DEF Numbers
<1>3. Subtotal(c.lines) = SumFunction(f)
  BY DEF Subtotal
<1>. HIDE DEF f
<1>4. Subtotal(c.lines) \in Int
  BY <1>2, <1>3, SumLines
<1>. QED  BY <1>4, TaxRateAssumption, Divided DEF Tax

(* The lines of the journals that the program makes up.                    *)
Amounts(lines) == IsSeq(lines) /\ \A x : In(x, lines) => x.debit \in Int /\ x.credit \in Int

LEMMA AmountsOf ==
  ASSUME NEW account, NEW amount \in Int
  PROVE  /\ \A x \in {Debit(account, amount), Credit(account, amount)} :
              x.debit \in Int /\ x.credit \in Int
BY DEF Debit, Credit

LEMMA SaneJournal ==
  ASSUME NEW doc, NEW period, NEW source, NEW currency, NEW lines, Amounts(lines)
  PROVE  LET j == Journal(doc, period, source, currency, lines) IN
         SaneCall(j) /\ Sane(Call(j))
<1>. DEFINE j == Journal(doc, period, source, currency, lines)
<1>1. Command(j)
  BY JournalCommand DEF Amounts
<1>2. j.op = "accounting.post_journal" /\ j.lines = lines
  BY DEF Journal
<1>. HIDE DEF j
<1>3. SaneCall(j)
  BY <1>1, <1>2 DEF SaneCall, Numbers, Amounts, In
<1>. QED  BY <1>3 DEF Sane, Call, j

LEMMA SaneMovement ==
  ASSUME NEW doc, NEW n, NEW item, NEW quantity \in Int, NEW cost \in Int, NEW period, NEW by,
         quantity < 0 => by = "sale"
  PROVE  LET m == Movement(doc, n, item, quantity, cost, period, by) IN
         SaneCall(m) /\ Sane(Call(m))
<1>. DEFINE m == Movement(doc, n, item, quantity, cost, period, by)
<1>1. Command(m)
  BY MovementCommand
<1>2. /\ m.op = "inventory.commit_movement" /\ m.quantity = quantity /\ m.cost = cost
      /\ m.by = by
  BY DEF Movement
<1>. HIDE DEF m
<1>3. SaneCall(m)
  BY <1>1, <1>2 DEF SaneCall, Numbers
<1>. QED  BY <1>3 DEF Sane, Call, m

LEMMA AmountsJoined ==
  ASSUME NEW a, NEW b, NEW x, NEW y, NEW s, NEW t, Amounts(<< a, b >>),
         x => Amounts(s), y => Amounts(t)
  PROVE  Amounts(<< a, b >> \o If(x, s) \o If(y, t))
<1>1. Amounts(<< >>)
  BY NoSteps DEF Amounts
<1>2. Amounts(If(x, s)) /\ Amounts(If(y, t))
  BY <1>1 DEF If
<1>3. \A u, v : Amounts(u) /\ Amounts(v) => Amounts(u \o v)
  BY Concatenation, Members DEF Amounts
<1>. QED  BY <1>2, <1>3

LEMMA AmountsPair ==
  ASSUME NEW a, NEW b, NEW x \in Int, NEW y \in Int
  PROVE  /\ Amounts(<< Debit(a, x), Credit(b, y) >>)
         /\ Amounts(<< Debit(a, x) >>) /\ Amounts(<< Credit(a, x) >>)
BY AmountsOf, OneStep, TwoSteps DEF Amounts

LEMMA SaneCogs ==
  ASSUME NEW c, NEW d, Command(c), Numbers(c), SaneDisk(d),
         c.op \in {"billing.create_invoice", "billing.create_refund"}
  PROVE  /\ \A i \in DOMAIN c.lines : RefundUnitCost(c, d, i) \in Int
         /\ \A i \in DOMAIN c.lines : InvoiceCogs(c, d)[i] \in Int /\ RefundCogs(c, d)[i] \in Int
         /\ SumFunction(InvoiceCogs(c, d)) \in Int /\ SumFunction(RefundCogs(c, d)) \in Int
<1>1. IsFiniteSet(DOMAIN c.lines) /\ \A i \in DOMAIN c.lines : c.lines[i].quantity \in Int
  BY LinesAre DEF Command, Fields, Numbers
<1>2. \A i \in DOMAIN c.lines : RefundUnitCost(c, d, i) \in Int
  BY SaneSold DEF RefundUnitCost
<1>3. \A i \in DOMAIN c.lines : WeightedAverageUnitCost(d, c.lines[i].item) \in Int
  BY SaneStock
<1>4. \A i \in DOMAIN c.lines : InvoiceCogs(c, d)[i] \in Int /\ RefundCogs(c, d)[i] \in Int
  BY <1>1, <1>2, <1>3 DEF InvoiceCogs, RefundCogs
<1>5. DOMAIN InvoiceCogs(c, d) = DOMAIN c.lines /\ DOMAIN RefundCogs(c, d) = DOMAIN c.lines
  BY DEF InvoiceCogs, RefundCogs
<1>. QED  BY <1>1, <1>2, <1>4, <1>5, SumLines

LEMMA SaneInvoiceJournal ==
  ASSUME NEW c, NEW cogs \in Int, Subtotal(c.lines) \in Int, Tax(c.lines) \in Int
  PROVE  SaneCall(InvoiceJournal(c, cogs)) /\ Sane(Call(InvoiceJournal(c, cogs)))
<1>1. Subtotal(c.lines) + Tax(c.lines) \in Int
  OBVIOUS
<1>. QED  BY <1>1, AmountsPair, AmountsJoined, SaneJournal DEF InvoiceJournal

LEMMA SaneRefundJournal ==
  ASSUME NEW c, NEW cogs \in Int, Subtotal(c.lines) \in Int, Tax(c.lines) \in Int
  PROVE  SaneCall(RefundJournal(c, cogs)) /\ Sane(Call(RefundJournal(c, cogs)))
<1>1. Subtotal(c.lines) + Tax(c.lines) \in Int
  OBVIOUS
<1>. QED  BY <1>1, AmountsPair, AmountsJoined, SaneJournal DEF RefundJournal

LEMMA SaneMovementJournal ==
  ASSUME NEW c, NEW value \in Int
  PROVE  SaneCall(MovementJournal(c, value)) /\ Sane(Call(MovementJournal(c, value)))
<1>1. -value \in Int
  OBVIOUS
<1>. QED  BY <1>1, AmountsPair, SaneJournal DEF MovementJournal

LEMMA SaneValue ==
  ASSUME NEW c, NEW d, c.op = "inventory.commit_movement", Numbers(c), SaneDisk(d)
  PROVE  ValueDelta(c, d) \in Int
BY SaneStock DEF ValueDelta, UnitCost, Numbers

(* A record of another kind than those with amounts.                       *)
LEMMA SanePut ==
  ASSUME NEW kind, NEW doc, NEW n, NEW data,
         kind \notin {"stock_movements", "journal_entries", "journal_lines", "invoices",
                      "refunds", "invoice_lines", "refund_lines", "periods"}
  PROVE  Sane(Put(kind, doc, n, data))
BY DEF Sane, SaneRecord, Put

LEMMA SaneJournalSteps ==
  ASSUME NEW c, Command(c), Numbers(c), c.op = "accounting.post_journal"
  PROVE  \A x : In(x, JournalSteps(c)) => Sane(x)
<1>1. IsFiniteSet(DOMAIN c.lines)
  BY LinesAre DEF Command, Fields
<1>2. \A i \in DOMAIN c.lines : c.lines[i].debit \in Int /\ c.lines[i].credit \in Int
  BY DEF Numbers
<1>3. Debits(c.lines) \in Int /\ Credits(c.lines) \in Int
  <2>. DEFINE f == [i \in DOMAIN c.lines |-> c.lines[i].debit]
              g == [i \in DOMAIN c.lines |-> c.lines[i].credit]
  <2>1. /\ DOMAIN f = DOMAIN c.lines /\ DOMAIN g = DOMAIN c.lines
        /\ \A i \in DOMAIN c.lines : f[i] \in Int /\ g[i] \in Int
    BY <1>2
  <2>2. Debits(c.lines) = SumFunction(f) /\ Credits(c.lines) = SumFunction(g)
    BY DEF Debits, Credits
  <2>. HIDE DEF f, g
  <2>. QED  BY <1>1, <2>1, <2>2, SumLines
<1>4. Sane(EntryPut(c))
  BY <1>3 DEF Sane, SaneRecord, EntryPut, Put
<1>5. \A i \in DOMAIN c.lines : Sane(LinePut(c, i))
  BY <1>2 DEF Sane, SaneRecord, LinePut, Put
<1>. QED  BY <1>4, <1>5, JournalIs, SanePut

LEMMA SaneMovementSteps ==
  ASSUME NEW c, NEW d, Numbers(c), SaneDisk(d), c.op = "inventory.commit_movement"
  PROVE  \A x : In(x, MovementSteps(c, d)) => Sane(x)
<1>. DEFINE a == Put("stock_movements", c.doc, c.n,
                     [item |-> c.item, quantity |-> c.quantity, period |-> c.period,
                      value |-> ValueDelta(c, d)])
<1>1. c.quantity \in Int /\ ValueDelta(c, d) \in Int
  BY SaneValue DEF Numbers
<1>2. Sane(a)
  BY <1>1 DEF Sane, SaneRecord, Put
<1>3. MovementSteps(c, d) = << a >> \o AuditAndEvent("inventory.stock_moved",
                                                     "inventory.stock_moved.v1", c.doc, c.n)
  BY DEF MovementSteps
<1>. QED  BY <1>2, <1>3, Audited, SanePut

LEMMA SaneItemAndClose ==
  ASSUME NEW c
  PROVE  /\ \A x : In(x, ItemSteps(c)) => Sane(x)
         /\ c.doc \in Docs => \A x : In(x, CloseSteps(c)) => Sane(x)
<1>1. c.doc \in Docs => Sane(Put("periods", c.doc, 0, NoData))
  BY DEF Sane, SaneRecord, Put
<1>. QED  BY <1>1, Audited, SanePut DEF ItemSteps, CloseSteps

LEMMA SaneInvoiceSteps ==
  ASSUME NEW c, NEW d, NEW known, Command(c), Numbers(c), SaneDisk(d),
         c.op = "billing.create_invoice", InvoiceAdmissible(c, d, known)
  PROVE  \A x : In(x, InvoiceSteps(c, d)) => Sane(x)
<1>. DEFINE cogs == InvoiceCogs(c, d)
<1>1. /\ Subtotal(c.lines) \in Int /\ Tax(c.lines) \in Int /\ SumFunction(cogs) \in Int
      /\ \A i \in DOMAIN c.lines : cogs[i] \in Int
  BY SaneTotals, SaneCogs
<1>2. \A i \in DOMAIN c.lines :
        /\ c.lines[i].quantity \in Int /\ c.lines[i].quantity > 0
        /\ c.lines[i].price \in Int /\ c.lines[i].price >= 0
  BY DEF Numbers, InvoiceAdmissible
<1>3. Sane(Call(InvoiceJournal(c, SumFunction(cogs))))
  BY <1>1, SaneInvoiceJournal
<1>. HIDE DEF cogs
<1>4. \A i \in DOMAIN c.lines : Sane(Call(SaleMovement(c, i)))
  <2>. TAKE i \in DOMAIN c.lines
  <2>1. -c.lines[i].quantity \in Int /\ 0 \in Int
    BY <1>2
  <2>. QED  BY <2>1, SaneMovement DEF SaleMovement
<1>5. Sane(InvoicePut(c))
  BY <1>1 DEF Sane, SaneRecord, InvoicePut, Put
<1>6. \A i \in DOMAIN c.lines : Sane(InvoiceLinePut(c, d, i))
  BY <1>1, <1>2 DEF Sane, SaneRecord, InvoiceLinePut, LineData, Put, cogs
<1>. QED  BY <1>3, <1>4, <1>5, <1>6, InvoiceIs, SanePut DEF cogs

LEMMA SaneRefundSteps ==
  ASSUME NEW c, NEW d, NEW known, Command(c), Numbers(c), SaneDisk(d), c.doc \in Docs,
         c.op = "billing.create_refund", RefundAdmissible(c, d, known)
  PROVE  \A x : In(x, RefundSteps(c, d)) => Sane(x)
<1>. DEFINE cogs == RefundCogs(c, d)
<1>1. /\ Subtotal(c.lines) \in Int /\ Tax(c.lines) \in Int /\ SumFunction(cogs) \in Int
      /\ \A i \in DOMAIN c.lines : cogs[i] \in Int /\ RefundUnitCost(c, d, i) \in Int
  BY SaneTotals, SaneCogs
<1>2. \A i \in DOMAIN c.lines :
        /\ c.lines[i].quantity \in Int /\ c.lines[i].quantity > 0
        /\ c.lines[i].price \in Int
  BY DEF Numbers, RefundAdmissible
<1>3. Sane(Call(RefundJournal(c, SumFunction(cogs))))
  BY <1>1, SaneRefundJournal
<1>. HIDE DEF cogs
<1>4. \A i \in DOMAIN c.lines : Sane(Call(ReturnMovement(c, i, d)))
  <2>. TAKE i \in DOMAIN c.lines
  <2>1. c.lines[i].quantity \in Int /\ ~(c.lines[i].quantity < 0)
    BY <1>2
  <2>. QED  BY <1>1, <2>1, SaneMovement DEF ReturnMovement
<1>5. Sane(RefundPut(c))
  BY <1>1 DEF Sane, SaneRecord, RefundPut, Put
<1>6. \A i \in DOMAIN c.lines : Sane(RefundLinePut(c, d, i))
  BY <1>1, <1>2 DEF Sane, SaneRecord, RefundLinePut, LineData, Put, cogs
<1>. QED  BY <1>3, <1>4, <1>5, <1>6, RefundIs, SanePut DEF cogs

LEMMA SanePiece ==
  ASSUME NEW c, NEW d, NEW known, NEW n, Command(c), Numbers(c), SaneDisk(d),
         Admissible(c, d, known),
         c.op \in {"billing.create_refund", "accounting.close_period"} => c.doc \in Docs
  PROVE  \A x : In(x, Piece(c, d, n)) => Sane(x)
<1>1. \A x : In(x, Steps(c, d)) => Sane(x)
  BY SaneItemAndClose, SaneMovementSteps, SaneJournalSteps, SaneInvoiceSteps,
     SaneRefundSteps DEF Steps, Admissible, Command, Operations
<1>2. Sane(Commit(n))
  BY DEF Sane, Commit
<1>3. c.op = "inventory.commit_movement" => Sane(Call(MovementJournal(c, ValueDelta(c, d))))
  BY SaneValue, SaneMovementJournal
<1>. QED  BY <1>1, <1>2, <1>3, PieceIs

-----------------------------------------------------------------------------
(* The invariant behind all that follows: the files are finite, and every  *)
(* record on disk or still to be put is sane.                              *)

SaneInv ==
  /\ CoreInv
  /\ SaneDisk(disk)
  /\ \A x : In(x, todo) => Sane(x)

(* The command that a step of Next enters, and the steps left after it.    *)
Correction(c) == \E q \in Corrections : \E n : c = [q EXCEPT !.source = n]

Resolution(n) ==
  Records("reconciliation_records", n, 1, [decision |-> "requires_accounting_adjustment"],
          "recovery.accounting_adjustment_resolved",
          "recovery.reconciliation_recorded.v1") \o << Commit(n) >>

Begins(c) == Begin(c) /\ c \in Commands

Calls(c, rest) ==
  /\ todo # << >> /\ Head(todo).do = "call" /\ In(Head(todo), todo)
  /\ c = Priced(Head(todo).cmd, disk) /\ rest = Tail(todo)
  /\ UNCHANGED <<process, closed>>

Adjusts(n, c, rest) ==
  /\ Correction(c) /\ rest = Resolution(n)
  /\ process = "none" /\ AwaitsAdjustment(n) /\ process' = "cli"

Enters(c, known, rest) ==
  /\ Enter(c, known, rest) /\ UNCHANGED disk
  /\ Command(c) /\ Numbers(c) /\ IsSeq(rest)
  /\ c.op \in {"billing.create_refund", "accounting.close_period"} => c.doc \in Docs
  /\ \A x : In(x, rest) => Sane(x)
  /\ \/ Begins(c) /\ known = closed /\ rest = << >>
     \/ Calls(c, rest) /\ known = closed
     \/ \E n : Adjusts(n, c, rest) /\ known = ClosedPeriods(disk)

(* The run is over, or goes on where it was; the files stay as they are.   *)
Halts == todo' \in {todo, << >>} /\ UNCHANGED disk

LEMMA SaneCorrection ==
  ASSUME NEW q \in Corrections, NEW n
  PROVE  LET c == [q EXCEPT !.source = n] IN
         /\ Command(c) /\ Numbers(c) /\ c.op = "accounting.post_journal"
         /\ c.lines = q.lines /\ c.doc = q.doc /\ c.period = q.period
         /\ c.currency = q.currency
<1>. DEFINE c == [q EXCEPT !.source = n]
<1>1. /\ Command(q) /\ Numbers(q) /\ q.op = "accounting.post_journal"
      /\ DOMAIN q = Fields("accounting.post_journal")
  BY WorkflowsAssumption DEF Command
<1>2. /\ c.op = q.op /\ DOMAIN c = DOMAIN q /\ c.lines = q.lines /\ c.doc = q.doc
      /\ c.period = q.period /\ c.currency = q.currency
  BY <1>1 DEF Fields
<1>. HIDE DEF c
<1>. QED  BY <1>1, <1>2 DEF Command, Numbers, c

LEMMA SaneRecords ==
  ASSUME NEW n, NEW k, NEW data, NEW action, NEW event,
         action \in {"recovery.reconciliation_recorded",
                     "recovery.accounting_adjustment_resolved"},
         event = "recovery.reconciliation_recorded.v1"
  PROVE  LET s == Records("reconciliation_records", n, k, data, action, event) IN
         /\ IsSeq(s)
         /\ \A x : In(x, s) =>
              /\ Sane(x) /\ x.do = "put"
              /\ x.rec.kind \in {"reconciliation_records", action, event}
<1>. DEFINE a == Put("reconciliation_records", n, k, data)
            b == Put(action, n, k, NoData)
            e == Put(event, n, k, NoData)
            s == << a >> \o << b, e >>
<1>1. Records("reconciliation_records", n, k, data, action, event) = s
  BY DEF Records, AuditAndEvent
<1>2. Sane(a) /\ Sane(b) /\ Sane(e)
  BY SanePut
<1>3. /\ a.do = "put" /\ b.do = "put" /\ e.do = "put"
      /\ a.rec.kind = "reconciliation_records" /\ b.rec.kind = action /\ e.rec.kind = event
  BY DEF Put
<1>. HIDE DEF a, b, e
<1>4. IsSeq(s) /\ \A x : In(x, s) <=> x = a \/ x = b \/ x = e
  BY OneStep, TwoSteps, Concatenation, Members
<1>. HIDE DEF s
<1>. QED  BY <1>1, <1>2, <1>3, <1>4

LEMMA ResolutionIs ==
  ASSUME NEW n
  PROVE  /\ IsSeq(Resolution(n))
         /\ \A x : In(x, Resolution(n)) =>
              /\ Sane(x)
              /\ \/ x = Commit(n)
                 \/ /\ x.do = "put"
                    /\ x.rec.kind \in {"reconciliation_records",
                                       "recovery.accounting_adjustment_resolved",
                                       "recovery.reconciliation_recorded.v1"}
<1>. DEFINE s == Records("reconciliation_records", n, 1,
                         [decision |-> "requires_accounting_adjustment"],
                         "recovery.accounting_adjustment_resolved",
                         "recovery.reconciliation_recorded.v1")
<1>1. /\ IsSeq(s)
      /\ \A x : In(x, s) =>
           /\ Sane(x) /\ x.do = "put"
           /\ x.rec.kind \in {"reconciliation_records",
                              "recovery.accounting_adjustment_resolved",
                              "recovery.reconciliation_recorded.v1"}
  BY SaneRecords
<1>2. Sane(Commit(n))
  BY DEF Sane, Commit
<1>3. Resolution(n) = s \o << Commit(n) >>
  BY DEF Resolution
<1>. HIDE DEF s
<1>. QED  BY <1>1, <1>2, <1>3, OneStep, Concatenation, Members

LEMMA SanePriced ==
  ASSUME NEW c, NEW d, SaneCall(c), SaneDisk(d)
  PROVE  /\ Command(Priced(c, d)) /\ Numbers(Priced(c, d)) /\ Priced(c, d).op = c.op
         /\ Priced(c, d).op \in {"accounting.post_journal", "inventory.commit_movement"}
<1>1. Command(Priced(c, d)) /\ Priced(c, d).op = c.op
  BY PricedOwes DEF SaneCall
<1>2. Numbers(Priced(c, d))
  <2>1. CASE c.op = "inventory.commit_movement" /\ c.by = "sale"
    <3>1. DOMAIN c = Fields("inventory.commit_movement") /\ c.quantity \in Int
      BY <2>1 DEF SaneCall, Command, Numbers
    <3>2. /\ Priced(c, d).quantity = c.quantity
          /\ Priced(c, d).cost = WeightedAverageUnitCost(d, c.item)
      BY <2>1, <3>1 DEF Priced, Fields
    <3>. QED  BY <1>1, <2>1, <3>1, <3>2, SaneStock DEF Numbers
  <2>2. CASE ~(c.op = "inventory.commit_movement" /\ c.by = "sale")
    BY <2>2 DEF Priced, SaneCall
  <2>. QED  BY <2>1, <2>2
<1>. QED  BY <1>1, <1>2 DEF SaneCall

LEMMA BeginEnters ==
  ASSUME SaneInv, NEW c \in Commands, Begin(c)
  PROVE  Enters(c, closed, << >>)
<1>1. Command(c) /\ Numbers(c) /\ c.doc \in Docs
  BY WorkflowsAssumption DEF Docs
<1>. QED  BY <1>1, NoSteps DEF Begin, Begins, Enters

LEMMA HeadAndTail ==
  ASSUME NEW s, IsSeq(s), s # << >>
  PROVE  /\ In(Head(s), s) /\ IsSeq(Tail(s))
         /\ \A x : In(x, Tail(s)) => In(x, s)
BY TailFacts DEF In

LEMMA CallEnters ==
  ASSUME SaneInv, CallOperation
  PROVE  Enters(Priced(Head(todo).cmd, disk), closed, Tail(todo))
<1>1. /\ todo # << >> /\ Head(todo).do = "call"
      /\ Enter(Priced(Head(todo).cmd, disk), closed, Tail(todo))
      /\ UNCHANGED <<disk, process, closed>>
  BY DEF CallOperation, Doing
<1>2. IsSeq(todo)
  BY DEF SaneInv, CoreInv, Sound
<1>3. /\ In(Head(todo), todo) /\ IsSeq(Tail(todo))
      /\ \A x : In(x, Tail(todo)) => In(x, todo)
  BY <1>1, <1>2, HeadAndTail
<1>4. SaneCall(Head(todo).cmd)
  BY <1>1, <1>3 DEF SaneInv, Sane
<1>5. /\ Command(Priced(Head(todo).cmd, disk)) /\ Numbers(Priced(Head(todo).cmd, disk))
      /\ Priced(Head(todo).cmd, disk).op
           \in {"accounting.post_journal", "inventory.commit_movement"}
  BY <1>4, SanePriced DEF SaneInv
<1>. QED  BY <1>1, <1>3, <1>5 DEF Enters, Calls, SaneInv

LEMMA AdjustEnters ==
  ASSUME SaneInv, NEW n, NEW q \in Corrections, Adjust(n, q)
  PROVE  Enters([q EXCEPT !.source = n], ClosedPeriods(disk), Resolution(n))
<1>. DEFINE c == [q EXCEPT !.source = n]
<1>1. /\ Enter(c, ClosedPeriods(disk), Resolution(n)) /\ UNCHANGED disk
      /\ process = "none" /\ AwaitsAdjustment(n) /\ process' = "cli"
  BY DEF Adjust, Resolution, Records
<1>2. Command(c) /\ Numbers(c) /\ c.op = "accounting.post_journal" /\ Correction(c)
  BY SaneCorrection DEF Correction
<1>. HIDE DEF c
<1>3. Adjusts(n, c, Resolution(n))
  BY <1>1, <1>2 DEF Adjusts
<1>. QED  BY <1>1, <1>2, <1>3, ResolutionIs DEF Enters, c

(* Every step of the specification is one of these.                        *)
LEMMA Moves ==
  ASSUME SaneInv, [Next]_vars
  PROVE  \/ Halts
         \/ AppendRecord
         \/ CommitTransaction
         \/ \E c, known, rest : Enters(c, known, rest)
         \/ \E n \in Txns, decision \in Decisions : Reconcile(n, decision)
<1>1. CASE StartApplication \/ Stop \/ Refused \/ StoreFails \/ Crash \/ Recover
  BY <1>1 DEF Halts, StartApplication, Stop, Refused, StoreFails, Crash, Recover, Abandon
<1>2. CASE \E c \in Commands : Begin(c)
  BY <1>2, BeginEnters
<1>3. CASE CallOperation
  BY <1>3, CallEnters
<1>4. CASE \E n \in Txns, c \in Corrections : Adjust(n, c)
  BY <1>4, AdjustEnters
<1>5. CASE UNCHANGED vars
  BY <1>5 DEF vars, Halts
<1>. QED  BY <1>1, <1>2, <1>3, <1>4, <1>5 DEF Next

(* The steps that are still to do afterwards.                              *)
LEMMA EnterIs ==
  ASSUME NEW c, NEW known, NEW rest, Enters(c, known, rest)
  PROVE  LET p == Piece(c, disk, Len(wal) + 1) IN
         /\ todo' = p \o rest /\ Admissible(c, disk, known)
         /\ IsSeq(p) /\ IsSeq(rest)
         /\ \A x : In(x, todo') <=> In(x, p) \/ In(x, rest)
<1>. DEFINE p == Piece(c, disk, Len(wal) + 1)
<1>1. IsSeq(p) /\ IsSeq(rest)
  BY PieceFacts DEF Enters
<1>2. todo' = p \o rest /\ Admissible(c, disk, known)
  BY DEF Enters, Enter, Piece
<1>. HIDE DEF p
<1>. QED  BY <1>1, <1>2, Members DEF p

LEMMA ReconcileIs ==
  ASSUME NEW n, NEW decision, Reconcile(n, decision)
  PROVE  \A x : In(x, todo') =>
           /\ Sane(x)
           /\ \/ x = Commit(n) /\ decision = "accepted_existing_records"
              \/ /\ x.do = "put"
                 /\ x.rec.kind \in {"reconciliation_records",
                                    "recovery.reconciliation_recorded",
                                    "recovery.reconciliation_recorded.v1"}
<1>. DEFINE s == Records("reconciliation_records", n, 0, [decision |-> decision],
                         "recovery.reconciliation_recorded",
                         "recovery.reconciliation_recorded.v1")
            e == If(decision = "accepted_existing_records", << Commit(n) >>)
<1>1. todo' = s \o e
  BY DEF Reconcile, Records
<1>2. /\ IsSeq(s)
      /\ \A x : In(x, s) =>
           /\ Sane(x) /\ x.do = "put"
           /\ x.rec.kind \in {"reconciliation_records", "recovery.reconciliation_recorded",
                              "recovery.reconciliation_recorded.v1"}
  BY SaneRecords
<1>3. Sane(Commit(n))
  BY DEF Sane, Commit
<1>4. /\ IsSeq(e)
      /\ \A x : In(x, e) => x = Commit(n) /\ decision = "accepted_existing_records"
  BY OneStep, NoSteps DEF If
<1>. HIDE DEF s, e
<1>. QED  BY <1>1, <1>2, <1>3, <1>4, Members

(* Going on after the first step.                                          *)
LEMMA GoOn ==
  ASSUME CoreInv, AppendRecord \/ CommitTransaction
  PROVE  /\ todo # << >> /\ IsSeq(todo) /\ In(Head(todo), todo) /\ IsSeq(Tail(todo))
         /\ todo' = Tail(todo)
         /\ \A x : In(x, todo') => In(x, todo)
         /\ AppendRecord => /\ Head(todo).do = "put" /\ disk' = disk \cup {Head(todo).rec}
                            /\ \A r \in disk : Key(r) # Key(Head(todo).rec)
         /\ CommitTransaction => Head(todo).do = "commit" /\ disk' = disk
<1>1. todo # << >> /\ todo' = Tail(todo) /\ IsSeq(todo)
  BY DEF AppendRecord, CommitTransaction, Doing, Leave, CoreInv, Sound
<1>2. /\ AppendRecord => /\ Head(todo).do = "put" /\ disk' = disk \cup {Head(todo).rec}
                         /\ \A r \in disk : Key(r) # Key(Head(todo).rec)
      /\ CommitTransaction => Head(todo).do = "commit" /\ disk' = disk
  BY DEF AppendRecord, CommitTransaction, Doing, Appendable
<1>. QED  BY <1>1, <1>2, HeadAndTail

LEMMA InitSane == Init => SaneInv
<1>. SUFFICES ASSUME Init PROVE SaneInv
  OBVIOUS
<1>1. CoreInv /\ disk = {} /\ todo = << >>
  BY InitCore DEF Init
<1>. QED  BY <1>1, NoSteps, FS_EmptySet DEF SaneInv, SaneDisk

LEMMA NextSane == SaneInv /\ [Next]_vars => SaneInv'
<1>. SUFFICES ASSUME SaneInv, [Next]_vars PROVE SaneInv'
  OBVIOUS
<1>0. CoreInv' /\ CoreInv
  BY NextCore DEF SaneInv
<1>1. CASE Halts
  <2>1. \A x : In(x, todo') => In(x, todo)
    BY <1>1, NoSteps DEF Halts
  <2>. QED  BY <1>0, <1>1, <2>1 DEF SaneInv, Halts
<1>2. CASE AppendRecord
  <2>1. /\ In(Head(todo), todo) /\ Head(todo).do = "put"
        /\ disk' = disk \cup {Head(todo).rec}
        /\ \A x : In(x, todo') => In(x, todo)
    BY <1>0, <1>2, GoOn
  <2>2. SaneRecord(Head(todo).rec)
    BY <2>1 DEF SaneInv, Sane
  <2>3. SaneDisk(disk')
    BY <2>1, <2>2, FS_AddElement DEF SaneInv, SaneDisk
  <2>. QED  BY <1>0, <2>1, <2>3 DEF SaneInv
<1>3. CASE CommitTransaction
  BY <1>0, <1>3, GoOn DEF SaneInv
<1>4. CASE \E c, known, rest : Enters(c, known, rest)
  <2>1. PICK c, known, rest : Enters(c, known, rest)
    BY <1>4
  <2>. DEFINE p == Piece(c, disk, Len(wal) + 1)
  <2>2. /\ Admissible(c, disk, known) /\ \A x : In(x, todo') => In(x, p) \/ In(x, rest)
    BY <2>1, EnterIs
  <2>3. /\ \A x : In(x, rest) => Sane(x)
        /\ \A x : In(x, p) => Sane(x)
        /\ UNCHANGED disk
    BY <2>1, <2>2, SanePiece DEF Enters, SaneInv
  <2>. HIDE DEF p
  <2>. QED  BY <1>0, <2>2, <2>3 DEF SaneInv
<1>5. CASE \E n \in Txns, decision \in Decisions : Reconcile(n, decision)
  <2>1. PICK n, decision : Reconcile(n, decision)
    BY <1>5
  <2>2. UNCHANGED disk
    BY <2>1 DEF Reconcile
  <2>. QED  BY <1>0, <2>1, <2>2, ReconcileIs DEF SaneInv
<1>. QED  BY <1>1, <1>2, <1>3, <1>4, <1>5, Moves

LEMMA AlwaysSane == Spec => []SaneInv
BY InitSane, NextSane, PTL DEF Spec

-----------------------------------------------------------------------------
(* The refund availability report against the checks of create_refund.     *)

LEMMA LargerOfZero ==
  ASSUME NEW x \in Int
  PROVE  Max({x, 0}) = IF x >= 0 THEN x ELSE 0
<1>1. \E m \in {x, 0} : \A y \in {x, 0} : m >= y
  OBVIOUS
<1>2. Max({x, 0}) \in {x, 0} /\ \A y \in {x, 0} : Max({x, 0}) >= y
  BY <1>1 DEF Max
<1>. QED  BY <1>2

(* Both look at the same lines.                                            *)
LEMMA SameLines ==
  ASSUME NEW d, SaneDisk(d), NEW row, NEW l \in Of(d, "invoice_lines"),
         row = [invoice |-> l.doc, item |-> l.data.item, price |-> l.data.price]
  PROVE  /\ OriginalQuantity(d, row) \in Int
         /\ Refundable(d, row.invoice, row.item, row.price) \in Int
         /\ RemainingQuantity(d, row)
              = LET left == Refundable(d, row.invoice, row.item, row.price) IN
                IF left >= 0 THEN left ELSE 0
<1>. DEFINE S == SoldLines(d, row.invoice, row.item, row.price)
            R == RefundedLines(d, row.invoice, row.item, row.price)
<1>1. S = {x \in Of(d, "invoice_lines") :
             [invoice |-> x.doc, item |-> x.data.item, price |-> x.data.price] = row}
  BY DEF SoldLines
<1>2. R = {x \in LinesUnder(d, "refund_lines",
                            {h \in Of(d, "refunds") : h.data.invoice = row.invoice}) :
             x.data.item = row.item /\ x.data.price = row.price}
  BY DEF RefundedLines, LinesUnder
<1>3. OriginalQuantity(d, row) = Quantity(S) /\ RefundedQuantity(d, row) = Quantity(R)
  BY <1>1, <1>2 DEF OriginalQuantity, RefundedQuantity, Quantity
<1>4. Quantity(S) \in Int /\ Quantity(R) \in Int
  BY SaneSold
<1>5. Refundable(d, row.invoice, row.item, row.price) = Quantity(S) - Quantity(R)
  BY DEF Refundable
<1>. HIDE DEF S, R
<1>6. Quantity(S) - Quantity(R) \in Int
  BY <1>4
<1>. QED  BY <1>3, <1>4, <1>5, <1>6, LargerOfZero DEF RemainingQuantity

LEMMA OneRefundLine ==
  ASSUME NEW c, NEW line, c.lines = << line >>, line.quantity \in Int,
         NEW d, NEW known
  PROVE  RefundAdmissible(c, d, known) <=>
           /\ line.quantity > 0 /\ line.price >= 0
           /\ ~Has(d, "refunds", c.doc)
           /\ \E v \in Of(d, "invoices") : v.doc = c.invoice /\ v.data.currency = c.currency
           /\ c.period \notin known
           /\ line.quantity <= Refundable(d, c.invoice, line.item, line.price)
<1>. DEFINE f == [i \in {1} |-> c.lines[i].quantity]
<1>1. /\ DOMAIN c.lines = {1} /\ Len(c.lines) = 1 /\ c.lines[1] = line
  OBVIOUS
<1>2. {j \in DOMAIN c.lines : c.lines[j].item = line.item /\ c.lines[j].price = line.price}
        = {1}
  BY <1>1
<1>3. Requested(c.lines, {1}) = SumFunctionOnSet(f, {1}) /\ f[1] = line.quantity
  BY <1>1 DEF Requested, SumFunction
<1>. HIDE DEF f
<1>4. Requested(c.lines, {1}) = line.quantity
  BY <1>3, SumSingleton
<1>. QED  BY <1>1, <1>2, <1>4 DEF RefundAdmissible

(* The refund availability report and create_refund compute what is left   *)
(* of an invoice separately.  Whatever was sold, refunded, interrupted or  *)
(* accepted, the report offers what create_refund accepts and no more.     *)
THEOREM OffersWhatIsAccepted ==
  ASSUME NoData \notin Docs
  PROVE  Spec => []AvailabilityExact
<1>1. SaneInv => AvailabilityExact
  <2>. SUFFICES ASSUME SaneInv,
                       NEW row \in AvailabilityRows(disk, PeriodsInUse),
                       NEW quantity \in 1..(OriginalQuantity(disk, row) + 1)
                PROVE  RefundAdmissible(RefundOf(row, quantity), disk, closed)
                         <=> quantity <= RemainingQuantity(disk, row)
    BY DEF AvailabilityExact
  <2>. DEFINE c == RefundOf(row, quantity)
              line == [item |-> row.item, quantity |-> quantity, price |-> row.price,
                       restock |-> FALSE]
              left == Refundable(disk, row.invoice, row.item, row.price)
  <2>1. PICK l \in LinesUnder(disk, "invoice_lines", Headers(disk, "invoices", PeriodsInUse)) :
          row = [invoice |-> l.doc, item |-> l.data.item, price |-> l.data.price]
    BY DEF AvailabilityRows
  <2>2. PICK h \in Of(disk, "invoices") : h.doc = l.doc
    BY <2>1 DEF LinesUnder, Headers
  <2>3. l \in Of(disk, "invoice_lines") /\ row.price \in Nat /\ row.invoice = l.doc
    BY <2>1 DEF LinesUnder, Of, SaneInv, SaneDisk, SaneRecord
  <2>4. /\ OriginalQuantity(disk, row) \in Int /\ left \in Int
        /\ RemainingQuantity(disk, row) = IF left >= 0 THEN left ELSE 0
    BY <2>1, <2>3, SameLines DEF SaneInv
  <2>5. quantity \in Int /\ quantity > 0
    BY <2>4
  <2>6. /\ c.lines = << line >> /\ c.doc = NoData /\ c.period = NoData
        /\ c.invoice = row.invoice
        /\ c.currency = (CHOOSE v \in Of(disk, "invoices") : v.doc = row.invoice).data.currency
    BY DEF RefundOf
  <2>7. ~Has(disk, "refunds", NoData)
    BY DEF Has, SaneInv, SaneDisk, SaneRecord
  <2>8. NoData \notin closed
    BY DEF SaneInv, CoreInv, TypeOK, ClosedPeriods, Of, SaneDisk, SaneRecord
  <2>9. \E v \in Of(disk, "invoices") : v.doc = c.invoice /\ v.data.currency = c.currency
    BY <2>2, <2>3, <2>6
  <2>. HIDE DEF c, left
  <2>10. line.quantity \in Int
    BY <2>5
  <2>11. RefundAdmissible(c, disk, closed) <=> quantity <= left
    <3>1. /\ line.quantity = quantity /\ line.price = row.price /\ line.item = row.item
      OBVIOUS
    <3>2. left = Refundable(disk, c.invoice, line.item, line.price)
      BY <2>6, <3>1 DEF left
    <3>. HIDE DEF line
    <3>. QED  BY <2>3, <2>5, <2>6, <2>7, <2>8, <2>9, <2>10, <3>1, <3>2, OneRefundLine
  <2>. QED  BY <2>4, <2>5, <2>11 DEF c
<1>. QED  BY <1>1, AlwaysSane, PTL

-----------------------------------------------------------------------------
(* Stock and what it is worth.                                             *)

Moved(x) == x.do = "put" /\ x.rec.kind = "stock_movements"

MovePut(c, d) ==
  Put("stock_movements", c.doc, c.n,
      [item |-> c.item, quantity |-> c.quantity, period |-> c.period,
       value |-> ValueDelta(c, d)])

(* A movement is written before anything else its operation does.          *)
LEMMA MovementFirst ==
  ASSUME NEW c, NEW d, NEW n, Command(c)
  PROVE  LET p == Piece(c, d, n) IN
         /\ c.op = "inventory.commit_movement" =>
              /\ 1 \in DOMAIN p /\ p[1] = MovePut(c, d)
              /\ \A i \in DOMAIN p : i # 1 => ~Moved(p[i])
         /\ c.op # "inventory.commit_movement" => \A x : In(x, p) => ~Moved(x)
<1>. DEFINE p == Piece(c, d, n)
            s == Len(Steps(c, d))
<1>1. /\ IsSeq(p) /\ s \in Nat /\ s < Len(p)
      /\ \A i \in 1..s : p[i] = Steps(c, d)[i]
      /\ p[s + 1] = Commit(n)
      /\ \A i \in DOMAIN p : i > s + 1 => In(p[i], AfterCommit(c, d))
  BY PieceFacts
<1>2. Len(p) \in Nat /\ DOMAIN p = 1..Len(p)
  BY <1>1, Concatenation
<1>3. ~Moved(Commit(n)) /\ \A x : In(x, AfterCommit(c, d)) => ~Moved(x)
  BY AfterCommitPlain DEF Moved, Commit
<1>4. ASSUME c.op = "inventory.commit_movement"
      PROVE  /\ 1 \in DOMAIN p /\ p[1] = MovePut(c, d)
             /\ \A i \in DOMAIN p : i # 1 => ~Moved(p[i])
  <2>. DEFINE a == MovePut(c, d)
              b == Put("inventory.stock_moved", c.doc, c.n, NoData)
              e == Put("inventory.stock_moved.v1", c.doc, c.n, NoData)
  <2>1. Steps(c, d) = << a >> \o << b, e >>
    BY <1>4 DEF Steps, MovementSteps, MovePut, AuditAndEvent
  <2>2. ~Moved(b) /\ ~Moved(e)
    BY DEF Moved, Put
  <2>. HIDE DEF a, b, e
  <2>3. /\ s = 3 /\ Steps(c, d)[1] = a
        /\ Steps(c, d)[2] = b /\ Steps(c, d)[3] = e
    BY <2>1
  <2>. HIDE DEF p, s
  <2>4. /\ 1 \in DOMAIN p /\ p[1] = a /\ p[2] = b /\ p[3] = e
    BY <1>1, <1>2, <2>3
  <2>5. \A i \in DOMAIN p : i = 1 \/ i = 2 \/ i = 3 \/ i = s + 1 \/ i > s + 1
    BY <1>2, <2>3
  <2>. QED  BY <1>1, <1>3, <2>2, <2>4, <2>5 DEF a
<1>5. ASSUME c.op # "inventory.commit_movement", NEW x, In(x, p), Moved(x)
      PROVE  FALSE
  <2>1. In(x, Steps(c, d))
    BY <1>3, <1>5, PieceIs DEF p
  <2>2. CASE c.op = "accounting.post_journal"
    BY <1>5, <2>1, <2>2, JournalIs DEF Steps, Moved, EntryPut, LinePut, Put
  <2>3. CASE c.op = "billing.create_invoice"
    BY <1>5, <2>1, <2>3, InvoiceIs DEF Steps, Moved, InvoicePut, InvoiceLinePut, Put, Call
  <2>4. CASE c.op = "billing.create_refund"
    BY <1>5, <2>1, <2>4, RefundIs DEF Steps, Moved, RefundPut, RefundLinePut, Put, Call
  <2>5. CASE c.op = "inventory.register_item"
    BY <1>5, <2>1, <2>5, Audited DEF Steps, ItemSteps, Moved, Put
  <2>6. CASE c.op = "accounting.close_period"
    BY <1>5, <2>1, <2>6, Audited DEF Steps, CloseSteps, Moved, Put
  <2>. QED  BY <1>5, <2>2, <2>3, <2>4, <2>5, <2>6 DEF Command, Operations
<1>. QED  BY <1>4, <1>5

(* What a movement leaves on hand, in goods and in value.                  *)
LEMMA StockMoves ==
  ASSUME NEW d, SaneDisk(d), NEW r, SaneRecord(r), r \notin d, NEW item
  PROVE  /\ StockOnHand(d \cup {r}, item)
              = StockOnHand(d, item)
                + IF r.kind = "stock_movements" /\ r.data.item = item THEN r.data.quantity ELSE 0
         /\ InventoryValue(d \cup {r}, item)
              = InventoryValue(d, item)
                + IF r.kind = "stock_movements" /\ r.data.item = item THEN r.data.value ELSE 0
<1>1. /\ Integral("quantity", StockMovements(d, item))
      /\ Integral("value", StockMovements(d, item))
      /\ StockOnHand(d, item) \in Int /\ InventoryValue(d, item) \in Int
  BY SaneStock
<1>2. CASE r.kind = "stock_movements" /\ r.data.item = item
  <2>1. StockMovements(d \cup {r}, item) = StockMovements(d, item) \cup {r}
    BY <1>2 DEF StockMovements, Of
  <2>2. r \notin StockMovements(d, item) /\ r.data.quantity \in Int /\ r.data.value \in Int
    BY <1>2 DEF StockMovements, Of, SaneRecord
  <2>3. SumOf("quantity", StockMovements(d, item) \cup {r})
          = SumOf("quantity", StockMovements(d, item)) + r.data.quantity
    BY <1>1, <2>2, SumOfAdd, r.data["quantity"] = r.data.quantity
  <2>4. SumOf("value", StockMovements(d, item) \cup {r})
          = SumOf("value", StockMovements(d, item)) + r.data.value
    BY <1>1, <2>2, SumOfAdd, r.data["value"] = r.data.value
  <2>. QED  BY <1>2, <2>1, <2>3, <2>4 DEF StockOnHand, InventoryValue
<1>3. CASE ~(r.kind = "stock_movements" /\ r.data.item = item)
  <2>1. StockMovements(d \cup {r}, item) = StockMovements(d, item)
    BY <1>3 DEF StockMovements, Of
  <2>. QED  BY <1>1, <1>3, <2>1 DEF StockOnHand, InventoryValue
<1>. QED  BY <1>2, <1>3

(* Issuing at the average, rounded down, takes no more than there is.      *)
LEMMA IssueAtAverage ==
  ASSUME NEW V \in Nat, NEW Q \in Nat, Q > 0, NEW q \in Int, q < 0, Q + q >= 0
  PROVE  V + q * (V \div Q) >= 0
<1>. DEFINE w == V \div Q
<1>1. w \in Int /\ w >= 0 /\ Q * w <= V
  OBVIOUS
<1>. HIDE DEF w
<1>2. (Q + q) * w >= 0
  BY <1>1
<1>3. (Q + q) * w = Q * w + q * w /\ Q * w \in Int /\ q * w \in Int
  BY <1>1
<1>. QED  BY <1>1, <1>2, <1>3 DEF w

Stocked(d) == \A item : StockOnHand(d, item) >= 0 /\ InventoryValue(d, item) >= 0

Covers(d, r) ==
  /\ StockOnHand(d, r.data.item) + r.data.quantity >= 0
  /\ InventoryValue(d, r.data.item) + r.data.value >= 0

(* The invariant: a movement still to be written is the very next step, so *)
(* that the stock it was validated against is the stock it changes.        *)
StockInv ==
  /\ SaneInv
  /\ Stocked(disk)
  /\ \A i \in DOMAIN todo : Moved(todo[i]) => i = 1 /\ Covers(disk, todo[i].rec)

(* Whoever asks for goods to be issued leaves their cost to the program.   *)
IssuesLeaveCost ==
  \A c \in Commands : c.op = "inventory.commit_movement" /\ c.quantity < 0 => c.cost = 0

LEMMA CostOfEntered ==
  ASSUME IssuesLeaveCost, SaneInv, NEW c, NEW known, NEW rest, Enters(c, known, rest),
         c.op = "inventory.commit_movement", c.quantity < 0
  PROVE  c.cost \in {0, WeightedAverageUnitCost(disk, c.item)}
<1>1. CASE Begins(c)
  BY <1>1 DEF Begins, IssuesLeaveCost
<1>2. CASE Calls(c, rest)
  <2>. DEFINE q == Head(todo).cmd
  <2>1. SaneCall(q) /\ c = Priced(q, disk)
    BY <1>2 DEF Calls, SaneInv, Sane
  <2>2. q.op = "inventory.commit_movement" /\ DOMAIN q = Fields("inventory.commit_movement")
    BY <2>1, SanePriced DEF SaneInv, SaneCall, Command
  <2>3. q.quantity = c.quantity /\ q.item = c.item
    BY <2>1, <2>2 DEF Priced, Fields
  <2>4. q.by = "sale"
    BY <2>1, <2>2, <2>3 DEF SaneCall
  <2>. QED  BY <2>1, <2>2, <2>3, <2>4 DEF Priced, Fields
<1>3. CASE \E n : Adjusts(n, c, rest)
  BY <1>3, SaneCorrection DEF Adjusts, Correction
<1>. QED  BY <1>1, <1>2, <1>3 DEF Enters

LEMMA EnteredCovers ==
  ASSUME IssuesLeaveCost, StockInv, NEW c, NEW known, NEW rest, Enters(c, known, rest),
         c.op = "inventory.commit_movement"
  PROVE  Covers(disk, MovePut(c, disk).rec)
<1>. DEFINE Q == StockOnHand(disk, c.item)
            V == InventoryValue(disk, c.item)
            u == UnitCost(c, disk)
<1>1. /\ Q \in Int /\ V \in Int /\ Q >= 0 /\ V >= 0
  BY SaneStock DEF StockInv, SaneInv, Stocked
<1>2. /\ c.quantity \in Int /\ c.cost \in Int
      /\ c.quantity # 0 /\ c.cost >= 0 /\ Q + c.quantity >= 0
  <2>1. Admissible(c, disk, known) /\ Numbers(c)
    BY EnterIs DEF Enters
  <2>2. MovementAdmissible(c, disk, known)
    BY <2>1 DEF Admissible
  <2>. QED  BY <2>1, <2>2 DEF Numbers, MovementAdmissible
<1>3. /\ MovePut(c, disk).rec.data.item = c.item
      /\ MovePut(c, disk).rec.data.quantity = c.quantity
      /\ MovePut(c, disk).rec.data.value = c.quantity * u
  BY DEF MovePut, Put, ValueDelta
<1>4. WeightedAverageUnitCost(disk, c.item) = IF Q <= 0 THEN 0 ELSE V \div Q
  BY DEF WeightedAverageUnitCost
<1>5. u = IF c.quantity > 0 \/ c.cost # 0 THEN c.cost
          ELSE WeightedAverageUnitCost(disk, c.item)
  BY DEF UnitCost
<1>6. c.quantity < 0 => c.cost \in {0, WeightedAverageUnitCost(disk, c.item)}
  BY CostOfEntered DEF StockInv
<1>. HIDE DEF Q, V, u
<1>7. V + c.quantity * u >= 0
  <2>1. CASE c.quantity > 0
    <3>1. u = c.cost
      BY <1>5, <2>1
    <3>2. c.quantity * c.cost >= 0
      BY <1>2, <2>1
    <3>. QED  BY <1>1, <1>2, <3>1, <3>2
  <2>2. CASE c.quantity < 0
    <3>1. Q > 0 /\ Q \in Nat /\ V \in Nat
      BY <1>1, <1>2, <2>2
    <3>2. u = V \div Q
      BY <1>1, <1>2, <1>4, <1>5, <1>6, <2>2, <3>1
    <3>. QED  BY <1>2, <2>2, <3>1, <3>2, IssueAtAverage
  <2>. QED  BY <1>2, <2>1, <2>2
<1>. QED  BY <1>2, <1>3, <1>7 DEF Covers, Q, V

LEMMA StockTail ==
  ASSUME NEW s, IsSeq(s), s # << >>, NEW d,
         \A i \in DOMAIN s : Moved(s[i]) => i = 1 /\ Covers(d, s[i].rec)
  PROVE  \A i \in DOMAIN Tail(s) : ~Moved(Tail(s)[i])
BY TailFacts

LEMMA InitStock == Init => StockInv
<1>. SUFFICES ASSUME Init PROVE StockInv
  OBVIOUS
<1>1. disk = {} /\ todo = << >> /\ SaneInv
  BY InitSane DEF Init
<1>2. \A item : StockMovements({}, item) = {}
  BY DEF StockMovements, Of
<1>3. Stocked({})
  BY <1>2, SumOfEmpty DEF Stocked, StockOnHand, InventoryValue
<1>. QED  BY <1>1, <1>3 DEF StockInv

LEMMA NextStock ==
  ASSUME IssuesLeaveCost
  PROVE  StockInv /\ [Next]_vars => StockInv'
<1>. SUFFICES ASSUME StockInv, [Next]_vars PROVE StockInv'
  OBVIOUS
<1>0. SaneInv /\ SaneInv' /\ CoreInv /\ IsSeq(todo)
  BY NextSane DEF StockInv, SaneInv, CoreInv, Sound
<1>1. CASE Halts
  <2>1. CASE todo' = todo
    BY <1>0, <1>1, <2>1 DEF StockInv, Halts
  <2>2. CASE todo' = << >>
    BY <1>0, <1>1, <2>2 DEF StockInv, Halts
  <2>. QED  BY <1>1, <2>1, <2>2 DEF Halts
<1>2. CASE AppendRecord
  <2>. DEFINE r == Head(todo).rec
  <2>1. /\ todo # << >> /\ Head(todo).do = "put" /\ disk' = disk \cup {r}
        /\ todo' = Tail(todo) /\ In(Head(todo), todo)
        /\ \A x \in disk : Key(x) # Key(r)
    BY <1>0, <1>2, GoOn
  <2>2. SaneRecord(r) /\ SaneDisk(disk) /\ r \notin disk
    BY <2>1, <1>0 DEF SaneInv, Sane
  <2>3. 1 \in DOMAIN todo /\ todo[1] = Head(todo)
    BY <1>0, <2>1, TailFacts
  <2>4. r.kind = "stock_movements" => Covers(disk, r)
    BY <2>1, <2>3 DEF StockInv, Moved
  <2>. HIDE DEF r
  <2>5. Stocked(disk \cup {r})
    <3>. SUFFICES ASSUME NEW item
                  PROVE  /\ StockOnHand(disk \cup {r}, item) >= 0
                         /\ InventoryValue(disk \cup {r}, item) >= 0
      BY DEF Stocked
    <3>1. StockOnHand(disk, item) >= 0 /\ InventoryValue(disk, item) >= 0
      BY DEF StockInv, Stocked
    <3>2. StockOnHand(disk, item) \in Int /\ InventoryValue(disk, item) \in Int
      BY <2>2, SaneStock
    <3>. QED  BY <2>2, <2>4, <3>1, <3>2, StockMoves DEF Covers
  <2>6. \A i \in DOMAIN Tail(todo) : ~Moved(Tail(todo)[i])
    BY <1>0, <2>1, StockTail DEF StockInv
  <2>. QED  BY <1>0, <2>1, <2>5, <2>6 DEF StockInv
<1>3. CASE CommitTransaction
  <2>1. todo # << >> /\ todo' = Tail(todo) /\ disk' = disk
    BY <1>0, <1>3, GoOn
  <2>2. \A i \in DOMAIN Tail(todo) : ~Moved(Tail(todo)[i])
    BY <1>0, <2>1, StockTail DEF StockInv
  <2>. QED  BY <1>0, <2>1, <2>2 DEF StockInv
<1>4. CASE \E c, known, rest : Enters(c, known, rest)
  <2>1. PICK c, known, rest : Enters(c, known, rest)
    BY <1>4
  <2>. DEFINE p == Piece(c, disk, Len(wal) + 1)
  <2>2. /\ todo' = p \o rest /\ IsSeq(p) /\ IsSeq(rest)
        /\ UNCHANGED disk /\ Command(c)
    BY <2>1, EnterIs DEF Enters
  <2>3. \A x : In(x, rest) => ~Moved(x)
    <3>1. CASE rest = << >>
      BY <3>1, NoSteps
    <3>2. CASE Calls(c, rest)
      BY <1>0, <3>2, StockTail DEF Calls, StockInv, In
    <3>3. CASE \E n : Adjusts(n, c, rest)
      <4>1. PICK n : rest = Resolution(n)
        BY <3>3 DEF Adjusts
      <4>. QED  BY <4>1, ResolutionIs DEF Moved, Commit
    <3>. QED  BY <2>1, <3>1, <3>2, <3>3 DEF Enters
  <2>4. \A i \in DOMAIN p : Moved(p[i]) => i = 1 /\ Covers(disk, p[i].rec)
    <3>1. CASE c.op = "inventory.commit_movement"
      <4>1. p[1] = MovePut(c, disk) /\ \A i \in DOMAIN p : i # 1 => ~Moved(p[i])
        BY <2>2, <3>1, MovementFirst
      <4>2. Covers(disk, MovePut(c, disk).rec)
        BY <2>1, <3>1, EnteredCovers
      <4>. QED  BY <4>1, <4>2
    <3>2. CASE c.op # "inventory.commit_movement"
      <4>1. \A x : In(x, p) => ~Moved(x)
        BY <2>2, <3>2, MovementFirst
      <4>. QED  BY <4>1 DEF In
    <3>. QED  BY <3>1, <3>2
  <2>. HIDE DEF p
  <2>5. \A i \in DOMAIN (p \o rest) :
          Moved((p \o rest)[i]) => i = 1 /\ Covers(disk, (p \o rest)[i].rec)
    BY <2>2, <2>3, <2>4, Concatenation DEF In
  <2>. QED  BY <1>0, <2>2, <2>5 DEF StockInv
<1>5. CASE \E n \in Txns, decision \in Decisions : Reconcile(n, decision)
  <2>1. PICK n, decision : Reconcile(n, decision)
    BY <1>5
  <2>2. UNCHANGED disk
    BY <2>1 DEF Reconcile
  <2>3. \A x : In(x, todo') => ~Moved(x)
    BY <2>1, ReconcileIs DEF Moved, Commit
  <2>. QED  BY <1>0, <2>2, <2>3 DEF StockInv, In
<1>. QED  BY <1>0, <1>1, <1>2, <1>3, <1>4, <1>5, Moves

(* No order of purchases, sales and refunds, and nothing that interrupts   *)
(* them, makes the stock of an item or its value negative: goods are       *)
(* issued at the average of the moment (commit_movement, sell), rounded    *)
(* down.  For issues at a cost of the user's own choosing it fails.        *)
THEOREM StockAndValueSound ==
  ASSUME IssuesLeaveCost
  PROVE  Spec => []StockValueSound
<1>1. Init => StockInv
  BY InitStock
<1>2. StockInv /\ [Next]_vars => StockInv'
  BY NextStock
<1>3. StockInv => StockValueSound
  BY DEF StockInv, Stocked, StockValueSound, StockReport
<1>. QED  BY <1>1, <1>2, <1>3, PTL DEF Spec

-----------------------------------------------------------------------------
(* Which operation writes which records and calls which others.            *)

KindIn(x, kinds) == x.do = "put" /\ x.rec.kind \in kinds

CloseKinds == {"periods", "accounting.period_closed", "accounting.period_closed.v1"}

JournalKinds == {"journal_entries", "journal_lines"}

LEMMA PutIs ==
  ASSUME NEW c, NEW d, NEW n, Command(c), NEW x, In(x, Piece(c, d, n)), x.do = "put"
  PROVE  /\ x.rec.doc = c.doc
         /\ \/ c.op = "inventory.register_item"
               /\ x.rec.kind \in {"items", "inventory.item_registered",
                                  "inventory.item_registered.v1"}
            \/ /\ c.op = "inventory.commit_movement"
               /\ \/ x = MovePut(c, d)
                  \/ x.rec.kind \in {"inventory.stock_moved", "inventory.stock_moved.v1"}
            \/ /\ c.op = "accounting.post_journal"
               /\ \/ x = EntryPut(c)
                  \/ \E i \in DOMAIN c.lines : x = LinePut(c, i)
                  \/ x.rec.kind \in {"accounting.journal_posted",
                                     "accounting.journal_posted.v1"}
            \/ c.op = "accounting.close_period" /\ x.rec.kind \in CloseKinds
            \/ /\ c.op = "billing.create_invoice"
               /\ \/ x = InvoicePut(c)
                  \/ \E i \in DOMAIN c.lines : x = InvoiceLinePut(c, d, i)
                  \/ x.rec.kind \in {"billing.invoice_created", "billing.sale_completed.v1"}
            \/ /\ c.op = "billing.create_refund"
               /\ \/ x = RefundPut(c)
                  \/ \E i \in DOMAIN c.lines : x = RefundLinePut(c, d, i)
                  \/ x.rec.kind \in {"billing.refund_created",
                                     "billing.refund_completed.v1"}
<1>1. In(x, Steps(c, d))
  BY PiecePuts
<1>2. CASE c.op = "accounting.post_journal"
  BY <1>1, <1>2, JournalIs DEF Steps, EntryPut, LinePut, Put
<1>3. CASE c.op = "billing.create_invoice"
  BY <1>1, <1>3, InvoiceIs DEF Steps, InvoicePut, InvoiceLinePut, Put, Call
<1>4. CASE c.op = "billing.create_refund"
  BY <1>1, <1>4, RefundIs DEF Steps, RefundPut, RefundLinePut, Put, Call
<1>5. CASE c.op = "inventory.register_item"
  BY <1>1, <1>5, Audited DEF Steps, ItemSteps, Put
<1>6. CASE c.op = "accounting.close_period"
  BY <1>1, <1>6, Audited DEF Steps, CloseSteps, Put, CloseKinds
<1>7. CASE c.op = "inventory.commit_movement"
  BY <1>1, <1>7, Audited DEF Steps, MovementSteps, MovePut, Put
<1>. QED  BY <1>2, <1>3, <1>4, <1>5, <1>6, <1>7 DEF Command, Operations

LEMMA CallIs ==
  ASSUME NEW c, NEW d, NEW n, Command(c), NEW x, In(x, Piece(c, d, n)), x.do = "call"
  PROVE  \/ /\ c.op = "inventory.commit_movement" /\ c.by = "use_case"
            /\ ValueDelta(c, d) # 0
            /\ x = Call(MovementJournal(c, ValueDelta(c, d)))
         \/ /\ c.op = "billing.create_invoice"
            /\ \/ x = Call(InvoiceJournal(c, SumFunction(InvoiceCogs(c, d))))
               \/ \E i \in DOMAIN c.lines : x = Call(SaleMovement(c, i))
         \/ /\ c.op = "billing.create_refund"
            /\ \/ x = Call(RefundJournal(c, SumFunction(RefundCogs(c, d))))
               \/ \E i \in DOMAIN c.lines : x = Call(ReturnMovement(c, i, d))
<1>0. x # Commit(n)
  BY DEF Commit
<1>1. CASE ~In(x, Steps(c, d))
  BY <1>0, <1>1, PieceIs
<1>2. CASE In(x, Steps(c, d))
  <2>1. CASE c.op = "accounting.post_journal"
    BY <1>2, <2>1, JournalIs DEF Steps, EntryPut, LinePut, Put
  <2>2. CASE c.op = "billing.create_invoice"
    BY <1>2, <2>2, InvoiceIs DEF Steps, InvoicePut, InvoiceLinePut, Put
  <2>3. CASE c.op = "billing.create_refund"
    BY <1>2, <2>3, RefundIs DEF Steps, RefundPut, RefundLinePut, Put
  <2>4. CASE c.op = "inventory.register_item"
    BY <1>2, <2>4, Audited DEF Steps, ItemSteps, Put
  <2>5. CASE c.op = "accounting.close_period"
    BY <1>2, <2>5, Audited DEF Steps, CloseSteps, Put
  <2>6. CASE c.op = "inventory.commit_movement"
    BY <1>2, <2>6, Audited DEF Steps, MovementSteps, Put
  <2>. QED  BY <2>1, <2>2, <2>3, <2>4, <2>5, <2>6 DEF Command, Operations
<1>. QED  BY <1>1, <1>2

(* A period is closed in four steps.                                       *)
ClosePut(p) == Put("periods", p, 0, NoData)
CloseAudit(p) == Put("accounting.period_closed", p, 0, NoData)
CloseEvent(p) == Put("accounting.period_closed.v1", p, 0, NoData)

ClosingSteps(p, n) == << ClosePut(p), CloseAudit(p), CloseEvent(p), Commit(n) >>

LEMMA CloseIs ==
  ASSUME NEW c, NEW d, NEW n, Command(c), c.op = "accounting.close_period"
  PROVE  LET p == Piece(c, d, n) IN
         IsSeq(p) /\ Len(p) = 4 /\ \A i \in 1..4 : p[i] = ClosingSteps(c.doc, n)[i]
<1>. DEFINE p == Piece(c, d, n)
            s == Len(Steps(c, d))
            a == ClosePut(c.doc)
            b == CloseAudit(c.doc)
            e == CloseEvent(c.doc)
<1>1. /\ IsSeq(p) /\ s \in Nat /\ s < Len(p)
      /\ \A i \in 1..s : p[i] = Steps(c, d)[i]
      /\ p[s + 1] = Commit(n)
      /\ \A i \in DOMAIN p : i > s + 1 => In(p[i], AfterCommit(c, d))
  BY PieceFacts
<1>2. Len(p) \in Nat /\ DOMAIN p = 1..Len(p)
  BY <1>1, Concatenation
<1>3. Steps(c, d) = << a >> \o << b, e >>
  BY DEF Steps, CloseSteps, AuditAndEvent, ClosePut, CloseAudit, CloseEvent
<1>4. \A x : ~In(x, AfterCommit(c, d))
  BY NoSteps DEF AfterCommit, If
<1>5. ClosingSteps(c.doc, n) = << a, b, e, Commit(n) >>
  BY DEF ClosingSteps
<1>. HIDE DEF a, b, e
<1>6. s = 3 /\ Steps(c, d)[1] = a /\ Steps(c, d)[2] = b /\ Steps(c, d)[3] = e
  BY <1>3
<1>. HIDE DEF p, s
<1>7. p[1] = a /\ p[2] = b /\ p[3] = e /\ p[4] = Commit(n)
  BY <1>1, <1>6
<1>8. Len(p) = 4
  <2>1. 5 \notin DOMAIN p
    BY <1>1, <1>4, <1>6
  <2>. QED  BY <1>1, <1>2, <1>6, <2>1
<1>9. \A i \in 1..4 : i = 1 \/ i = 2 \/ i = 3 \/ i = 4
  OBVIOUS
<1>10. \A i \in 1..4 : p[i] = ClosingSteps(c.doc, n)[i]
  BY <1>5, <1>7, <1>9
<1>. QED  BY <1>1, <1>8, <1>10 DEF p

(* How a run comes to rest: nothing happens, no process is left, the       *)
(* application starts, or an exception ends what it was doing.             *)
Ended ==
  /\ process' = "none" /\ todo' = << >> /\ UNCHANGED disk
  /\ UNCHANGED wal \/ Recover

Started ==
  /\ process = "none" /\ Pending = {} /\ process' = "app" /\ todo' = << >>
  /\ closed' = ClosedPeriods(disk) /\ UNCHANGED <<wal, disk>>

GaveUp ==
  /\ process = "app" /\ todo' = << >> /\ UNCHANGED <<wal, disk, process, closed>>
  /\ Refused \/ "error" \in Faults

LEMMA Pauses ==
  ASSUME SaneInv, [Next]_vars
  PROVE  \/ UNCHANGED vars \/ Ended \/ Started \/ GaveUp
         \/ AppendRecord
         \/ CommitTransaction
         \/ \E c, known, rest : Enters(c, known, rest)
         \/ \E n \in Txns, decision \in Decisions : Reconcile(n, decision)
<1>1. /\ process \in {"none", "app", "cli"}
      /\ process = "none" => todo = << >>
  BY DEF SaneInv, CoreInv, TypeOK
<1>2. CASE StartApplication
  BY <1>1, <1>2 DEF Started, StartApplication
<1>3. CASE Stop
  BY <1>3 DEF Stop, Ended
<1>4. CASE Refused \/ StoreFails
  <2>1. Abandon /\ (Refused \/ "error" \in Faults)
    BY <1>4 DEF Refused, StoreFails
  <2>. QED  BY <1>1, <2>1 DEF Abandon, Ended, GaveUp, Ends
<1>5. CASE Crash
  BY <1>5 DEF Crash, Ended
<1>6. CASE Recover
  <2>1. process' = "none" /\ todo' = << >> /\ UNCHANGED disk
    BY <1>1, <1>6 DEF Recover
  <2>. QED  BY <1>6, <2>1 DEF Ended
<1>7. CASE \E c \in Commands : Begin(c)
  BY <1>7, BeginEnters
<1>8. CASE CallOperation
  BY <1>8, CallEnters
<1>9. CASE \E n \in Txns, c \in Corrections : Adjust(n, c)
  BY <1>9, AdjustEnters
<1>. QED  BY <1>2, <1>3, <1>4, <1>5, <1>6, <1>7, <1>8, <1>9 DEF Next

-----------------------------------------------------------------------------
(* Closing a period.  From the record that closes it to the committed      *)
(* record the session does not know the period to be closed; the invariant *)
(* says what is still to do in between, and that nothing else is.          *)

Closing(p, n) ==
  /\ process = "app" /\ n \in Txns
  /\ wal[n].cmd.op = "accounting.close_period" /\ wal[n].cmd.doc = p
  /\ Len(todo) \in 1..4
  /\ \A i \in 1..Len(todo) : todo[i] = ClosingSteps(p, n)[4 - Len(todo) + i]
  /\ \A i \in 1..3 : i > 4 - Len(todo) => ~Has(disk, ClosingSteps(p, n)[i].rec.kind, p)
  /\ ClosedPeriods(disk) \subseteq closed \cup {p}
  /\ Len(todo) < 4 => p \in ClosedPeriods(disk)

Steady ==
  /\ \A x : In(x, todo) => ~KindIn(x, CloseKinds)
  /\ process = "app" => ClosedPeriods(disk) \subseteq closed

SealInv ==
  /\ SaneInv
  /\ \A r \in disk : r.kind \in CloseKinds => r.doc \in ClosedPeriods(disk)
  /\ \A x : In(x, todo) /\ x.do = "call" => process = "app"
  /\ Steady \/ \E p, n : Closing(p, n)
  /\ \A x : In(x, todo) /\ KindIn(x, JournalKinds) =>
       x.rec.data.period \notin ClosedPeriods(disk)

(* The store does not fail under a running application, and closing a      *)
(* period is not refused half way.                                         *)
ClosesWhole == "error" \notin Faults /\ RejectedEvents \cap CloseKinds = {}

LEMMA PeriodClosed ==
  ASSUME NEW d, NEW r
  PROVE  /\ \A p : p \in ClosedPeriods(d) <=> Has(d, "periods", p)
         /\ ClosedPeriods(d) \subseteq ClosedPeriods(d \cup {r})
         /\ r.kind = "periods" =>
              ClosedPeriods(d \cup {r}) = ClosedPeriods(d) \cup {r.doc}
         /\ r.kind # "periods" => ClosedPeriods(d \cup {r}) = ClosedPeriods(d)
BY DEF ClosedPeriods, Has, Of

LEMMA ClosingStepsAre ==
  ASSUME NEW p, NEW n
  PROVE  LET s == ClosingSteps(p, n) IN
         /\ \A i \in 1..4 : s[i].do # "call"
         /\ s[1].do = "put" /\ s[2].do = "put" /\ s[3].do = "put"
         /\ s[4].do = "commit" /\ s[4].txn = n
         /\ \A i \in 1..3 : /\ s[i].do = "put" /\ s[i].rec.kind \in CloseKinds
                            /\ s[i].rec.doc = p
         /\ s[1].rec.kind = "periods"
         /\ \A i, j \in 1..3 : s[i].rec.kind = s[j].rec.kind => i = j
<1>. DEFINE s == ClosingSteps(p, n)
<1>1. /\ s[1] = ClosePut(p) /\ s[2] = CloseAudit(p) /\ s[3] = CloseEvent(p)
      /\ s[4] = Commit(n)
  BY DEF ClosingSteps
<1>. HIDE DEF s
<1>2. /\ s[1].do = "put" /\ s[2].do = "put" /\ s[3].do = "put"
      /\ s[4].do = "commit" /\ s[4].txn = n
      /\ s[1].rec.kind = "periods" /\ s[1].rec.doc = p
      /\ s[2].rec.kind = "accounting.period_closed" /\ s[2].rec.doc = p
      /\ s[3].rec.kind = "accounting.period_closed.v1" /\ s[3].rec.doc = p
  BY <1>1 DEF ClosePut, CloseAudit, CloseEvent, Commit, Put
<1>3. /\ \A i \in 1..3 : i = 1 \/ i = 2 \/ i = 3
      /\ \A i \in 1..4 : i = 1 \/ i = 2 \/ i = 3 \/ i = 4
  OBVIOUS
<1>4. \A i \in 1..4 : s[i].do # "call"
  BY <1>2, <1>3
<1>5. \A i \in 1..3 : s[i].do = "put" /\ s[i].rec.kind \in CloseKinds /\ s[i].rec.doc = p
  BY <1>2, <1>3 DEF CloseKinds
<1>6. \A i, j \in 1..3 : s[i].rec.kind = s[j].rec.kind => i = j
  BY <1>2, <1>3
<1>. QED  BY <1>2, <1>4, <1>5, <1>6 DEF s

(* What is next while a period is being closed.                            *)
LEMMA ClosingHead ==
  ASSUME NEW p, NEW n, Closing(p, n), IsSeq(todo)
  PROVE  /\ todo # << >> /\ Head(todo) = ClosingSteps(p, n)[5 - Len(todo)]
         /\ \A x : In(x, todo) => x.do # "call" /\ ~KindIn(x, JournalKinds)
         /\ \A x : In(x, todo) /\ x.do = "put" => x.rec.kind \in CloseKinds
         /\ Head(todo).do = "put" =>
              /\ Len(todo) \in 2..4 /\ Head(todo).rec.kind \in CloseKinds
              /\ Head(todo).rec.doc = p /\ ~Has(disk, Head(todo).rec.kind, p)
              /\ Len(todo) = 4 <=> Head(todo).rec.kind = "periods"
         /\ Head(todo).do = "commit" => Len(todo) = 1 /\ Head(todo).txn = n
<1>. DEFINE s == ClosingSteps(p, n)
            k == 5 - Len(todo)
<1>1. Len(todo) \in 1..4 /\ DOMAIN todo = 1..Len(todo) /\ Head(todo) = todo[1] /\ todo # << >>
  <2>1. Len(todo) \in 1..4
    BY DEF Closing
  <2>2. todo # << >>
    BY <2>1
  <2>. QED  BY <2>1, <2>2, TailFacts
<1>2. \A i \in 1..Len(todo) : todo[i] = s[4 - Len(todo) + i]
  BY DEF Closing
<1>3. k \in 1..4 /\ Head(todo) = s[k]
  <2>. HIDE DEF s
  <2>1. PICK m : m = Len(todo)
    OBVIOUS
  <2>2. m \in 1..4 /\ k = 5 - m
    BY <1>1, <2>1
  <2>3. k \in 1..4 /\ 1 \in 1..m /\ 4 - m + 1 = 5 - m
    BY ONLY <2>2
  <2>4. todo[1] = s[4 - m + 1]
    BY <1>2, <2>1, <2>3
  <2>. QED  BY <1>1, <2>2, <2>3, <2>4
<1>4. /\ \A i \in 1..4 : s[i].do # "call"
      /\ s[4].do = "commit" /\ s[4].txn = n
      /\ \A i \in 1..3 : /\ s[i].do = "put" /\ s[i].rec.kind \in CloseKinds
                         /\ s[i].rec.doc = p
      /\ s[1].rec.kind = "periods"
      /\ \A i, j \in 1..3 : s[i].rec.kind = s[j].rec.kind => i = j
  BY ClosingStepsAre
<1>5. \A i \in 1..3 : i > 4 - Len(todo) => ~Has(disk, s[i].rec.kind, p)
  BY DEF Closing
<1>. HIDE DEF s
<1>6. \A x : In(x, todo) => \E i \in 1..4 : x = s[i]
  <2>1. \A i \in 1..Len(todo) : 4 - Len(todo) + i \in 1..4
    BY <1>1
  <2>. QED  BY <1>1, <1>2, <2>1 DEF In
<1>7. /\ \A x : In(x, todo) => x.do # "call" /\ ~KindIn(x, JournalKinds)
      /\ \A x : In(x, todo) /\ x.do = "put" => x.rec.kind \in CloseKinds
  <2>1. \A i \in 1..4 : i \in 1..3 \/ i = 4
    OBVIOUS
  <2>. QED  BY <1>4, <1>6, <2>1 DEF KindIn, JournalKinds, CloseKinds
<1>8. Head(todo).do = "put" => k \in 1..3
  BY <1>3, <1>4
<1>9. Head(todo).do = "commit" => k = 4
  BY <1>3, <1>4
<1>10. Len(todo) = 5 - k
  BY <1>1
<1>11. ASSUME Head(todo).do = "put"
       PROVE  /\ Len(todo) \in 2..4 /\ Head(todo).rec.kind \in CloseKinds
              /\ Head(todo).rec.doc = p /\ ~Has(disk, Head(todo).rec.kind, p)
              /\ Len(todo) = 4 <=> Head(todo).rec.kind = "periods"
  <2>1. k \in 1..3 /\ k > 4 - Len(todo) /\ Len(todo) \in 2..4
    BY <1>1, <1>8, <1>11
  <2>2. k = 1 <=> Head(todo).rec.kind = "periods"
    BY <1>3, <1>4, <2>1
  <2>. HIDE DEF k
  <2>3. Len(todo) = 4 <=> k = 1
    BY <1>10, <2>1
  <2>. QED  BY <1>3, <1>4, <1>5, <2>1, <2>2, <2>3
<1>. QED  BY <1>1, <1>3, <1>4, <1>7, <1>9, <1>10, <1>11 DEF s

LEMMA SealFacts ==
  ASSUME SealInv
  PROVE  /\ CoreInv /\ SaneInv /\ IsSeq(todo)
         /\ process \in {"none", "app", "cli"}
         /\ process = "none" => todo = << >>
         /\ closed \subseteq ClosedPeriods(disk)
         /\ (todo = << >> \/ \E x : In(x, todo) /\ x.do = "call") => Steady
<1>1. /\ CoreInv /\ SaneInv /\ IsSeq(todo)
      /\ process \in {"none", "app", "cli"}
      /\ process = "none" => todo = << >>
      /\ closed \subseteq ClosedPeriods(disk)
  BY DEF SealInv, SaneInv, CoreInv, Sound, TypeOK
<1>2. ASSUME NEW p, NEW n, Closing(p, n)
      PROVE  todo # << >> /\ \A x : In(x, todo) => x.do # "call"
  BY <1>1, <1>2, ClosingHead
<1>. QED  BY <1>1, <1>2 DEF SealInv

(* The process goes on as it was, or the recovery command ends.            *)
LEMMA GoesOn ==
  ASSUME AppendRecord \/ CommitTransaction
  PROVE  /\ process' = "app" <=> process = "app"
         /\ AppendRecord => UNCHANGED wal /\ (process = "app" => closed' = closed)
         /\ CommitTransaction /\ process = "app" =>
              /\ closed \subseteq closed'
              /\ wal[Head(todo).txn].cmd.op = "accounting.close_period" =>
                   wal[Head(todo).txn].cmd.doc \in closed'
BY DEF AppendRecord, CommitTransaction, Leave, Ends

LEMMA AppendSeals ==
  ASSUME SealInv, SaneInv', AppendRecord
  PROVE  SealInv'
<1>. DEFINE r == Head(todo).rec
<1>1. /\ CoreInv /\ IsSeq(todo)
  BY SealFacts
<1>2. /\ todo # << >> /\ Head(todo).do = "put" /\ In(Head(todo), todo)
      /\ disk' = disk \cup {r} /\ todo' = Tail(todo)
      /\ \A x : In(x, todo') => In(x, todo)
  BY <1>1, GoOn
<1>3. /\ process' = "app" <=> process = "app"
      /\ UNCHANGED wal
      /\ process = "app" => closed' = closed
  BY GoesOn
<1>4. \A x : In(x, todo') /\ x.do = "call" => process' = "app"
  BY <1>2, <1>3 DEF SealInv
<1>5. ASSUME Steady
      PROVE  /\ Steady'
             /\ \A x \in disk' : x.kind \in CloseKinds => x.doc \in ClosedPeriods(disk')
             /\ \A x : In(x, todo') /\ KindIn(x, JournalKinds) =>
                  x.rec.data.period \notin ClosedPeriods(disk')
  <2>1. r.kind \notin CloseKinds
    BY <1>2, <1>5 DEF Steady, KindIn
  <2>2. ClosedPeriods(disk') = ClosedPeriods(disk)
    BY <1>2, <2>1, PeriodClosed DEF CloseKinds
  <2>. QED  BY <1>2, <1>3, <1>5, <2>1, <2>2 DEF Steady, SealInv
<1>6. ASSUME NEW p, NEW n, Closing(p, n)
      PROVE  /\ Closing(p, n)'
             /\ \A x \in disk' : x.kind \in CloseKinds => x.doc \in ClosedPeriods(disk')
             /\ \A x : In(x, todo') => ~KindIn(x, JournalKinds)
  <2>. DEFINE s == ClosingSteps(p, n)
              l == Len(todo)
              t == Tail(todo)
  <2>1. /\ Head(todo) = s[5 - l]
        /\ \A x : In(x, todo) => ~KindIn(x, JournalKinds)
        /\ l \in 2..4 /\ r.kind \in CloseKinds /\ r.doc = p /\ ~Has(disk, r.kind, p)
        /\ l = 4 <=> r.kind = "periods"
    BY <1>1, <1>2, <1>6, ClosingHead
  <2>2. /\ process = "app" /\ n \in Txns
        /\ wal[n].cmd.op = "accounting.close_period" /\ wal[n].cmd.doc = p
        /\ \A i \in 1..l : todo[i] = s[4 - l + i]
        /\ \A i \in 1..3 : i > 4 - l => ~Has(disk, s[i].rec.kind, p)
        /\ ClosedPeriods(disk) \subseteq closed \cup {p}
        /\ l < 4 => p \in ClosedPeriods(disk)
    BY <1>6 DEF Closing
  <2>3. /\ Len(t) = l - 1 /\ todo' = t
        /\ \A i \in 1..l - 1 : t[i] = todo[i + 1]
    <3>1. /\ Len(t) = Len(todo) - 1 /\ DOMAIN t = 1..Len(t)
          /\ \A i \in DOMAIN t : t[i] = todo[i + 1]
      BY <1>1, <1>2, TailFacts
    <3>. HIDE DEF t
    <3>. QED  BY <1>2, <3>1 DEF t
  <2>4. /\ \A i, j \in 1..3 : s[i].rec.kind = s[j].rec.kind => i = j
        /\ s[1].rec.kind = "periods"
    BY ClosingStepsAre
  <2>. HIDE DEF l, s, t
  <2>5. Len(todo') \in 1..4 /\ Len(todo') = l - 1
    <3>1. Len(todo') = l - 1
      BY <2>3
    <3>2. l \in 2..4
      BY <2>1
    <3>. QED  BY <3>1, <3>2
  <2>6. \A i \in 1..Len(todo') : todo'[i] = s[4 - Len(todo') + i]
    <3>. SUFFICES ASSUME NEW i \in 1..l - 1 PROVE t[i] = s[4 - (l - 1) + i]
      BY <2>3, <2>5
    <3>1. i + 1 \in 1..l /\ 4 - l + (i + 1) = 4 - (l - 1) + i
      BY <2>1
    <3>. QED  BY <2>2, <2>3, <3>1
  <2>7. \A i \in 1..3 : i > 4 - Len(todo') => ~Has(disk', s[i].rec.kind, p)
    <3>. SUFFICES ASSUME NEW i \in 1..3, i > 4 - (l - 1)
                  PROVE  ~Has(disk \cup {r}, s[i].rec.kind, p)
      BY <1>2, <2>5
    <3>1. i > 4 - l /\ 5 - l \in 1..3 /\ i # 5 - l
      BY <2>1
    <3>2. s[i].rec.kind # r.kind
      BY <2>1, <2>4, <3>1
    <3>3. ~Has(disk, s[i].rec.kind, p)
      BY <2>2, <3>1
    <3>. QED  BY <3>2, <3>3 DEF Has
  <2>8. /\ p \in ClosedPeriods(disk') /\ ClosedPeriods(disk') \subseteq closed' \cup {p}
    <3>1. CASE r.kind = "periods"
      BY <1>2, <1>3, <2>1, <2>2, <3>1, PeriodClosed
    <3>2. CASE r.kind # "periods"
      <4>1. l < 4
        BY <2>1, <3>2
      <4>. QED  BY <1>2, <1>3, <2>2, <3>2, <4>1, PeriodClosed
    <3>. QED  BY <3>1, <3>2
  <2>9. Closing(p, n)'
    BY <1>3, <2>2, <2>5, <2>6, <2>7, <2>8 DEF Closing, s, Txns
  <2>10. \A x \in disk : x.kind \in CloseKinds => x.doc \in ClosedPeriods(disk')
    BY <1>2, PeriodClosed DEF SealInv
  <2>. QED  BY <1>2, <2>1, <2>8, <2>9, <2>10
<1>. QED  BY <1>4, <1>5, <1>6 DEF SealInv

LEMMA CommitSeals ==
  ASSUME SealInv, SaneInv', CommitTransaction
  PROVE  SealInv'
<1>1. /\ CoreInv /\ IsSeq(todo)
  BY SealFacts
<1>2. /\ todo # << >> /\ Head(todo).do = "commit" /\ disk' = disk /\ todo' = Tail(todo)
      /\ \A x : In(x, todo') => In(x, todo)
  BY <1>1, GoOn
<1>3. /\ process' = "app" <=> process = "app"
      /\ process = "app" =>
           /\ closed \subseteq closed'
           /\ wal[Head(todo).txn].cmd.op = "accounting.close_period" =>
                wal[Head(todo).txn].cmd.doc \in closed'
  BY GoesOn
<1>4. Steady => Steady'
  BY <1>2, <1>3 DEF Steady
<1>5. ASSUME NEW p, NEW n, Closing(p, n)
      PROVE  Steady'
  <2>1. Len(todo) = 1 /\ Head(todo).txn = n
    BY <1>1, <1>2, <1>5, ClosingHead
  <2>2. \A x : ~In(x, Tail(todo))
    BY <1>1, <1>2, <2>1, TailFacts DEF In
  <2>3. /\ process = "app" /\ wal[n].cmd.op = "accounting.close_period" /\ wal[n].cmd.doc = p
        /\ ClosedPeriods(disk) \subseteq closed \cup {p}
    BY <1>5 DEF Closing
  <2>. QED  BY <1>2, <1>3, <2>1, <2>2, <2>3 DEF Steady
<1>. QED  BY <1>2, <1>3, <1>4, <1>5 DEF SealInv

(* Who entered an operation, and which one it can be.                      *)
LEMMA Callers ==
  ASSUME SaneInv, NEW c, NEW known, NEW rest, Enters(c, known, rest)
  PROVE  /\ Command(c) /\ UNCHANGED disk
         /\ \/ /\ c \in Commands /\ known = closed /\ rest = << >> /\ todo = << >>
               /\ process = "app" /\ process' = "app" /\ closed' = closed
            \/ /\ c.op \in {"accounting.post_journal", "inventory.commit_movement"}
               /\ known = closed /\ todo # << >> /\ rest = Tail(todo)
               /\ Head(todo).do = "call" /\ In(Head(todo), todo)
               /\ c = Priced(Head(todo).cmd, disk)
               /\ process' = process /\ closed' = closed
            \/ /\ c.op = "accounting.post_journal" /\ known = ClosedPeriods(disk)
               /\ process = "none" /\ process' = "cli"
               /\ \E n : rest = Resolution(n) /\ AwaitsAdjustment(n)
<1>1. CASE Begins(c) /\ known = closed /\ rest = << >>
  BY <1>1 DEF Begins, Begin, Enters
<1>2. CASE Calls(c, rest) /\ known = closed
  <2>1. SaneCall(Head(todo).cmd)
    BY <1>2 DEF Calls, SaneInv, Sane
  <2>2. c.op \in {"accounting.post_journal", "inventory.commit_movement"}
    BY <1>2, <2>1, SanePriced DEF Calls, SaneInv
  <2>. QED  BY <1>2, <2>2 DEF Calls, Enters
<1>3. CASE \E n : Adjusts(n, c, rest) /\ known = ClosedPeriods(disk)
  <2>1. c.op = "accounting.post_journal"
    BY <1>3, SaneCorrection DEF Adjusts, Correction
  <2>. QED  BY <1>3, <2>1 DEF Adjusts, Enters
<1>. QED  BY <1>1, <1>2, <1>3 DEF Enters

LEMMA EnteredLog ==
  ASSUME CoreInv, NEW c, NEW known, NEW rest, Enters(c, known, rest)
  PROVE  /\ Len(wal) \in Nat /\ DOMAIN wal = 1..Len(wal)
         /\ Len(wal) + 1 \in Txns' /\ wal'[Len(wal) + 1] = [cmd |-> c, state |-> "pending"]
         /\ \A n \in Txns : n \in Txns' /\ wal'[n] = wal[n]
BY LogAppend, LogFacts DEF CoreInv, Enters, Enter, Txns

(* What an operation writes to the ledger goes to a period that is open.   *)
LEMMA JournalPeriod ==
  ASSUME NEW c, NEW d, NEW n, NEW known, Command(c), Admissible(c, d, known),
         NEW x, In(x, Piece(c, d, n)), KindIn(x, JournalKinds)
  PROVE  /\ c.op = "accounting.post_journal" /\ JournalAdmissible(c, d, known)
         /\ x = EntryPut(c) \/ \E i \in DOMAIN c.lines : x = LinePut(c, i)
         /\ x.rec.data.period = c.period /\ c.period \notin known
<1>1. /\ c.op = "accounting.post_journal"
      /\ x = EntryPut(c) \/ \E i \in DOMAIN c.lines : x = LinePut(c, i)
  BY PutIs DEF KindIn, JournalKinds, CloseKinds, MovePut, InvoicePut, InvoiceLinePut, RefundPut,
       RefundLinePut, Put
<1>2. JournalAdmissible(c, d, known)
  BY <1>1 DEF Admissible
<1>. QED  BY <1>1, <1>2 DEF EntryPut, LinePut, Put, JournalAdmissible

LEMMA EnterSeals ==
  ASSUME SealInv, SaneInv', NEW c, NEW known, NEW rest, Enters(c, known, rest)
  PROVE  SealInv'
<1>0. PICK n : n = Len(wal) + 1
  OBVIOUS
<1>. DEFINE p == Piece(c, disk, n)
            journal == "accounting.post_journal"
            movement == "inventory.commit_movement"
<1>1. /\ CoreInv /\ SaneInv /\ IsSeq(todo)
      /\ process = "none" => todo = << >>
      /\ (todo = << >> \/ \E x : In(x, todo) /\ x.do = "call") => Steady
  BY SealFacts
<1>2. /\ todo' = p \o rest /\ Admissible(c, disk, known) /\ IsSeq(p) /\ IsSeq(rest)
      /\ \A x : In(x, todo') <=> In(x, p) \/ In(x, rest)
  BY <1>0, EnterIs
<1>3. /\ Command(c) /\ disk' = disk
      /\ \/ /\ c \in Commands /\ known = closed /\ rest = << >> /\ todo = << >>
            /\ process = "app" /\ process' = "app" /\ closed' = closed
         \/ /\ c.op \in {journal, movement}
            /\ known = closed /\ todo # << >> /\ rest = Tail(todo)
            /\ Head(todo).do = "call" /\ In(Head(todo), todo)
            /\ process' = process /\ closed' = closed
         \/ /\ c.op = journal /\ known = ClosedPeriods(disk)
            /\ process = "none" /\ process' = "cli"
            /\ \E m : rest = Resolution(m)
  BY <1>1, Callers
<1>4. Steady
  BY <1>1, <1>3
<1>5. ClosedPeriods(disk) \subseteq known
  BY <1>1, <1>3, <1>4 DEF Steady, SealInv
<1>6. /\ \A x : In(x, rest) => ~KindIn(x, CloseKinds)
      /\ \A x : In(x, rest) /\ x.do = "call" => process' = "app"
      /\ \A x : In(x, rest) /\ KindIn(x, JournalKinds) =>
           x.rec.data.period \notin ClosedPeriods(disk)
  <2>1. CASE rest = << >>
    BY <2>1, NoSteps
  <2>2. CASE todo # << >> /\ rest = Tail(todo) /\ process' = process
    <3>1. \A x : In(x, rest) => In(x, todo)
      BY <1>1, <2>2, HeadAndTail
    <3>. QED  BY <1>4, <2>2, <3>1 DEF Steady, SealInv
  <2>3. CASE \E m : rest = Resolution(m)
    BY <2>3, ResolutionIs DEF KindIn, CloseKinds, JournalKinds, Commit
  <2>. QED  BY <1>3, <2>1, <2>2, <2>3
<1>7. \A x : In(x, p) /\ KindIn(x, JournalKinds) => x.rec.data.period \notin ClosedPeriods(disk)
  BY <1>2, <1>3, <1>5, JournalPeriod
<1>8. \A x : In(x, p) /\ x.do = "call" => process' = "app"
  <2>. SUFFICES ASSUME NEW x, In(x, p), x.do = "call" PROVE process' = "app"
    OBVIOUS
  <2>1. c.op # journal
    BY <1>3, CallIs
  <2>. QED  BY <1>3, <2>1 DEF SealInv
<1>9. (\A x : In(x, todo') => ~KindIn(x, CloseKinds)) \/ Closing(c.doc, n)'
  <2>1. CASE c.op # "accounting.close_period"
    <3>1. \A x : In(x, p) => ~KindIn(x, CloseKinds)
      BY <1>3, <2>1, PutIs DEF KindIn, CloseKinds, MovePut, EntryPut, LinePut, InvoicePut,
           InvoiceLinePut, RefundPut, RefundLinePut, Put
    <3>. QED  BY <1>2, <1>6, <3>1
  <2>2. CASE c.op = "accounting.close_period"
    <3>. DEFINE s == ClosingSteps(c.doc, n)
    <3>1. /\ rest = << >> /\ process' = "app" /\ closed' = closed
      BY <1>3, <2>2
    <3>2. IsSeq(p) /\ Len(p) = 4 /\ \A i \in 1..4 : p[i] = s[i]
      BY <1>3, <2>2, CloseIs
    <3>3. todo' = p
      <4>1. p \in Seq(Range(p))
        BY <3>2 DEF IsSeq
      <4>. QED  BY <1>2, <3>1, <4>1, ConcatEmptySeq
    <3>4. /\ n \in Txns' /\ wal'[n].cmd = c
      <4>1. n \in Txns' /\ wal'[n] = [cmd |-> c, state |-> "pending"]
        BY <1>0, <1>1, EnteredLog
      <4>. QED  BY <4>1
    <3>5. c.doc \notin ClosedPeriods(disk)
      BY <1>2, <1>5, <2>2 DEF Admissible, CloseAdmissible
    <3>6. \A i \in 1..3 : ~Has(disk, s[i].rec.kind, c.doc)
      BY <3>5, ClosingStepsAre DEF SealInv, Has
    <3>. HIDE DEF s, p
    <3>7. Len(todo') = 4 /\ \A i \in 1..4 : todo'[i] = s[i]
      BY <3>2, <3>3
    <3>8. /\ Len(todo') \in 1..4
          /\ \A i \in 1..Len(todo') : todo'[i] = s[4 - Len(todo') + i]
      <4>1. \A i \in 1..4 : 4 - 4 + i = i
        OBVIOUS
      <4>. QED  BY <3>7, <4>1
    <3>9. /\ ClosedPeriods(disk') \subseteq closed' \cup {c.doc}
          /\ \A i \in 1..3 : i > 4 - Len(todo') => ~Has(disk', s[i].rec.kind, c.doc)
      BY <1>3, <1>4, <3>1, <3>6 DEF Steady
    <3>10. ~(Len(todo') < 4)
      BY <3>7
    <3>. QED  BY <2>2, <3>1, <3>4, <3>8, <3>9, <3>10 DEF Closing, s
  <2>. QED  BY <2>1, <2>2
<1>10. process' = "app" => ClosedPeriods(disk') \subseteq closed'
  BY <1>3, <1>4 DEF Steady
<1>. HIDE DEF p
<1>. QED  BY <1>2, <1>3, <1>6, <1>7, <1>8, <1>9, <1>10 DEF SealInv, Steady

LEMMA InitSeals == Init => SealInv
<1>. SUFFICES ASSUME Init PROVE SealInv
  OBVIOUS
<1>1. disk = {} /\ todo = << >> /\ process = "none" /\ SaneInv
  BY InitSane DEF Init
<1>. QED  BY <1>1, NoSteps DEF SealInv, Steady

LEMMA NextSeals ==
  ASSUME ClosesWhole
  PROVE  SealInv /\ [Next]_vars => SealInv'
<1>. SUFFICES ASSUME SealInv, [Next]_vars PROVE SealInv'
  OBVIOUS
<1>0. SaneInv /\ SaneInv' /\ IsSeq(todo)
  BY NextSane, SealFacts DEF SealInv
<1>1. CASE UNCHANGED vars
  BY <1>0, <1>1 DEF vars, SealInv, Steady, Closing, Txns
<1>2. CASE Ended
  <2>1. Steady'
    BY <1>2, NoSteps DEF Ended, Steady
  <2>. QED  BY <1>0, <1>2, <2>1, NoSteps DEF Ended, SealInv
<1>3. CASE Started
  <2>1. Steady'
    BY <1>3, NoSteps DEF Started, Steady
  <2>. QED  BY <1>0, <1>3, <2>1, NoSteps DEF Started, SealInv
<1>4. CASE GaveUp
  <2>1. Refused
    BY <1>4 DEF GaveUp, ClosesWhole
  <2>2. ASSUME NEW p, NEW n, Closing(p, n)
        PROVE  FALSE
    <3>1. /\ todo # << >> /\ In(Head(todo), todo)
          /\ \A x : In(x, todo) => x.do # "call"
          /\ Head(todo).do = "put" =>
               /\ Head(todo).rec.kind \in CloseKinds
               /\ Head(todo).rec.doc = p /\ ~Has(disk, Head(todo).rec.kind, p)
      BY <1>0, <2>2, ClosingHead, HeadAndTail
    <3>2. Head(todo).do = "put" => Appendable(Head(todo).rec)
      BY <3>1 DEF Appendable, Has, Key, ClosesWhole
    <3>. QED  BY <2>1, <3>1, <3>2 DEF Refused, Doing
  <2>3. Steady'
    BY <1>4, <2>2, NoSteps DEF GaveUp, Steady, SealInv
  <2>. QED  BY <1>0, <1>4, <2>3, NoSteps DEF GaveUp, SealInv
<1>5. CASE AppendRecord
  BY <1>0, <1>5, AppendSeals
<1>6. CASE CommitTransaction
  BY <1>0, <1>6, CommitSeals
<1>7. CASE \E c, known, rest : Enters(c, known, rest)
  BY <1>0, <1>7, EnterSeals
<1>8. CASE \E n \in Txns, decision \in Decisions : Reconcile(n, decision)
  <2>1. PICK n, decision : Reconcile(n, decision)
    BY <1>8
  <2>2. disk' = disk /\ process' = "cli"
    BY <2>1 DEF Reconcile
  <2>3. \A x : In(x, todo') => /\ x.do # "call"
                               /\ ~KindIn(x, CloseKinds) /\ ~KindIn(x, JournalKinds)
    BY <2>1, ReconcileIs DEF KindIn, CloseKinds, JournalKinds, Commit
  <2>4. Steady'
    BY <2>2, <2>3 DEF Steady
  <2>. QED  BY <1>0, <2>2, <2>3, <2>4 DEF SealInv
<1>. QED  BY <1>0, <1>1, <1>2, <1>3, <1>4, <1>5, <1>6, <1>7, <1>8, Pauses

LEMMA AlwaysSeals ==
  ASSUME ClosesWhole
  PROVE  Spec => []SealInv
BY InitSeals, NextSeals, PTL DEF Spec

-----------------------------------------------------------------------------
(* Nothing financial is added to a closed period.                          *)

MoneyKinds == {"stock_movements", "invoices", "refunds"}

OpenInv ==
  /\ SealInv
  /\ \A x : In(x, todo) /\ KindIn(x, MoneyKinds) => x.rec.data.period \notin ClosedPeriods(disk)
  /\ \A x : In(x, todo) /\ x.do = "call" /\ x.cmd.op = "inventory.commit_movement" =>
       x.cmd.period \notin ClosedPeriods(disk)

(* Goods move in the period their sale or refund is accounted in, and      *)
(* users ask for movements through their use case.                         *)
DatedTogether ==
  \A c \in Commands :
    /\ c.op \in {"billing.create_invoice", "billing.create_refund"} => c.movePeriod = c.period
    /\ c.op = "inventory.commit_movement" => c.by = "use_case"

LEMMA EnteredPeriod ==
  ASSUME DatedTogether, OpenInv, NEW c, NEW known, NEW rest, Enters(c, known, rest),
         c.op \in {"inventory.commit_movement", "billing.create_invoice",
                   "billing.create_refund"}
  PROVE  /\ c.period \notin ClosedPeriods(disk)
         /\ c.op # "inventory.commit_movement" => c.movePeriod = c.period
<1>1. /\ SaneInv /\ closed \subseteq ClosedPeriods(disk)
      /\ (todo = << >> \/ \E x : In(x, todo) /\ x.do = "call") => Steady
  BY SealFacts DEF OpenInv
<1>2. /\ \/ /\ c \in Commands /\ known = closed /\ todo = << >> /\ process = "app"
         \/ /\ c.op = "inventory.commit_movement" /\ known = closed
            /\ Head(todo).do = "call" /\ In(Head(todo), todo)
            /\ c = Priced(Head(todo).cmd, disk)
  BY <1>1, Callers
<1>3. Admissible(c, disk, known)
  BY EnterIs
<1>4. CASE c \in Commands /\ known = closed /\ todo = << >> /\ process = "app"
  <2>1. ClosedPeriods(disk) \subseteq known
    BY <1>1, <1>4 DEF Steady
  <2>2. c.period \notin known
    <3>1. CASE c.op = "inventory.commit_movement"
      BY <1>3, <1>4, <3>1 DEF Admissible, MovementAdmissible, DatedTogether
    <3>2. CASE c.op = "billing.create_invoice"
      BY <1>3, <3>2 DEF Admissible, InvoiceAdmissible
    <3>3. CASE c.op = "billing.create_refund"
      BY <1>3, <3>3 DEF Admissible, RefundAdmissible
    <3>. QED  BY <3>1, <3>2, <3>3
  <2>. QED  BY <1>4, <2>1, <2>2 DEF DatedTogether
<1>5. CASE /\ c.op = "inventory.commit_movement"
           /\ Head(todo).do = "call" /\ In(Head(todo), todo)
           /\ c = Priced(Head(todo).cmd, disk)
  <2>. DEFINE q == Head(todo).cmd
  <2>1. SaneCall(q) /\ SaneDisk(disk)
    BY <1>1, <1>5 DEF SaneInv, Sane
  <2>2. q.op = "inventory.commit_movement" /\ DOMAIN q = Fields("inventory.commit_movement")
    BY <1>5, <2>1, SanePriced DEF SaneCall, Command
  <2>3. q.period = c.period
    BY <1>5, <2>2 DEF Priced, Fields
  <2>. QED  BY <1>5, <2>2, <2>3 DEF OpenInv
<1>. QED  BY <1>2, <1>4, <1>5

LEMMA EnterOpen ==
  ASSUME DatedTogether, OpenInv, SealInv', NEW c, NEW known, NEW rest, Enters(c, known, rest)
  PROVE  OpenInv'
<1>0. PICK n : n = Len(wal) + 1
  OBVIOUS
<1>. DEFINE p == Piece(c, disk, n)
<1>1. /\ todo' = p \o rest /\ \A x : In(x, todo') <=> In(x, p) \/ In(x, rest)
  BY <1>0, EnterIs
<1>2. /\ Command(c) /\ disk' = disk
      /\ \/ rest = << >>
         \/ todo # << >> /\ rest = Tail(todo)
         \/ \E m : rest = Resolution(m)
  BY Callers DEF OpenInv, SealInv
<1>3. IsSeq(todo)
  BY SealFacts DEF OpenInv
<1>4. \A x : In(x, rest) =>
        /\ KindIn(x, MoneyKinds) => x.rec.data.period \notin ClosedPeriods(disk)
        /\ x.do = "call" /\ x.cmd.op = "inventory.commit_movement" =>
             x.cmd.period \notin ClosedPeriods(disk)
  <2>1. CASE rest = << >>
    BY <2>1, NoSteps
  <2>2. CASE todo # << >> /\ rest = Tail(todo)
    <3>1. \A x : In(x, rest) => In(x, todo)
      BY <1>3, <2>2, HeadAndTail
    <3>. QED  BY <3>1 DEF OpenInv
  <2>3. CASE \E m : rest = Resolution(m)
    BY <2>3, ResolutionIs DEF KindIn, MoneyKinds, Commit
  <2>. QED  BY <1>2, <2>1, <2>2, <2>3
<1>5. c.op \in {"inventory.commit_movement", "billing.create_invoice",
                "billing.create_refund"} =>
        /\ c.period \notin ClosedPeriods(disk)
        /\ c.op # "inventory.commit_movement" => c.movePeriod = c.period
  BY EnteredPeriod
<1>6. ASSUME NEW x, In(x, p), KindIn(x, MoneyKinds)
      PROVE  x.rec.data.period \notin ClosedPeriods(disk)
  <2>1. \/ c.op = "inventory.commit_movement" /\ x = MovePut(c, disk)
        \/ c.op = "billing.create_invoice" /\ x = InvoicePut(c)
        \/ c.op = "billing.create_refund" /\ x = RefundPut(c)
    BY <1>2, <1>6, PutIs DEF KindIn, MoneyKinds, CloseKinds, EntryPut, LinePut, InvoiceLinePut,
         RefundLinePut, Put
  <2>. QED  BY <1>5, <2>1 DEF MovePut, InvoicePut, RefundPut, Put
<1>7. ASSUME NEW x, In(x, p), x.do = "call", x.cmd.op = "inventory.commit_movement"
      PROVE  x.cmd.period \notin ClosedPeriods(disk)
  <2>1. \/ /\ c.op = "billing.create_invoice"
           /\ \E i \in DOMAIN c.lines : x = Call(SaleMovement(c, i))
        \/ /\ c.op = "billing.create_refund"
           /\ \E i \in DOMAIN c.lines : x = Call(ReturnMovement(c, i, disk))
    <3>1. /\ x # Call(MovementJournal(c, ValueDelta(c, disk)))
          /\ x # Call(InvoiceJournal(c, SumFunction(InvoiceCogs(c, disk))))
          /\ x # Call(RefundJournal(c, SumFunction(RefundCogs(c, disk))))
      BY <1>7 DEF Call, MovementJournal, InvoiceJournal, RefundJournal, Journal
    <3>2. Command(c) /\ In(x, Piece(c, disk, n)) /\ x.do = "call"
      BY <1>2, <1>7
    <3>. QED  BY <3>1, <3>2, CallIs
  <2>. QED  BY <1>5, <2>1 DEF SaleMovement, ReturnMovement, Movement, Call
<1>. HIDE DEF p
<1>. QED  BY <1>1, <1>2, <1>4, <1>6, <1>7 DEF OpenInv

LEMMA NextOpen ==
  ASSUME ClosesWhole, DatedTogether
  PROVE  OpenInv /\ [Next]_vars => OpenInv'
<1>. SUFFICES ASSUME OpenInv, [Next]_vars PROVE OpenInv'
  OBVIOUS
<1>0. SealInv /\ SealInv' /\ SaneInv /\ CoreInv /\ IsSeq(todo)
  BY NextSeals, SealFacts DEF OpenInv
<1>1. CASE UNCHANGED vars
  BY <1>0, <1>1 DEF vars, OpenInv
<1>2. CASE Ended \/ Started \/ GaveUp
  BY <1>0, <1>2, NoSteps DEF Ended, Started, GaveUp, OpenInv
<1>3. CASE AppendRecord
  <2>1. /\ Head(todo).do = "put" /\ disk' = disk \cup {Head(todo).rec} /\ In(Head(todo), todo)
        /\ \A x : In(x, todo') => In(x, todo)
    BY <1>0, <1>3, GoOn
  <2>2. CASE Steady
    <3>1. ClosedPeriods(disk') = ClosedPeriods(disk)
      BY <2>1, <2>2, PeriodClosed DEF Steady, KindIn, CloseKinds
    <3>. QED  BY <1>0, <2>1, <3>1 DEF OpenInv
  <2>3. CASE \E p, n : Closing(p, n)
    <3>1. \A x : In(x, todo) => x.do # "call" /\ ~KindIn(x, MoneyKinds)
      BY <1>0, <2>3, ClosingHead DEF KindIn, CloseKinds, MoneyKinds
    <3>. QED  BY <1>0, <2>1, <3>1 DEF OpenInv
  <2>. QED  BY <1>0, <2>2, <2>3 DEF SealInv
<1>4. CASE CommitTransaction
  BY <1>0, <1>4, GoOn DEF OpenInv
<1>5. CASE \E c, known, rest : Enters(c, known, rest)
  BY <1>0, <1>5, EnterOpen
<1>6. CASE \E n \in Txns, decision \in Decisions : Reconcile(n, decision)
  <2>1. PICK n, decision : Reconcile(n, decision)
    BY <1>6
  <2>2. \A x : In(x, todo') => x.do # "call" /\ ~KindIn(x, MoneyKinds)
    BY <2>1, ReconcileIs DEF KindIn, MoneyKinds, Commit
  <2>. QED  BY <1>0, <2>2 DEF OpenInv
<1>. QED  BY <1>0, <1>1, <1>2, <1>3, <1>4, <1>5, <1>6, Pauses

LEMMA StaysSealed ==
  ASSUME OpenInv, [Next]_vars
  PROVE  \A p \in ClosedPeriods(disk) : Financial(disk', p) = Financial(disk, p)
<1>1. CASE AppendRecord
  <2>. DEFINE r == Head(todo).rec
  <2>1. CoreInv /\ IsSeq(todo)
    BY SealFacts DEF OpenInv
  <2>2. Head(todo).do = "put" /\ disk' = disk \cup {r} /\ In(Head(todo), todo)
    BY <1>1, <2>1, GoOn
  <2>3. r.kind \in JournalKinds \cup MoneyKinds => r.data.period \notin ClosedPeriods(disk)
    BY <2>2 DEF OpenInv, SealInv, KindIn
  <2>. HIDE DEF r
  <2>4. ASSUME NEW p \in ClosedPeriods(disk), NEW k \in JournalKinds \cup MoneyKinds
        PROVE  InPeriod(disk', k, p) = InPeriod(disk, k, p)
    BY <2>2, <2>3, <2>4 DEF InPeriod, Of
  <2>. QED  BY <2>4 DEF Financial, JournalKinds, MoneyKinds
<1>2. CASE disk' = disk
  BY <1>2
<1>. QED  BY <1>1, <1>2, Pauses, GoOn
          DEF vars, Ended, Started, GaveUp, Enters, Reconcile, OpenInv, SealInv, CommitTransaction

(* Once the record that closes a period is on disk, no service of any      *)
(* process and no recovery command adds a journal, a movement, an invoice  *)
(* or a refund to the period (close_period, is_period_closed).  A store    *)
(* that fails under a running application, or goods that move in another   *)
(* period than their sale is accounted in, break it.                       *)
THEOREM ClosedStaysSealed ==
  ASSUME ClosesWhole, DatedTogether
  PROVE  Spec => ClosedPeriodSealed
<1>1. Init => OpenInv
  <2>. SUFFICES ASSUME Init PROVE OpenInv
    OBVIOUS
  <2>1. disk = {} /\ todo = << >> /\ process = "none" /\ SaneInv
    BY InitSane DEF Init
  <2>. QED  BY <2>1, NoSteps DEF OpenInv, SealInv, Steady
<1>2. OpenInv /\ [Next]_vars => OpenInv'
  BY NextOpen
<1>3. OpenInv /\ [Next]_vars =>
        [\A p \in ClosedPeriods(disk) : Financial(disk', p) = Financial(disk, p)]_vars
  BY StaysSealed
<1>. QED  BY <1>1, <1>2, <1>3, PTL DEF Spec, ClosedPeriodSealed

-----------------------------------------------------------------------------
(* The books of a period balance, or what is still to be put there makes   *)
(* up for the difference.                                                  *)

Line(x) == KindIn(x, {"journal_lines"})

Balance(d, p) ==
  SumOf("debit", InPeriod(d, "journal_lines", p))
    - SumOf("credit", InPeriod(d, "journal_lines", p))

Amount(x, p) ==
  IF Line(x) /\ x.rec.data.period = p THEN x.rec.data.debit - x.rec.data.credit ELSE 0

Ahead(s, p) == SumFunctionOnSet([i \in DOMAIN s |-> Amount(s[i], p)], DOMAIN s)

Summable(s, p) == IsSeq(s) /\ \A x : In(x, s) => Amount(x, p) \in Int

LEMMA StepsCounted ==
  ASSUME NEW s, IsSeq(s)
  PROVE  Len(s) \in Nat /\ DOMAIN s = 1..Len(s) /\ IsFiniteSet(DOMAIN s)
<1>1. Len(s) \in Nat /\ DOMAIN s = 1..Len(s)
  BY Concatenation
<1>. QED  BY <1>1, FS_Interval

LEMMA Joins ==
  ASSUME NEW s, NEW t, NEW u, u = s \o t, IsSeq(s), IsSeq(t)
  PROVE  /\ IsSeq(u) /\ Len(s) \in Nat /\ Len(t) \in Nat /\ Len(u) \in Nat
         /\ DOMAIN s = 1..Len(s) /\ DOMAIN t = 1..Len(t) /\ DOMAIN u = 1..Len(u)
         /\ Len(u) = Len(s) + Len(t)
         /\ \A i \in DOMAIN s : u[i] = s[i]
         /\ \A i \in DOMAIN t : u[Len(s) + i] = t[i]
         /\ \A i \in DOMAIN u :
              i \notin DOMAIN s => i - Len(s) \in DOMAIN t /\ u[i] = t[i - Len(s)]
<1>1. /\ IsSeq(u) /\ Len(s) \in Nat /\ Len(t) \in Nat
      /\ DOMAIN s = 1..Len(s) /\ DOMAIN t = 1..Len(t)
      /\ Len(u) = Len(s) + Len(t)
      /\ \A i \in DOMAIN s : u[i] = s[i]
  BY Concatenation
<1>2. \A i \in DOMAIN t : u[Len(s) + i] = t[i]
  BY Concatenation
<1>3. \A i \in DOMAIN u : i \notin DOMAIN s => i - Len(s) \in DOMAIN t /\ u[i] = t[i - Len(s)]
  BY Concatenation
<1>4. Len(u) \in Nat /\ DOMAIN u = 1..Len(u)
  BY <1>1, StepsCounted
<1>. QED  BY <1>1, <1>2, <1>3, <1>4

LEMMA Associates ==
  ASSUME NEW s, NEW t, NEW u, IsSeq(s), IsSeq(t), IsSeq(u)
  PROVE  (s \o t) \o u = s \o (t \o u)
<1>. DEFINE S == Range(s) \cup Range(t) \cup Range(u)
<1>1. s \in Seq(Range(s)) /\ t \in Seq(Range(t)) /\ u \in Seq(Range(u))
  BY DEF IsSeq
<1>2. s \in Seq(S) /\ t \in Seq(S) /\ u \in Seq(S)
  <2>. HIDE DEF S
  <2>1. Range(s) \subseteq S /\ Range(t) \subseteq S /\ Range(u) \subseteq S
    BY DEF S
  <2>. QED  BY <1>1, <2>1
<1>. HIDE DEF S
<1>. QED  BY <1>2, ConcatAssociative

LEMMA AheadJoined ==
  ASSUME NEW s, NEW t, NEW p, Summable(s, p), Summable(t, p)
  PROVE  Summable(s \o t, p) /\ Ahead(s \o t, p) = Ahead(s, p) + Ahead(t, p)
<1>. DEFINE st == s \o t
            a == Len(s)
            b == Len(t)
            f == [i \in DOMAIN s |-> Amount(s[i], p)]
            g == [i \in DOMAIN t |-> Amount(t[i], p)]
            h == [i \in DOMAIN st |-> Amount(st[i], p)]
<1>1. /\ IsSeq(st) /\ a \in Nat /\ DOMAIN s = 1..a /\ b \in Nat /\ DOMAIN t = 1..b
      /\ DOMAIN st = 1..a + b
      /\ \A i \in DOMAIN s : st[i] = s[i]
      /\ \A i \in DOMAIN t : st[a + i] = t[i]
  BY Concatenation DEF Summable
<1>2. \A x : In(x, st) <=> In(x, s) \/ In(x, t)
  BY Members DEF Summable
<1>. HIDE DEF st, a, b
<1>3. /\ \A i \in 1..a : i \in DOMAIN s /\ i \in DOMAIN st
      /\ \A i \in 1..b : i \in DOMAIN t /\ a + i \in DOMAIN st
  BY <1>1
<1>4. \A i \in DOMAIN s : f[i] \in Int /\ h[i] = f[i]
  BY <1>1, <1>3 DEF Summable, In
<1>5. \A i \in DOMAIN t : g[i] \in Int /\ h[a + i] = g[i]
  BY <1>1, <1>3 DEF Summable, In
<1>6. /\ Ahead(s, p) = SumFunctionOnSet(f, DOMAIN s)
      /\ Ahead(t, p) = SumFunctionOnSet(g, DOMAIN t)
      /\ Ahead(st, p) = SumFunctionOnSet(h, DOMAIN st)
  BY DEF Ahead
<1>7. Summable(st, p)
  BY <1>1, <1>2 DEF Summable
<1>. HIDE DEF f, g, h
<1>8. SumFunctionOnSet(h, DOMAIN st)
        = SumFunctionOnSet(f, DOMAIN s) + SumFunctionOnSet(g, DOMAIN t)
  <2>. DEFINE phi == [i \in DOMAIN t |-> a + i]
  <2>1. IsFiniteSet(DOMAIN s) /\ IsFiniteSet(DOMAIN t)
    BY StepsCounted DEF Summable
  <2>2. \A i \in DOMAIN t : /\ phi[i] \in DOMAIN st /\ phi[i] \notin DOMAIN s
                            /\ g[i] \in Int /\ h[phi[i]] = g[i]
    BY <1>1, <1>3, <1>5
  <2>3. \A i, j \in DOMAIN t : phi[i] = phi[j] => i = j
    BY <1>1
  <2>4. \A k \in DOMAIN st : k \in DOMAIN s \/ \E i \in DOMAIN t : k = phi[i]
    <3>1. \A k \in DOMAIN st : k \notin DOMAIN s => k - a \in DOMAIN t /\ k = a + (k - a)
      BY <1>1
    <3>. QED  BY <3>1
  <2>5. \A i \in DOMAIN s : i \in DOMAIN st /\ f[i] \in Int /\ h[i] = f[i]
    BY <1>1, <1>3, <1>4
  <2>. HIDE DEF phi
  <2>. QED  BY <2>1, <2>2, <2>3, <2>4, <2>5, SumJoined
<1>. QED  BY <1>6, <1>7, <1>8 DEF st

LEMMA AheadType ==
  ASSUME NEW s, NEW p, Summable(s, p)
  PROVE  Ahead(s, p) \in Int
<1>. DEFINE f == [i \in DOMAIN s |-> Amount(s[i], p)]
<1>1. IsFiniteSet(DOMAIN s)
  BY StepsCounted DEF Summable
<1>2. \A i \in DOMAIN s : f[i] \in Int
  BY DEF Summable, In
<1>3. Ahead(s, p) = SumFunctionOnSet(f, DOMAIN s)
  BY DEF Ahead
<1>. HIDE DEF f
<1>. QED  BY <1>1, <1>2, <1>3, SumType

LEMMA AheadNone ==
  ASSUME NEW s, NEW p, IsSeq(s), \A x : In(x, s) => Amount(x, p) = 0
  PROVE  Summable(s, p) /\ Ahead(s, p) = 0
<1>. DEFINE f == [i \in DOMAIN s |-> Amount(s[i], p)]
<1>1. IsFiniteSet(DOMAIN s)
  BY StepsCounted
<1>2. \A i \in DOMAIN s : f[i] = 0
  BY DEF In
<1>3. Ahead(s, p) = SumFunctionOnSet(f, DOMAIN s)
  BY DEF Ahead
<1>. HIDE DEF f
<1>. QED  BY <1>1, <1>2, <1>3, SumZero DEF Summable

LEMMA AheadHead ==
  ASSUME NEW s, NEW p, Summable(s, p), s # << >>
  PROVE  /\ Summable(Tail(s), p) /\ Amount(Head(s), p) \in Int
         /\ Ahead(s, p) = Amount(Head(s), p) + Ahead(Tail(s), p)
<1>. DEFINE t == Tail(s)
            b == Len(t)
            f == [i \in DOMAIN s |-> Amount(s[i], p)]
            g == [i \in DOMAIN t |-> Amount(t[i], p)]
            e == [i \in {1} |-> Amount(Head(s), p)]
<1>1. /\ IsSeq(t) /\ Len(s) \in Nat /\ DOMAIN s = 1..Len(s) /\ b = Len(s) - 1
      /\ DOMAIN t = 1..b
      /\ \A i \in DOMAIN t : i + 1 \in DOMAIN s /\ t[i] = s[i + 1]
      /\ 1 \in DOMAIN s /\ s[1] = Head(s)
  BY TailFacts DEF Summable
<1>2. In(Head(s), s) /\ \A x : In(x, t) => In(x, s)
  BY HeadAndTail DEF Summable
<1>. HIDE DEF t, b
<1>3. b \in Nat /\ DOMAIN s = 1..(1 + b)
  BY <1>1
<1>4. Summable(t, p) /\ Amount(Head(s), p) \in Int
  BY <1>1, <1>2 DEF Summable
<1>5. \A i \in {1} : e[i] \in Int /\ f[i] = e[i]
  BY <1>1, <1>4
<1>6. \A i \in DOMAIN t : g[i] \in Int /\ f[1 + i] = g[i]
  <2>1. \A i \in DOMAIN t : 1 + i = i + 1
    BY <1>1
  <2>. QED  BY <1>1, <1>4, <2>1 DEF Summable, In
<1>7. /\ Ahead(s, p) = SumFunctionOnSet(f, DOMAIN s)
      /\ Ahead(t, p) = SumFunctionOnSet(g, DOMAIN t)
  BY DEF Ahead
<1>8. e[1] = Amount(Head(s), p)
  OBVIOUS
<1>. HIDE DEF e, f, g
<1>9. SumFunctionOnSet(f, DOMAIN s) = SumFunctionOnSet(e, {1}) + SumFunctionOnSet(g, DOMAIN t)
  <2>. DEFINE phi == [i \in DOMAIN t |-> 1 + i]
  <2>1. IsFiniteSet({1}) /\ IsFiniteSet(DOMAIN t)
    BY <1>1, StepsCounted, FS_Singleton
  <2>2. \A i \in DOMAIN t : /\ phi[i] \in DOMAIN s /\ phi[i] \notin {1}
                            /\ g[i] \in Int /\ f[phi[i]] = g[i]
    BY <1>1, <1>6
  <2>3. \A i, j \in DOMAIN t : phi[i] = phi[j] => i = j
    BY <1>1
  <2>4. \A k \in DOMAIN s : k \in {1} \/ \E i \in DOMAIN t : k = phi[i]
    <3>1. \A k \in DOMAIN s : k # 1 => k - 1 \in DOMAIN t /\ k = 1 + (k - 1)
      BY <1>1
    <3>. QED  BY <3>1
  <2>5. \A i \in {1} : i \in DOMAIN s /\ e[i] \in Int /\ f[i] = e[i]
    BY <1>1, <1>5
  <2>. HIDE DEF phi
  <2>. QED  BY <2>1, <2>2, <2>3, <2>4, <2>5, SumJoined
<1>10. SumFunctionOnSet(e, {1}) = e[1]
  BY <1>4, <1>8, SumSingleton
<1>. QED  BY <1>4, <1>7, <1>8, <1>9, <1>10 DEF t

(* The steps of a journal in their order: its header, its lines, the rest. *)
LineSteps(c) == [i \in DOMAIN c.lines |-> LinePut(c, i)]

JournalEnd(c, d, n) ==
  AuditAndEvent("accounting.journal_posted", "accounting.journal_posted.v1", c.doc, 0)
    \o << Commit(n) >>

LEMMA JournalPiece ==
  ASSUME NEW c, NEW d, NEW n, Command(c), c.op = "accounting.post_journal"
  PROVE  /\ Piece(c, d, n) = (<< EntryPut(c) >> \o LineSteps(c)) \o JournalEnd(c, d, n)
         /\ IsSeq(LineSteps(c)) /\ Len(LineSteps(c)) = Len(c.lines)
         /\ Len(c.lines) \in Nat /\ DOMAIN c.lines = 1..Len(c.lines)
         /\ IsSeq(JournalEnd(c, d, n))
         /\ \A x : In(x, JournalEnd(c, d, n)) => ~KindIn(x, JournalKinds)
<1>. DEFINE f == LineSteps(c)
            a == Put("accounting.journal_posted", c.doc, 0, NoData)
            b == Put("accounting.journal_posted.v1", c.doc, 0, NoData)
            e == AuditAndEvent("accounting.journal_posted", "accounting.journal_posted.v1",
                               c.doc, 0)
            z == JournalEnd(c, d, n)
<1>1. Len(c.lines) \in Nat /\ DOMAIN c.lines = 1..Len(c.lines)
  BY LinesAre DEF Command, Fields
<1>2. IsSeq(f) /\ Len(f) = Len(c.lines)
  <2>1. f = [i \in 1..Len(c.lines) |-> f[i]] /\ DOMAIN f = 1..Len(c.lines)
    BY <1>1 DEF LineSteps
  <2>. HIDE DEF f
  <2>2. IsSeq(f)
    BY <1>1, <2>1, OneStepPerLine
  <2>. QED  BY <1>1, <2>1, <2>2, StepsCounted
<1>3. e = << a, b >> /\ ~KindIn(a, JournalKinds) /\ ~KindIn(b, JournalKinds)
      /\ ~KindIn(Commit(n), JournalKinds)
  BY DEF AuditAndEvent, KindIn, JournalKinds, Put, Commit
<1>. HIDE DEF a, b
<1>4. IsSeq(e) /\ \A x : In(x, e) => ~KindIn(x, JournalKinds)
  BY <1>3, TwoSteps
<1>5. z = e \o << Commit(n) >>
  BY DEF JournalEnd
<1>6. JournalSteps(c) = (<< EntryPut(c) >> \o f) \o e
  BY DEF JournalSteps, EntryPut, LinePut, LineSteps
<1>7. Steps(c, d) = JournalSteps(c)
  BY DEF Steps
<1>8. AfterCommit(c, d) = << >>
  BY DEF AfterCommit, If
<1>. HIDE DEF f, e, z
<1>9. IsSeq(z) /\ \A x : In(x, z) => ~KindIn(x, JournalKinds)
  <2>1. PICK g : g = << Commit(n) >>
    OBVIOUS
  <2>2. IsSeq(g) /\ \A x : In(x, g) => ~KindIn(x, JournalKinds)
    BY <1>3, <2>1, OneStep
  <2>3. z = e \o g
    BY <1>5, <2>1
  <2>4. IsSeq(e \o g) /\ \A x : In(x, e \o g) <=> In(x, e) \/ In(x, g)
    BY ONLY <1>4, <2>2, Members, Concatenation
  <2>. QED  BY ONLY <1>4, <2>2, <2>3, <2>4
<1>10. IsSeq(<< EntryPut(c) >> \o f)
  BY <1>2, OneStep, Concatenation
<1>11. ((<< EntryPut(c) >> \o f) \o e) \o << Commit(n) >> = (<< EntryPut(c) >> \o f) \o z
  <2>. DEFINE g == << EntryPut(c) >> \o f
              m == << Commit(n) >>
  <2>1. IsSeq(g) /\ IsSeq(e) /\ IsSeq(m) /\ z = e \o m
    BY <1>4, <1>5, <1>10, OneStep
  <2>. HIDE DEF g, m
  <2>2. (g \o e) \o m = g \o (e \o m)
    BY <2>1, Associates
  <2>. QED  BY <2>1, <2>2 DEF g, m
<1>12. IsSeq((<< EntryPut(c) >> \o f) \o z)
  BY <1>9, <1>10, Concatenation
<1>13. ((<< EntryPut(c) >> \o f) \o z) \o << >> = (<< EntryPut(c) >> \o f) \o z
  <2>. DEFINE s == (<< EntryPut(c) >> \o f) \o z
  <2>1. s \in Seq(Range(s))
    BY <1>12 DEF IsSeq
  <2>. HIDE DEF s
  <2>. QED  BY <2>1, ConcatEmptySeq DEF s
<1>14. Piece(c, d, n) = (<< EntryPut(c) >> \o f) \o z
  BY <1>6, <1>7, <1>8, <1>11, <1>13 DEF Piece
<1>. QED  BY <1>1, <1>2, <1>9, <1>14 DEF f, z

LEMMA JournalAt ==
  ASSUME NEW c, NEW d, NEW n, Command(c), c.op = "accounting.post_journal",
         NEW p, p = Piece(c, d, n), NEW k, k = Len(c.lines)
  PROVE  /\ IsSeq(p) /\ k \in Nat /\ DOMAIN c.lines = 1..k
         /\ Len(p) \in Nat /\ DOMAIN p = 1..Len(p) /\ k + 1 <= Len(p)
         /\ p[1] = EntryPut(c)
         /\ \A i \in 1..k : p[i + 1] = LinePut(c, i)
         /\ \A i \in DOMAIN p : i > k + 1 => ~KindIn(p[i], JournalKinds)
<1>1. PICK a, f, z, s :
        /\ a = << EntryPut(c) >> /\ f = LineSteps(c) /\ z = JournalEnd(c, d, n)
        /\ s = a \o f
  OBVIOUS
<1>2. /\ IsSeq(f) /\ Len(f) = k /\ k \in Nat /\ DOMAIN c.lines = 1..k
      /\ IsSeq(z) /\ \A x : In(x, z) => ~KindIn(x, JournalKinds)
  BY <1>1, JournalPiece
<1>3. IsSeq(a) /\ Len(a) = 1 /\ a[1] = EntryPut(c)
  BY <1>1, OneStep
<1>4. \A i \in 1..k : f[i] = LinePut(c, i)
  BY <1>1, <1>2 DEF LineSteps
<1>5. s = a \o f
  BY <1>1
<1>6. p = s \o z
  BY <1>1, JournalPiece
<1>7. /\ IsSeq(s) /\ Len(s) = 1 + k /\ DOMAIN s = 1..Len(s)
      /\ s[1] = a[1] /\ \A i \in 1..k : s[1 + i] = f[i]
  <2>1. /\ IsSeq(s) /\ Len(a) \in Nat /\ Len(s) \in Nat /\ Len(s) = Len(a) + Len(f)
        /\ DOMAIN a = 1..Len(a)
    <3>1. IsSeq(a) /\ IsSeq(f)
      BY <1>2, <1>3
    <3>. QED  BY <1>5, <3>1, Joins
  <2>2. DOMAIN s = 1..Len(s) /\ DOMAIN f = 1..Len(f)
    BY <1>2, <2>1, StepsCounted
  <2>3. (\A i \in DOMAIN a : s[i] = a[i]) /\ \A i \in DOMAIN f : s[Len(a) + i] = f[i]
    <3>1. IsSeq(a) /\ IsSeq(f)
      BY <1>2, <1>3
    <3>. QED  BY <1>5, <3>1, Joins
  <2>. QED  BY <1>2, <1>3, <2>1, <2>2, <2>3
<1>8. /\ IsSeq(p) /\ Len(p) \in Nat /\ Len(z) \in Nat /\ Len(p) = Len(s) + Len(z)
      /\ DOMAIN p = 1..Len(p)
  <2>1. IsSeq(s) /\ IsSeq(z)
    BY <1>2, <1>7
  <2>. QED  BY <1>6, <2>1, Joins
<1>9. \A i \in DOMAIN s : p[i] = s[i]
  <2>1. IsSeq(s) /\ IsSeq(z)
    BY <1>2, <1>7
  <2>. QED  BY <1>6, <2>1, Joins
<1>10. \A i \in DOMAIN p : i \notin DOMAIN s => i - Len(s) \in DOMAIN z /\ p[i] = z[i - Len(s)]
  <2>1. IsSeq(s) /\ IsSeq(z)
    BY <1>2, <1>7
  <2>. QED  BY <1>6, <2>1, Joins
<1>11. p[1] = EntryPut(c)
  BY <1>2, <1>3, <1>7, <1>9
<1>12. \A i \in 1..k : p[i + 1] = LinePut(c, i)
  <2>1. \A i \in 1..k : i + 1 \in DOMAIN s /\ i + 1 = 1 + i
    BY <1>2, <1>7
  <2>. QED  BY <1>4, <1>7, <1>9, <2>1
<1>13. \A i \in DOMAIN p : i > k + 1 => i \notin DOMAIN s
  BY <1>2, <1>7, <1>8
<1>14. k + 1 <= Len(p)
  BY <1>2, <1>7, <1>8
<1>. QED  BY <1>2, <1>8, <1>10, <1>11, <1>12, <1>13, <1>14 DEF In

LEMMA JournalBalances ==
  ASSUME NEW c, NEW d, NEW n, NEW p, Command(c), Numbers(c), c.op = "accounting.post_journal",
         Debits(c.lines) = Credits(c.lines)
  PROVE  Summable(Piece(c, d, n), p) /\ Ahead(Piece(c, d, n), p) = 0
<1>. DEFINE a == << EntryPut(c) >>
            f == LineSteps(c)
            z == JournalEnd(c, d, n)
            D == DOMAIN c.lines
            deb == [i \in D |-> c.lines[i].debit]
            cre == [i \in D |-> c.lines[i].credit]
            amt == [i \in D |-> Amount(LinePut(c, i), p)]
<1>1. /\ Piece(c, d, n) = (a \o f) \o z /\ IsSeq(f) /\ Len(f) = Len(c.lines)
      /\ IsSeq(z) /\ \A x : In(x, z) => ~KindIn(x, JournalKinds)
  BY JournalPiece
<1>2. /\ \A i \in D : c.lines[i].debit \in Int /\ c.lines[i].credit \in Int
      /\ IsFiniteSet(D)
  BY LinesAre DEF Numbers, Command, Fields
<1>3. DOMAIN f = D /\ \A i \in D : f[i] = LinePut(c, i)
  BY DEF LineSteps
<1>4. \A i \in D : amt[i] = IF c.period = p THEN deb[i] + (-1) * cre[i] ELSE 0
  <2>. SUFFICES ASSUME NEW i \in D
                PROVE  amt[i] = IF c.period = p THEN deb[i] + (-1) * cre[i] ELSE 0
    OBVIOUS
  <2>1. /\ Line(LinePut(c, i)) /\ LinePut(c, i).rec.data.period = c.period
        /\ LinePut(c, i).rec.data.debit = c.lines[i].debit
        /\ LinePut(c, i).rec.data.credit = c.lines[i].credit
    BY DEF LinePut, Put, Line, KindIn
  <2>2. Amount(LinePut(c, i), p)
          = IF c.period = p THEN c.lines[i].debit - c.lines[i].credit ELSE 0
    BY <2>1 DEF Amount
  <2>3. c.lines[i].debit - c.lines[i].credit = c.lines[i].debit + (-1) * c.lines[i].credit
    BY <1>2
  <2>. QED  BY <2>2, <2>3
<1>5. Summable(f, p) /\ Ahead(f, p) = SumFunctionOnSet(amt, D)
  <2>1. [i \in DOMAIN f |-> Amount(f[i], p)] = amt
    BY <1>3
  <2>2. \A i \in D : amt[i] \in Int
    <3>1. \A i \in D : deb[i] + (-1) * cre[i] \in Int
      BY <1>2
    <3>. HIDE DEF amt, deb, cre
    <3>. QED  BY <1>4, <3>1
  <2>3. \A x : In(x, f) => Amount(x, p) \in Int
    BY <1>3, <2>2 DEF In
  <2>. QED  BY <1>1, <1>3, <2>1, <2>3 DEF Summable, Ahead
<1>6. SumFunctionOnSet(deb, D) = SumFunctionOnSet(cre, D)
  BY DEF Debits, Credits, SumFunction
<1>7. /\ \A i \in D : deb[i] \in Int /\ cre[i] \in Int
  BY <1>2
<1>. HIDE DEF deb, cre, amt, D, f, a, z
<1>8. SumFunctionOnSet(amt, D) = 0
  <2>1. CASE c.period = p
    <3>1. -1 \in Int /\ \A i \in D : /\ deb[i] \in Int /\ cre[i] \in Int
                                     /\ amt[i] = deb[i] + (-1) * cre[i]
      BY <1>4, <1>7, <2>1
    <3>2. PICK k \in Int : k = -1
      OBVIOUS
    <3>3. \A i \in D : deb[i] \in Int /\ cre[i] \in Int /\ amt[i] = deb[i] + k * cre[i]
      BY <3>1, <3>2
    <3>4. SumFunctionOnSet(amt, D) = SumFunctionOnSet(deb, D) + k * SumFunctionOnSet(cre, D)
      BY <1>2, <3>3, SumCombine
    <3>5. SumFunctionOnSet(cre, D) \in Int
      BY <1>2, <1>7, SumType
    <3>. QED  BY <1>6, <3>2, <3>4, <3>5
  <2>2. CASE c.period # p
    BY <1>2, <1>4, <2>2, SumZero
  <2>. QED  BY <2>1, <2>2
<1>9. Summable(a, p) /\ Ahead(a, p) = 0
  <2>1. Amount(EntryPut(c), p) = 0
    BY DEF EntryPut, Put, Amount, Line, KindIn
  <2>. QED  BY <2>1, OneStep, AheadNone DEF a
<1>10. Summable(z, p) /\ Ahead(z, p) = 0
  <2>1. \A x : ~KindIn(x, JournalKinds) => Amount(x, p) = 0
    BY DEF KindIn, JournalKinds, Amount, Line
  <2>. QED  BY <1>1, <2>1, AheadNone
<1>11. Summable(a \o f, p) /\ Ahead(a \o f, p) = 0
  BY <1>5, <1>8, <1>9, AheadJoined
<1>12. Summable((a \o f) \o z, p) /\ Ahead((a \o f) \o z, p) = 0
  BY <1>10, <1>11, AheadJoined
<1>. QED  BY <1>1, <1>12

LEMMA BalanceType ==
  ASSUME NEW d, SaneDisk(d), NEW p
  PROVE  Balance(d, p) \in Int
<1>. DEFINE S == InPeriod(d, "journal_lines", p)
<1>1. Integral("debit", S) /\ Integral("credit", S)
  BY FS_Subset DEF Integral, SaneDisk, SaneRecord, InPeriod, Of
<1>. HIDE DEF S
<1>2. SumOf("debit", S) \in Int /\ SumOf("credit", S) \in Int
  BY <1>1, SumOfType
<1>. QED  BY <1>2 DEF Balance, S

LEMMA BalanceGrows ==
  ASSUME NEW d, SaneDisk(d), NEW x, x.do = "put", SaneRecord(x.rec), x.rec \notin d, NEW p
  PROVE  /\ Balance(d, p) \in Int /\ Amount(x, p) \in Int
         /\ Balance(d \cup {x.rec}, p) = Balance(d, p) + Amount(x, p)
<1>. DEFINE r == x.rec
            S == InPeriod(d, "journal_lines", p)
            e == d \cup {r}
<1>1. Integral("debit", S) /\ Integral("credit", S)
  BY FS_Subset DEF Integral, SaneDisk, SaneRecord, InPeriod, Of
<1>2. r \notin S
  BY DEF InPeriod, Of
<1>3. SumOf("debit", S) \in Int /\ SumOf("credit", S) \in Int
  BY <1>1, SumOfType
<1>4. CASE Line(x) /\ r.data.period = p
  <2>1. InPeriod(e, "journal_lines", p) = S \cup {r}
    BY <1>4 DEF InPeriod, Of, Line, KindIn
  <2>2. r.data.debit \in Int /\ r.data.credit \in Int
    BY <1>4 DEF SaneRecord, Line, KindIn
  <2>3. Amount(x, p) = r.data.debit - r.data.credit
    BY <1>4 DEF Amount
  <2>. HIDE DEF S, e, r
  <2>4. /\ SumOf("debit", S \cup {r}) = SumOf("debit", S) + r.data["debit"]
        /\ SumOf("credit", S \cup {r}) = SumOf("credit", S) + r.data["credit"]
    BY <1>1, <1>2, <2>2, SumOfAdd
  <2>5. Balance(e, p) = SumOf("debit", S \cup {r}) - SumOf("credit", S \cup {r})
    BY <2>1 DEF Balance
  <2>6. Balance(d, p) = SumOf("debit", S) - SumOf("credit", S)
    BY DEF Balance, S
  <2>7. Balance(e, p) = Balance(d, p) + (r.data.debit - r.data.credit)
    BY <1>3, <2>2, <2>4, <2>5, <2>6
  <2>8. Balance(d, p) \in Int /\ r.data.debit - r.data.credit \in Int
    BY <1>3, <2>2, <2>6
  <2>. QED  BY <2>3, <2>7, <2>8 DEF e, r
<1>5. CASE ~(Line(x) /\ r.data.period = p)
  <2>1. InPeriod(e, "journal_lines", p) = S
    BY <1>5 DEF InPeriod, Of, Line, KindIn
  <2>2. Amount(x, p) = 0
    BY <1>5 DEF Amount
  <2>3. Balance(e, p) = Balance(d, p) /\ Balance(d, p) \in Int
    <3>. HIDE DEF e
    <3>. QED  BY <1>3, <2>1 DEF Balance
  <2>. QED  BY <2>2, <2>3
<1>. QED  BY <1>4, <1>5

LEMMA SaneAhead ==
  ASSUME SaneInv, NEW p
  PROVE  Summable(todo, p)
<1>1. IsSeq(todo)
  BY DEF SaneInv, CoreInv, Sound
<1>2. ASSUME NEW x, In(x, todo) PROVE Amount(x, p) \in Int
  BY <1>2 DEF SaneInv, Sane, SaneRecord, Amount, Line, KindIn
<1>. QED  BY <1>1, <1>2 DEF Summable

-----------------------------------------------------------------------------
(* The invariant behind the balance of closed periods.                     *)

Posting(doc) ==
  \E n \in Pending : wal[n].cmd.op = "accounting.post_journal" /\ wal[n].cmd.doc = doc

(* Lines come first, one behind the other, with at most the header of      *)
(* their journal before them, and nothing of the kind is on disk yet.      *)
LinesFirst ==
  \A i \in DOMAIN todo : Line(todo[i]) =>
    /\ process = "app"
    /\ Key(todo[i].rec) \notin Keys
    /\ Posting(todo[i].rec.doc)
    /\ \A j \in 1..(i - 1) : /\ KindIn(todo[j], JournalKinds)
                             /\ j > 1 => Line(todo[j])
                             /\ todo[j].rec.doc = todo[i].rec.doc
                             /\ Key(todo[j].rec) # Key(todo[i].rec)
    /\ Line(todo[1]) => Has(disk, "journal_entries", todo[i].rec.doc)

Adjusting(r) ==
  r.kind = "reconciliation_records" /\ r.data.decision = "requires_accounting_adjustment"

Balanced(d) == \A p : Balance(d, p) = 0

BalanceInv ==
  /\ SealInv
  /\ \A r \in disk : r.kind = "journal_lines" => Has(disk, "journal_entries", r.doc)
  /\ \A r \in disk : ~Adjusting(r)
  /\ \A x : In(x, todo) => /\ process # "app" => x.do = "put"
                           /\ x.do = "put" => ~Adjusting(x.rec)
  /\ LinesFirst
  /\ todo = << >> \/ ~Line(todo[1]) => \A p : Ahead(todo, p) = 0
  /\ IF process = "app" THEN \A p : Balance(disk, p) + Ahead(todo, p) = 0
                        ELSE UnsafePending # {} \/ Balanced(disk)
  /\ \A p \in ClosedPeriods(disk) : Balance(disk, p) = 0

(* Journals are refused before their first record or not at all, and an    *)
(* administrator accepts no transaction as it is and posts no correction.  *)
JournalsWhole ==
  /\ ClosesWhole
  /\ RejectedEvents \cap JournalKinds = {}
  /\ Decisions \cap {"accepted_existing_records", "requires_accounting_adjustment"} = {}

LEMMA BalanceFacts ==
  ASSUME BalanceInv
  PROVE  /\ SealInv /\ SaneInv /\ CoreInv /\ IsSeq(todo) /\ SaneDisk(disk)
         /\ process \in {"none", "app", "cli"}
         /\ process = "none" => todo = << >>
         /\ DOMAIN todo = 1..Len(todo) /\ Len(todo) \in Nat
         /\ todo # << >> => 1 \in DOMAIN todo /\ todo[1] = Head(todo) /\ In(todo[1], todo)
<1>1. SealInv
  BY DEF BalanceInv
<1>2. /\ SaneInv /\ CoreInv /\ IsSeq(todo) /\ process \in {"none", "app", "cli"}
      /\ process = "none" => todo = << >>
  BY <1>1, SealFacts
<1>3. SaneDisk(disk)
  BY <1>2 DEF SaneInv
<1>4. DOMAIN todo = 1..Len(todo) /\ Len(todo) \in Nat
  BY <1>2, StepsCounted
<1>5. todo # << >> => 1 \in DOMAIN todo /\ todo[1] = Head(todo) /\ In(todo[1], todo)
  BY <1>2, TailFacts DEF In
<1>. QED  BY <1>1, <1>2, <1>3, <1>4, <1>5

LEMMA NoLinesAhead ==
  ASSUME BalanceInv, todo = << >> \/ ~KindIn(todo[1], JournalKinds)
  PROVE  \A x : In(x, todo) => ~Line(x)
<1>1. DOMAIN todo = 1..Len(todo) /\ Len(todo) \in Nat
  BY BalanceFacts
<1>2. ASSUME NEW i \in DOMAIN todo, Line(todo[i])
      PROVE  FALSE
  <2>1. todo # << >>
    BY <1>1, <1>2, NoSteps DEF In
  <2>2. \A j \in 1..(i - 1) : KindIn(todo[j], JournalKinds)
    BY <1>2 DEF BalanceInv, LinesFirst
  <2>3. i = 1 \/ 1 \in 1..(i - 1)
    BY <1>1
  <2>. QED  BY <1>2, <2>1, <2>2, <2>3 DEF Line, KindIn, JournalKinds
<1>. QED  BY <1>2 DEF In

(* A journal that is interrupted keeps recovery from cleaning the log.     *)
LEMMA Interruption ==
  ASSUME BalanceInv
  PROVE  \/ \A p : Ahead(todo, p) = 0
         \/ /\ todo # << >> /\ Line(todo[1])
            /\ UnsafePending # {}
            /\ Key(todo[1].rec) \notin Keys
<1>. SUFFICES ASSUME todo # << >>, Line(todo[1])
              PROVE  UnsafePending # {} /\ Key(todo[1].rec) \notin Keys
  BY DEF BalanceInv
<1>1. /\ Posting(todo[1].rec.doc) /\ Has(disk, "journal_entries", todo[1].rec.doc)
      /\ Key(todo[1].rec) \notin Keys
  BY BalanceFacts DEF BalanceInv, LinesFirst
<1>2. PICK n \in Pending : /\ wal[n].cmd.op = "accounting.post_journal"
                           /\ wal[n].cmd.doc = todo[1].rec.doc
  BY <1>1 DEF Posting
<1>3. PICK r \in disk : r.kind = "journal_entries" /\ r.doc = wal[n].cmd.doc
  BY <1>1, <1>2 DEF Has
<1>4. r \in SideEffects(wal[n].cmd, disk)
  BY <1>2, <1>3 DEF SideEffects, ScannedFiles
<1>. QED  BY <1>1, <1>4 DEF UnsafePending

LEMMA TailLines ==
  ASSUME BalanceInv, AppendRecord
  PROVE  /\ \A i \in DOMAIN todo' : /\ i + 1 \in DOMAIN todo /\ todo'[i] = todo[i + 1]
                                    /\ i \in Nat /\ i >= 1
         /\ \A i \in DOMAIN todo' : Line(todo'[i]) =>
              /\ process = "app" /\ Posting(todo'[i].rec.doc)
              /\ Key(todo'[i].rec) \notin Keys /\ Key(todo[1].rec) # Key(todo'[i].rec)
              /\ KindIn(todo[1], JournalKinds) /\ todo[1].rec.doc = todo'[i].rec.doc
              /\ Line(todo[1]) => Has(disk, "journal_entries", todo'[i].rec.doc)
              /\ \A j \in 1..(i - 1) : /\ Line(todo'[j])
                                       /\ todo'[j].rec.doc = todo'[i].rec.doc
                                       /\ Key(todo'[j].rec) # Key(todo'[i].rec)
<1>1. /\ CoreInv /\ IsSeq(todo) /\ DOMAIN todo = 1..Len(todo) /\ Len(todo) \in Nat
  BY BalanceFacts
<1>2. todo # << >> /\ todo' = Tail(todo)
  BY <1>1, GoOn
<1>3. \A i \in DOMAIN todo' : i + 1 \in DOMAIN todo /\ todo'[i] = todo[i + 1] /\ i \in Nat /\ i >= 1
  <2>1. /\ DOMAIN Tail(todo) = 1..Len(Tail(todo))
        /\ \A i \in DOMAIN Tail(todo) : i + 1 \in DOMAIN todo /\ Tail(todo)[i] = todo[i + 1]
    BY <1>1, <1>2, TailFacts
  <2>2. IsSeq(Tail(todo))
    BY <1>1, <1>2, HeadAndTail
  <2>3. Len(Tail(todo)) \in Nat
    BY <2>2, StepsCounted
  <2>. QED  BY <1>2, <2>1, <2>3
<1>4. ASSUME NEW i \in DOMAIN todo', Line(todo'[i])
      PROVE  /\ process = "app" /\ Posting(todo'[i].rec.doc)
             /\ Key(todo'[i].rec) \notin Keys /\ Key(todo[1].rec) # Key(todo'[i].rec)
             /\ KindIn(todo[1], JournalKinds) /\ todo[1].rec.doc = todo'[i].rec.doc
             /\ Line(todo[1]) => Has(disk, "journal_entries", todo'[i].rec.doc)
             /\ \A j \in 1..(i - 1) : /\ Line(todo'[j])
                                      /\ todo'[j].rec.doc = todo'[i].rec.doc
                                      /\ Key(todo'[j].rec) # Key(todo'[i].rec)
  <2>. DEFINE x == todo[i + 1]
  <2>1. i + 1 \in DOMAIN todo /\ todo'[i] = x /\ i \in Nat /\ i >= 1
    BY <1>3
  <2>2. /\ process = "app" /\ Posting(x.rec.doc) /\ Key(x.rec) \notin Keys
        /\ Line(todo[1]) => Has(disk, "journal_entries", x.rec.doc)
        /\ \A j \in 1..((i + 1) - 1) : /\ KindIn(todo[j], JournalKinds)
                                       /\ j > 1 => Line(todo[j])
                                       /\ todo[j].rec.doc = x.rec.doc
                                       /\ Key(todo[j].rec) # Key(x.rec)
    BY <1>4, <2>1 DEF BalanceInv, LinesFirst
  <2>3. 1 \in 1..((i + 1) - 1)
    BY <2>1
  <2>4. \A j \in 1..(i - 1) : /\ j \in DOMAIN todo' /\ todo'[j] = todo[j + 1]
                              /\ j + 1 \in 1..((i + 1) - 1) /\ j + 1 > 1
    <3>1. IsSeq(todo')
      BY <1>1, <1>2, HeadAndTail
    <3>2. DOMAIN todo' = 1..Len(todo') /\ Len(todo') \in Nat
      BY <3>1, StepsCounted
    <3>. QED  BY <1>3, <2>1, <3>2
  <2>. HIDE DEF x
  <2>. QED  BY <2>1, <2>2, <2>3, <2>4
<1>. QED  BY <1>3, <1>4

LEMMA UnsafeStays ==
  ASSUME disk \subseteq disk', wal' = wal
  PROVE  UnsafePending # {} => UnsafePending' # {}
<1>1. Pending' = Pending
  BY DEF Pending, Txns
<1>2. \A n \in Pending : SideEffects(wal[n].cmd, disk) \subseteq SideEffects(wal[n].cmd, disk')
  BY DEF SideEffects
<1>. QED  BY <1>1, <1>2 DEF UnsafePending

LEMMA AppendBalances ==
  ASSUME BalanceInv, SealInv', AppendRecord
  PROVE  BalanceInv'
<1>. DEFINE r == Head(todo).rec
<1>1. /\ CoreInv /\ SaneInv /\ IsSeq(todo) /\ SaneDisk(disk) /\ SealInv
      /\ process \in {"none", "app", "cli"}
  BY BalanceFacts
<1>2. /\ todo # << >> /\ todo' = Tail(todo) /\ In(Head(todo), todo)
      /\ \A x : In(x, todo') => In(x, todo)
      /\ Head(todo).do = "put" /\ disk' = disk \cup {r}
      /\ \A q \in disk : Key(q) # Key(r)
      /\ IsSeq(Tail(todo))
  BY <1>1, GoOn
<1>3. todo[1] = Head(todo) /\ 1 \in DOMAIN todo
  BY <1>2, BalanceFacts
<1>4. /\ process' = "app" <=> process = "app"
      /\ wal' = wal
  BY GoesOn
<1>5. r \notin disk /\ SaneRecord(r)
  BY <1>1, <1>2 DEF SaneInv, Sane
<1>6. \A p : /\ Balance(disk, p) \in Int /\ Amount(Head(todo), p) \in Int
             /\ Balance(disk', p) = Balance(disk, p) + Amount(Head(todo), p)
  BY <1>1, <1>2, <1>5, BalanceGrows
<1>7. \A p : /\ Ahead(todo', p) \in Int
             /\ Ahead(todo, p) = Amount(Head(todo), p) + Ahead(todo', p)
  <2>. SUFFICES ASSUME NEW p
                PROVE  /\ Ahead(todo', p) \in Int
                       /\ Ahead(todo, p) = Amount(Head(todo), p) + Ahead(todo', p)
    OBVIOUS
  <2>1. Summable(todo, p)
    BY <1>1, SaneAhead
  <2>2. /\ Summable(Tail(todo), p)
        /\ Ahead(todo, p) = Amount(Head(todo), p) + Ahead(Tail(todo), p)
    BY <1>2, <2>1, AheadHead
  <2>3. Ahead(Tail(todo), p) \in Int
    BY <2>2, AheadType
  <2>. QED  BY <1>2, <2>2, <2>3
<1>8. Line(Head(todo)) => /\ process = "app" /\ Has(disk, "journal_entries", r.doc)
                          /\ r.data.period \notin ClosedPeriods(disk)
  <2>1. Line(Head(todo)) => /\ process = "app" /\ Has(disk, "journal_entries", r.doc)
    BY <1>3 DEF BalanceInv, LinesFirst
  <2>2. Line(Head(todo)) => r.data.period \notin ClosedPeriods(disk)
    BY <1>1, <1>2 DEF SealInv, Line, KindIn, JournalKinds
  <2>. QED  BY <2>1, <2>2
<1>9. ~Line(Head(todo)) => \A p : Amount(Head(todo), p) = 0
  BY DEF Amount
<1>10. \A q \in disk' : q.kind = "journal_lines" => Has(disk', "journal_entries", q.doc)
  <2>1. Line(Head(todo)) <=> r.kind = "journal_lines"
    BY <1>2 DEF Line, KindIn
  <2>2. \A doc : Has(disk, "journal_entries", doc) => Has(disk', "journal_entries", doc)
    BY <1>2 DEF Has
  <2>. QED  BY <1>2, <1>8, <2>1, <2>2 DEF BalanceInv
<1>11. /\ \A q \in disk' : ~Adjusting(q)
       /\ \A x : In(x, todo') => /\ process' # "app" => x.do = "put"
                                 /\ x.do = "put" => ~Adjusting(x.rec)
  BY <1>2, <1>4 DEF BalanceInv
<1>12. LinesFirst'
  <2>. SUFFICES ASSUME NEW i \in DOMAIN todo', Line(todo'[i])
                PROVE  /\ process' = "app" /\ Key(todo'[i].rec) \notin Keys'
                       /\ Posting(todo[i].rec.doc)'
                       /\ \A j \in 1..(i - 1) : /\ KindIn(todo'[j], JournalKinds)
                                                /\ j > 1 => Line(todo'[j])
                                                /\ todo'[j].rec.doc = todo'[i].rec.doc
                                                /\ Key(todo'[j].rec) # Key(todo'[i].rec)
                       /\ Has(disk', "journal_entries", todo'[i].rec.doc)
    BY DEF LinesFirst
  <2>1. /\ process = "app" /\ Posting(todo'[i].rec.doc)
        /\ Key(todo'[i].rec) \notin Keys /\ Key(todo[1].rec) # Key(todo'[i].rec)
        /\ KindIn(todo[1], JournalKinds) /\ todo[1].rec.doc = todo'[i].rec.doc
        /\ Line(todo[1]) => Has(disk, "journal_entries", todo'[i].rec.doc)
        /\ \A j \in 1..(i - 1) : /\ Line(todo'[j])
                                 /\ todo'[j].rec.doc = todo'[i].rec.doc
                                 /\ Key(todo'[j].rec) # Key(todo'[i].rec)
    BY TailLines
  <2>2. Key(todo'[i].rec) \notin Keys'
    BY <1>2, <1>3, <2>1 DEF Keys
  <2>3. Posting(todo[i].rec.doc)'
    BY <1>4, <2>1 DEF Posting, Pending, Txns
  <2>4. Has(disk', "journal_entries", todo'[i].rec.doc)
    BY <1>2, <1>3, <2>1 DEF Has, Line, KindIn, JournalKinds
  <2>5. \A j \in 1..(i - 1) : KindIn(todo'[j], JournalKinds)
    BY <2>1 DEF Line, KindIn, JournalKinds
  <2>. QED  BY <1>4, <2>1, <2>2, <2>3, <2>4, <2>5
<1>13. todo' = << >> \/ ~Line(todo'[1]) => \A p : Ahead(todo', p) = 0
  <2>. SUFFICES ASSUME todo' = << >> \/ ~Line(todo'[1]), NEW p PROVE Ahead(todo', p) = 0
    OBVIOUS
  <2>1. \A x : In(x, todo') => ~Line(x)
    <3>. SUFFICES ASSUME NEW i \in DOMAIN todo', Line(todo'[i]) PROVE FALSE
      BY DEF In
    <3>1. todo' # << >>
      BY NoSteps DEF In
    <3>2. i \in Nat /\ i >= 1 /\ \A j \in 1..(i - 1) : Line(todo'[j])
      BY TailLines
    <3>3. i = 1 \/ 1 \in 1..(i - 1)
      BY <3>2
    <3>. QED  BY <3>1, <3>2, <3>3
  <2>2. \A x : In(x, todo') => Amount(x, p) = 0
    BY <2>1 DEF Amount
  <2>. QED  BY <1>2, <2>2, AheadNone
<1>14. IF process' = "app" THEN \A p : Balance(disk', p) + Ahead(todo', p) = 0
                           ELSE UnsafePending' # {} \/ Balanced(disk')
  <2>1. CASE process = "app"
    <3>1. \A p : Balance(disk, p) + Ahead(todo, p) = 0
      BY <2>1 DEF BalanceInv
    <3>. HIDE DEF r
    <3>2. \A p : Balance(disk', p) + Ahead(todo', p) = 0
      BY <1>6, <1>7, <3>1
    <3>. QED  BY <1>4, <2>1, <3>2
  <2>2. CASE process # "app"
    <3>1. \A p : Balance(disk', p) = Balance(disk, p)
      BY <1>6, <1>8, <1>9, <2>2
    <3>2. UnsafePending # {} => UnsafePending' # {}
      BY <1>2, <1>4, UnsafeStays
    <3>. QED  BY <1>4, <2>2, <3>1, <3>2 DEF BalanceInv, Balanced
  <2>. QED  BY <2>1, <2>2
<1>15. \A p \in ClosedPeriods(disk') : Balance(disk', p) = 0
  <2>. SUFFICES ASSUME NEW p \in ClosedPeriods(disk') PROVE Balance(disk', p) = 0
    OBVIOUS
  <2>1. CASE p \in ClosedPeriods(disk)
    <3>1. Amount(Head(todo), p) = 0
      BY <1>8, <2>1 DEF Amount
    <3>2. Balance(disk, p) = 0
      BY <2>1 DEF BalanceInv
    <3>. QED  BY <1>6, <3>1, <3>2
  <2>2. CASE p \notin ClosedPeriods(disk)
    <3>1. r.kind = "periods"
      BY <1>2, <2>2, PeriodClosed
    <3>2. ~Steady
      BY <1>2, <3>1 DEF Steady, KindIn, CloseKinds
    <3>3. PICK q, n : Closing(q, n)
      BY <1>1, <3>2 DEF SealInv
    <3>4. process = "app" /\ ~Line(Head(todo))
      BY <1>2, <3>1, <3>3 DEF Closing, Line, KindIn
    <3>5. Ahead(todo, p) = 0 /\ Balance(disk, p) + Ahead(todo, p) = 0
      BY <1>3, <3>4 DEF BalanceInv
    <3>. QED  BY <1>6, <1>9, <3>4, <3>5
  <2>. QED  BY <2>1, <2>2
<1>. HIDE DEF r
<1>. QED  BY <1>10, <1>11, <1>12, <1>13, <1>14, <1>15 DEF BalanceInv

LEMMA CommitBalances ==
  ASSUME BalanceInv, SealInv', CommitTransaction
  PROVE  BalanceInv'
<1>1. /\ CoreInv /\ SaneInv /\ IsSeq(todo)
      /\ process \in {"none", "app", "cli"}
  BY BalanceFacts
<1>2. /\ todo # << >> /\ todo' = Tail(todo) /\ In(Head(todo), todo)
      /\ \A x : In(x, todo') => In(x, todo)
      /\ Head(todo).do = "commit" /\ disk' = disk /\ IsSeq(Tail(todo))
  BY <1>1, GoOn
<1>3. todo[1] = Head(todo)
  BY <1>2, BalanceFacts
<1>4. process' = "app" <=> process = "app"
  BY GoesOn
<1>5. process = "app"
  BY <1>2 DEF BalanceInv
<1>6. ~KindIn(todo[1], JournalKinds) /\ ~Line(todo[1])
  BY <1>2, <1>3 DEF KindIn, Line
<1>7. \A x : In(x, todo) => ~Line(x)
  BY <1>6, NoLinesAhead
<1>8. LinesFirst'
  BY <1>2, <1>7 DEF LinesFirst, In
<1>9. \A p : Ahead(todo, p) = 0 /\ Ahead(todo', p) = 0
  <2>. SUFFICES ASSUME NEW p PROVE Ahead(todo, p) = 0 /\ Ahead(todo', p) = 0
    OBVIOUS
  <2>1. \A x : In(x, todo') => Amount(x, p) = 0
    BY <1>2, <1>7 DEF Amount
  <2>2. Ahead(todo', p) = 0
    BY <1>2, <2>1, AheadNone
  <2>. QED  BY <1>6, <2>2 DEF BalanceInv
<1>. QED  BY <1>2, <1>4, <1>5, <1>8, <1>9 DEF BalanceInv

LEMMA EnterBalances ==
  ASSUME BalanceInv, SealInv', NEW c, NEW known, NEW rest, Enters(c, known, rest)
  PROVE  BalanceInv'
<1>0. PICK n, s : n = Len(wal) + 1 /\ s = Piece(c, disk, n)
  OBVIOUS
<1>1. /\ CoreInv /\ SaneInv /\ IsSeq(todo) /\ SaneDisk(disk) /\ SealInv
      /\ process = "none" => todo = << >>
  BY BalanceFacts
<1>2. /\ todo' = s \o rest /\ Admissible(c, disk, known) /\ IsSeq(s) /\ IsSeq(rest)
      /\ \A x : In(x, todo') <=> In(x, s) \/ In(x, rest)
  BY <1>0, EnterIs
<1>3. ~\E m : AwaitsAdjustment(m)
  BY DEF BalanceInv, AwaitsAdjustment, Adjusting, Of
<1>4. /\ Command(c) /\ disk' = disk /\ process = "app" /\ process' = "app"
      /\ \/ rest = << >> /\ todo = << >>
         \/ todo # << >> /\ rest = Tail(todo) /\ Head(todo).do = "call"
  <2>1. process = "app" \/ rest = << >> \/ Head(todo).do = "call"
    BY <1>1, <1>3, Callers
  <2>2. ASSUME todo # << >>, Head(todo).do = "call" PROVE process = "app"
    BY <1>1, <2>2, HeadAndTail DEF BalanceInv
  <2>. QED  BY <1>1, <1>3, <2>2, Callers
<1>5. todo = << >> \/ (~KindIn(todo[1], JournalKinds) /\ ~Line(todo[1]))
  BY <1>4, BalanceFacts DEF KindIn, Line
<1>6. \A x : In(x, todo) => ~Line(x)
  BY <1>5, NoLinesAhead
<1>7. \A x : In(x, rest) => In(x, todo)
  BY <1>1, <1>4, HeadAndTail, NoSteps
<1>8. \A p : Balance(disk, p) = 0
  <2>1. \A p : Ahead(todo, p) = 0 /\ Balance(disk, p) + Ahead(todo, p) = 0
    BY <1>4, <1>5 DEF BalanceInv
  <2>2. \A p : Balance(disk, p) \in Int
    BY <1>1, BalanceType
  <2>. QED  BY <2>1, <2>2
<1>9. Numbers(c)
  BY DEF Enters
<1>10. \A x : In(x, s) /\ x.do = "put" => ~Adjusting(x.rec)
  BY <1>0, <1>4, PutIs DEF Adjusting, CloseKinds, MovePut, EntryPut, LinePut, InvoicePut,
       InvoiceLinePut, RefundPut, RefundLinePut, Put
<1>11. \A x : In(x, todo') /\ x.do = "put" => ~Adjusting(x.rec)
  BY <1>2, <1>7, <1>10 DEF BalanceInv
<1>12. c.op # "accounting.post_journal" => \A x : In(x, s) => ~Line(x)
  BY <1>0, <1>2, <1>4, JournalPeriod DEF Line, KindIn, JournalKinds
<1>13. \A p : Ahead(todo', p) = 0
  <2>. SUFFICES ASSUME NEW p PROVE Ahead(todo', p) = 0
    OBVIOUS
  <2>1. Summable(rest, p) /\ Ahead(rest, p) = 0
    <3>1. \A x : In(x, rest) => Amount(x, p) = 0
      BY <1>6, <1>7 DEF Amount
    <3>. QED  BY <1>2, <3>1, AheadNone
  <2>2. Summable(s, p) /\ Ahead(s, p) = 0
    <3>1. CASE c.op = "accounting.post_journal"
      <4>1. Debits(c.lines) = Credits(c.lines)
        BY <1>2, <3>1 DEF Admissible, JournalAdmissible
      <4>. QED  BY <1>0, <1>4, <1>9, <3>1, <4>1, JournalBalances
    <3>2. CASE c.op # "accounting.post_journal"
      <4>1. \A x : In(x, s) => Amount(x, p) = 0
        BY <1>12, <3>2 DEF Amount
      <4>. QED  BY <1>2, <4>1, AheadNone
    <3>. QED  BY <3>1, <3>2
  <2>3. Ahead(s \o rest, p) = 0
    BY <2>1, <2>2, AheadJoined
  <2>. QED  BY <1>2, <2>3
<1>14. LinesFirst'
  <2>1. CASE c.op # "accounting.post_journal"
    <3>1. \A x : In(x, todo') => ~Line(x)
      BY <1>2, <1>6, <1>7, <1>12, <2>1
    <3>. QED  BY <3>1 DEF LinesFirst, In
  <2>2. CASE c.op = "accounting.post_journal"
    <3>1. PICK k : k = Len(c.lines)
      OBVIOUS
    <3>2. /\ k \in Nat /\ DOMAIN c.lines = 1..k
          /\ Len(s) \in Nat /\ DOMAIN s = 1..Len(s) /\ k + 1 <= Len(s)
          /\ s[1] = EntryPut(c)
          /\ \A i \in 1..k : s[i + 1] = LinePut(c, i)
          /\ \A i \in DOMAIN s : i > k + 1 => ~KindIn(s[i], JournalKinds)
      BY <1>0, <1>4, <2>2, <3>1, JournalAt
    <3>3. \A i \in DOMAIN s : todo'[i] = s[i]
      BY <1>2, Joins
    <3>4. \A i \in DOMAIN todo' : i \notin DOMAIN s => In(todo'[i], rest)
      <4>1. \A i \in DOMAIN todo' : i \notin DOMAIN s =>
              i - Len(s) \in DOMAIN rest /\ todo'[i] = rest[i - Len(s)]
        BY <1>2, Joins
      <4>. QED  BY <4>1 DEF In
    <3>5. DOMAIN todo' = 1..Len(todo') /\ Len(todo') \in Nat
      BY <1>2, Joins
    <3>6. ASSUME NEW i \in DOMAIN todo', Line(todo'[i])
          PROVE  /\ i \in 2..(k + 1) /\ todo'[i] = LinePut(c, i - 1)
                 /\ \A j \in 2..i : todo'[j] = LinePut(c, j - 1)
                 /\ todo'[1] = EntryPut(c)
      <4>1. i \in DOMAIN s
        BY <1>6, <1>7, <3>4, <3>6
      <4>2. KindIn(s[i], JournalKinds) /\ i \in 1..Len(s)
        BY <3>2, <3>3, <3>6, <4>1 DEF Line, KindIn, JournalKinds
      <4>3. i <= k + 1
        BY <3>2, <4>1, <4>2
      <4>4. i # 1
        BY <3>2, <3>3, <3>6, <4>1 DEF Line, KindIn, EntryPut, Put
      <4>5. \A j \in 2..i : j - 1 \in 1..k /\ (j - 1) + 1 = j /\ j \in DOMAIN s
        BY <3>2, <4>2, <4>3
      <4>6. \A j \in 2..i : todo'[j] = LinePut(c, j - 1)
        BY <3>2, <3>3, <4>5
      <4>7. 1 \in DOMAIN s /\ i \in 2..i /\ i \in 2..(k + 1)
        BY <3>2, <4>2, <4>3, <4>4
      <4>. QED  BY <3>2, <3>3, <4>6, <4>7
    <3>7. ASSUME NEW i \in DOMAIN todo', Line(todo'[i])
          PROVE  /\ Key(todo'[i].rec) \notin Keys /\ todo'[i].rec.doc = c.doc
                 /\ ~Line(todo'[1])
                 /\ \A j \in 1..(i - 1) : /\ KindIn(todo'[j], JournalKinds)
                                          /\ j > 1 => Line(todo'[j])
                                          /\ todo'[j].rec.doc = todo'[i].rec.doc
                                          /\ Key(todo'[j].rec) # Key(todo'[i].rec)
      <4>1. /\ i \in 2..(k + 1) /\ todo'[i] = LinePut(c, i - 1)
            /\ \A j \in 2..i : todo'[j] = LinePut(c, j - 1)
            /\ todo'[1] = EntryPut(c)
        BY <3>6, <3>7
      <4>2. ~Has(disk, "journal_entries", c.doc)
        BY <1>2, <2>2 DEF Admissible, JournalAdmissible
      <4>3. \A q \in disk : q.kind = "journal_lines" => q.doc # c.doc
        BY <4>2 DEF BalanceInv, Has
      <4>4. Key(todo'[i].rec) = <<"journal_lines", c.doc, i - 1>> /\ todo'[i].rec.doc = c.doc
        BY <4>1 DEF LinePut, Put, Key
      <4>5. Key(todo'[i].rec) \notin Keys
        BY <4>3, <4>4 DEF Keys, Key
      <4>6. \A j \in 1..(i - 1) : j = 1 \/ (j \in 2..i /\ j # i)
        BY <4>1
      <4>7. /\ KindIn(todo'[1], JournalKinds) /\ todo'[1].rec.doc = c.doc /\ ~Line(todo'[1])
            /\ Key(todo'[1].rec) = <<"journal_entries", c.doc, 0>>
        BY <4>1 DEF EntryPut, Put, KindIn, JournalKinds, Line, Key
      <4>8. \A j \in 2..i : /\ KindIn(todo'[j], JournalKinds) /\ Line(todo'[j])
                            /\ todo'[j].rec.doc = c.doc
                            /\ Key(todo'[j].rec) = <<"journal_lines", c.doc, j - 1>>
        <5>1. ASSUME NEW j \in 2..i
              PROVE  /\ KindIn(LinePut(c, j - 1), JournalKinds) /\ Line(LinePut(c, j - 1))
                     /\ LinePut(c, j - 1).rec.doc = c.doc
                     /\ Key(LinePut(c, j - 1).rec) = <<"journal_lines", c.doc, j - 1>>
          BY DEF LinePut, Put, KindIn, JournalKinds, Line, Key
        <5>2. \A j \in 2..i : todo'[j] = LinePut(c, j - 1)
          BY <4>1
        <5>. QED  BY <5>1, <5>2
      <4>9. \A j \in 2..i : j # i => j - 1 # i - 1
        BY <4>1
      <4>. QED  BY <4>4, <4>5, <4>6, <4>7, <4>8, <4>9
    <3>8. Posting(c.doc)'
      <4>1. n \in Txns' /\ wal'[n] = [cmd |-> c, state |-> "pending"]
        BY <1>0, <1>1, EnteredLog
      <4>. QED  BY <2>2, <4>1 DEF Posting, Pending
    <3>9. ASSUME NEW i \in DOMAIN todo', Line(todo'[i])
          PROVE  Posting(todo[i].rec.doc)'
      <4>1. todo'[i].rec.doc = c.doc
        BY <3>7, <3>9
      <4>. QED  BY <3>8, <4>1 DEF Posting
    <3>. QED  BY <1>4, <3>7, <3>9 DEF LinesFirst, Keys
  <2>. QED  BY <2>1, <2>2
<1>15. \A p : Balance(disk', p) + Ahead(todo', p) = 0
  BY <1>4, <1>8, <1>13
<1>. QED  BY <1>4, <1>8, <1>11, <1>13, <1>14, <1>15 DEF BalanceInv

(* A run that ends, with its process or not, leaves the files as they are. *)
LEMMA NothingAhead ==
  ASSUME todo' = << >>
  PROVE  /\ LinesFirst'
         /\ \A x : ~In(x, todo')
         /\ \A p : Ahead(todo', p) = 0
<1>1. \A x : ~In(x, todo')
  BY NoSteps
<1>2. LinesFirst'
  BY <1>1 DEF LinesFirst, In
<1>3. IsSeq(todo')
  BY NoSteps
<1>4. \A p : Ahead(todo', p) = 0
  <2>. SUFFICES ASSUME NEW p PROVE Ahead(todo', p) = 0
    OBVIOUS
  <2>1. \A x : In(x, todo') => Amount(x, p) = 0
    BY <1>1
  <2>. QED  BY <1>3, <2>1, AheadNone
<1>. QED  BY <1>1, <1>2, <1>4

(* What recovery sees after a run ended: an unsafe transaction or balanced *)
(* books.                                                                  *)
LEMMA UnsafeOrBalanced ==
  ASSUME BalanceInv
  PROVE  UnsafePending # {} \/ Balanced(disk)
<1>1. CASE process = "app"
  <2>. SUFFICES ASSUME \A p : Ahead(todo, p) = 0
                PROVE  Balanced(disk)
    BY Interruption
  <2>1. ASSUME NEW p PROVE Balance(disk, p) = 0
    <3>1. Balance(disk, p) + Ahead(todo, p) = 0 /\ Ahead(todo, p) = 0
      BY <1>1 DEF BalanceInv
    <3>2. Balance(disk, p) \in Int
      BY BalanceFacts, BalanceType
    <3>. QED  BY <3>1, <3>2
  <2>. QED  BY <2>1 DEF Balanced
<1>. QED  BY <1>1 DEF BalanceInv

LEMMA EndBalances ==
  ASSUME BalanceInv, SealInv', Ended
  PROVE  BalanceInv'
<1>1. /\ process' = "none" /\ todo' = << >> /\ disk' = disk
      /\ \/ wal' = wal
         \/ Recover
  BY DEF Ended
<1>2. UnsafePending' # {} \/ Balanced(disk')
  <2>1. CASE wal' = wal
    BY <1>1, <2>1, UnsafeStays, UnsafeOrBalanced
  <2>2. CASE Recover
    BY <1>1, <2>2, UnsafeOrBalanced DEF Recover
  <2>. QED  BY <1>1, <2>1, <2>2
<1>. QED  BY <1>1, <1>2, NothingAhead DEF BalanceInv

LEMMA StartBalances ==
  ASSUME BalanceInv, SealInv', Started
  PROVE  BalanceInv'
<1>1. /\ process' = "app" /\ todo' = << >> /\ disk' = disk /\ process = "none"
      /\ Pending = {}
  BY DEF Started
<1>2. Balanced(disk)
  BY <1>1, UnsafeOrBalanced DEF UnsafePending
<1>3. \A p : Balance(disk', p) + Ahead(todo', p) = 0
  BY <1>1, <1>2, NothingAhead DEF Balanced
<1>. QED  BY <1>1, <1>3, NothingAhead DEF BalanceInv

LEMMA GivesUpBalanced ==
  ASSUME JournalsWhole, BalanceInv, SealInv', GaveUp
  PROVE  BalanceInv'
<1>1. process = "app" /\ process' = "app" /\ todo' = << >> /\ disk' = disk /\ Refused
  BY DEF GaveUp, JournalsWhole, ClosesWhole
<1>2. \A p : Ahead(todo, p) = 0
  <2>. SUFFICES ASSUME todo # << >>, Line(todo[1]), Key(todo[1].rec) \notin Keys
                PROVE  FALSE
    BY Interruption
  <2>1. Head(todo) = todo[1]
    BY BalanceFacts
  <2>2. Head(todo).do = "put" /\ Head(todo).rec.kind \notin RejectedEvents
    BY <2>1 DEF Line, KindIn, JournalsWhole, JournalKinds
  <2>3. \A q \in disk : Key(q) # Key(Head(todo).rec)
    BY <2>1 DEF Keys
  <2>. QED  BY <1>1, <2>2, <2>3 DEF Refused, Doing, Appendable
<1>3. \A p : Balance(disk', p) + Ahead(todo', p) = 0
  <2>. SUFFICES ASSUME NEW p PROVE Balance(disk', p) + Ahead(todo', p) = 0
    OBVIOUS
  <2>1. Balance(disk, p) + Ahead(todo, p) = 0 /\ Ahead(todo, p) = 0 /\ Ahead(todo', p) = 0
    BY <1>1, <1>2, NothingAhead DEF BalanceInv
  <2>. QED  BY <1>1, <2>1
<1>. QED  BY <1>1, <1>3, NothingAhead DEF BalanceInv

LEMMA ReconcileBalances ==
  ASSUME JournalsWhole, BalanceInv, SealInv', NEW n, NEW decision \in Decisions,
         Reconcile(n, decision)
  PROVE  BalanceInv'
<1>1. /\ process = "none" /\ process' = "cli" /\ disk' = disk /\ wal' = wal
      /\ decision # "accepted_existing_records"
      /\ decision # "requires_accounting_adjustment"
  BY DEF Reconcile, JournalsWhole
<1>2. PICK data : data = [decision |-> decision]
  OBVIOUS
<1>. DEFINE s == Records("reconciliation_records", n, 0, data,
                         "recovery.reconciliation_recorded",
                         "recovery.reconciliation_recorded.v1")
            e == If(decision = "accepted_existing_records", << Commit(n) >>)
<1>3. todo' = s \o e
  BY <1>2 DEF Reconcile, Records
<1>4. IsSeq(s)
  BY RecordsPlain
<1>5. \A x : In(x, s) =>
        \/ x = Put("reconciliation_records", n, 0, data)
        \/ x = Put("recovery.reconciliation_recorded", n, 0, NoData)
        \/ x = Put("recovery.reconciliation_recorded.v1", n, 0, NoData)
  BY Audited DEF Records
<1>6. IsSeq(e) /\ \A x : ~In(x, e)
  BY <1>1, NoSteps DEF If
<1>. HIDE DEF s, e
<1>7. IsSeq(todo') /\ \A x : In(x, todo') => In(x, s)
  <2>1. IsSeq(todo')
    BY <1>3, <1>4, <1>6, Joins
  <2>. QED  BY <1>3, <1>4, <1>6, <2>1, Members
<1>8. ASSUME NEW x, In(x, todo')
      PROVE  x.do = "put" /\ ~Adjusting(x.rec) /\ ~Line(x)
  BY <1>1, <1>2, <1>5, <1>7, <1>8 DEF Put, Adjusting, Line, KindIn
<1>9. LinesFirst'
  BY <1>8 DEF LinesFirst, In
<1>10. \A p : Ahead(todo', p) = 0
  <2>. SUFFICES ASSUME NEW p PROVE Ahead(todo', p) = 0
    OBVIOUS
  <2>1. \A x : In(x, todo') => Amount(x, p) = 0
    BY <1>8 DEF Amount
  <2>. QED  BY <1>7, <2>1, AheadNone
<1>11. UnsafePending' # {} \/ Balanced(disk')
  BY <1>1, UnsafeStays, UnsafeOrBalanced
<1>. QED  BY <1>1, <1>8, <1>9, <1>10, <1>11 DEF BalanceInv

LEMMA NextBalances ==
  ASSUME JournalsWhole
  PROVE  BalanceInv /\ [Next]_vars => BalanceInv'
<1>. SUFFICES ASSUME BalanceInv, [Next]_vars PROVE BalanceInv'
  OBVIOUS
<1>0. SaneInv /\ SealInv'
  BY NextSeals, BalanceFacts DEF JournalsWhole
<1>1. CASE UNCHANGED vars
  <2>1. LinesFirst' = LinesFirst
    BY <1>1 DEF vars, LinesFirst, Posting, Pending, Txns, Keys
  <2>2. UnsafePending' = UnsafePending
    BY <1>1 DEF vars, UnsafePending, Pending, Txns
  <2>3. UNCHANGED <<disk, todo, process>>
    BY <1>1 DEF vars
  <2>. QED  BY <1>0, <2>1, <2>2, <2>3 DEF BalanceInv
<1>2. CASE Ended
  BY <1>0, <1>2, EndBalances
<1>3. CASE Started
  BY <1>0, <1>3, StartBalances
<1>4. CASE GaveUp
  BY <1>0, <1>4, GivesUpBalanced
<1>5. CASE AppendRecord
  BY <1>0, <1>5, AppendBalances
<1>6. CASE CommitTransaction
  BY <1>0, <1>6, CommitBalances
<1>7. CASE \E c, known, rest : Enters(c, known, rest)
  BY <1>0, <1>7, EnterBalances
<1>8. CASE \E n \in Txns, decision \in Decisions : Reconcile(n, decision)
  BY <1>0, <1>8, ReconcileBalances
<1>. QED  BY <1>0, <1>1, <1>2, <1>3, <1>4, <1>5, <1>6, <1>7, <1>8, Pauses

(* The journal lines of a closed period balance, whatever was refused,     *)
(* interrupted and recovered: the trial balance that gates the close reads *)
(* the headers only, and lines are appended after them one at a time, so   *)
(* this rests on recovery keeping the log unclean while a journal is half  *)
(* written.  An administrator who accepts such a journal as it is, or who  *)
(* corrects it by another, ends that: see JournalsWhole.                   *)
THEOREM ClosedBooksStayBalanced ==
  ASSUME JournalsWhole
  PROVE  Spec => []ClosedBooksBalance
<1>1. Init => BalanceInv
  <2>. SUFFICES ASSUME Init PROVE BalanceInv
    OBVIOUS
  <2>1. disk = {} /\ todo = << >> /\ process = "none" /\ SealInv
    <3>1. disk = {} /\ todo = << >> /\ process = "none" /\ SaneInv
      BY InitSane DEF Init
    <3>. QED  BY <3>1, NoSteps DEF SealInv, Steady
  <2>2. \A p : Balance({}, p) = 0
    <3>1. \A p : InPeriod({}, "journal_lines", p) = {}
      BY DEF InPeriod, Of
    <3>2. SumOf("debit", {}) = 0 /\ SumOf("credit", {}) = 0
      BY SumOfEmpty
    <3>. QED  BY <3>1, <3>2 DEF Balance
  <2>3. \A x : ~In(x, todo)
    BY <2>1, NoSteps
  <2>4. LinesFirst
    BY <2>3 DEF LinesFirst, In
  <2>5. \A p : Ahead(todo, p) = 0
    <3>. SUFFICES ASSUME NEW p PROVE Ahead(todo, p) = 0
      OBVIOUS
    <3>1. IsSeq(todo)
      BY <2>1, NoSteps
    <3>2. \A x : In(x, todo) => Amount(x, p) = 0
      BY <2>3
    <3>. QED  BY <3>1, <3>2, AheadNone
  <2>. QED  BY <2>1, <2>2, <2>3, <2>4, <2>5 DEF BalanceInv, Balanced
<1>2. BalanceInv => ClosedBooksBalance
  <2>. SUFFICES ASSUME BalanceInv, NEW p \in ClosedPeriods(disk)
                PROVE  SumOf("debit", InPeriod(disk, "journal_lines", p))
                         = SumOf("credit", InPeriod(disk, "journal_lines", p))
    BY DEF ClosedBooksBalance
  <2>. DEFINE S == InPeriod(disk, "journal_lines", p)
  <2>1. Integral("debit", S) /\ Integral("credit", S)
    BY BalanceFacts, FS_Subset DEF Integral, SaneDisk, SaneRecord, InPeriod, Of
  <2>2. SumOf("debit", S) - SumOf("credit", S) = 0
    BY DEF BalanceInv, Balance
  <2>. HIDE DEF S
  <2>3. SumOf("debit", S) \in Int /\ SumOf("credit", S) \in Int
    BY <2>1, SumOfType
  <2>. QED  BY <2>2, <2>3 DEF S
<1>3. BalanceInv /\ [Next]_vars => BalanceInv'
  BY NextBalances
<1>. QED  BY <1>1, <1>2, <1>3, PTL DEF Spec

-----------------------------------------------------------------------------
(* Nothing stands in its own way.  A step claims the keys of the records   *)
(* it will write, itself or through the operation it calls, and affects    *)
(* the stock of an item; the steps still to do keep clear of one another.  *)

LedgerFiles == {"journal_entries", "journal_lines",
                "accounting.journal_posted", "accounting.journal_posted.v1"}

StockFiles == {"stock_movements", "inventory.stock_moved", "inventory.stock_moved.v1"}

Claims(x, kind, doc, n) ==
  \/ x.do = "put" /\ x.rec.kind = kind /\ x.rec.doc = doc /\ x.rec.n = n
  \/ /\ x.do = "call" /\ x.cmd.doc = doc
     /\ \/ x.cmd.op = "accounting.post_journal" /\ kind \in LedgerFiles
        \/ x.cmd.op = "inventory.commit_movement" /\ kind \in StockFiles /\ x.cmd.n = n

Affects(x, item) ==
  \/ x.do = "put" /\ x.rec.kind = "stock_movements" /\ x.rec.data.item = item
  \/ x.do = "call" /\ x.cmd.op = "inventory.commit_movement" /\ x.cmd.item = item

Issues(x) ==
  \/ x.do = "put" /\ x.rec.kind = "stock_movements" /\ x.rec.data.quantity < 0
  \/ x.do = "call" /\ x.cmd.op = "inventory.commit_movement" /\ x.cmd.quantity < 0

Clear(x, y) ==
  /\ \A kind, doc, n : ~(Claims(x, kind, doc, n) /\ Claims(y, kind, doc, n))
  /\ \A item : Affects(x, item) /\ Affects(y, item) => ~Issues(x) /\ ~Issues(y)

Apart(s) == \A i, j \in DOMAIN s : i # j => Clear(s[i], s[j])

(* A step that claims and affects no more than another.                    *)
Within(x, y) ==
  /\ \A kind, doc, n : Claims(x, kind, doc, n) => Claims(y, kind, doc, n)
  /\ \A item : Affects(x, item) => Affects(y, item)
  /\ Issues(x) => Issues(y)

LEMMA ClearBothWays ==
  ASSUME NEW x, NEW y, Clear(x, y)
  PROVE  Clear(y, x)
BY DEF Clear

LEMMA ClearWithin ==
  ASSUME NEW x, NEW y, NEW z, Clear(y, z), Within(x, y)
  PROVE  Clear(x, z)
BY DEF Clear, Within

(* The steps s write to the files K, and affect stock only if Stocking.    *)
Uses(s, K) == \A x, kind, doc, n : In(x, s) /\ Claims(x, kind, doc, n) => kind \in K

Stockless(s) == \A x, item : In(x, s) => ~Affects(x, item)

LEMMA ApartJoined ==
  ASSUME NEW s, NEW t, IsSeq(s), IsSeq(t), Apart(s), Apart(t),
         \A x, y : In(x, s) /\ In(y, t) => Clear(x, y)
  PROVE  Apart(s \o t)
<1>1. PICK u : u = s \o t
  OBVIOUS
<1>2. /\ \A i \in DOMAIN u : i \in DOMAIN s => u[i] = s[i]
      /\ \A i \in DOMAIN u : i \notin DOMAIN s => i - Len(s) \in DOMAIN t /\ u[i] = t[i - Len(s)]
      /\ DOMAIN u \subseteq Int /\ Len(s) \in Int
  <2>1. \A i \in DOMAIN u : i \in DOMAIN s => u[i] = s[i]
    BY ONLY <1>1, IsSeq(s), IsSeq(t), Joins
  <2>2. \A i \in DOMAIN u :
          i \notin DOMAIN s => i - Len(s) \in DOMAIN t /\ u[i] = t[i - Len(s)]
    BY ONLY <1>1, IsSeq(s), IsSeq(t), Joins
  <2>3. DOMAIN u = 1..Len(u) /\ Len(u) \in Nat /\ Len(s) \in Nat
    BY ONLY <1>1, IsSeq(s), IsSeq(t), Joins
  <2>. QED  BY ONLY <2>1, <2>2, <2>3
<1>3. ASSUME NEW i \in DOMAIN u, NEW j \in DOMAIN u, i # j
      PROVE  Clear(u[i], u[j])
  <2>1. CASE i \in DOMAIN s /\ j \in DOMAIN s
    BY <1>2, <1>3, <2>1 DEF Apart
  <2>2. CASE i \notin DOMAIN s /\ j \notin DOMAIN s
    <3>1. i - Len(s) # j - Len(s)
      BY <1>2, <1>3
    <3>. QED  BY <1>2, <2>2, <3>1 DEF Apart
  <2>3. CASE i \in DOMAIN s /\ j \notin DOMAIN s
    BY <1>2, <2>3 DEF In
  <2>4. CASE i \notin DOMAIN s /\ j \in DOMAIN s
    <3>1. Clear(u[j], u[i])
      BY <1>2, <2>4 DEF In
    <3>. QED  BY <3>1, ClearBothWays
  <2>. QED  BY <2>1, <2>2, <2>3, <2>4
<1>. QED  BY <1>1, <1>3 DEF Apart

LEMMA KeepClear ==
  ASSUME NEW s, NEW t, NEW K, NEW L, IsSeq(s), IsSeq(t), Apart(s), Apart(t),
         Uses(s, K), Uses(t, L), K \cap L = {}, Stockless(s) \/ Stockless(t)
  PROVE  /\ IsSeq(s \o t) /\ Apart(s \o t) /\ Uses(s \o t, K \cup L)
         /\ Stockless(s) /\ Stockless(t) => Stockless(s \o t)
<1>1. IsSeq(s \o t)
  BY Concatenation
<1>2. \A x : In(x, s \o t) <=> In(x, s) \/ In(x, t)
  BY Members
<1>3. ASSUME NEW x, NEW y, In(x, s), In(y, t)
      PROVE  Clear(x, y)
  BY <1>3 DEF Uses, Stockless, Clear
<1>4. Apart(s \o t)
  BY <1>3, ApartJoined
<1>. QED  BY <1>1, <1>2, <1>4 DEF Uses, Stockless

LEMMA OneApart ==
  ASSUME NEW a
  PROVE  IsSeq(<< a >>) /\ Apart(<< a >>)
<1>1. DOMAIN << a >> = {1}
  OBVIOUS
<1>. QED  BY <1>1, OneStep DEF Apart

LEMMA NoneApart ==
  /\ IsSeq(<< >>) /\ Apart(<< >>) /\ Stockless(<< >>) /\ \A K : Uses(<< >>, K)
<1>1. DOMAIN << >> = {}
  OBVIOUS
<1>. QED  BY <1>1, NoSteps DEF Apart, Stockless, Uses

LEMMA PutApart ==
  ASSUME NEW kind, NEW doc, NEW n, NEW data
  PROVE  LET s == << Put(kind, doc, n, data) >> IN
         /\ IsSeq(s) /\ Apart(s) /\ Uses(s, {kind})
         /\ kind # "stock_movements" => Stockless(s)
<1>. DEFINE x == Put(kind, doc, n, data)
<1>1. IsSeq(<< x >>) /\ Apart(<< x >>) /\ \A y : In(y, << x >>) => y = x
  BY OneApart, OneStep
<1>2. x.do = "put" /\ x.rec.kind = kind
  BY DEF Put
<1>. HIDE DEF x
<1>3. Uses(<< x >>, {kind}) /\ (kind # "stock_movements" => Stockless(<< x >>))
  BY <1>1, <1>2 DEF Uses, Stockless, Claims, Affects
<1>. QED  BY <1>1, <1>3 DEF x

LEMMA TailApart ==
  ASSUME NEW s, IsSeq(s), s # << >>, Apart(s)
  PROVE  Apart(Tail(s)) /\ \A x : In(x, Tail(s)) => Clear(Head(s), x)
<1>. DEFINE t == Tail(s)
<1>1. /\ 1 \in DOMAIN s /\ s[1] = Head(s) /\ DOMAIN t \subseteq Nat \ {0}
      /\ \A i \in DOMAIN t : i + 1 \in DOMAIN s /\ t[i] = s[i + 1]
  <2>1. /\ 1 \in DOMAIN s /\ s[1] = Head(s)
        /\ \A i \in DOMAIN t : i + 1 \in DOMAIN s /\ t[i] = s[i + 1]
        /\ IsSeq(t)
    BY TailFacts
  <2>. HIDE DEF t
  <2>2. DOMAIN t = 1..Len(t) /\ Len(t) \in Nat
    BY <2>1, StepsCounted
  <2>. QED  BY <2>1, <2>2
<1>. HIDE DEF t
<1>2. \A i, j \in DOMAIN t : i # j => i + 1 # j + 1
  BY <1>1
<1>3. \A i \in DOMAIN t : i + 1 # 1
  BY <1>1
<1>4. Apart(t)
  BY <1>1, <1>2 DEF Apart
<1>5. \A x : In(x, t) => Clear(Head(s), x)
  BY <1>1, <1>3 DEF Apart, In
<1>. QED  BY <1>4, <1>5 DEF t

LEMMA AuditApart ==
  ASSUME NEW action, NEW event, NEW doc, NEW n, action # event,
         action # "stock_movements", event # "stock_movements"
  PROVE  LET s == AuditAndEvent(action, event, doc, n) IN
         IsSeq(s) /\ Apart(s) /\ Uses(s, {action, event}) /\ Stockless(s)
<1>. DEFINE a == Put(action, doc, n, NoData)
            b == Put(event, doc, n, NoData)
            s == << a, b >>
<1>1. IsSeq(s) /\ \A x : In(x, s) => x = a \/ x = b
  BY TwoSteps
<1>2. a.do = "put" /\ b.do = "put" /\ a.rec.kind = action /\ b.rec.kind = event
  BY DEF Put
<1>. HIDE DEF a, b
<1>3. Clear(a, b) /\ Clear(b, a)
  BY <1>2 DEF Clear, Claims, Affects
<1>4. DOMAIN s = {1, 2} /\ s[1] = a /\ s[2] = b
  OBVIOUS
<1>. HIDE DEF s
<1>5. Apart(s)
  BY <1>3, <1>4 DEF Apart
<1>6. Uses(s, {action, event}) /\ Stockless(s)
  BY <1>1, <1>2 DEF Uses, Stockless, Claims, Affects
<1>. QED  BY <1>1, <1>5, <1>6 DEF s, a, b, AuditAndEvent

LEMMA RecordsApart ==
  ASSUME NEW kind, NEW doc, NEW n, NEW data, NEW action, NEW event,
         kind # action, kind # event, action # event,
         action # "stock_movements", event # "stock_movements"
  PROVE  LET s == << Put(kind, doc, n, data) >> \o AuditAndEvent(action, event, doc, n) IN
         /\ IsSeq(s) /\ Apart(s) /\ Uses(s, {kind, action, event})
         /\ kind # "stock_movements" => Stockless(s)
<1>1. PICK s, t : s = << Put(kind, doc, n, data) >> /\ t = AuditAndEvent(action, event, doc, n)
  OBVIOUS
<1>2. IsSeq(s) /\ Apart(s) /\ Uses(s, {kind}) /\ (kind # "stock_movements" => Stockless(s))
  BY <1>1, PutApart
<1>3. IsSeq(t) /\ Apart(t) /\ Uses(t, {action, event}) /\ Stockless(t)
  BY <1>1, AuditApart
<1>4. {kind} \cap {action, event} = {} /\ {kind} \cup {action, event} = {kind, action, event}
  OBVIOUS
<1>5. /\ IsSeq(s \o t) /\ Apart(s \o t) /\ Uses(s \o t, {kind} \cup {action, event})
      /\ Stockless(s) /\ Stockless(t) => Stockless(s \o t)
  BY <1>2, <1>3, <1>4, KeepClear
<1>. QED  BY <1>1, <1>2, <1>3, <1>4, <1>5

(* One step for each line of a document, told apart by the line.           *)
PutsOf(f, k, kind) ==
  /\ k \in Nat /\ f = [i \in 1..k |-> f[i]] /\ kind # "stock_movements"
  /\ \A i \in 1..k : f[i].do = "put" /\ f[i].rec.kind = kind /\ f[i].rec.n = i

LEMMA PutsApart ==
  ASSUME NEW k, NEW f, NEW kind, PutsOf(f, k, kind)
  PROVE  IsSeq(f) /\ Apart(f) /\ Uses(f, {kind}) /\ Stockless(f)
<1>0. /\ k \in Nat /\ f = [i \in 1..k |-> f[i]] /\ kind # "stock_movements"
      /\ \A i \in 1..k : f[i].do = "put" /\ f[i].rec.kind = kind /\ f[i].rec.n = i
  BY DEF PutsOf
<1>1. DOMAIN f = 1..k
  BY <1>0
<1>2. IsSeq(f) /\ \A x : In(x, f) <=> \E i \in 1..k : x = f[i]
  BY <1>0, OneStepPerLine
<1>3. Apart(f)
  BY <1>0, <1>1 DEF Apart, Clear, Claims, Affects
<1>. QED  BY <1>0, <1>2, <1>3 DEF Uses, Stockless, Claims, Affects

MovementCall(x) == x.do = "call" /\ x.cmd.op = "inventory.commit_movement"

(* So are movements, unless two of them concern one item and issue it.     *)
LEMMA CallsApart ==
  ASSUME NEW k \in Nat, NEW f, f = [i \in 1..k |-> f[i]],
         \A i \in 1..k : MovementCall(f[i]),
         \A i, j \in 1..k : i # j =>
           /\ f[i].cmd.n # f[j].cmd.n
           /\ f[i].cmd.item = f[j].cmd.item => ~(f[i].cmd.quantity < 0) /\ ~(f[j].cmd.quantity < 0)
  PROVE  IsSeq(f) /\ Apart(f) /\ Uses(f, StockFiles)
<1>1. DOMAIN f = 1..k
  OBVIOUS
<1>2. IsSeq(f) /\ \A x : In(x, f) <=> \E i \in 1..k : x = f[i]
  BY OneStepPerLine
<1>3. ASSUME NEW i \in 1..k, NEW j \in 1..k, i # j
      PROVE  Clear(f[i], f[j])
  BY <1>3 DEF Clear, Claims, Affects, Issues, MovementCall
<1>4. Apart(f)
  BY <1>1, <1>3 DEF Apart
<1>. QED  BY <1>2, <1>4 DEF Uses, Claims, MovementCall

LEMMA JournalApart ==
  ASSUME NEW j, j.op = "accounting.post_journal"
  PROVE  LET s == << Call(j) >> IN
         IsSeq(s) /\ Apart(s) /\ Uses(s, LedgerFiles) /\ Stockless(s)
<1>. DEFINE x == Call(j)
<1>1. IsSeq(<< x >>) /\ Apart(<< x >>) /\ \A y : In(y, << x >>) => y = x
  BY OneApart, OneStep
<1>2. x.do = "call" /\ x.cmd = j
  BY DEF Call
<1>. HIDE DEF x
<1>3. Uses(<< x >>, LedgerFiles) /\ Stockless(<< x >>)
  BY <1>1, <1>2 DEF Uses, Stockless, Claims, Affects
<1>. QED  BY <1>1, <1>3 DEF x

(* A document: its journal, its movements, its header, its lines, and the  *)
(* audit record and event.                                                 *)
LEMMA DocumentApart ==
  ASSUME NEW j, j.op = "accounting.post_journal", NEW m, NEW f, NEW doc, NEW data,
         IsSeq(m), Apart(m), Uses(m, StockFiles),
         NEW header, NEW line, NEW action, NEW event,
         IsSeq(f), Apart(f), Uses(f, {line}), Stockless(f),
         header \notin {line, action, event}, line \notin {action, event}, action # event,
         {header, line, action, event} \cap (LedgerFiles \cup StockFiles) = {}
  PROVE  LET s == << Call(j) >> \o m \o << Put(header, doc, 0, data) >> \o f
                    \o << Put(action, doc, 0, NoData), Put(event, doc, 0, NoData) >>
         IN  IsSeq(s) /\ Apart(s)
               /\ Uses(s, LedgerFiles \cup StockFiles \cup {header, line, action, event})
<1>1. PICK a, h, b : /\ a = << Call(j) >> /\ h = << Put(header, doc, 0, data) >>
                     /\ b = << Put(action, doc, 0, NoData), Put(event, doc, 0, NoData) >>
  OBVIOUS
<1>0. header # "stock_movements" /\ action # "stock_movements" /\ event # "stock_movements"
  BY DEF StockFiles
<1>2. IsSeq(a) /\ Apart(a) /\ Uses(a, LedgerFiles) /\ Stockless(a)
  BY <1>1, JournalApart
<1>3. IsSeq(h) /\ Apart(h) /\ Uses(h, {header}) /\ Stockless(h)
  BY <1>0, <1>1, PutApart
<1>4. IsSeq(b) /\ Apart(b) /\ Uses(b, {action, event}) /\ Stockless(b)
  BY <1>0, <1>1, AuditApart DEF AuditAndEvent
<1>5. IsSeq(a \o m) /\ Apart(a \o m) /\ Uses(a \o m, LedgerFiles \cup StockFiles)
  <2>1. LedgerFiles \cap StockFiles = {}
    BY DEF LedgerFiles, StockFiles
  <2>. QED  BY <1>2, <2>1, KeepClear
<1>6. PICK s1 : s1 = a \o m
  OBVIOUS
<1>7. /\ IsSeq(s1 \o h) /\ Apart(s1 \o h)
      /\ Uses(s1 \o h, (LedgerFiles \cup StockFiles) \cup {header})
  <2>1. (LedgerFiles \cup StockFiles) \cap {header} = {}
    OBVIOUS
  <2>. QED  BY <1>3, <1>5, <1>6, <2>1, KeepClear
<1>8. PICK s2 : s2 = s1 \o h
  OBVIOUS
<1>9. /\ IsSeq(s2 \o f) /\ Apart(s2 \o f)
      /\ Uses(s2 \o f, ((LedgerFiles \cup StockFiles) \cup {header}) \cup {line})
  <2>1. ((LedgerFiles \cup StockFiles) \cup {header}) \cap {line} = {}
    OBVIOUS
  <2>. QED  BY <1>7, <1>8, <2>1, KeepClear
<1>10. PICK s3 : s3 = s2 \o f
  OBVIOUS
<1>11. /\ IsSeq(s3 \o b) /\ Apart(s3 \o b)
       /\ Uses(s3 \o b, (((LedgerFiles \cup StockFiles) \cup {header}) \cup {line})
                           \cup {action, event})
  <2>1. (((LedgerFiles \cup StockFiles) \cup {header}) \cup {line}) \cap {action, event} = {}
    OBVIOUS
  <2>. QED  BY <1>4, <1>9, <1>10, <2>1, KeepClear
<1>12. (((LedgerFiles \cup StockFiles) \cup {header}) \cup {line}) \cup {action, event}
         = LedgerFiles \cup StockFiles \cup {header, line, action, event}
  OBVIOUS
<1>. QED  BY <1>1, <1>6, <1>8, <1>10, <1>11, <1>12

DistinctItems(c) ==
  \A i, j \in DOMAIN c.lines : c.lines[i].item = c.lines[j].item => i = j

LEMMA JournalStepsApart ==
  ASSUME NEW c, Command(c), c.op = "accounting.post_journal"
  PROVE  IsSeq(JournalSteps(c)) /\ Apart(JournalSteps(c))
<1>1. PICK a, f, b : /\ a = << EntryPut(c) >>
                     /\ f = [i \in DOMAIN c.lines |-> LinePut(c, i)]
                     /\ b = AuditAndEvent("accounting.journal_posted",
                                          "accounting.journal_posted.v1", c.doc, 0)
  OBVIOUS
<1>2. JournalSteps(c) = (a \o f) \o b
  BY <1>1 DEF JournalSteps, EntryPut, LinePut
<1>3. IsSeq(a) /\ Apart(a) /\ Uses(a, {"journal_entries"}) /\ Stockless(a)
  BY <1>1, PutApart DEF EntryPut
<1>4. IsSeq(f) /\ Apart(f) /\ Uses(f, {"journal_lines"}) /\ Stockless(f)
  <2>1. Len(c.lines) \in Nat /\ DOMAIN c.lines = 1..Len(c.lines)
    BY LinesAre DEF Command, Fields
  <2>2. f = [i \in 1..Len(c.lines) |-> f[i]]
    BY <1>1, <2>1
  <2>3. \A i \in 1..Len(c.lines) :
          f[i].do = "put" /\ f[i].rec.kind = "journal_lines" /\ f[i].rec.n = i
    BY <1>1, <2>1 DEF LinePut, Put
  <2>4. PutsOf(f, Len(c.lines), "journal_lines")
    BY ONLY <2>1, <2>2, <2>3 DEF PutsOf
  <2>. QED  BY ONLY <2>4, PutsApart
<1>5. /\ IsSeq(b) /\ Apart(b) /\ Stockless(b)
      /\ Uses(b, {"accounting.journal_posted", "accounting.journal_posted.v1"})
  BY <1>1, AuditApart
<1>6. PICK s : s = a \o f
  OBVIOUS
<1>7. /\ IsSeq(s) /\ Apart(s) /\ Uses(s, {"journal_entries"} \cup {"journal_lines"})
      /\ Stockless(s)
  <2>1. {"journal_entries"} \cap {"journal_lines"} = {}
    OBVIOUS
  <2>. QED  BY <1>3, <1>4, <1>6, <2>1, KeepClear
<1>8. IsSeq(s \o b) /\ Apart(s \o b)
  <2>1. ({"journal_entries"} \cup {"journal_lines"})
          \cap {"accounting.journal_posted", "accounting.journal_posted.v1"} = {}
    OBVIOUS
  <2>. QED  BY <1>5, <1>7, <2>1, KeepClear
<1>. QED  BY <1>2, <1>6, <1>8

LEMMA InvoiceStepsApart ==
  ASSUME NEW c, NEW d, Command(c), Numbers(c), c.op = "billing.create_invoice",
         DistinctItems(c)
  PROVE  IsSeq(InvoiceSteps(c, d)) /\ Apart(InvoiceSteps(c, d))
<1>1. PICK j, m, f, data :
        /\ j = InvoiceJournal(c, SumFunction(InvoiceCogs(c, d)))
        /\ m = [i \in DOMAIN c.lines |-> Call(SaleMovement(c, i))]
        /\ f = [i \in DOMAIN c.lines |-> InvoiceLinePut(c, d, i)]
        /\ data = [period |-> c.period, currency |-> c.currency,
                   subtotal |-> Subtotal(c.lines), tax |-> Tax(c.lines)]
  OBVIOUS
<1>2. InvoiceSteps(c, d)
        = << Call(j) >> \o m \o << Put("invoices", c.doc, 0, data) >> \o f
            \o << Put("billing.invoice_created", c.doc, 0, NoData),
                  Put("billing.sale_completed.v1", c.doc, 0, NoData) >>
  BY <1>1 DEF InvoiceSteps, SaleMovement, InvoiceLinePut
<1>3. j.op = "accounting.post_journal"
  BY <1>1 DEF InvoiceJournal, Journal
<1>4. Len(c.lines) \in Nat /\ DOMAIN c.lines = 1..Len(c.lines)
  BY LinesAre DEF Command, Fields
<1>5. IsSeq(m) /\ Apart(m) /\ Uses(m, StockFiles)
  <2>1. m = [i \in 1..Len(c.lines) |-> m[i]]
    BY <1>1, <1>4
  <2>2. ASSUME NEW i \in 1..Len(c.lines)
        PROVE  /\ MovementCall(m[i]) /\ m[i].cmd.n = i
               /\ m[i].cmd.item = c.lines[i].item
    <3>1. m[i] = Call(SaleMovement(c, i))
      BY <1>1, <1>4
    <3>. QED  BY <3>1 DEF MovementCall, SaleMovement, Movement, Call
  <2>3. ASSUME NEW i \in 1..Len(c.lines), NEW k \in 1..Len(c.lines), i # k
        PROVE  m[i].cmd.n # m[k].cmd.n /\ m[i].cmd.item # m[k].cmd.item
    <3>1. c.lines[i].item # c.lines[k].item
      BY <1>4, <2>3 DEF DistinctItems
    <3>2. m[i].cmd.n = i /\ m[k].cmd.n = k
      BY <2>2
    <3>3. m[i].cmd.item = c.lines[i].item /\ m[k].cmd.item = c.lines[k].item
      BY <2>2
    <3>. QED  BY <2>3, <3>1, <3>2, <3>3
  <2>4. \A i, k \in 1..Len(c.lines) : i # k =>
          /\ m[i].cmd.n # m[k].cmd.n
          /\ m[i].cmd.item = m[k].cmd.item => ~(m[i].cmd.quantity < 0) /\ ~(m[k].cmd.quantity < 0)
    BY <2>3
  <2>5. \A i \in 1..Len(c.lines) : MovementCall(m[i])
    BY <2>2
  <2>. HIDE DEF MovementCall
  <2>. QED  BY <1>4, <2>1, <2>4, <2>5, CallsApart
<1>6. IsSeq(f) /\ Apart(f) /\ Uses(f, {"invoice_lines"}) /\ Stockless(f)
  <2>1. f = [i \in 1..Len(c.lines) |-> f[i]]
    BY <1>1, <1>4
  <2>2. \A i \in 1..Len(c.lines) :
          f[i].do = "put" /\ f[i].rec.kind = "invoice_lines" /\ f[i].rec.n = i
    BY <1>1, <1>4 DEF InvoiceLinePut, Put
  <2>3. Len(c.lines) \in Nat
    BY <1>4
  <2>4. PutsOf(f, Len(c.lines), "invoice_lines")
    BY ONLY <2>1, <2>2, <2>3 DEF PutsOf
  <2>. QED  BY ONLY <2>4, PutsApart
<1>7. {"invoices", "invoice_lines", "billing.invoice_created", "billing.sale_completed.v1"}
         \cap (LedgerFiles \cup StockFiles) = {}
  BY DEF LedgerFiles, StockFiles
<1>9. PICK header, line, action, event :
        /\ header = "invoices" /\ line = "invoice_lines"
        /\ action = "billing.invoice_created" /\ event = "billing.sale_completed.v1"
  OBVIOUS
<1>10. /\ header \notin {line, action, event} /\ line \notin {action, event} /\ action # event
       /\ {header, line, action, event} \cap (LedgerFiles \cup StockFiles) = {}
  BY <1>7, <1>9
<1>11. Uses(f, {line})
  BY <1>6, <1>9
<1>12. LET s == << Call(j) >> \o m \o << Put(header, c.doc, 0, data) >> \o f
                   \o << Put(action, c.doc, 0, NoData), Put(event, c.doc, 0, NoData) >>
       IN  IsSeq(s) /\ Apart(s)
  BY <1>3, <1>5, <1>6, <1>10, <1>11, DocumentApart
<1>. QED  BY <1>2, <1>9, <1>12

LEMMA RefundStepsApart ==
  ASSUME NEW c, NEW d, Command(c), Numbers(c), c.op = "billing.create_refund",
         \A i \in DOMAIN c.lines : c.lines[i].quantity > 0
  PROVE  IsSeq(RefundSteps(c, d)) /\ Apart(RefundSteps(c, d))
<1>1. PICK k, j, m, f, data :
        /\ k = Cardinality(Restocked(c.lines))
        /\ j = RefundJournal(c, SumFunction(RefundCogs(c, d)))
        /\ m = [i \in 1..k |-> Call(ReturnMovement(c, KthRestocked(c.lines, i), d))]
        /\ f = [i \in DOMAIN c.lines |-> RefundLinePut(c, d, i)]
        /\ data = [invoice |-> c.invoice, period |-> c.period, currency |-> c.currency,
                   subtotal |-> Subtotal(c.lines), tax |-> Tax(c.lines)]
  OBVIOUS
<1>2. RefundSteps(c, d)
        = << Call(j) >> \o m \o << Put("refunds", c.doc, 0, data) >> \o f
            \o << Put("billing.refund_created", c.doc, 0, NoData),
                  Put("billing.refund_completed.v1", c.doc, 0, NoData) >>
  BY <1>1 DEF RefundSteps, RefundLinePut
<1>3. j.op = "accounting.post_journal"
  BY <1>1 DEF RefundJournal, Journal
<1>4. Len(c.lines) \in Nat /\ DOMAIN c.lines = 1..Len(c.lines)
  BY LinesAre DEF Command, Fields
<1>5. /\ k \in Nat /\ \A i \in 1..k : KthRestocked(c.lines, i) \in DOMAIN c.lines
      /\ \A i, l \in 1..k : KthRestocked(c.lines, i) = KthRestocked(c.lines, l) => i = l
  <2>1. /\ k \in Nat /\ \A i \in 1..k : KthRestocked(c.lines, i) \in Restocked(c.lines)
        /\ \A i, l \in 1..k : KthRestocked(c.lines, i) = KthRestocked(c.lines, l) => i = l
    BY <1>1, <1>4, EveryRestockedLine
  <2>. QED  BY <2>1 DEF Restocked
<1>6. IsSeq(m) /\ Apart(m) /\ Uses(m, StockFiles)
  <2>1. m = [i \in 1..k |-> m[i]]
    BY <1>1
  <2>2. ASSUME NEW i \in 1..k
        PROVE  /\ MovementCall(m[i]) /\ m[i].cmd.n = KthRestocked(c.lines, i)
               /\ ~(m[i].cmd.quantity < 0)
    <3>1. m[i] = Call(ReturnMovement(c, KthRestocked(c.lines, i), d))
      BY <1>1
    <3>2. PICK l \in DOMAIN c.lines : l = KthRestocked(c.lines, i)
      BY <1>5
    <3>3. m[i].cmd.quantity = c.lines[l].quantity
      BY <3>1, <3>2 DEF ReturnMovement, Movement, Call
    <3>4. c.lines[l].quantity \in Int /\ c.lines[l].quantity > 0
      BY DEF Numbers
    <3>5. MovementCall(m[i]) /\ m[i].cmd.n = KthRestocked(c.lines, i)
      BY <3>1 DEF MovementCall, ReturnMovement, Movement, Call
    <3>. QED  BY <3>3, <3>4, <3>5
  <2>3. \A i, l \in 1..k : i # l => m[i].cmd.n # m[l].cmd.n
    BY <1>5, <2>2
  <2>. QED  BY <1>5, <2>1, <2>2, <2>3, CallsApart
<1>7. IsSeq(f) /\ Apart(f) /\ Uses(f, {"refund_lines"}) /\ Stockless(f)
  <2>1. f = [i \in 1..Len(c.lines) |-> f[i]]
    BY <1>1, <1>4
  <2>2. \A i \in 1..Len(c.lines) :
          f[i].do = "put" /\ f[i].rec.kind = "refund_lines" /\ f[i].rec.n = i
    BY <1>1, <1>4 DEF RefundLinePut, Put
  <2>3. Len(c.lines) \in Nat
    BY <1>4
  <2>4. PutsOf(f, Len(c.lines), "refund_lines")
    BY ONLY <2>1, <2>2, <2>3 DEF PutsOf
  <2>. QED  BY ONLY <2>4, PutsApart
<1>8. {"refunds", "refund_lines", "billing.refund_created", "billing.refund_completed.v1"}
         \cap (LedgerFiles \cup StockFiles) = {}
  BY DEF LedgerFiles, StockFiles
<1>9. PICK header, line, action, event :
        /\ header = "refunds" /\ line = "refund_lines"
        /\ action = "billing.refund_created" /\ event = "billing.refund_completed.v1"
  OBVIOUS
<1>10. /\ header \notin {line, action, event} /\ line \notin {action, event} /\ action # event
       /\ {header, line, action, event} \cap (LedgerFiles \cup StockFiles) = {}
  BY <1>8, <1>9
<1>11. Uses(f, {line})
  BY <1>7, <1>9
<1>12. LET s == << Call(j) >> \o m \o << Put(header, c.doc, 0, data) >> \o f
                   \o << Put(action, c.doc, 0, NoData), Put(event, c.doc, 0, NoData) >>
       IN  IsSeq(s) /\ Apart(s)
  BY <1>3, <1>6, <1>7, <1>10, <1>11, DocumentApart
<1>. QED  BY <1>2, <1>9, <1>12

(* What an operation leaves to do keeps clear of itself.                   *)
LEMMA PieceApart ==
  ASSUME NEW c, NEW d, NEW n, Command(c), Numbers(c),
         c.op = "billing.create_invoice" => DistinctItems(c),
         c.op = "billing.create_refund" => \A i \in DOMAIN c.lines : c.lines[i].quantity > 0
  PROVE  IsSeq(Piece(c, d, n)) /\ Apart(Piece(c, d, n))
<1>1. PICK s, t, u : s = Steps(c, d) /\ t = << Commit(n) >> /\ u = AfterCommit(c, d)
  OBVIOUS
<1>2. /\ IsSeq(s) /\ Apart(s)
      /\ c.op = "inventory.commit_movement" => Uses(s, StockFiles)
  <2>1. CASE c.op = "inventory.register_item"
    BY <1>1, <2>1, RecordsApart DEF Steps, ItemSteps
  <2>2. CASE c.op = "inventory.commit_movement"
    <3>1. {"stock_movements", "inventory.stock_moved", "inventory.stock_moved.v1"} = StockFiles
      BY DEF StockFiles
    <3>. QED  BY <1>1, <2>2, <3>1, RecordsApart DEF Steps, MovementSteps
  <2>3. CASE c.op = "accounting.post_journal"
    BY <1>1, <2>3, JournalStepsApart DEF Steps
  <2>4. CASE c.op = "accounting.close_period"
    BY <1>1, <2>4, RecordsApart DEF Steps, CloseSteps
  <2>5. CASE c.op = "billing.create_invoice"
    BY <1>1, <2>5, InvoiceStepsApart DEF Steps
  <2>6. CASE c.op = "billing.create_refund"
    BY <1>1, <2>6, RefundStepsApart DEF Steps
  <2>. QED  BY <2>1, <2>2, <2>3, <2>4, <2>5, <2>6 DEF Command, Operations
<1>3. IsSeq(t) /\ Apart(t) /\ Uses(t, {}) /\ Stockless(t)
  <2>1. IsSeq(t) /\ Apart(t) /\ \A x : In(x, t) => x = Commit(n)
    BY <1>1, OneApart, OneStep
  <2>. QED  BY <2>1 DEF Uses, Stockless, Claims, Affects, Commit
<1>4. PICK K : Uses(s, K) /\ (c.op = "inventory.commit_movement" => K = StockFiles)
  <2>1. CASE c.op = "inventory.commit_movement"
    BY <1>2, <2>1
  <2>2. CASE c.op # "inventory.commit_movement"
    <3>1. \A x : In(x, s) => \/ x.do = "put" /\ Claims(x, x.rec.kind, x.rec.doc, x.rec.n)
                             \/ x.do # "put"
      BY DEF Claims
    <3>2. Uses(s, LedgerFiles \cup StockFiles \cup {s[i].rec.kind : i \in DOMAIN s})
      BY DEF Uses, Claims, In
    <3>. QED  BY <2>2, <3>2
  <2>. QED  BY <2>1, <2>2
<1>5. PICK v : v = s \o t
  OBVIOUS
<1>6. IsSeq(v) /\ Apart(v) /\ Uses(v, K)
  <2>1. K \cap {} = {} /\ K \cup {} = K
    OBVIOUS
  <2>2. IsSeq(s \o t) /\ Apart(s \o t) /\ Uses(s \o t, K \cup {})
    BY <1>2, <1>3, <1>4, <2>1, KeepClear
  <2>. QED  BY <1>5, <2>1, <2>2
<1>7. IsSeq(u) /\ Apart(u) /\ Stockless(u) /\ Uses(u, LedgerFiles)
      /\ (u # << >> => c.op = "inventory.commit_movement")
  <2>1. CASE u = << >>
    BY <2>1, NoneApart
  <2>2. CASE u # << >>
    <3>1. /\ c.op = "inventory.commit_movement"
          /\ u = << Call(MovementJournal(c, ValueDelta(c, d))) >>
      BY <1>1, <2>2 DEF AfterCommit, If
    <3>2. MovementJournal(c, ValueDelta(c, d)).op = "accounting.post_journal"
      BY DEF MovementJournal, Journal
    <3>. QED  BY <3>1, <3>2, JournalApart
  <2>. QED  BY <2>1, <2>2
<1>8. IsSeq(v \o u) /\ Apart(v \o u)
  <2>1. CASE u = << >>
    <3>1. Uses(u, {}) /\ K \cap {} = {}
      BY <2>1, NoneApart
    <3>. QED  BY <1>6, <1>7, <3>1, KeepClear
  <2>2. CASE u # << >>
    <3>1. K \cap LedgerFiles = {}
      BY <1>4, <1>7, <2>2 DEF StockFiles, LedgerFiles
    <3>. QED  BY <1>6, <1>7, <3>1, KeepClear
  <2>. QED  BY <2>1, <2>2
<1>. QED  BY <1>1, <1>5, <1>8 DEF Piece

-----------------------------------------------------------------------------
(* The journals that the program makes up are ones that post_journal takes.*)

Along(a, b, f, g, h) ==
  /\ a \in Nat /\ b \in Nat
  /\ DOMAIN f = 1..a /\ DOMAIN g = 1..b /\ DOMAIN h = 1..a+b
  /\ \A i \in 1..a : f[i] \in Int /\ h[i] = f[i]
  /\ \A i \in 1..b : g[i] \in Int /\ h[a + i] = g[i]

LEMMA SumAlong ==
  ASSUME NEW a, NEW b, NEW f, NEW g, NEW h, Along(a, b, f, g, h)
  PROVE  SumFunction(h) = SumFunction(f) + SumFunction(g)
<1>0. /\ a \in Nat /\ b \in Nat
      /\ DOMAIN f = 1..a /\ DOMAIN g = 1..b /\ DOMAIN h = 1..a+b
      /\ \A i \in 1..a : f[i] \in Int /\ h[i] = f[i]
      /\ \A i \in 1..b : g[i] \in Int /\ h[a + i] = g[i]
  BY DEF Along
<1>1. IsFiniteSet(1..a) /\ IsFiniteSet(1..b)
  BY <1>0, FS_Interval
<1>2. PICK phi : phi = [i \in 1..b |-> a + i]
  OBVIOUS
<1>3. \A i \in 1..b : /\ phi[i] \in 1..a+b /\ phi[i] \notin 1..a
                      /\ g[i] \in Int /\ h[phi[i]] = g[i]
  BY <1>0, <1>2
<1>4. \A i, j \in 1..b : phi[i] = phi[j] => i = j
  BY <1>0, <1>2
<1>5. \A k \in 1..a+b : k \in 1..a \/ \E i \in 1..b : k = phi[i]
  <2>1. \A k \in 1..a+b : k \notin 1..a => k - a \in 1..b /\ k = a + (k - a)
    BY <1>0
  <2>. QED  BY <1>2, <2>1
<1>6. \A i \in 1..a : i \in 1..a+b /\ f[i] \in Int /\ h[i] = f[i]
  BY <1>0
<1>7. PICK I, J, K : I = 1..a /\ J = 1..b /\ K = 1..a+b
  OBVIOUS
<1>8. /\ IsFiniteSet(I) /\ IsFiniteSet(J)
      /\ \A i \in I : i \in K /\ f[i] \in Int /\ h[i] = f[i]
      /\ \A j \in J : phi[j] \in K /\ phi[j] \notin I /\ g[j] \in Int /\ h[phi[j]] = g[j]
      /\ \A i, j \in J : phi[i] = phi[j] => i = j
      /\ \A m \in K : m \in I \/ \E j \in J : m = phi[j]
  BY ONLY <1>1, <1>3, <1>4, <1>5, <1>6, <1>7
<1>9. SumFunctionOnSet(h, K) = SumFunctionOnSet(f, I) + SumFunctionOnSet(g, J)
  BY ONLY <1>8, SumJoined
<1>. QED  BY <1>0, <1>7, <1>9 DEF SumFunction

(* A journal's lines, each valid, with what they debit and credit.         *)
Weighs(lines, d, c) ==
  /\ Amounts(lines) /\ d \in Int /\ c \in Int
  /\ \A x : In(x, lines) => ValidLine(x)
  /\ Debits(lines) = d /\ Credits(lines) = c

LEMMA WeighsJoined ==
  ASSUME NEW s, NEW t, NEW a, NEW b, NEW c, NEW d, Weighs(s, a, b), Weighs(t, c, d)
  PROVE  Weighs(s \o t, a + c, b + d)
<1>1. IsSeq(s) /\ IsSeq(t) /\ a \in Int /\ b \in Int /\ c \in Int /\ d \in Int
  BY DEF Weighs, Amounts
<1>2. PICK u : u = s \o t
  OBVIOUS
<1>3. IsSeq(u) /\ \A x : In(x, u) <=> In(x, s) \/ In(x, t)
  BY <1>1, <1>2, Joins, Members
<1>4. Amounts(u) /\ \A x : In(x, u) => ValidLine(x)
  BY <1>3 DEF Weighs, Amounts
<1>5. /\ Len(s) \in Nat /\ Len(t) \in Nat /\ Len(u) = Len(s) + Len(t)
      /\ DOMAIN s = 1..Len(s) /\ DOMAIN t = 1..Len(t) /\ DOMAIN u = 1..Len(u)
      /\ \A i \in DOMAIN s : u[i] = s[i]
      /\ \A i \in DOMAIN t : u[Len(s) + i] = t[i]
  <2>1. IsSeq(s) /\ IsSeq(t)
    BY <1>1
  <2>. QED  BY ONLY <1>2, <2>1, Joins
<1>6. PICK k, l : k = Len(s) /\ l = Len(t)
  OBVIOUS
<1>7. /\ k \in Nat /\ l \in Nat
      /\ DOMAIN s = 1..k /\ DOMAIN t = 1..l /\ DOMAIN u = 1..k+l
      /\ \A i \in 1..k : u[i] = s[i] /\ s[i].debit \in Int /\ s[i].credit \in Int
      /\ \A i \in 1..l : u[k + i] = t[i] /\ t[i].debit \in Int /\ t[i].credit \in Int
  BY <1>5, <1>6 DEF Weighs, Amounts, In
<1>8. Debits(u) = Debits(s) + Debits(t)
  <2>1. PICK f, g, h : /\ f = [i \in 1..k |-> s[i].debit]
                       /\ g = [i \in 1..l |-> t[i].debit]
                       /\ h = [i \in 1..k+l |-> u[i].debit]
    OBVIOUS
  <2>2. /\ DOMAIN f = 1..k /\ DOMAIN g = 1..l /\ DOMAIN h = 1..k+l
        /\ \A i \in 1..k : i \in 1..k+l
        /\ \A i \in 1..l : k + i \in 1..k+l
    BY <1>7, <2>1
  <2>3. /\ \A i \in 1..k : f[i] \in Int /\ h[i] = f[i]
        /\ \A i \in 1..l : g[i] \in Int /\ h[k + i] = g[i]
    BY <1>7, <2>1, <2>2
  <2>4. k \in Nat /\ l \in Nat /\ DOMAIN f = 1..k /\ DOMAIN g = 1..l /\ DOMAIN h = 1..k+l
    BY <1>7, <2>2
  <2>5. SumFunction(h) = SumFunction(f) + SumFunction(g)
    <3>1. Along(k, l, f, g, h)
      BY ONLY <2>3, <2>4 DEF Along
    <3>. QED  BY ONLY <3>1, SumAlong
  <2>. QED  BY <1>7, <2>1, <2>5 DEF Debits
<1>9. Credits(u) = Credits(s) + Credits(t)
  <2>1. PICK f, g, h : /\ f = [i \in 1..k |-> s[i].credit]
                       /\ g = [i \in 1..l |-> t[i].credit]
                       /\ h = [i \in 1..k+l |-> u[i].credit]
    OBVIOUS
  <2>2. /\ DOMAIN f = 1..k /\ DOMAIN g = 1..l /\ DOMAIN h = 1..k+l
        /\ \A i \in 1..k : i \in 1..k+l
        /\ \A i \in 1..l : k + i \in 1..k+l
    BY <1>7, <2>1
  <2>3. /\ \A i \in 1..k : f[i] \in Int /\ h[i] = f[i]
        /\ \A i \in 1..l : g[i] \in Int /\ h[k + i] = g[i]
    BY <1>7, <2>1, <2>2
  <2>4. k \in Nat /\ l \in Nat /\ DOMAIN f = 1..k /\ DOMAIN g = 1..l /\ DOMAIN h = 1..k+l
    BY <1>7, <2>2
  <2>5. SumFunction(h) = SumFunction(f) + SumFunction(g)
    <3>1. Along(k, l, f, g, h)
      BY ONLY <2>3, <2>4 DEF Along
    <3>. QED  BY ONLY <3>1, SumAlong
  <2>. QED  BY <1>7, <2>1, <2>5 DEF Credits
<1>10. a + c \in Int /\ b + d \in Int
  BY <1>1
<1>. QED  BY <1>2, <1>4, <1>8, <1>9, <1>10 DEF Weighs

LEMMA WeighsNone == Weighs(<< >>, 0, 0)
<1>1. DOMAIN << >> = {}
  OBVIOUS
<1>2. \A f : DOMAIN f = {} => SumFunction(f) = 0
  BY SumEmpty DEF SumFunction
<1>3. Debits(<< >>) = 0 /\ Credits(<< >>) = 0
  BY <1>1, <1>2 DEF Debits, Credits
<1>. QED  BY <1>3, NoSteps DEF Weighs, Amounts

LEMMA WeighsOne ==
  ASSUME NEW x, x.debit \in Int, x.credit \in Int, ValidLine(x)
  PROVE  Weighs(<< x >>, x.debit, x.credit)
<1>1. PICK s : s = << x >>
  OBVIOUS
<1>2. IsSeq(s) /\ (\A y : In(y, s) => y = x) /\ DOMAIN s = {1} /\ s[1] = x
  BY <1>1, OneStep
<1>3. ASSUME NEW f, DOMAIN f = {1}, f[1] \in Int
      PROVE  SumFunction(f) = f[1]
  BY <1>3, SumSingleton DEF SumFunction
<1>4. Debits(s) = x.debit
  <2>1. PICK f : f = [i \in DOMAIN s |-> s[i].debit]
    OBVIOUS
  <2>. QED  BY <1>2, <1>3, <2>1 DEF Debits
<1>5. Credits(s) = x.credit
  <2>1. PICK f : f = [i \in DOMAIN s |-> s[i].credit]
    OBVIOUS
  <2>. QED  BY <1>2, <1>3, <2>1 DEF Credits
<1>. QED  BY <1>1, <1>2, <1>4, <1>5 DEF Weighs, Amounts

(* The program posts to accounts it knows.                                 *)
LEMMA AccountsKnown ==
  \A a \in {"1000", "1200", "2100", "3000", "4000", "4100", "5000", "5100"} : a \in Chart
  BY DEF Chart

LEMMA WeighsPair ==
  ASSUME NEW a \in Chart, NEW b \in Chart, NEW x \in Int, x > 0, NEW y \in Int, y > 0
  PROVE  /\ Weighs(<< Debit(a, x), Credit(b, y) >>, x, y)
         /\ Weighs(<< Debit(a, x) >>, x, 0)
         /\ Weighs(<< Credit(a, x) >>, 0, x)
<1>1. /\ Debit(a, x).debit = x /\ Debit(a, x).credit = 0 /\ ValidLine(Debit(a, x))
      /\ Credit(a, x).debit = 0 /\ Credit(a, x).credit = x /\ ValidLine(Credit(a, x))
      /\ Credit(b, y).debit = 0 /\ Credit(b, y).credit = y /\ ValidLine(Credit(b, y))
  BY DEF Debit, Credit, ValidLine
<1>2. Weighs(<< Debit(a, x) >>, x, 0) /\ Weighs(<< Credit(a, x) >>, 0, x)
  BY <1>1, WeighsOne
<1>3. Weighs(<< Credit(b, y) >>, 0, y)
  BY <1>1, WeighsOne
<1>4. Weighs(<< Debit(a, x) >> \o << Credit(b, y) >>, x + 0, 0 + y)
  BY <1>2, <1>3, WeighsJoined
<1>5. << Debit(a, x), Credit(b, y) >> = << Debit(a, x) >> \o << Credit(b, y) >>
  OBVIOUS
<1>6. x + 0 = x /\ 0 + y = y
  OBVIOUS
<1>. QED  BY <1>2, <1>4, <1>5, <1>6

(* What post_journal asks of the lines.                                    *)
Postable(lines) ==
  /\ Len(lines) >= 2
  /\ \A i \in DOMAIN lines : ValidLine(lines[i])
  /\ Debits(lines) = Credits(lines)

LEMMA PostableParts ==
  ASSUME NEW r, NEW s, NEW t, NEW lines, lines = r \o s \o t,
         NEW a, NEW b, NEW c, NEW d, NEW e, NEW f,
         Weighs(r, a, b), Weighs(s, c, d), Weighs(t, e, f),
         (a + c) + e = (b + d) + f, Len(r) = 2
  PROVE  Postable(lines)
<1>1. PICK q : q = r \o s
  OBVIOUS
<1>2. Weighs(q, a + c, b + d)
  BY <1>1, WeighsJoined
<1>3. Weighs(lines, (a + c) + e, (b + d) + f) /\ lines = q \o t
  BY <1>1, <1>2, WeighsJoined
<1>4. IsSeq(r) /\ IsSeq(s) /\ IsSeq(q) /\ IsSeq(t)
  BY <1>2 DEF Weighs, Amounts
<1>5. Len(q) = Len(r) + Len(s) /\ Len(s) \in Nat /\ Len(r) \in Nat
  BY ONLY <1>1, <1>4, Joins
<1>6. Len(lines) = Len(q) + Len(t) /\ Len(t) \in Nat
  BY <1>3, <1>4, Joins
<1>7. Len(lines) >= 2
  BY ONLY <1>5, <1>6, Len(r) = 2
<1>8. Debits(lines) = Credits(lines) /\ \A x : In(x, lines) => ValidLine(x)
  BY <1>3 DEF Weighs
<1>. QED  BY ONLY <1>7, <1>8 DEF Postable, In

LEMMA MovementPostable ==
  ASSUME NEW c, NEW value \in Int, value # 0
  PROVE  Postable(MovementJournal(c, value).lines)
<1>1. ASSUME NEW a \in Chart, NEW b \in Chart, NEW x \in Int, x > 0
      PROVE  Postable(<< Debit(a, x), Credit(b, x) >>)
  <2>1. PICK s : s = << Debit(a, x), Credit(b, x) >>
    OBVIOUS
  <2>2. Weighs(s, x, x) /\ Len(s) = 2
    BY <1>1, <2>1, WeighsPair
  <2>. QED  BY <2>1, <2>2 DEF Weighs, Postable, In
<1>2. CASE value > 0
  BY <1>1, <1>2, AccountsKnown DEF MovementJournal, Journal
<1>3. CASE ~(value > 0)
  <2>1. -value \in Int /\ -value > 0
    BY <1>3
  <2>2. Postable(<< Debit("5100", -value), Credit("1200", -value) >>)
    BY <1>1, <2>1, AccountsKnown
  <2>. QED  BY <1>3, <2>2 DEF MovementJournal, Journal
<1>. QED  BY <1>2, <1>3

LEMMA InvoicePostable ==
  ASSUME NEW c, NEW cogs \in Int, cogs >= 0, Subtotal(c.lines) \in Int, Subtotal(c.lines) > 0,
         Tax(c.lines) \in Int, Tax(c.lines) >= 0
  PROVE  Postable(InvoiceJournal(c, cogs).lines)
<1>1. PICK x, y : x = Subtotal(c.lines) /\ y = Tax(c.lines)
  OBVIOUS
<1>2. PICK r, s, t : /\ r = << Debit("1000", x + y), Credit("4000", x) >>
                     /\ s = If(y # 0, << Credit("2100", y) >>)
                     /\ t = If(cogs # 0, << Debit("5000", cogs), Credit("1200", cogs) >>)
  OBVIOUS
<1>3. InvoiceJournal(c, cogs).lines = r \o s \o t
  BY <1>1, <1>2 DEF InvoiceJournal, Journal
<1>4. x + y \in Int /\ x + y > 0
  BY <1>1
<1>5. Weighs(r, x + y, x) /\ Len(r) = 2
  BY <1>1, <1>2, <1>4, WeighsPair, AccountsKnown
<1>6. Weighs(s, 0, y)
  <2>1. CASE y = 0
    BY <1>2, <2>1, WeighsNone DEF If
  <2>2. CASE y # 0
    <3>1. y > 0 /\ y \in Int
      BY <1>1, <2>2
    <3>2. s = << Credit("2100", y) >>
      BY <1>2, <2>2 DEF If
    <3>. QED  BY <3>1, <3>2, WeighsPair, AccountsKnown
  <2>. QED  BY <2>1, <2>2
<1>7. Weighs(t, cogs, cogs)
  <2>1. CASE cogs = 0
    BY <1>2, <2>1, WeighsNone DEF If
  <2>2. CASE cogs # 0
    <3>1. t = << Debit("5000", cogs), Credit("1200", cogs) >> /\ cogs > 0
      BY <1>2, <2>2 DEF If
    <3>. QED  BY <3>1, WeighsPair, AccountsKnown
  <2>. QED  BY <2>1, <2>2
<1>8. ((x + y) + 0) + cogs = (x + y) + cogs
  BY <1>1
<1>. QED  BY <1>3, <1>5, <1>6, <1>7, <1>8, PostableParts

LEMMA RefundPostable ==
  ASSUME NEW c, NEW cogs \in Int, cogs >= 0, Subtotal(c.lines) \in Int, Subtotal(c.lines) > 0,
         Tax(c.lines) \in Int, Tax(c.lines) >= 0
  PROVE  Postable(RefundJournal(c, cogs).lines)
<1>1. PICK x, y : x = Subtotal(c.lines) /\ y = Tax(c.lines)
  OBVIOUS
<1>2. PICK r, s, t : /\ r = << Debit("4100", x), Credit("1000", x + y) >>
                     /\ s = If(y # 0, << Debit("2100", y) >>)
                     /\ t = If(cogs # 0, << Debit("1200", cogs), Credit("5000", cogs) >>)
  OBVIOUS
<1>3. RefundJournal(c, cogs).lines = r \o s \o t
  BY <1>1, <1>2 DEF RefundJournal, Journal
<1>4. x + y \in Int /\ x + y > 0
  BY <1>1
<1>5. Weighs(r, x, x + y) /\ Len(r) = 2
  BY <1>1, <1>2, <1>4, WeighsPair, AccountsKnown
<1>6. Weighs(s, y, 0)
  <2>1. CASE y = 0
    BY <1>2, <2>1, WeighsNone DEF If
  <2>2. CASE y # 0
    <3>1. y > 0 /\ y \in Int
      BY <1>1, <2>2
    <3>2. s = << Debit("2100", y) >>
      BY <1>2, <2>2 DEF If
    <3>. QED  BY <3>1, <3>2, WeighsPair, AccountsKnown
  <2>. QED  BY <2>1, <2>2
<1>7. Weighs(t, cogs, cogs)
  <2>1. CASE cogs = 0
    BY <1>2, <2>1, WeighsNone DEF If
  <2>2. CASE cogs # 0
    <3>1. t = << Debit("1200", cogs), Credit("5000", cogs) >> /\ cogs > 0
      BY <1>2, <2>2 DEF If
    <3>. QED  BY <3>1, WeighsPair, AccountsKnown
  <2>. QED  BY <2>1, <2>2
<1>8. (x + y) + cogs = ((x + y) + 0) + cogs
  BY <1>1
<1>. QED  BY <1>3, <1>5, <1>6, <1>7, <1>8, PostableParts

-----------------------------------------------------------------------------
(* What an operation calls is in order: the check made up front is enough. *)

SoundLine(r, d) ==
  r.kind \in {"invoice_lines", "refund_lines"} =>
    r.data.cogs >= 0 /\ r.data.quantity > 0 /\ ActiveItem(d, r.data.item)

Ready(c, d) ==
  /\ c.op = "accounting.post_journal" => c.period \notin ClosedPeriods(d) /\ Postable(c.lines)
  /\ c.op = "inventory.commit_movement" =>
       /\ c.by # "use_case" /\ c.quantity # 0 /\ c.cost >= 0 /\ ActiveItem(d, c.item)
       /\ c.quantity < 0 => StockOnHand(d, c.item) + c.quantity >= 0

LEMMA RequestedLine ==
  ASSUME NEW lines, NEW S, IsFiniteSet(S),
         \A i \in S : lines[i].quantity \in Int /\ lines[i].quantity > 0, NEW i \in S
  PROVE  Requested(lines, S) \in Int /\ Requested(lines, S) >= lines[i].quantity
<1>1. PICK f : f = [k \in S |-> lines[k].quantity]
  OBVIOUS
<1>2. Requested(lines, S) = SumFunctionOnSet(f, S)
  BY <1>1 DEF Requested, SumFunction
<1>3. (\A k \in S : f[k] \in Int /\ f[k] \in Nat) /\ f[i] = lines[i].quantity
  BY <1>1
<1>4. SumFunctionOnSet(f, S) = f[i] + SumFunctionOnSet(f, S \ {i})
  BY <1>3, SumRemove
<1>5. IsFiniteSet(S \ {i})
  BY FS_RemoveElement
<1>6. SumFunctionOnSet(f, S \ {i}) \in Nat
  BY <1>3, <1>5, SumNatural
<1>7. lines[i].quantity \in Int
  OBVIOUS
<1>. QED  BY ONLY <1>2, <1>3, <1>4, <1>6, <1>7

LEMMA AverageSound ==
  ASSUME NEW d, SaneDisk(d), Stocked(d), NEW item
  PROVE  WeightedAverageUnitCost(d, item) \in Int /\ WeightedAverageUnitCost(d, item) >= 0
<1>1. PICK q, v : q = StockOnHand(d, item) /\ v = InventoryValue(d, item)
  OBVIOUS
<1>2. q \in Int /\ v \in Int /\ v >= 0
  BY <1>1, SaneStock DEF Stocked
<1>3. q > 0 => (v \div q) \in Int /\ v \div q >= 0
  BY <1>2
<1>4. WeightedAverageUnitCost(d, item) = IF q <= 0 THEN 0 ELSE v \div q
  BY <1>1 DEF WeightedAverageUnitCost
<1>. QED  BY <1>2, <1>3, <1>4

LEMMA TotalsSound ==
  ASSUME NEW c, Command(c), Numbers(c),
         c.op \in {"billing.create_invoice", "billing.create_refund"},
         \A i \in DOMAIN c.lines : c.lines[i].quantity > 0 /\ c.lines[i].price >= 0
  PROVE  /\ Subtotal(c.lines) \in Int /\ Subtotal(c.lines) >= 0
         /\ Tax(c.lines) \in Int /\ Tax(c.lines) >= 0
<1>1. Subtotal(c.lines) \in Int /\ Tax(c.lines) \in Int
  BY SaneTotals
<1>2. IsFiniteSet(DOMAIN c.lines)
  BY LinesAre DEF Command, Fields
<1>3. PICK f : f = [i \in DOMAIN c.lines |-> c.lines[i].quantity * c.lines[i].price]
  OBVIOUS
<1>4. \A i \in DOMAIN c.lines : f[i] \in Nat
  <2>1. \A x, y \in Int : x > 0 /\ y >= 0 => x * y \in Nat
    OBVIOUS
  <2>. QED  BY <1>3, <2>1 DEF Numbers
<1>5. SumFunctionOnSet(f, DOMAIN c.lines) \in Nat
  BY <1>2, <1>4, SumNatural
<1>6. Subtotal(c.lines) = SumFunctionOnSet(f, DOMAIN c.lines)
  BY <1>3 DEF Subtotal, SumFunction
<1>7. PICK x : x = Subtotal(c.lines) * TaxRate
  OBVIOUS
<1>8. x \in Nat
  <2>1. \A a, b \in Nat : a * b \in Nat
    OBVIOUS
  <2>. QED  BY <1>5, <1>6, <1>7, <2>1, TaxRateAssumption
<1>9. x \div 10000 >= 0
  BY <1>8
<1>. QED  BY <1>1, <1>5, <1>6, <1>7, <1>9 DEF Tax

LEMMA SoldSound ==
  ASSUME NEW d, SaneDisk(d), \A r \in d : SoundLine(r, d), NEW invoice, NEW item, NEW price
  PROVE  /\ SoldUnitCost(d, invoice, item, price) \in Int
         /\ SoldUnitCost(d, invoice, item, price) >= 0
         /\ Refundable(d, invoice, item, price) > 0 => ActiveItem(d, item)
<1>1. PICK S, R : /\ S = SoldLines(d, invoice, item, price)
                  /\ R = RefundedLines(d, invoice, item, price)
  OBVIOUS
<1>2. IsFiniteSet(S) /\ IsFiniteSet(R)
  BY <1>1, FS_Subset DEF SoldLines, RefundedLines, Of, SaneDisk
<1>3. \A r \in S : r.data.quantity \in Nat /\ r.data.cogs \in Nat /\ ActiveItem(d, item)
  BY <1>1 DEF SoldLines, Of, SaneDisk, SaneRecord, SoundLine
<1>4. \A r \in R : r.data.quantity \in Nat
  BY <1>1 DEF RefundedLines, Of, SaneDisk, SaneRecord, SoundLine
<1>5. /\ \A r \in S : r.data["quantity"] \in Nat /\ r.data["cogs"] \in Nat
      /\ \A r \in R : r.data["quantity"] \in Nat
  BY <1>3, <1>4
<1>6. Quantity(S) \in Nat /\ SumOf("cogs", S) \in Nat /\ Quantity(R) \in Nat
  BY <1>2, <1>5, SumOfNatural DEF Quantity
<1>7. SoldUnitCost(d, invoice, item, price)
        = IF Quantity(S) <= 0 THEN 0 ELSE SumOf("cogs", S) \div Quantity(S)
  BY <1>1 DEF SoldUnitCost
<1>8. \A a, b \in Nat : b > 0 => (a \div b) \in Int /\ a \div b >= 0
  OBVIOUS
<1>9. SoldUnitCost(d, invoice, item, price) \in Int /\ SoldUnitCost(d, invoice, item, price) >= 0
  BY <1>6, <1>7, <1>8
<1>10. Refundable(d, invoice, item, price) = Quantity(S) - Quantity(R)
  BY <1>1 DEF Refundable
<1>11. Refundable(d, invoice, item, price) > 0 => Quantity(S) # 0
  BY <1>6, <1>10
<1>12. S = {} => Quantity(S) = 0
  BY SumOfEmpty DEF Quantity
<1>. QED  BY <1>3, <1>9, <1>11, <1>12

(* A sale: the stock asked for is there, and its cost is known.            *)
LEMMA InvoiceReady ==
  ASSUME NEW c, NEW d, NEW known, Command(c), Numbers(c), SaneDisk(d), Stocked(d),
         c.op = "billing.create_invoice", InvoiceAdmissible(c, d, known),
         ClosedPeriods(d) \subseteq known, Subtotal(c.lines) # 0
  PROVE  /\ Ready(InvoiceJournal(c, SumFunction(InvoiceCogs(c, d))), d)
         /\ \A i \in DOMAIN c.lines : Ready(SaleMovement(c, i), d)
         /\ \A i \in DOMAIN c.lines : SoundLine(InvoiceLinePut(c, d, i).rec, d)
<1>1. /\ \A i \in DOMAIN c.lines : c.lines[i].quantity > 0 /\ c.lines[i].price >= 0
      /\ c.period \notin known
  BY DEF InvoiceAdmissible
<1>2. \A i \in DOMAIN c.lines : c.lines[i].quantity \in Int /\ c.lines[i].price \in Int
  BY DEF Numbers
<1>3. IsFiniteSet(DOMAIN c.lines)
  BY LinesAre DEF Command, Fields
<1>4. /\ Subtotal(c.lines) \in Int /\ Subtotal(c.lines) > 0
      /\ Tax(c.lines) \in Int /\ Tax(c.lines) >= 0
  BY <1>1, TotalsSound
<1>5. PICK cogs : cogs = InvoiceCogs(c, d)
  OBVIOUS
<1>6. DOMAIN cogs = DOMAIN c.lines /\ \A i \in DOMAIN c.lines : cogs[i] \in Nat
  <2>1. \A x, y \in Int : x > 0 /\ y >= 0 => x * y \in Nat
    OBVIOUS
  <2>2. \A i \in DOMAIN c.lines : /\ WeightedAverageUnitCost(d, c.lines[i].item) \in Int
                                  /\ WeightedAverageUnitCost(d, c.lines[i].item) >= 0
    BY AverageSound
  <2>. QED  BY <1>1, <1>2, <1>5, <2>1, <2>2 DEF InvoiceCogs
<1>7. SumFunction(cogs) \in Nat
  BY <1>3, <1>6, SumNatural DEF SumFunction
<1>8. PICK j : j = InvoiceJournal(c, SumFunction(cogs))
  OBVIOUS
<1>9. Postable(j.lines)
  BY <1>4, <1>7, <1>8, InvoicePostable
<1>10. j.op = "accounting.post_journal" /\ j.period = c.period
  BY <1>8 DEF InvoiceJournal, Journal
<1>11. Ready(j, d)
  BY <1>1, <1>9, <1>10 DEF Ready
<1>12. ASSUME NEW i \in DOMAIN c.lines
       PROVE  /\ ActiveItem(d, c.lines[i].item)
              /\ StockOnHand(d, c.lines[i].item) \in Int
              /\ StockOnHand(d, c.lines[i].item) >= c.lines[i].quantity
  <2>1. PICK S : S = {k \in DOMAIN c.lines : c.lines[k].item = c.lines[i].item}
    OBVIOUS
  <2>2. /\ ActiveItem(d, c.lines[i].item)
        /\ StockOnHand(d, c.lines[i].item) >= Requested(c.lines, S)
    BY <2>1 DEF InvoiceAdmissible
  <2>3. IsFiniteSet(S) /\ i \in S /\ S \subseteq DOMAIN c.lines
    BY <1>3, <2>1, FS_Subset
  <2>4. Requested(c.lines, S) \in Int /\ Requested(c.lines, S) >= c.lines[i].quantity
    BY <1>1, <1>2, <2>3, RequestedLine
  <2>5. StockOnHand(d, c.lines[i].item) \in Int
    BY SaneStock
  <2>. QED  BY <1>2, <2>2, <2>4, <2>5
<1>13. ASSUME NEW i \in DOMAIN c.lines
       PROVE  Ready(SaleMovement(c, i), d)
  <2>1. PICK m : m = SaleMovement(c, i)
    OBVIOUS
  <2>2. /\ m.op = "inventory.commit_movement" /\ m.by = "sale" /\ m.item = c.lines[i].item
        /\ m.quantity = -c.lines[i].quantity /\ m.cost = 0
    BY <2>1 DEF SaleMovement, Movement
  <2>3. PICK q, k : q = c.lines[i].quantity /\ k = StockOnHand(d, c.lines[i].item)
    OBVIOUS
  <2>4. q \in Int /\ q > 0 /\ k \in Int /\ k >= q
    BY <1>1, <1>2, <1>12, <2>3
  <2>5. -q # 0 /\ k + (-q) >= 0
    BY <2>4
  <2>. QED  BY <1>12, <2>1, <2>2, <2>3, <2>5 DEF Ready
<1>14. ASSUME NEW i \in DOMAIN c.lines
       PROVE  SoundLine(InvoiceLinePut(c, d, i).rec, d)
  <2>1. /\ InvoiceLinePut(c, d, i).rec.data.cogs = cogs[i]
        /\ InvoiceLinePut(c, d, i).rec.data.quantity = c.lines[i].quantity
        /\ InvoiceLinePut(c, d, i).rec.data.item = c.lines[i].item
    BY <1>5 DEF InvoiceLinePut, Put, LineData
  <2>. QED  BY <1>1, <1>6, <1>12, <2>1 DEF SoundLine
<1>. QED  BY <1>5, <1>8, <1>11, <1>13, <1>14

(* A refund: what comes back was sold, and is taken back at what it cost.  *)
LEMMA RefundReady ==
  ASSUME NEW c, NEW d, NEW known, Command(c), Numbers(c), SaneDisk(d),
         \A r \in d : SoundLine(r, d),
         c.op = "billing.create_refund", RefundAdmissible(c, d, known),
         ClosedPeriods(d) \subseteq known, Subtotal(c.lines) # 0
  PROVE  /\ Ready(RefundJournal(c, SumFunction(RefundCogs(c, d))), d)
         /\ \A i \in DOMAIN c.lines : Ready(ReturnMovement(c, i, d), d)
         /\ \A i \in DOMAIN c.lines : SoundLine(RefundLinePut(c, d, i).rec, d)
<1>1. /\ \A i \in DOMAIN c.lines : c.lines[i].quantity > 0 /\ c.lines[i].price >= 0
      /\ c.period \notin known
  BY DEF RefundAdmissible
<1>2. \A i \in DOMAIN c.lines : c.lines[i].quantity \in Int /\ c.lines[i].price \in Int
  BY DEF Numbers
<1>3. IsFiniteSet(DOMAIN c.lines)
  BY LinesAre DEF Command, Fields
<1>4. /\ Subtotal(c.lines) \in Int /\ Subtotal(c.lines) > 0
      /\ Tax(c.lines) \in Int /\ Tax(c.lines) >= 0
  BY <1>1, TotalsSound
<1>5. PICK cogs : cogs = RefundCogs(c, d)
  OBVIOUS
<1>6. \A i \in DOMAIN c.lines : RefundUnitCost(c, d, i) \in Int /\ RefundUnitCost(c, d, i) >= 0
  BY SoldSound DEF RefundUnitCost
<1>7. DOMAIN cogs = DOMAIN c.lines /\ \A i \in DOMAIN c.lines : cogs[i] \in Nat
  <2>1. \A x, y \in Int : x > 0 /\ y >= 0 => x * y \in Nat
    OBVIOUS
  <2>. QED  BY <1>1, <1>2, <1>5, <1>6, <2>1 DEF RefundCogs
<1>8. SumFunction(cogs) \in Nat
  BY <1>3, <1>7, SumNatural DEF SumFunction
<1>9. PICK j : j = RefundJournal(c, SumFunction(cogs))
  OBVIOUS
<1>10. Postable(j.lines)
  BY <1>4, <1>8, <1>9, RefundPostable
<1>11. j.op = "accounting.post_journal" /\ j.period = c.period
  BY <1>9 DEF RefundJournal, Journal
<1>12. Ready(j, d)
  BY <1>1, <1>10, <1>11 DEF Ready
<1>13. ASSUME NEW i \in DOMAIN c.lines
       PROVE  ActiveItem(d, c.lines[i].item)
  <2>1. PICK S : S = {k \in DOMAIN c.lines : /\ c.lines[k].item = c.lines[i].item
                                             /\ c.lines[k].price = c.lines[i].price}
    OBVIOUS
  <2>2. Requested(c.lines, S) <= Refundable(d, c.invoice, c.lines[i].item, c.lines[i].price)
    BY <2>1 DEF RefundAdmissible
  <2>3. IsFiniteSet(S) /\ i \in S /\ S \subseteq DOMAIN c.lines
    BY <1>3, <2>1, FS_Subset
  <2>4. Requested(c.lines, S) \in Int /\ Requested(c.lines, S) >= c.lines[i].quantity
    BY <1>1, <1>2, <2>3, RequestedLine
  <2>5. Refundable(d, c.invoice, c.lines[i].item, c.lines[i].price) \in Int
    BY SaneSold DEF Refundable
  <2>6. Refundable(d, c.invoice, c.lines[i].item, c.lines[i].price) > 0
    BY <1>1, <1>2, <2>2, <2>4, <2>5
  <2>. QED  BY <2>6, SoldSound
<1>14. ASSUME NEW i \in DOMAIN c.lines
       PROVE  Ready(ReturnMovement(c, i, d), d)
  <2>1. PICK m : m = ReturnMovement(c, i, d)
    OBVIOUS
  <2>2. /\ m.op = "inventory.commit_movement" /\ m.by = "return" /\ m.item = c.lines[i].item
        /\ m.quantity = c.lines[i].quantity /\ m.cost = RefundUnitCost(c, d, i)
    BY <2>1 DEF ReturnMovement, Movement
  <2>. QED  BY <1>1, <1>2, <1>6, <1>13, <2>1, <2>2 DEF Ready
<1>15. ASSUME NEW i \in DOMAIN c.lines
       PROVE  SoundLine(RefundLinePut(c, d, i).rec, d)
  <2>1. /\ RefundLinePut(c, d, i).rec.data.cogs = cogs[i]
        /\ RefundLinePut(c, d, i).rec.data.quantity = c.lines[i].quantity
        /\ RefundLinePut(c, d, i).rec.data.item = c.lines[i].item
    BY <1>5 DEF RefundLinePut, Put, LineData
  <2>. QED  BY <1>1, <1>7, <1>13, <2>1 DEF SoundLine
<1>. QED  BY <1>5, <1>9, <1>12, <1>14, <1>15

LEMMA PieceReady ==
  ASSUME NEW c, NEW d, NEW known, NEW n, Command(c), Numbers(c), SaneDisk(d), Stocked(d),
         \A r \in d : SoundLine(r, d), Admissible(c, d, known),
         ClosedPeriods(d) \subseteq known,
         c.op \in {"billing.create_invoice", "billing.create_refund"} => Subtotal(c.lines) # 0,
         NEW x, In(x, Piece(c, d, n))
  PROVE  /\ x.do = "call" => Ready(x.cmd, d)
         /\ x.do = "put" => SoundLine(x.rec, d)
<1>1. ASSUME c.op = "inventory.commit_movement", x.do = "call"
      PROVE  Ready(x.cmd, d)
  <2>1. /\ c.by = "use_case" /\ ValueDelta(c, d) # 0
        /\ x = Call(MovementJournal(c, ValueDelta(c, d)))
    BY <1>1, CallIs
  <2>2. PICK j : j = MovementJournal(c, ValueDelta(c, d))
    OBVIOUS
  <2>3. j.op = "accounting.post_journal" /\ j.period = c.period
    BY <2>2 DEF MovementJournal, Journal
  <2>4. c.period \notin known
    BY <1>1, <2>1 DEF Admissible, MovementAdmissible
  <2>5. Postable(j.lines)
    BY <1>1, <2>1, <2>2, SaneValue, MovementPostable
  <2>. QED  BY <2>1, <2>2, <2>3, <2>4, <2>5 DEF Ready, Call
<1>2. CASE c.op = "billing.create_invoice"
  <2>1. InvoiceAdmissible(c, d, known)
    BY <1>2 DEF Admissible
  <2>2. /\ Ready(InvoiceJournal(c, SumFunction(InvoiceCogs(c, d))), d)
        /\ \A i \in DOMAIN c.lines : Ready(SaleMovement(c, i), d)
        /\ \A i \in DOMAIN c.lines : SoundLine(InvoiceLinePut(c, d, i).rec, d)
    BY <1>2, <2>1, InvoiceReady
  <2>3. x.do = "call" => Ready(x.cmd, d)
    BY <1>2, <2>2, CallIs DEF Call
  <2>4. x.do = "put" => SoundLine(x.rec, d)
    <3>1. ASSUME x.do = "put"
          PROVE  \/ x = InvoicePut(c) \/ \E i \in DOMAIN c.lines : x = InvoiceLinePut(c, d, i)
                 \/ x.rec.kind \in {"billing.invoice_created", "billing.sale_completed.v1"}
      BY <1>2, <3>1, PutIs
    <3>. QED  BY <2>2, <3>1 DEF SoundLine, InvoicePut, Put
  <2>. QED  BY <2>3, <2>4
<1>3. CASE c.op = "billing.create_refund"
  <2>1. RefundAdmissible(c, d, known)
    BY <1>3 DEF Admissible
  <2>2. /\ Ready(RefundJournal(c, SumFunction(RefundCogs(c, d))), d)
        /\ \A i \in DOMAIN c.lines : Ready(ReturnMovement(c, i, d), d)
        /\ \A i \in DOMAIN c.lines : SoundLine(RefundLinePut(c, d, i).rec, d)
    BY <1>3, <2>1, RefundReady
  <2>3. x.do = "call" => Ready(x.cmd, d)
    BY <1>3, <2>2, CallIs DEF Call
  <2>4. x.do = "put" => SoundLine(x.rec, d)
    <3>1. ASSUME x.do = "put"
          PROVE  \/ x = RefundPut(c) \/ \E i \in DOMAIN c.lines : x = RefundLinePut(c, d, i)
                 \/ x.rec.kind \in {"billing.refund_created", "billing.refund_completed.v1"}
      BY <1>3, <3>1, PutIs
    <3>. QED  BY <2>2, <3>1 DEF SoundLine, RefundPut, Put
  <2>. QED  BY <2>3, <2>4
<1>4. CASE c.op \notin {"billing.create_invoice", "billing.create_refund"}
  <2>1. x.do = "call" => c.op = "inventory.commit_movement"
    BY <1>4, CallIs
  <2>2. x.do = "put" => x.rec.kind \notin {"invoice_lines", "refund_lines"}
    BY <1>4, PutIs DEF MovePut, EntryPut, LinePut, Put, CloseKinds
  <2>. QED  BY <1>1, <2>1, <2>2 DEF SoundLine
<1>. QED  BY <1>2, <1>3, <1>4

-----------------------------------------------------------------------------
(* Running without faults.  Whoever asks keeps to what the up-front checks *)
(* can see: documents of different kinds have ids of their own, no invoice *)
(* names an item twice, and no document comes to nothing.                  *)

(* The record by which an operation recognizes that it was done before.    *)
Main(c) ==
  CASE c.op = "inventory.register_item"   -> <<"items", c.doc, 0>>
    [] c.op = "inventory.commit_movement" -> <<"stock_movements", c.doc, c.n>>
    [] c.op = "accounting.post_journal"   -> <<"journal_entries", c.doc, 0>>
    [] c.op = "accounting.close_period"   -> <<"periods", c.doc, 0>>
    [] c.op = "billing.create_invoice"    -> <<"invoices", c.doc, 0>>
    [] c.op = "billing.create_refund"     -> <<"refunds", c.doc, 0>>

Amounting(c) ==
  c.op \in {"billing.create_invoice", "billing.create_refund"} => Subtotal(c.lines) # 0

Orderly ==
  /\ Faults = {} /\ RejectedEvents = {}
  /\ \A c, e \in Commands : c.doc = e.doc => Main(c) = Main(e)
  /\ \A c \in Commands : /\ Amounting(c)
                         /\ c.op = "billing.create_invoice" => DistinctItems(c)

Putting(s, k) == \E x : In(x, s) /\ x.do = "put" /\ Key(x.rec) = k

(* An operation on this document began: its record is there or will be.    *)
Begun(doc, s, keys) ==
  \E c \in Commands : c.doc = doc /\ (Main(c) \in keys \/ Putting(s, Main(c)))

Named(x, doc) ==
  \/ x.do = "put" /\ x.rec.doc = doc
  \/ x.do = "call" /\ x.cmd.doc = doc

(* The invariant: pending transactions will be committed, and no step to   *)
(* do stands in the way of another, or finds what it writes on disk.       *)
Unclaimed(s, d) == \A x, r : In(x, s) /\ r \in d => ~Claims(x, r.kind, r.doc, r.n)

InOrder(s, d) ==
  /\ \A r \in d : SoundLine(r, d)
  /\ \A x : In(x, s) /\ x.do = "put" => SoundLine(x.rec, d)
  /\ \A x : In(x, s) /\ x.do = "call" => Ready(x.cmd, d)

AllBegun(s, d, keys) ==
  /\ \A r \in d : Begun(r.doc, s, keys)
  /\ \A x, doc : In(x, s) /\ Named(x, doc) => Begun(doc, s, keys)

Clearing ==
  /\ process # "cli"
  /\ \A n \in Pending : In(Commit(n), todo)
  /\ Apart(todo)
  /\ Unclaimed(todo, disk)
  /\ InOrder(todo, disk)
  /\ AllBegun(todo, disk, Keys)

FairInv == StockInv /\ SealInv /\ Clearing

LEMMA HeadOrTail ==
  ASSUME NEW s, IsSeq(s), s # << >>, NEW x, In(x, s)
  PROVE  x = Head(s) \/ In(x, Tail(s))
<1>1. PICK i \in DOMAIN s : s[i] = x
  BY DEF In
<1>2. /\ IsSeq(Tail(s)) /\ Len(s) \in Nat /\ DOMAIN s = 1..Len(s) /\ Head(s) = s[1]
      /\ Len(Tail(s)) = Len(s) - 1 /\ DOMAIN Tail(s) = 1..Len(Tail(s))
      /\ \A j \in DOMAIN Tail(s) : Tail(s)[j] = s[j + 1]
  BY TailFacts
<1>3. CASE i = 1
  BY <1>1, <1>2, <1>3
<1>4. CASE i # 1
  <2>1. i - 1 \in 1..Len(s) - 1 /\ (i - 1) + 1 = i
    BY <1>2, <1>4
  <2>. QED  BY <1>1, <1>2, <2>1 DEF In
<1>. QED  BY <1>3, <1>4

(* What is ready to be called is admitted.                                 *)
LEMMA ReadyAdmitted ==
  ASSUME NEW c, NEW d, NEW known, SaneCall(c), SaneDisk(d), Stocked(d), Ready(c, d),
         known \subseteq ClosedPeriods(d),
         \A r \in d : ~Claims(Call(c), r.kind, r.doc, r.n)
  PROVE  Admissible(Priced(c, d), d, known)
<1>1. Call(c).do = "call" /\ Call(c).cmd = c
  BY DEF Call
<1>2. Command(c) /\ Numbers(c)
      /\ c.op \in {"accounting.post_journal", "inventory.commit_movement"}
  BY DEF SaneCall
<1>3. CASE c.op = "accounting.post_journal"
  <2>1. Priced(c, d) = c
    BY <1>3 DEF Priced
  <2>2. ~Has(d, "journal_entries", c.doc)
    BY <1>1, <1>3 DEF Has, Claims, LedgerFiles
  <2>. QED  BY <1>3, <2>1, <2>2 DEF Admissible, JournalAdmissible, Ready, Postable
<1>4. CASE c.op = "inventory.commit_movement"
  <2>. DEFINE q == Priced(c, d)
              Q == StockOnHand(d, c.item)
  <2>1. DOMAIN c = Fields("inventory.commit_movement") /\ c.quantity \in Int
    BY <1>2, <1>4 DEF Command, Numbers
  <2>2. /\ q.op = c.op /\ q.by = c.by /\ q.doc = c.doc /\ q.n = c.n
        /\ q.item = c.item /\ q.quantity = c.quantity
        /\ q.cost \in {c.cost, WeightedAverageUnitCost(d, c.item)}
    BY <2>1 DEF Priced, Fields
  <2>3. /\ c.by # "use_case" /\ c.quantity # 0 /\ c.cost >= 0 /\ ActiveItem(d, c.item)
        /\ c.quantity < 0 => Q + c.quantity >= 0
    BY <1>4 DEF Ready
  <2>4. q.cost >= 0
    BY <2>2, <2>3, AverageSound
  <2>5. Q \in Int /\ Q >= 0
    BY SaneStock DEF Stocked
  <2>. HIDE DEF Q
  <2>6. Q + c.quantity >= 0
    BY <2>1, <2>3, <2>5
  <2>7. \A r \in d : ~(r.kind = "stock_movements" /\ r.doc = c.doc /\ r.n = c.n)
    BY <1>1, <1>4 DEF Claims, StockFiles
  <2>. HIDE DEF q
  <2>8. Key([kind |-> "stock_movements", doc |-> q.doc, n |-> q.n]) \notin {Key(r) : r \in d}
    BY <2>2, <2>7 DEF Key
  <2>. QED  BY <1>4, <2>2, <2>3, <2>4, <2>6, <2>8 DEF Admissible, MovementAdmissible, q, Q
<1>. QED  BY <1>2, <1>3, <1>4

LEMMA NothingRefused ==
  ASSUME FairInv, RejectedEvents = {}
  PROVE  ~Refused
<1>1. /\ CoreInv /\ SaneInv /\ IsSeq(todo) /\ closed \subseteq ClosedPeriods(disk)
  BY SealFacts DEF FairInv
<1>2. todo # << >> => In(Head(todo), todo)
  BY <1>1, HeadAndTail
<1>3. ASSUME Doing("put")
      PROVE  Appendable(Head(todo).rec)
  <2>1. In(Head(todo), todo) /\ Head(todo).do = "put"
    BY <1>2, <1>3 DEF Doing
  <2>2. \A r \in disk : ~Claims(Head(todo), r.kind, r.doc, r.n)
    BY <2>1 DEF FairInv, Clearing, Unclaimed
  <2>. QED  BY <2>1, <2>2 DEF Claims, Appendable, Key
<1>4. ASSUME Doing("call")
      PROVE  Admissible(Priced(Head(todo).cmd, disk), disk, closed)
  <2>. DEFINE c == Head(todo).cmd
  <2>1. In(Head(todo), todo) /\ Head(todo).do = "call"
    BY <1>2, <1>4 DEF Doing
  <2>2. SaneCall(c) /\ Ready(c, disk) /\ SaneDisk(disk) /\ Stocked(disk)
    BY <1>1, <2>1 DEF SaneInv, Sane, FairInv, StockInv, Clearing, InOrder
  <2>3. \A r \in disk : ~Claims(Head(todo), r.kind, r.doc, r.n)
    BY <2>1 DEF FairInv, Clearing, Unclaimed
  <2>4. \A r \in disk : ~Claims(Call(c), r.kind, r.doc, r.n)
    BY <2>1, <2>3 DEF Claims, Call
  <2>. HIDE DEF c
  <2>5. Admissible(Priced(c, disk), disk, closed)
    BY <1>1, <2>2, <2>4, ReadyAdmitted
  <2>. QED  BY <2>5 DEF c
<1>. QED  BY <1>3, <1>4 DEF Refused

(* The steps of an operation on a document claim its records only, and     *)
(* write the one it is known by.                                           *)
LEMMA PieceNames ==
  ASSUME NEW c, NEW d, NEW n, Command(c), NEW x, In(x, Piece(c, d, n))
  PROVE  /\ \A kind, doc, k : Claims(x, kind, doc, k) => doc = c.doc
         /\ \A doc : Named(x, doc) => doc = c.doc
<1>1. x.do = "put" => x.rec.doc = c.doc
  BY PutIs
<1>2. x.do = "call" => x.cmd.doc = c.doc
  <2>. SUFFICES ASSUME x.do = "call" PROVE x.cmd.doc = c.doc
    OBVIOUS
  <2>1. \A j : Call(j).cmd = j
    BY DEF Call
  <2>2. /\ \A v : MovementJournal(c, v).doc = c.doc
        /\ \A v : InvoiceJournal(c, v).doc = c.doc
        /\ \A v : RefundJournal(c, v).doc = c.doc
    BY DEF MovementJournal, InvoiceJournal, RefundJournal, Journal
  <2>3. \A i : SaleMovement(c, i).doc = c.doc /\ ReturnMovement(c, i, d).doc = c.doc
    BY DEF SaleMovement, ReturnMovement, Movement
  <2>4. \/ x = Call(MovementJournal(c, ValueDelta(c, d)))
        \/ x = Call(InvoiceJournal(c, SumFunction(InvoiceCogs(c, d))))
        \/ \E i \in DOMAIN c.lines : x = Call(SaleMovement(c, i))
        \/ x = Call(RefundJournal(c, SumFunction(RefundCogs(c, d))))
        \/ \E i \in DOMAIN c.lines : x = Call(ReturnMovement(c, i, d))
    BY CallIs
  <2>. QED  BY <2>1, <2>2, <2>3, <2>4
<1>. QED  BY <1>1, <1>2 DEF Claims, Named

LEMMA PiecePutsMain ==
  ASSUME NEW c, NEW d, NEW n, Command(c)
  PROVE  Putting(Piece(c, d, n), Main(c))
<1>. DEFINE p == Piece(c, d, n)
<1>1. Main(c) \in Owed(c)
  BY DEF Main, Owed, Command, Operations
<1>2. PICK x : In(x, p) /\ Provides(x, Main(c))
  <2>1. /\ IsSeq(p) /\ Len(Steps(c, d)) < Len(p) /\ Len(Steps(c, d)) \in Nat
        /\ \E i \in 1..Len(Steps(c, d)) : Provides(p[i], Main(c))
    BY <1>1, PieceFacts
  <2>2. DOMAIN p = 1..Len(p) /\ Len(p) \in Nat
    BY <2>1, StepsCounted
  <2>. HIDE DEF p
  <2>. QED  BY <2>1, <2>2 DEF In
<1>. HIDE DEF p
<1>3. ASSUME x.do = "call"
      PROVE  FALSE
  <2>1. Main(c) \in Owed(x.cmd)
    BY <1>2, <1>3 DEF Provides
  <2>2. \A j : Call(j).cmd = j
    BY DEF Call
  <2>3. /\ \A v : MovementJournal(c, v).op = "accounting.post_journal"
        /\ \A v : InvoiceJournal(c, v).op = "accounting.post_journal"
        /\ \A v : RefundJournal(c, v).op = "accounting.post_journal"
        /\ \A i : SaleMovement(c, i).op = "inventory.commit_movement"
        /\ \A i : ReturnMovement(c, i, d).op = "inventory.commit_movement"
    BY DEF MovementJournal, InvoiceJournal, RefundJournal, Journal, SaleMovement,
         ReturnMovement, Movement
  <2>4. \/ c.op = "inventory.commit_movement" /\ x.cmd.op = "accounting.post_journal"
        \/ /\ c.op \in {"billing.create_invoice", "billing.create_refund"}
           /\ x.cmd.op \in {"accounting.post_journal", "inventory.commit_movement"}
    BY <1>2, <1>3, <2>2, <2>3, CallIs DEF p
  <2>5. \A k \in Owed(x.cmd) :
          /\ x.cmd.op = "accounting.post_journal" =>
               k[1] \in {"journal_entries", "journal_lines", "accounting.journal_posted",
                         "accounting.journal_posted.v1"}
          /\ x.cmd.op = "inventory.commit_movement" =>
               k[1] \in {"stock_movements", "inventory.stock_moved",
                         "inventory.stock_moved.v1"}
    BY <2>4 DEF Owed
  <2>. QED  BY <2>1, <2>4, <2>5 DEF Main
<1>. QED  BY <1>2, <1>3 DEF Provides, Putting, p

LEMMA PieceCommits ==
  ASSUME NEW c, NEW d, NEW n, Command(c)
  PROVE  In(Commit(n), Piece(c, d, n))
<1>. DEFINE p == Piece(c, d, n)
            s == Len(Steps(c, d))
<1>1. IsSeq(p) /\ s \in Nat /\ s < Len(p) /\ p[s + 1] = Commit(n)
  BY PieceFacts
<1>2. DOMAIN p = 1..Len(p) /\ Len(p) \in Nat
  BY <1>1, StepsCounted
<1>. HIDE DEF p, s
<1>3. s + 1 \in DOMAIN p
  BY <1>1, <1>2
<1>. QED  BY <1>1, <1>3 DEF In, p

(* Beginning an operation.                                                 *)
(* A run starts with a document nothing on disk belongs to.                *)
LEMMA NewDocument ==
  ASSUME FairInv, Orderly, NEW c \in Commands, Begin(c)
  PROVE  \A r \in disk : r.doc # c.doc
<1>1. /\ todo = << >> /\ Admissible(c, disk, closed)
      /\ ClosedPeriods(disk) \subseteq closed
  <2>1. todo = << >> /\ process = "app" /\ Admissible(c, disk, closed)
    BY DEF Begin, Enter
  <2>. QED  BY <2>1, SealFacts DEF FairInv, Steady
<1>2. Command(c)
  BY WorkflowsAssumption
<1>. SUFFICES ASSUME NEW r \in disk, r.doc = c.doc PROVE FALSE
  OBVIOUS
<1>3. PICK e \in Commands : e.doc = c.doc /\ (Main(e) \in Keys \/ Putting(todo, Main(e)))
  BY DEF FairInv, Clearing, AllBegun, Begun
<1>4. Main(c) \in Keys
  BY <1>1, <1>3, NoSteps DEF Orderly, Putting
<1>5. PICK s \in disk : <<s.kind, s.doc, s.n>> = Main(c)
  BY <1>4 DEF Keys, Key
<1>6. CASE c.op = "inventory.register_item"
  BY <1>1, <1>5, <1>6 DEF Main, Admissible, Has
<1>7. CASE c.op = "inventory.commit_movement"
  BY <1>1, <1>5, <1>7 DEF Main, Admissible, MovementAdmissible, Key
<1>8. CASE c.op = "accounting.post_journal"
  BY <1>1, <1>5, <1>8 DEF Main, Admissible, JournalAdmissible, Has
<1>9. CASE c.op = "accounting.close_period"
  <2>1. s.kind = "periods" /\ s.doc = c.doc
    BY <1>5, <1>9 DEF Main
  <2>2. c.doc \in ClosedPeriods(disk)
    BY <2>1, PeriodClosed DEF Has
  <2>. QED  BY <1>1, <1>9, <2>2 DEF Admissible, CloseAdmissible
<1>10. CASE c.op = "billing.create_invoice"
  BY <1>1, <1>5, <1>10 DEF Main, Admissible, InvoiceAdmissible, Has
<1>11. CASE c.op = "billing.create_refund"
  BY <1>1, <1>5, <1>11 DEF Main, Admissible, RefundAdmissible, Has
<1>. QED  BY <1>2, <1>6, <1>7, <1>8, <1>9, <1>10, <1>11 DEF Command, Operations

LEMMA BeginClears ==
  ASSUME FairInv, Orderly, NEW c \in Commands, Begin(c)
  PROVE  Clearing'
<1>0. PICK n, p : n = Len(wal) + 1 /\ p = Piece(c, disk, n)
  OBVIOUS
<1>1. /\ CoreInv /\ SaneInv /\ todo = << >> /\ process = "app"
      /\ disk' = disk /\ process' = process /\ Enters(c, closed, << >>)
      /\ SaneDisk(disk) /\ Stocked(disk)
  BY BeginEnters DEF FairInv, StockInv, SaneInv, Begin
<1>2. ClosedPeriods(disk) \subseteq closed
  BY <1>1, SealFacts DEF FairInv, Steady
<1>3. /\ todo' = p \o << >> /\ Admissible(c, disk, closed) /\ IsSeq(p)
      /\ \A x : In(x, todo') <=> In(x, p) \/ In(x, << >>)
  BY <1>0, <1>1, EnterIs
<1>4. todo' = p /\ \A x : ~In(x, << >>)
  <2>1. p \in Seq(Range(p))
    BY <1>3 DEF IsSeq
  <2>. QED  BY <1>3, <2>1, ConcatEmptySeq, NoSteps
<1>5. Command(c) /\ Numbers(c) /\ Amounting(c)
      /\ (c.op = "billing.create_invoice" => DistinctItems(c))
  BY WorkflowsAssumption DEF Orderly
<1>6. Apart(p)
  <2>1. c.op = "billing.create_refund" => \A i \in DOMAIN c.lines : c.lines[i].quantity > 0
    BY <1>3 DEF Admissible, RefundAdmissible
  <2>. QED  BY <1>0, <1>5, <2>1, PieceApart
<1>7. \A r \in disk : r.doc # c.doc
  BY NewDocument
<1>8. Unclaimed(p, disk)
  BY <1>0, <1>5, <1>7, PieceNames DEF Unclaimed
<1>9. InOrder(p, disk)
  <2>1. \A r \in disk : SoundLine(r, disk)
    BY DEF FairInv, Clearing, InOrder
  <2>2. \A x : In(x, p) => /\ x.do = "call" => Ready(x.cmd, disk)
                           /\ x.do = "put" => SoundLine(x.rec, disk)
    BY <1>0, <1>1, <1>2, <1>3, <1>5, <2>1, PieceReady DEF Amounting
  <2>. QED  BY <2>1, <2>2 DEF InOrder
<1>10. AllBegun(p, disk, Keys)
  <2>1. Putting(p, Main(c))
    BY <1>0, <1>5, PiecePutsMain
  <2>2. Begun(c.doc, p, Keys)
    BY <2>1 DEF Begun
  <2>3. \A x, doc : In(x, p) /\ Named(x, doc) => Begun(doc, p, Keys)
    BY <1>0, <1>5, <2>2, PieceNames
  <2>4. \A r \in disk : Begun(r.doc, p, Keys)
    <3>1. \A r \in disk : Begun(r.doc, todo, Keys)
      BY DEF FairInv, Clearing, AllBegun
    <3>. QED  BY <1>1, <3>1, NoSteps DEF Begun, Putting
  <2>. QED  BY <2>3, <2>4 DEF AllBegun
<1>11. \A m \in Pending' : In(Commit(m), todo')
  <2>1. Pending = {}
    BY <1>1, NoSteps DEF FairInv, Clearing
  <2>2. wal' = Append(wal, [cmd |-> c, state |-> "pending"])
    BY DEF Begin, Enter
  <2>3. Txns' = Txns \cup {n} /\ \A m \in Txns : wal'[m] = wal[m]
    BY <1>0, <1>1, <2>2, LogAppend DEF CoreInv, Txns
  <2>4. Pending' \subseteq {n}
    BY <2>1, <2>3 DEF Pending
  <2>5. In(Commit(n), p)
    BY <1>0, <1>5, PieceCommits
  <2>. QED  BY <1>4, <2>4, <2>5
<1>12. Keys' = Keys
  BY <1>1 DEF Keys
<1>. QED  BY <1>1, <1>4, <1>6, <1>8, <1>9, <1>10, <1>11, <1>12 DEF Clearing

(* An operation that is called keeps within what its caller set aside.     *)
LEMMA PieceWithin ==
  ASSUME NEW c, NEW d, NEW n, Command(c),
         c.op \in {"accounting.post_journal", "inventory.commit_movement"},
         c.op = "inventory.commit_movement" => c.by # "use_case",
         NEW y, y.do = "call", y.cmd.op = c.op, y.cmd.doc = c.doc,
         c.op = "inventory.commit_movement" =>
           y.cmd.n = c.n /\ y.cmd.item = c.item /\ y.cmd.quantity = c.quantity,
         NEW x, In(x, Piece(c, d, n))
  PROVE  /\ x.do # "call" /\ Within(x, y)
         /\ x.do = "put" => x.rec.kind \notin {"invoice_lines", "refund_lines"}
<1>1. x.do # "call"
  BY CallIs
<1>2. ASSUME x.do = "put"
      PROVE  /\ Key(x.rec) \in Owed(c)
             /\ x.rec.kind = "stock_movements" =>
                  /\ c.op = "inventory.commit_movement" /\ x = MovePut(c, d)
  <2>1. Key(x.rec) \in Owed(c)
    BY <1>2, PieceFacts DEF In
  <2>2. ASSUME x.rec.kind = "stock_movements"
        PROVE  c.op = "inventory.commit_movement" /\ x = MovePut(c, d)
    BY <1>2, <2>2, PutIs DEF EntryPut, LinePut, Put
  <2>. QED  BY <2>1, <2>2
<1>3. ASSUME x.do = "put"
      PROVE  \A kind, doc, k : Claims(x, kind, doc, k) => Claims(y, kind, doc, k)
  <2>1. CASE c.op = "accounting.post_journal"
    BY <1>2, <1>3, <2>1 DEF Claims, Key, Owed, LedgerFiles
  <2>2. CASE c.op = "inventory.commit_movement"
    BY <1>2, <1>3, <2>2 DEF Claims, Key, Owed, StockFiles
  <2>. QED  BY <2>1, <2>2
<1>4. ASSUME x.do = "put"
      PROVE  /\ \A item : Affects(x, item) => Affects(y, item)
             /\ Issues(x) => Issues(y)
  <2>1. CASE x.rec.kind = "stock_movements"
    <3>1. x.rec.data.item = c.item /\ x.rec.data.quantity = c.quantity
      BY <1>2, <1>4, <2>1 DEF MovePut, Put
    <3>. QED  BY <1>2, <1>4, <2>1, <3>1 DEF Affects, Issues
  <2>2. CASE x.rec.kind # "stock_movements"
    BY <1>4, <2>2 DEF Affects, Issues
  <2>. QED  BY <2>1, <2>2
<1>5. x.do = "put" => x.rec.kind \notin {"invoice_lines", "refund_lines"}
  <2>1. CASE c.op = "accounting.post_journal"
    BY <1>2, <2>1 DEF Key, Owed
  <2>2. CASE c.op = "inventory.commit_movement"
    BY <1>2, <2>2 DEF Key, Owed
  <2>. QED  BY <2>1, <2>2
<1>6. x.do # "put" => Within(x, y)
  BY <1>1 DEF Within, Claims, Affects, Issues
<1>. QED  BY <1>1, <1>3, <1>4, <1>5, <1>6 DEF Within

LEMMA CallClears ==
  ASSUME FairInv, CallOperation
  PROVE  Clearing'
<1>0. PICK c, n, p, y, t : /\ y = Head(todo) /\ t = Tail(todo) /\ c = Priced(y.cmd, disk)
                           /\ n = Len(wal) + 1 /\ p = Piece(c, disk, n)
  OBVIOUS
<1>1. /\ CoreInv /\ SaneInv /\ IsSeq(todo) /\ todo # << >> /\ y.do = "call"
      /\ disk' = disk /\ process' = process /\ Enters(c, closed, t)
  BY <1>0, CallEnters, SealFacts DEF FairInv, CallOperation, Doing
<1>2. /\ todo' = p \o t /\ IsSeq(p) /\ IsSeq(t)
      /\ \A x : In(x, todo') <=> In(x, p) \/ In(x, t)
  BY <1>0, <1>1, EnterIs
<1>3. /\ In(y, todo) /\ (\A x : In(x, t) => In(x, todo))
      /\ \A x : In(x, todo) => x = y \/ In(x, t)
  BY <1>0, <1>1, HeadAndTail, HeadOrTail
<1>4. SaneCall(y.cmd) /\ Ready(y.cmd, disk)
  BY <1>1, <1>3 DEF SaneInv, Sane, FairInv, Clearing, InOrder
<1>5. /\ Command(c) /\ Numbers(c) /\ c.op = y.cmd.op
      /\ c.op \in {"accounting.post_journal", "inventory.commit_movement"}
  BY <1>0, <1>1, <1>4, SanePriced DEF SaneInv
<1>6. /\ c.doc = y.cmd.doc
      /\ c.op = "inventory.commit_movement" =>
           /\ c.by # "use_case" /\ y.cmd.by = c.by
           /\ y.cmd.n = c.n /\ y.cmd.item = c.item /\ y.cmd.quantity = c.quantity
  <2>1. CASE c.op = "inventory.commit_movement"
    <3>1. DOMAIN y.cmd = Fields("inventory.commit_movement") /\ y.cmd.by # "use_case"
      BY <1>4, <1>5, <2>1 DEF SaneCall, Command, Ready
    <3>. QED  BY <1>0, <3>1 DEF Priced, Fields
  <2>2. CASE c.op # "inventory.commit_movement"
    BY <1>0, <1>5, <2>2 DEF Priced
  <2>. QED  BY <2>1, <2>2
<1>7. \A x : In(x, p) => /\ x.do # "call" /\ Within(x, y)
                         /\ x.do = "put" => x.rec.kind \notin {"invoice_lines", "refund_lines"}
  BY <1>0, <1>1, <1>5, <1>6, PieceWithin
<1>8. Apart(t) /\ \A x : In(x, t) => Clear(y, x)
  BY <1>0, <1>1, TailApart DEF FairInv, Clearing
<1>9. Apart(p)
  BY <1>0, <1>5, PieceApart
<1>10. Apart(todo')
  <2>1. \A x, z : In(x, p) /\ In(z, t) => Clear(x, z)
    BY <1>7, <1>8, ClearWithin
  <2>. QED  BY <1>2, <1>8, <1>9, <2>1, ApartJoined
<1>11. Unclaimed(todo', disk)
  <2>1. \A r \in disk : ~Claims(y, r.kind, r.doc, r.n)
    BY <1>3 DEF FairInv, Clearing, Unclaimed
  <2>2. \A x, r : In(x, p) /\ r \in disk => ~Claims(x, r.kind, r.doc, r.n)
    BY <1>7, <2>1 DEF Within
  <2>3. \A x, r : In(x, t) /\ r \in disk => ~Claims(x, r.kind, r.doc, r.n)
    BY <1>3 DEF FairInv, Clearing, Unclaimed
  <2>. QED  BY <1>2, <2>2, <2>3 DEF Unclaimed
<1>12. InOrder(todo', disk)
  BY <1>2, <1>3, <1>7 DEF FairInv, Clearing, InOrder, SoundLine
<1>13. AllBegun(todo', disk, Keys)
  <2>1. \A k : Putting(todo, k) => Putting(todo', k)
    BY <1>1, <1>2, <1>3 DEF Putting
  <2>2. \A doc : Begun(doc, todo, Keys) => Begun(doc, todo', Keys)
    BY <2>1 DEF Begun
  <2>3. Begun(c.doc, todo, Keys)
    BY <1>1, <1>3, <1>6 DEF FairInv, Clearing, AllBegun, Named
  <2>4. \A x, doc : In(x, p) /\ Named(x, doc) => doc = c.doc
    BY <1>0, <1>5, PieceNames
  <2>. QED  BY <1>2, <1>3, <2>2, <2>3, <2>4 DEF FairInv, Clearing, AllBegun
<1>14. \A m \in Pending' : In(Commit(m), todo')
  <2>1. wal' = Append(wal, [cmd |-> c, state |-> "pending"])
    BY <1>1 DEF Enters, Enter
  <2>2. Txns' = Txns \cup {n} /\ \A m \in Txns : wal'[m] = wal[m]
    BY <1>0, <1>1, <2>1, LogAppend DEF CoreInv, Txns
  <2>3. Pending' \subseteq Pending \cup {n}
    BY <2>2 DEF Pending
  <2>4. In(Commit(n), p)
    BY <1>0, <1>5, PieceCommits
  <2>5. \A m \in Pending : In(Commit(m), t)
    <3>1. \A m : Commit(m) # y
      BY <1>1 DEF Commit
    <3>. QED  BY <1>3, <3>1 DEF FairInv, Clearing
  <2>. QED  BY <1>2, <2>3, <2>4, <2>5
<1>15. Keys' = Keys
  BY <1>1 DEF Keys
<1>. QED  BY <1>1, <1>10, <1>11, <1>12, <1>13, <1>14, <1>15 DEF FairInv, Clearing

LEMMA ReadyStill ==
  ASSUME NEW d, SaneDisk(d), NEW r, SaneRecord(r), r \notin d, r.kind # "periods",
         NEW x, NEW y, x.do = "put", x.rec = r, Clear(x, y), y.do = "call", Ready(y.cmd, d)
  PROVE  Ready(y.cmd, d \cup {r})
<1>. DEFINE c == y.cmd
<1>1. ClosedPeriods(d \cup {r}) = ClosedPeriods(d)
  BY PeriodClosed
<1>2. ASSUME c.op = "inventory.commit_movement"
      PROVE  ActiveItem(d, c.item) => ActiveItem(d \cup {r}, c.item)
  BY DEF ActiveItem, Of
<1>3. ASSUME c.op = "inventory.commit_movement", c.quantity < 0
      PROVE  StockOnHand(d \cup {r}, c.item) = StockOnHand(d, c.item)
  <2>1. ~(r.kind = "stock_movements" /\ r.data.item = c.item)
    BY <1>3 DEF Clear, Affects, Issues
  <2>2. PICK item : item = c.item
    OBVIOUS
  <2>3. StockOnHand(d, item) \in Int
    BY SaneStock
  <2>4. StockOnHand(d \cup {r}, item)
          = StockOnHand(d, item)
            + IF r.kind = "stock_movements" /\ r.data.item = item THEN r.data.quantity ELSE 0
    BY StockMoves
  <2>5. StockOnHand(d \cup {r}, item) = StockOnHand(d, item)
    BY ONLY <2>1, <2>2, <2>3, <2>4
  <2>. QED  BY <2>2, <2>5
<1>. HIDE DEF c
<1>4. Ready(c, d)
  BY DEF c
<1>5. Ready(c, d \cup {r})
  BY <1>1, <1>2, <1>3, <1>4 DEF Ready
<1>. QED  BY <1>5 DEF c

LEMMA AppendClears ==
  ASSUME FairInv, AppendRecord
  PROVE  Clearing'
<1>0. PICK y, t, r : y = Head(todo) /\ t = Tail(todo) /\ r = y.rec
  OBVIOUS
<1>1. CoreInv /\ SaneInv /\ IsSeq(todo)
  BY SealFacts DEF FairInv
<1>2. /\ todo # << >> /\ IsSeq(t) /\ In(y, todo) /\ todo' = t /\ y.do = "put"
      /\ disk' = disk \cup {r}
      /\ \A x \in disk : Key(x) # Key(r)
      /\ \A x : In(x, t) => In(x, todo)
  BY <1>0, <1>1, GoOn
<1>3. \A x : In(x, todo) => x = y \/ In(x, t)
  BY <1>0, <1>1, <1>2, HeadOrTail
<1>4. Apart(t) /\ \A x : In(x, t) => Clear(y, x)
  BY <1>0, <1>1, <1>2, TailApart DEF FairInv, Clearing
<1>5. SaneRecord(r) /\ r \notin disk /\ SaneDisk(disk)
  BY <1>0, <1>1, <1>2 DEF SaneInv, Sane
<1>6. process' # "cli" /\ wal' = wal
  BY DEF AppendRecord, Leave, FairInv, Clearing
<1>7. \A m \in Pending' : In(Commit(m), t)
  <2>1. Pending' = Pending
    BY <1>6 DEF Pending, Txns
  <2>2. \A m : Commit(m) # y
    BY <1>2 DEF Commit
  <2>. QED  BY <1>3, <2>1, <2>2 DEF FairInv, Clearing
<1>8. Unclaimed(t, disk')
  <2>1. Claims(y, r.kind, r.doc, r.n)
    BY <1>0, <1>2 DEF Claims
  <2>2. \A x : In(x, t) => ~Claims(x, r.kind, r.doc, r.n)
    BY <1>4, <2>1 DEF Clear
  <2>. QED  BY <1>2, <2>2 DEF FairInv, Clearing, Unclaimed
<1>9. InOrder(t, disk')
  <2>1. \A item : ActiveItem(disk, item) => ActiveItem(disk', item)
    BY <1>2 DEF ActiveItem, Of
  <2>2. \A x : SoundLine(x, disk) => SoundLine(x, disk')
    BY <2>1 DEF SoundLine
  <2>3. (\A x \in disk : SoundLine(x, disk)) /\ SoundLine(r, disk)
    BY <1>0, <1>2 DEF FairInv, Clearing, InOrder
  <2>4. \A x : In(x, t) /\ x.do = "put" => SoundLine(x.rec, disk)
    BY <1>2 DEF FairInv, Clearing, InOrder
  <2>5. ASSUME NEW x, In(x, t), x.do = "call"
        PROVE  Ready(x.cmd, disk')
    <3>1. Steady
      BY <1>2, <2>5, SealFacts DEF FairInv
    <3>2. r.kind # "periods"
      BY <1>0, <1>2, <3>1 DEF Steady, KindIn, CloseKinds
    <3>3. Ready(x.cmd, disk) /\ Clear(y, x)
      BY <1>2, <1>4, <2>5 DEF FairInv, Clearing, InOrder
    <3>. QED  BY <1>0, <1>2, <1>5, <2>5, <3>2, <3>3, ReadyStill
  <2>. QED  BY <1>2, <2>2, <2>3, <2>4, <2>5 DEF InOrder
<1>10. AllBegun(t, disk', Keys')
  <2>1. Keys' = Keys \cup {Key(r)}
    BY <1>2 DEF Keys
  <2>2. \A k : Putting(todo, k) => k \in Keys' \/ Putting(t, k)
    BY <1>0, <1>3, <2>1 DEF Putting
  <2>3. \A doc : Begun(doc, todo, Keys) => Begun(doc, t, Keys')
    BY <2>1, <2>2 DEF Begun
  <2>4. Begun(r.doc, todo, Keys)
    BY <1>0, <1>2 DEF FairInv, Clearing, AllBegun, Named
  <2>5. /\ \A x \in disk : Begun(x.doc, todo, Keys)
        /\ \A x, doc : In(x, t) /\ Named(x, doc) => Begun(doc, todo, Keys)
    BY <1>2 DEF FairInv, Clearing, AllBegun
  <2>. QED  BY <1>2, <2>3, <2>4, <2>5 DEF AllBegun
<1>. QED  BY <1>2, <1>4, <1>6, <1>7, <1>8, <1>9, <1>10 DEF Clearing

LEMMA CommitClears ==
  ASSUME FairInv, CommitTransaction
  PROVE  Clearing'
<1>0. PICK y, t : y = Head(todo) /\ t = Tail(todo)
  OBVIOUS
<1>1. CoreInv /\ SaneInv /\ IsSeq(todo)
  BY SealFacts DEF FairInv
<1>2. /\ todo # << >> /\ IsSeq(t) /\ In(y, todo) /\ todo' = t /\ y.do = "commit"
      /\ disk' = disk
      /\ \A x : In(x, t) => In(x, todo)
  BY <1>0, <1>1, GoOn
<1>3. \A x : In(x, todo) => x = y \/ In(x, t)
  BY <1>0, <1>1, <1>2, HeadOrTail
<1>4. Apart(t)
  BY <1>0, <1>1, <1>2, TailApart DEF FairInv, Clearing
<1>5. process' # "cli" /\ wal' = [wal EXCEPT ![y.txn].state = "committed"]
  BY <1>0 DEF CommitTransaction, Leave, FairInv, Clearing
<1>6. \A m \in Pending' : In(Commit(m), t)
  <2>. SUFFICES ASSUME NEW m \in Pending' PROVE In(Commit(m), t)
    OBVIOUS
  <2>1. \A k \in Txns : [wal[k] EXCEPT !.state = "committed"].state = "committed"
    BY <1>1, LogFacts DEF CoreInv, Txns
  <2>2. Txns' = Txns /\ m \in Txns /\ wal'[m].state = "pending"
    BY <1>5 DEF Txns, Pending
  <2>3. m # y.txn
    BY <1>5, <2>1, <2>2 DEF Txns
  <2>4. m \in Pending
    BY <1>5, <2>2, <2>3 DEF Pending, Txns
  <2>5. Commit(m) # y
    BY <2>3 DEF Commit
  <2>. QED  BY <1>3, <2>4, <2>5 DEF FairInv, Clearing
<1>7. Unclaimed(t, disk) /\ InOrder(t, disk)
  BY <1>2 DEF FairInv, Clearing, Unclaimed, InOrder
<1>8. AllBegun(t, disk, Keys)
  <2>1. \A k : Putting(todo, k) => Putting(t, k)
    BY <1>2, <1>3 DEF Putting
  <2>2. \A doc : Begun(doc, todo, Keys) => Begun(doc, t, Keys)
    BY <2>1 DEF Begun
  <2>. QED  BY <1>2, <2>2 DEF FairInv, Clearing, AllBegun
<1>9. Keys' = Keys
  BY <1>2 DEF Keys
<1>. QED  BY <1>2, <1>4, <1>5, <1>6, <1>7, <1>8, <1>9 DEF Clearing

LEMMA InitFair == Init => FairInv
<1>. SUFFICES ASSUME Init PROVE FairInv
  OBVIOUS
<1>1. disk = {} /\ todo = << >> /\ process = "none" /\ wal = << >>
  BY DEF Init
<1>2. StockInv /\ SealInv
  BY InitStock, InitSeals
<1>3. Pending = {}
  BY <1>1 DEF Pending, Txns
<1>4. Clearing
  BY <1>1, <1>3, NoSteps, NoneApart DEF Clearing, Unclaimed, InOrder, AllBegun
<1>. QED  BY <1>2, <1>4 DEF FairInv

LEMMA NextFair ==
  ASSUME Orderly, IssuesLeaveCost
  PROVE  FairInv /\ [Next]_vars => FairInv'
<1>. SUFFICES ASSUME FairInv, [Next]_vars PROVE FairInv'
  OBVIOUS
<1>1. StockInv' /\ SealInv'
  <2>1. ClosesWhole
    BY DEF Orderly, ClosesWhole
  <2>. QED  BY <2>1, NextStock, NextSeals DEF FairInv
<1>2. /\ process # "cli" /\ (process = "none" => todo = << >>)
      /\ (todo = << >> => Pending = {})
  BY SealFacts, NoSteps DEF FairInv, Clearing
<1>3. CASE StartApplication \/ Stop \/ UNCHANGED vars
  <2>1. UNCHANGED <<wal, disk, todo>> /\ process' # "cli"
    BY <1>2, <1>3 DEF StartApplication, Stop, vars
  <2>2. Pending' = Pending /\ Keys' = Keys
    BY <2>1 DEF Pending, Txns, Keys
  <2>3. Clearing'
    BY <2>1, <2>2 DEF FairInv, Clearing
  <2>. QED  BY <1>1, <2>3 DEF FairInv
<1>4. CASE \E c \in Commands : Begin(c)
  BY <1>1, <1>4, BeginClears DEF FairInv
<1>5. CASE AppendRecord
  BY <1>1, <1>5, AppendClears DEF FairInv
<1>6. CASE CallOperation
  BY <1>1, <1>6, CallClears DEF FairInv
<1>7. CASE CommitTransaction
  BY <1>1, <1>7, CommitClears DEF FairInv
<1>8. ~Refused
  BY NothingRefused DEF Orderly
<1>9. ~StoreFails /\ ~Crash
  BY DEF Orderly, StoreFails, Crash
<1>10. ~Recover /\ \A n \in Txns : /\ \A d \in Decisions : ~Reconcile(n, d)
                                   /\ \A c \in Corrections : ~Adjust(n, c)
  BY <1>2 DEF Recover, Reconcile, Adjust, AwaitsAdjustment
<1>. QED  BY <1>3, <1>4, <1>5, <1>6, <1>7, <1>8, <1>9, <1>10 DEF Next

(* What a service checks before it writes its pending record is enough for *)
(* everything it does: without faults, no operation it calls is refused,   *)
(* no record it writes is there already, and the log comes to rest with    *)
(* nothing pending (create_invoice, create_refund, commit_movement and the *)
(* use cases, over post_journal and the stock service).  Orderly says what *)
(* the checks do not see.                                                  *)
THEOREM FaultFreeCompletes ==
  ASSUME Orderly, IssuesLeaveCost
  PROVE  Spec => []FaultFreeStaysHealthy
<1>1. Init => FairInv
  BY InitFair
<1>2. FairInv /\ [Next]_vars => FairInv'
  BY NextFair
<1>3. FairInv => FaultFreeStaysHealthy
  BY NoSteps DEF FairInv, Clearing, FaultFreeStaysHealthy
<1>. QED  BY <1>1, <1>2, <1>3, PTL DEF Spec
=============================================================================
