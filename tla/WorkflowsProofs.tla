-------------------------- MODULE WorkflowsProofs --------------------------
(***************************************************************************)
(* Theorems about Workflows, for every set of commands, corrections,       *)
(* decisions and faults, and behaviours of any length.                     *)
(***************************************************************************)
EXTENDS Workflows, FiniteSetTheorems, SequenceTheorems, WellFoundedInduction, TLAPS

-----------------------------------------------------------------------------
(* Sequences of steps: what they hold and how they are put together.       *)

In(x, s) == \E i \in DOMAIN s : s[i] = x

IsSeq(s) == s \in Seq(Range(s))

LEMMA SequenceOfElements ==
  ASSUME NEW S, NEW s \in Seq(S)
  PROVE  IsSeq(s)
BY SeqOfRange DEF IsSeq

LEMMA Concatenation ==
  ASSUME NEW s, NEW t, IsSeq(s), IsSeq(t)
  PROVE  /\ IsSeq(s \o t)
         /\ Len(s) \in Nat /\ DOMAIN s = 1..Len(s)
         /\ Len(t) \in Nat /\ DOMAIN t = 1..Len(t)
         /\ DOMAIN (s \o t) = 1..Len(s) + Len(t)
         /\ Len(s \o t) = Len(s) + Len(t)
         /\ \A i \in DOMAIN s : (s \o t)[i] = s[i]
         /\ \A i \in DOMAIN t : (s \o t)[Len(s) + i] = t[i]
         /\ \A i \in DOMAIN (s \o t) :
              i \notin DOMAIN s => i - Len(s) \in DOMAIN t /\ (s \o t)[i] = t[i - Len(s)]
<1>. DEFINE S == Range(s) \cup Range(t)
<1>1. s \in Seq(S) /\ t \in Seq(S)
  BY SeqMonotonic, Range(s) \subseteq S, Range(t) \subseteq S DEF IsSeq
<1>. HIDE DEF S
<1>2. /\ s \o t \in Seq(S)
      /\ Len(s \o t) = Len(s) + Len(t)
      /\ \A i \in 1..Len(s) + Len(t) :
           (s \o t)[i] = IF i <= Len(s) THEN s[i] ELSE t[i - Len(s)]
  BY <1>1, ConcatProperties
<1>3. IsSeq(s \o t)
  BY <1>2, SequenceOfElements
<1>4. /\ Len(s) \in Nat /\ DOMAIN s = 1..Len(s)
      /\ Len(t) \in Nat /\ DOMAIN t = 1..Len(t)
      /\ DOMAIN (s \o t) = 1..Len(s \o t)
  BY <1>1, <1>2, LenProperties
<1>. QED  BY <1>2, <1>3, <1>4

LEMMA Members ==
  ASSUME NEW s, NEW t, IsSeq(s), IsSeq(t), NEW x
  PROVE  In(x, s \o t) <=> In(x, s) \/ In(x, t)
<1>1. /\ Len(s) \in Nat /\ DOMAIN s = 1..Len(s)
      /\ Len(t) \in Nat /\ DOMAIN t = 1..Len(t)
      /\ DOMAIN (s \o t) = 1..Len(s) + Len(t)
  BY Concatenation
<1>2. ASSUME NEW i \in DOMAIN s
      PROVE  i \in DOMAIN (s \o t) /\ (s \o t)[i] = s[i]
  BY <1>1, Concatenation
<1>3. ASSUME NEW i \in DOMAIN t
      PROVE  Len(s) + i \in DOMAIN (s \o t) /\ (s \o t)[Len(s) + i] = t[i]
  BY <1>1, Concatenation
<1>4. ASSUME NEW i \in DOMAIN (s \o t), i \notin DOMAIN s
      PROVE  i - Len(s) \in DOMAIN t /\ (s \o t)[i] = t[i - Len(s)]
  BY <1>4, Concatenation
<1>. QED  BY <1>2, <1>3, <1>4 DEF In

LEMMA OneStep ==
  ASSUME NEW a
  PROVE  IsSeq(<< a >>) /\ \A x : In(x, << a >>) <=> x = a
<1>1. IsSeq(<< a >>)
  BY SequenceOfElements, << a >> \in Seq({a})
<1>2. DOMAIN << a >> = {1}
  OBVIOUS
<1>. QED  BY <1>1, <1>2 DEF In

LEMMA TwoSteps ==
  ASSUME NEW a, NEW b
  PROVE  IsSeq(<< a, b >>) /\ \A x : In(x, << a, b >>) <=> x = a \/ x = b
<1>1. IsSeq(<< a, b >>)
  BY SequenceOfElements, << a, b >> \in Seq({a, b})
<1>2. DOMAIN << a, b >> = {1, 2}
  OBVIOUS
<1>. QED  BY <1>1, <1>2 DEF In

LEMMA NoSteps == IsSeq(<< >>) /\ \A x : ~In(x, << >>)
<1>1. IsSeq(<< >>)
  BY SequenceOfElements, << >> \in Seq({})
<1>2. DOMAIN << >> = {}
  OBVIOUS
<1>. QED  BY <1>1, <1>2 DEF In

LEMMA OneStepPerLine ==
  ASSUME NEW n \in Nat, NEW f, f = [i \in 1..n |-> f[i]]
  PROVE  IsSeq(f) /\ \A x : In(x, f) <=> \E i \in 1..n : x = f[i]
<1>1. DOMAIN f = 1..n
  OBVIOUS
<1>2. f \in [1..n -> Range(f)]
  BY <1>1 DEF Range
<1>3. IsSeq(f)
  BY <1>2, SeqDef DEF IsSeq
<1>. QED  BY <1>1, <1>3 DEF In

-----------------------------------------------------------------------------
(* What the steps of an operation come to.                                 *)

Provides(step, k) ==
  \/ step.do = "put" /\ Key(step.rec) = k
  \/ step.do = "call" /\ k \in Owed(step.cmd)

Record(r) == DOMAIN r = {"kind", "doc", "n", "data"}

Plain(step) ==
  \/ step.do = "put" /\ Record(step.rec)
  \/ /\ step.do = "call" /\ Command(step.cmd)
     /\ step.cmd.op # "accounting.close_period"

(* A record with this key keeps recovery from rolling c back.              *)
Marks(k, c) ==
  /\ k[1] \in ScannedFiles(c.op) /\ k[2] = c.doc
  /\ c.op = "inventory.commit_movement" => k[3] = c.n

(* The steps write what c owes, and nothing else under c's name; and,      *)
(* except for a close, what recovery looks for is written first.           *)
Fulfil(s, c) ==
  /\ IsSeq(s)
  /\ \A x : In(x, s) => Plain(x)
  /\ \A x : In(x, s) /\ x.do = "put" => Key(x.rec) \in Owed(c)
  /\ \A k \in Owed(c) : \E x : In(x, s) /\ Provides(x, k)
  /\ c.op # "accounting.close_period" =>
       1 \in DOMAIN s /\ \E k \in Owed(c) : Marks(k, c) /\ Provides(s[1], k)

Starts(s, a) == 1 \in DOMAIN s /\ s[1] = a

LEMMA StartsOne ==
  ASSUME NEW a
  PROVE  Starts(<< a >>, a)
BY DEF Starts

LEMMA StartsStill ==
  ASSUME NEW s, NEW t, NEW a, IsSeq(s), IsSeq(t), Starts(s, a)
  PROVE  Starts(s \o t, a)
<1>1. /\ DOMAIN s = 1..Len(s) /\ Len(s) \in Nat /\ Len(t) \in Nat
      /\ DOMAIN (s \o t) = 1..Len(s) + Len(t)
      /\ \A i \in DOMAIN s : (s \o t)[i] = s[i]
  BY Concatenation
<1>. QED  BY <1>1 DEF Starts

LEMMA PutStep ==
  ASSUME NEW kind, NEW doc, NEW n, NEW data
  PROVE  LET x == Put(kind, doc, n, data) IN
         x.do = "put" /\ Plain(x) /\ Key(x.rec) = <<kind, doc, n>>
BY DEF Put, Plain, Record, Key

LEMMA CallStep ==
  ASSUME NEW c, Command(c), c.op # "accounting.close_period"
  PROVE  LET x == Call(c) IN
         x.do = "call" /\ x.do # "put" /\ Plain(x) /\ x.cmd = c
BY DEF Call, Plain

LEMMA RecordAuditEvent ==
  ASSUME NEW c, NEW kind, NEW action, NEW event, NEW n, NEW data,
         Owed(c) = {<<k, c.doc, n>> : k \in {kind, action, event}},
         c.op # "accounting.close_period" => Marks(<<kind, c.doc, n>>, c)
  PROVE  Fulfil(<< Put(kind, c.doc, n, data) >>
                  \o AuditAndEvent(action, event, c.doc, n), c)
<1>. DEFINE a == Put(kind, c.doc, n, data)
            b == Put(action, c.doc, n, NoData)
            e == Put(event, c.doc, n, NoData)
            s == << a >> \o << b, e >>
<1>1. << Put(kind, c.doc, n, data) >> \o AuditAndEvent(action, event, c.doc, n) = s
  BY DEF AuditAndEvent
<1>2. /\ Plain(a) /\ a.do = "put" /\ Key(a.rec) = <<kind, c.doc, n>>
      /\ Plain(b) /\ b.do = "put" /\ Key(b.rec) = <<action, c.doc, n>>
      /\ Plain(e) /\ e.do = "put" /\ Key(e.rec) = <<event, c.doc, n>>
  BY PutStep
<1>3. Owed(c) = {Key(a.rec), Key(b.rec), Key(e.rec)}
  BY <1>2
<1>. HIDE DEF a, b, e
<1>4. /\ IsSeq(s) /\ \A x : In(x, s) <=> x = a \/ x = b \/ x = e
      /\ Starts(s, a)
  BY OneStep, TwoSteps, Concatenation, Members, StartsOne, StartsStill
<1>. HIDE DEF s
<1>. QED  BY <1>1, <1>2, <1>3, <1>4 DEF Fulfil, Provides, Starts

LEMMA ItemFulfilled ==
  ASSUME NEW c, c.op = "inventory.register_item"
  PROVE  Fulfil(ItemSteps(c), c)
<1>1. Owed(c) = {<<k, c.doc, 0>> : k \in {"items", "inventory.item_registered",
                                          "inventory.item_registered.v1"}}
  BY DEF Owed
<1>2. Marks(<<"items", c.doc, 0>>, c)
  BY DEF Marks, ScannedFiles
<1>. QED  BY <1>1, <1>2, RecordAuditEvent DEF ItemSteps

LEMMA MovementFulfilled ==
  ASSUME NEW c, NEW d, c.op = "inventory.commit_movement"
  PROVE  Fulfil(MovementSteps(c, d), c)
<1>1. Owed(c) = {<<k, c.doc, c.n>> : k \in {"stock_movements", "inventory.stock_moved",
                                            "inventory.stock_moved.v1"}}
  BY DEF Owed
<1>2. Marks(<<"stock_movements", c.doc, c.n>>, c)
  BY DEF Marks, ScannedFiles
<1>. QED  BY <1>1, <1>2, RecordAuditEvent DEF MovementSteps

LEMMA CloseFulfilled ==
  ASSUME NEW c, c.op = "accounting.close_period"
  PROVE  Fulfil(CloseSteps(c), c)
<1>1. Owed(c) = {<<k, c.doc, 0>> : k \in {"periods", "accounting.period_closed",
                                          "accounting.period_closed.v1"}}
  BY DEF Owed
<1>. QED  BY <1>1, RecordAuditEvent DEF CloseSteps

LEMMA JournalFulfilled ==
  ASSUME NEW c, Command(c), c.op = "accounting.post_journal"
  PROVE  Fulfil(JournalSteps(c), c)
<1>. DEFINE data  == [period |-> c.period, source |-> c.source,
                      debit |-> Debits(c.lines), credit |-> Credits(c.lines)]
            line(i) == [period |-> c.period, currency |-> c.currency,
                        account |-> c.lines[i].account, debit |-> c.lines[i].debit,
                        credit |-> c.lines[i].credit]
            a == Put("journal_entries", c.doc, 0, data)
            f == [i \in DOMAIN c.lines |-> Put("journal_lines", c.doc, i, line(i))]
            b == Put("accounting.journal_posted", c.doc, 0, NoData)
            e == Put("accounting.journal_posted.v1", c.doc, 0, NoData)
            s == << a >> \o f \o << b, e >>
<1>1. JournalSteps(c) = s
  BY DEF JournalSteps, AuditAndEvent
<1>2. /\ Plain(a) /\ a.do = "put" /\ Key(a.rec) = <<"journal_entries", c.doc, 0>>
      /\ Plain(b) /\ b.do = "put" /\ Key(b.rec) = <<"accounting.journal_posted", c.doc, 0>>
      /\ Plain(e) /\ e.do = "put" /\ Key(e.rec) = <<"accounting.journal_posted.v1", c.doc, 0>>
  BY PutStep
<1>3. \A i \in DOMAIN c.lines :
        Plain(f[i]) /\ f[i].do = "put" /\ Key(f[i].rec) = <<"journal_lines", c.doc, i>>
  BY PutStep
<1>4. "lines" \in DOMAIN c /\ Len(c.lines) \in Nat /\ DOMAIN c.lines = 1..Len(c.lines)
  BY DEF Command, Fields
<1>5. f = [i \in 1..Len(c.lines) |-> f[i]]
  BY <1>4
<1>6. Owed(c) = {Key(a.rec), Key(b.rec), Key(e.rec)}
                  \cup {<<"journal_lines", c.doc, i>> : i \in DOMAIN c.lines}
  BY <1>2 DEF Owed
<1>7. Marks(Key(a.rec), c)
  BY <1>2 DEF Marks, ScannedFiles
<1>. HIDE DEF a, b, e, f
<1>8. /\ IsSeq(f) /\ \A x : In(x, f) <=> \E i \in DOMAIN c.lines : x = f[i]
  BY <1>4, <1>5, OneStepPerLine
<1>9. /\ IsSeq(<< a >> \o f) /\ Starts(<< a >> \o f, a)
      /\ \A x : In(x, << a >> \o f) <=> x = a \/ In(x, f)
  BY <1>8, OneStep, Concatenation, Members, StartsOne, StartsStill
<1>10. /\ IsSeq(s) /\ Starts(s, a)
       /\ \A x : In(x, s) <=> x = a \/ In(x, f) \/ x = b \/ x = e
  BY <1>9, TwoSteps, Concatenation, Members, StartsStill
<1>. HIDE DEF s
<1>11. \A x : In(x, s) => Plain(x) /\ x.do = "put" /\ Key(x.rec) \in Owed(c)
  BY <1>2, <1>3, <1>6, <1>8, <1>10
<1>12. \A k \in Owed(c) : \E x : In(x, s) /\ Provides(x, k)
  BY <1>2, <1>3, <1>6, <1>8, <1>10 DEF Provides
<1>. QED  BY <1>1, <1>2, <1>6, <1>7, <1>10, <1>11, <1>12 DEF Fulfil, Provides, Starts

(* Sales and refunds: a journal, movements, and the document's own records.*)
LEMMA DocumentFulfilled ==
  ASSUME NEW c, NEW j, NEW m, NEW h, NEW f, NEW b, NEW e,
         Command(j), j.op # "accounting.close_period", IsSeq(m), IsSeq(f),
         \A x : In(x, m) => x.do = "call" /\ Plain(x),
         \A x : In(x, f) \/ x \in {h, b, e} =>
           Plain(x) /\ x.do = "put" /\ Key(x.rec) \in Owed(c),
         \A k \in Owed(c) : \/ k \in Owed(j)
                            \/ \E x : In(x, m) /\ k \in Owed(x.cmd)
                            \/ \E x : (In(x, f) \/ x \in {h, b, e}) /\ k = Key(x.rec),
         \E k \in Owed(c) : Marks(k, c) /\ k \in Owed(j)
  PROVE  Fulfil(<< Call(j) >> \o m \o << h >> \o f \o << b, e >>, c)
<1>. DEFINE a == Call(j)
            s1 == << a >> \o m
            s2 == s1 \o << h >>
            s3 == s2 \o f
            s  == s3 \o << b, e >>
<1>1. a.do = "call" /\ a.do # "put" /\ Plain(a) /\ a.cmd = j
  BY CallStep
<1>. HIDE DEF a
<1>2. IsSeq(s1) /\ Starts(s1, a) /\ \A x : In(x, s1) <=> x = a \/ In(x, m)
  BY OneStep, Concatenation, Members, StartsOne, StartsStill
<1>. HIDE DEF s1
<1>3. IsSeq(s2) /\ Starts(s2, a) /\ \A x : In(x, s2) <=> x = a \/ In(x, m) \/ x = h
  BY <1>2, OneStep, Concatenation, Members, StartsStill
<1>. HIDE DEF s2
<1>4. /\ IsSeq(s3) /\ Starts(s3, a)
      /\ \A x : In(x, s3) <=> x = a \/ In(x, m) \/ x = h \/ In(x, f)
  BY <1>3, Concatenation, Members, StartsStill
<1>. HIDE DEF s3
<1>5. /\ IsSeq(s) /\ Starts(s, a)
      /\ \A x : In(x, s) <=> x = a \/ In(x, m) \/ In(x, f) \/ x \in {h, b, e}
  BY <1>4, TwoSteps, Concatenation, Members, StartsStill
<1>6. s = << Call(j) >> \o m \o << h >> \o f \o << b, e >>
  BY DEF s, s3, s2, s1, a
<1>. HIDE DEF s
<1>7. \A x : In(x, s) => Plain(x)
  BY <1>1, <1>5 DEF Plain
<1>8. \A x : In(x, s) /\ x.do = "put" => Key(x.rec) \in Owed(c)
  BY <1>1, <1>5
<1>9. \A k \in Owed(c) : \E x : In(x, s) /\ Provides(x, k)
  <2>. SUFFICES ASSUME NEW k \in Owed(c) PROVE \E x : In(x, s) /\ Provides(x, k)
    OBVIOUS
  <2>1. CASE k \in Owed(j)
    BY <1>1, <1>5, <2>1 DEF Provides
  <2>2. CASE \E x : In(x, m) /\ k \in Owed(x.cmd)
    BY <1>5, <2>2 DEF Provides
  <2>3. CASE \E x : (In(x, f) \/ x \in {h, b, e}) /\ k = Key(x.rec)
    BY <1>5, <2>3 DEF Provides
  <2>. QED  BY <2>1, <2>2, <2>3
<1>10. 1 \in DOMAIN s /\ \E k \in Owed(c) : Marks(k, c) /\ Provides(s[1], k)
  BY <1>1, <1>5 DEF Starts, Provides
<1>. QED  BY <1>5, <1>6, <1>7, <1>8, <1>9, <1>10 DEF Fulfil

LEMMA JournalCommand ==
  ASSUME NEW doc, NEW period, NEW source, NEW currency, NEW lines, IsSeq(lines)
  PROVE  LET j == Journal(doc, period, source, currency, lines) IN
         /\ Command(j) /\ j.op # "accounting.close_period"
         /\ <<"journal_entries", doc, 0>> \in Owed(j)
<1>. DEFINE j == Journal(doc, period, source, currency, lines)
<1>1. /\ j.op = "accounting.post_journal" /\ j.doc = doc /\ j.lines = lines
      /\ DOMAIN j = Fields("accounting.post_journal")
  BY DEF Journal, Fields
<1>2. Len(lines) \in Nat /\ DOMAIN lines = 1..Len(lines)
  BY Concatenation
<1>3. Command(j)
  BY <1>1, <1>2 DEF Command, Operations
<1>4. <<"journal_entries", doc, 0>> \in Owed(j)
  BY <1>1 DEF Owed
<1>. QED  BY <1>1, <1>3, <1>4

LEMMA MovementCommand ==
  ASSUME NEW doc, NEW n, NEW item, NEW quantity, NEW cost, NEW period, NEW by
  PROVE  LET m == Movement(doc, n, item, quantity, cost, period, by) IN
         /\ Command(m) /\ m.op # "accounting.close_period"
         /\ <<"stock_movements", doc, n>> \in Owed(m)
<1>. DEFINE m == Movement(doc, n, item, quantity, cost, period, by)
<1>1. /\ m.op = "inventory.commit_movement" /\ m.doc = doc /\ m.n = n
      /\ DOMAIN m = Fields("inventory.commit_movement")
  BY DEF Movement, Fields
<1>2. Command(m)
  BY <1>1 DEF Command, Operations, Fields
<1>3. <<"stock_movements", doc, n>> \in Owed(m)
  BY <1>1 DEF Owed
<1>. QED  BY <1>1, <1>2, <1>3

LEMMA JournalLines ==
  ASSUME NEW a, NEW b, NEW x, NEW s, NEW y, NEW t, IsSeq(s), IsSeq(t)
  PROVE  IsSeq(<< a, b >> \o If(x, s) \o If(y, t))
<1>1. IsSeq(If(x, s)) /\ IsSeq(If(y, t))
  BY NoSteps DEF If
<1>. QED  BY <1>1, TwoSteps, Concatenation

LEMMA InvoiceFulfilled ==
  ASSUME NEW c, NEW d, Command(c), c.op = "billing.create_invoice"
  PROVE  Fulfil(InvoiceSteps(c, d), c)
<1>. DEFINE cogs == InvoiceCogs(c, d)
            j == InvoiceJournal(c, SumFunction(cogs))
            move(i) == Movement(c.doc, i, c.lines[i].item, -c.lines[i].quantity, 0,
                                c.movePeriod, "sale")
            m == [i \in DOMAIN c.lines |-> Call(move(i))]
            h == Put("invoices", c.doc, 0,
                     [period |-> c.period, currency |-> c.currency,
                      subtotal |-> Subtotal(c.lines), tax |-> Tax(c.lines)])
            f == [i \in DOMAIN c.lines |->
                    Put("invoice_lines", c.doc, i, LineData(c, i, cogs, d))]
            b == Put("billing.invoice_created", c.doc, 0, NoData)
            e == Put("billing.sale_completed.v1", c.doc, 0, NoData)
<1>1. InvoiceSteps(c, d) = << Call(j) >> \o m \o << h >> \o f \o << b, e >>
  BY DEF InvoiceSteps
<1>2. /\ Command(j) /\ j.op # "accounting.close_period"
      /\ <<"journal_entries", c.doc, 0>> \in Owed(j)
  BY JournalLines, JournalCommand, OneStep, TwoSteps DEF InvoiceJournal
<1>3. \A i \in DOMAIN c.lines :
        /\ m[i].do = "call" /\ Plain(m[i])
        /\ <<"stock_movements", c.doc, i>> \in Owed(m[i].cmd)
  <2>. TAKE i \in DOMAIN c.lines
  <2>1. /\ Command(move(i)) /\ move(i).op # "accounting.close_period"
        /\ <<"stock_movements", c.doc, i>> \in Owed(move(i))
    BY MovementCommand
  <2>. HIDE DEF move
  <2>. QED  BY <2>1, CallStep
<1>4. \A i \in DOMAIN c.lines :
        Plain(f[i]) /\ f[i].do = "put" /\ Key(f[i].rec) = <<"invoice_lines", c.doc, i>>
  BY PutStep
<1>5. /\ Plain(h) /\ h.do = "put" /\ Key(h.rec) = <<"invoices", c.doc, 0>>
      /\ Plain(b) /\ b.do = "put" /\ Key(b.rec) = <<"billing.invoice_created", c.doc, 0>>
      /\ Plain(e) /\ e.do = "put" /\ Key(e.rec) = <<"billing.sale_completed.v1", c.doc, 0>>
  BY PutStep
<1>6. "lines" \in DOMAIN c /\ Len(c.lines) \in Nat /\ DOMAIN c.lines = 1..Len(c.lines)
  BY DEF Command, Fields
<1>7. /\ IsSeq(m) /\ \A x : In(x, m) <=> \E i \in DOMAIN c.lines : x = m[i]
      /\ IsSeq(f) /\ \A x : In(x, f) <=> \E i \in DOMAIN c.lines : x = f[i]
  <2>1. m = [i \in 1..Len(c.lines) |-> m[i]] /\ f = [i \in 1..Len(c.lines) |-> f[i]]
    BY <1>6
  <2>. HIDE DEF m, f
  <2>. QED  BY <1>6, <2>1, OneStepPerLine
<1>8. Owed(c) = {<<"journal_entries", c.doc, 0>>, Key(h.rec), Key(b.rec), Key(e.rec)}
                  \cup {<<"invoice_lines", c.doc, i>> : i \in DOMAIN c.lines}
                  \cup {<<"stock_movements", c.doc, i>> : i \in DOMAIN c.lines}
  BY <1>5 DEF Owed
<1>9. Marks(<<"journal_entries", c.doc, 0>>, c)
  BY DEF Marks, ScannedFiles
<1>. HIDE DEF j, move, m, h, f, b, e, cogs
<1>10. ASSUME NEW x, In(x, m) PROVE x.do = "call" /\ Plain(x)
  <2>1. PICK i \in DOMAIN c.lines : x = m[i]
    BY <1>7, <1>10
  <2>2. m[i].do = "call" /\ Plain(m[i])
    BY <1>3
  <2>. QED  BY <2>1, <2>2
<1>11. \A x : In(x, f) \/ x \in {h, b, e} =>
         Plain(x) /\ x.do = "put" /\ Key(x.rec) \in Owed(c)
  BY <1>4, <1>5, <1>7, <1>8
<1>12. \A k \in Owed(c) : \/ k \in Owed(j)
                          \/ \E x : In(x, m) /\ k \in Owed(x.cmd)
                          \/ \E x : (In(x, f) \/ x \in {h, b, e}) /\ k = Key(x.rec)
  BY <1>2, <1>3, <1>4, <1>7, <1>8
<1>13. \E k \in Owed(c) : Marks(k, c) /\ k \in Owed(j)
  BY <1>2, <1>8, <1>9
<1>14. IsSeq(m) /\ IsSeq(f) /\ Command(j) /\ j.op # "accounting.close_period"
  BY <1>2, <1>7
<1>15. Fulfil(<< Call(j) >> \o m \o << h >> \o f \o << b, e >>, c)
  BY <1>10, <1>11, <1>12, <1>13, <1>14, DocumentFulfilled
<1>. QED  BY <1>1, <1>15

(* The k-th restocked line is each of them once.                           *)
LEMMA EveryRestockedLine ==
  ASSUME NEW lines, NEW n \in Nat, DOMAIN lines = 1..n
  PROVE  LET R == Restocked(lines)
             K == 1..Cardinality(R)
         IN  /\ IsFiniteSet(R) /\ Cardinality(R) \in Nat
             /\ \A k \in K : KthRestocked(lines, k) \in R
             /\ \A k, l \in K : KthRestocked(lines, k) = KthRestocked(lines, l) => k = l
             /\ \A i \in R : \E k \in K : KthRestocked(lines, k) = i
<1>. DEFINE R == Restocked(lines)
            upTo(x) == {y \in R : y <= x}
<1>1. R \subseteq 1..n /\ IsFiniteSet(R)
  <2>1. R \subseteq 1..n
    BY DEF Restocked
  <2>2. IsFiniteSet(1..n)
    BY FS_Interval
  <2>. QED  BY <2>1, <2>2, FS_Subset
<1>2. \A x \in R : /\ IsFiniteSet(upTo(x)) /\ upTo(x) \subseteq R
                   /\ Cardinality(upTo(x)) \in 1..Cardinality(R)
  <2>. TAKE x \in R
  <2>1. upTo(x) \subseteq R /\ x \in upTo(x)
    BY <1>1
  <2>2. /\ IsFiniteSet(upTo(x)) /\ Cardinality(upTo(x)) <= Cardinality(R)
    BY <1>1, <2>1, FS_Subset
  <2>3. Cardinality(upTo(x)) \in Nat /\ Cardinality(R) \in Nat /\ Cardinality(upTo(x)) # 0
    BY <1>1, <2>1, <2>2, FS_CardinalityType, FS_EmptySet
  <2>. QED  BY <2>1, <2>2, <2>3
<1>3. \A x, y \in R : x < y => Cardinality(upTo(x)) < Cardinality(upTo(y))
  <2>. SUFFICES ASSUME NEW x \in R, NEW y \in R, x < y
                PROVE  Cardinality(upTo(x)) < Cardinality(upTo(y))
    OBVIOUS
  <2>1. upTo(x) \subseteq upTo(y) /\ y \in upTo(y) /\ y \notin upTo(x)
    BY <1>1
  <2>2. upTo(x) # upTo(y)
    BY <2>1
  <2>. HIDE DEF upTo
  <2>3. /\ Cardinality(upTo(x)) <= Cardinality(upTo(y))
        /\ Cardinality(upTo(x)) = Cardinality(upTo(y)) => upTo(x) = upTo(y)
    BY <1>2, <2>1, FS_Subset
  <2>. QED  BY <1>2, <2>2, <2>3
<1>4. \A x, y \in R : Cardinality(upTo(x)) = Cardinality(upTo(y)) => x = y
  <2>. HIDE DEF upTo
  <2>. QED  BY <1>1, <1>2, <1>3
<1>5. Cardinality(R) \in Nat
  BY <1>1, FS_CardinalityType
<1>. DEFINE K == 1..Cardinality(R)
            at == [x \in R |-> Cardinality(upTo(x))]
<1>6. \A k \in K : \E x \in R : Cardinality(upTo(x)) = k
  <2>1. at \in [R -> K]
    BY <1>2
  <2>2. \A x, y \in R : at[x] = at[y] => x = y
    BY <1>4
  <2>. HIDE DEF at
  <2>3. at \in Injection(R, K)
    BY <2>1, <2>2 DEF Injection, IsInjective
  <2>4. IsFiniteSet(K) /\ Cardinality(K) = Cardinality(R)
    BY <1>5, FS_Interval
  <2>5. at \in Surjection(R, K)
    BY <2>3, <2>4, FS_Injection
  <2>. QED  BY <2>5 DEF Surjection, at
<1>7. \A k : KthRestocked(lines, k) = CHOOSE x \in R : Cardinality(upTo(x)) = k
  BY DEF KthRestocked
<1>. HIDE DEF upTo
<1>8. \A k \in K : /\ KthRestocked(lines, k) \in R
                  /\ Cardinality(upTo(KthRestocked(lines, k))) = k
  BY <1>6, <1>7
<1>9. \A i \in R : Cardinality(upTo(i)) \in K
  BY <1>2
<1>. QED  BY <1>1, <1>4, <1>5, <1>8, <1>9

LEMMA RefundFulfilled ==
  ASSUME NEW c, NEW d, Command(c), c.op = "billing.create_refund"
  PROVE  Fulfil(RefundSteps(c, d), c)
<1>. DEFINE cogs == RefundCogs(c, d)
            back == Restocked(c.lines)
            n == Cardinality(back)
            j == RefundJournal(c, SumFunction(cogs))
            move(k) == ReturnMovement(c, KthRestocked(c.lines, k), d)
            m == [k \in 1..n |-> Call(move(k))]
            h == Put("refunds", c.doc, 0,
                     [invoice |-> c.invoice, period |-> c.period, currency |-> c.currency,
                      subtotal |-> Subtotal(c.lines), tax |-> Tax(c.lines)])
            f == [i \in DOMAIN c.lines |->
                    Put("refund_lines", c.doc, i, LineData(c, i, cogs, d))]
            b == Put("billing.refund_created", c.doc, 0, NoData)
            e == Put("billing.refund_completed.v1", c.doc, 0, NoData)
<1>1. RefundSteps(c, d) = << Call(j) >> \o m \o << h >> \o f \o << b, e >>
  BY DEF RefundSteps
<1>2. /\ Command(j) /\ j.op # "accounting.close_period"
      /\ <<"journal_entries", c.doc, 0>> \in Owed(j)
  BY JournalLines, JournalCommand, OneStep, TwoSteps DEF RefundJournal
<1>3. "lines" \in DOMAIN c /\ Len(c.lines) \in Nat /\ DOMAIN c.lines = 1..Len(c.lines)
  BY DEF Command, Fields
<1>4. n \in Nat
  <2>1. back \subseteq 1..Len(c.lines)
    BY <1>3 DEF Restocked
  <2>2. IsFiniteSet(1..Len(c.lines))
    BY <1>3, FS_Interval
  <2>3. IsFiniteSet(back)
    BY <2>1, <2>2, FS_Subset
  <2>. QED  BY <2>3, FS_CardinalityType
<1>5. \A k \in 1..n :
        /\ m[k].do = "call" /\ Plain(m[k])
        /\ <<"stock_movements", c.doc, KthRestocked(c.lines, k)>> \in Owed(m[k].cmd)
  <2>. TAKE k \in 1..n
  <2>1. /\ Command(move(k)) /\ move(k).op # "accounting.close_period"
        /\ <<"stock_movements", c.doc, KthRestocked(c.lines, k)>> \in Owed(move(k))
    BY MovementCommand DEF ReturnMovement
  <2>. HIDE DEF move
  <2>. QED  BY <2>1, CallStep
<1>6. \A i \in back : \E k \in 1..n : <<"stock_movements", c.doc, i>> \in Owed(m[k].cmd)
  <2>. TAKE i \in back
  <2>1. PICK k \in 1..n : KthRestocked(c.lines, k) = i
    BY <1>3, EveryRestockedLine
  <2>. HIDE DEF m
  <2>. QED  BY <1>5, <2>1
<1>7. \A i \in DOMAIN c.lines :
        Plain(f[i]) /\ f[i].do = "put" /\ Key(f[i].rec) = <<"refund_lines", c.doc, i>>
  BY PutStep
<1>8. /\ Plain(h) /\ h.do = "put" /\ Key(h.rec) = <<"refunds", c.doc, 0>>
      /\ Plain(b) /\ b.do = "put" /\ Key(b.rec) = <<"billing.refund_created", c.doc, 0>>
      /\ Plain(e) /\ e.do = "put" /\ Key(e.rec) = <<"billing.refund_completed.v1", c.doc, 0>>
  BY PutStep
<1>9. /\ IsSeq(m) /\ \A x : In(x, m) <=> \E k \in 1..n : x = m[k]
      /\ IsSeq(f) /\ \A x : In(x, f) <=> \E i \in DOMAIN c.lines : x = f[i]
  <2>1. m = [k \in 1..n |-> m[k]] /\ f = [i \in 1..Len(c.lines) |-> f[i]]
    BY <1>3
  <2>. HIDE DEF m, f, n
  <2>. QED  BY <1>3, <1>4, <2>1, OneStepPerLine
<1>10. Owed(c) = {<<"journal_entries", c.doc, 0>>, Key(h.rec), Key(b.rec), Key(e.rec)}
                   \cup {<<"refund_lines", c.doc, i>> : i \in DOMAIN c.lines}
                   \cup {<<"stock_movements", c.doc, i>> : i \in back}
  BY <1>8 DEF Owed
<1>11. Marks(<<"journal_entries", c.doc, 0>>, c)
  BY DEF Marks, ScannedFiles
<1>. HIDE DEF j, move, m, h, f, b, e, n, back, cogs
<1>12. ASSUME NEW x, In(x, m) PROVE x.do = "call" /\ Plain(x)
  <2>1. PICK k \in 1..n : x = m[k]
    BY <1>9, <1>12
  <2>2. m[k].do = "call" /\ Plain(m[k])
    BY <1>5
  <2>. QED  BY <2>1, <2>2
<1>13. \A x : In(x, f) \/ x \in {h, b, e} =>
         Plain(x) /\ x.do = "put" /\ Key(x.rec) \in Owed(c)
  BY <1>7, <1>8, <1>9, <1>10
<1>14. \A k \in Owed(c) : \/ k \in Owed(j)
                          \/ \E x : In(x, m) /\ k \in Owed(x.cmd)
                          \/ \E x : (In(x, f) \/ x \in {h, b, e}) /\ k = Key(x.rec)
  BY <1>2, <1>6, <1>7, <1>9, <1>10
<1>15. \E k \in Owed(c) : Marks(k, c) /\ k \in Owed(j)
  BY <1>2, <1>10, <1>11
<1>16. IsSeq(m) /\ IsSeq(f) /\ Command(j) /\ j.op # "accounting.close_period"
  BY <1>2, <1>9
<1>17. Fulfil(<< Call(j) >> \o m \o << h >> \o f \o << b, e >>, c)
  BY <1>12, <1>13, <1>14, <1>15, <1>16, DocumentFulfilled
<1>. QED  BY <1>1, <1>17

(* Every operation writes what it owes.                                    *)
LEMMA StepsFulfil ==
  ASSUME NEW c, NEW d, Command(c)
  PROVE  Fulfil(Steps(c, d), c)
<1>1. c.op \in Operations
  BY DEF Command
<1>. QED
  BY <1>1, ItemFulfilled, MovementFulfilled, JournalFulfilled, CloseFulfilled,
     InvoiceFulfilled, RefundFulfilled DEF Steps, Operations

LEMMA AfterCommitPlain ==
  ASSUME NEW c, NEW d
  PROVE  /\ IsSeq(AfterCommit(c, d))
         /\ \A x : In(x, AfterCommit(c, d)) => x.do = "call" /\ Plain(x)
<1>1. ASSUME NEW v
      PROVE  /\ Command(MovementJournal(c, v))
             /\ MovementJournal(c, v).op # "accounting.close_period"
  BY TwoSteps, JournalCommand DEF MovementJournal
<1>2. ASSUME NEW v
      PROVE  /\ IsSeq(<< Call(MovementJournal(c, v)) >>)
             /\ \A x : In(x, << Call(MovementJournal(c, v)) >>) => x.do = "call" /\ Plain(x)
  <2>1. Call(MovementJournal(c, v)).do = "call" /\ Plain(Call(MovementJournal(c, v)))
    BY <1>1, CallStep
  <2>. QED  BY <2>1, OneStep
<1>3. \E v, b : AfterCommit(c, d) = If(b, << Call(MovementJournal(c, v)) >>)
  BY DEF AfterCommit
<1>. QED  BY <1>2, <1>3, NoSteps DEF If

(* Pricing a command changes its cost and nothing it owes.                 *)
LEMMA PricedOwes ==
  ASSUME NEW c, NEW d, Command(c)
  PROVE  /\ Command(Priced(c, d)) /\ Owed(Priced(c, d)) = Owed(c)
         /\ Priced(c, d).op = c.op
<1>. DEFINE q == Priced(c, d)
<1>1. CASE c.op = "inventory.commit_movement" /\ c.by = "sale"
  <2>1. DOMAIN c = Fields("inventory.commit_movement")
    BY <1>1 DEF Command
  <2>2. /\ q.op = c.op /\ q.doc = c.doc /\ q.n = c.n /\ DOMAIN q = DOMAIN c
    BY <1>1, <2>1 DEF Priced, Fields
  <2>. HIDE DEF q
  <2>3. Owed(q) = Owed(c)
    BY <1>1, <2>2 DEF Owed
  <2>4. Command(q)
    BY <1>1, <2>1, <2>2 DEF Command, Fields
  <2>. QED  BY <2>2, <2>3, <2>4 DEF q
<1>2. CASE ~(c.op = "inventory.commit_movement" /\ c.by = "sale")
  BY <1>2 DEF Priced
<1>. QED  BY <1>1, <1>2

(* What an operation adds to the steps to do.                              *)
Piece(c, d, n) == Steps(c, d) \o << Commit(n) >> \o AfterCommit(c, d)

LEMMA PieceFacts ==
  ASSUME NEW c, NEW d, NEW n, Command(c)
  PROVE  LET p == Piece(c, d, n)
             s == Len(Steps(c, d))
         IN  /\ IsSeq(p) /\ s \in Nat /\ s < Len(p)
             /\ \A i \in 1..s : p[i] = Steps(c, d)[i]
             /\ p[s + 1] = Commit(n)
             /\ \A i \in DOMAIN p : i > s + 1 => In(p[i], AfterCommit(c, d))
             /\ \A i \in DOMAIN p : i # s + 1 => Plain(p[i])
             /\ \A k \in Owed(c) : \E i \in 1..s : Provides(p[i], k)
             /\ \A i \in DOMAIN p : p[i].do = "put" => Key(p[i].rec) \in Owed(c)
             /\ c.op # "accounting.close_period" =>
                  s >= 1 /\ \E k \in Owed(c) : Marks(k, c) /\ Provides(p[1], k)
<1>. DEFINE S == Steps(c, d)
            A == AfterCommit(c, d)
            q == S \o << Commit(n) >>
            p == q \o A
            s == Len(S)
<1>1. Piece(c, d, n) = p
  BY DEF Piece
<1>2. Fulfil(S, c) /\ IsSeq(S)
  BY StepsFulfil DEF Fulfil
<1>3. IsSeq(A) /\ \A x : In(x, A) => x.do = "call" /\ Plain(x)
  BY AfterCommitPlain
<1>4. IsSeq(<< Commit(n) >>) /\ Len(<< Commit(n) >>) = 1 /\ << Commit(n) >>[1] = Commit(n)
  BY OneStep
<1>. HIDE DEF S, A
<1>5. /\ IsSeq(q) /\ s \in Nat /\ DOMAIN S = 1..s /\ Len(q) = s + 1 /\ DOMAIN q = 1..s + 1
      /\ \A i \in 1..s : q[i] = S[i]
      /\ q[s + 1] = Commit(n)
  BY <1>2, <1>4, Concatenation
<1>. HIDE DEF q
<1>6. /\ IsSeq(p) /\ Len(A) \in Nat /\ Len(p) = s + 1 + Len(A) /\ DOMAIN p = 1..s + 1 + Len(A)
      /\ \A i \in 1..s : p[i] = S[i]
      /\ p[s + 1] = Commit(n)
      /\ \A i \in DOMAIN p : i > s + 1 => \E j \in DOMAIN A : p[i] = A[j]
  <2>1. /\ IsSeq(p) /\ Len(A) \in Nat /\ Len(p) = Len(q) + Len(A)
        /\ DOMAIN p = 1..Len(q) + Len(A)
        /\ \A i \in DOMAIN q : p[i] = q[i]
        /\ \A i \in DOMAIN p :
             i \notin DOMAIN q => i - Len(q) \in DOMAIN A /\ p[i] = A[i - Len(q)]
    BY <1>3, <1>5, Concatenation
  <2>. HIDE DEF p, s
  <2>2. \A i \in 1..s : i \in DOMAIN q
    BY <1>5
  <2>3. s + 1 \in DOMAIN q
    BY <1>5
  <2>4. \A i \in DOMAIN p : i > s + 1 => i \notin DOMAIN q
    BY <1>5
  <2>5. \A i \in DOMAIN p : i > s + 1 => \E j \in DOMAIN A : p[i] = A[j]
    BY <2>1, <2>4
  <2>6. Len(p) = s + 1 + Len(A) /\ DOMAIN p = 1..s + 1 + Len(A)
    BY <1>5, <2>1
  <2>7. (\A i \in 1..s : p[i] = S[i]) /\ p[s + 1] = Commit(n)
    BY <1>5, <2>1, <2>2, <2>3
  <2>. QED  BY <2>1, <2>5, <2>6, <2>7
<1>. HIDE DEF p
<1>7. \A i \in 1..s : In(p[i], S)
  BY <1>5, <1>6 DEF In
<1>8. \A i \in DOMAIN p : i > s + 1 => In(p[i], A)
  BY <1>6 DEF In
<1>9. \A i \in DOMAIN p : i \in 1..s \/ i = s + 1 \/ i > s + 1
  BY <1>5, <1>6
<1>10. \A i \in DOMAIN p : i # s + 1 => Plain(p[i])
  BY <1>2, <1>3, <1>7, <1>8, <1>9 DEF Fulfil
<1>11. \A k \in Owed(c) : \E i \in 1..s : Provides(p[i], k)
  <2>. TAKE k \in Owed(c)
  <2>1. PICK i \in DOMAIN S : Provides(S[i], k)
    BY <1>2 DEF Fulfil, In
  <2>. QED  BY <1>5, <1>6, <2>1
<1>12. \A i \in DOMAIN p : p[i].do = "put" => Key(p[i].rec) \in Owed(c)
  <2>. SUFFICES ASSUME NEW i \in DOMAIN p, p[i].do = "put"
                PROVE  Key(p[i].rec) \in Owed(c)
    OBVIOUS
  <2>1. i # s + 1
    BY <1>6 DEF Commit
  <2>2. ~(i > s + 1)
    BY <1>3, <1>8
  <2>. QED  BY <1>2, <1>7, <1>9, <2>1, <2>2 DEF Fulfil
<1>13. c.op # "accounting.close_period" =>
         s >= 1 /\ \E k \in Owed(c) : Marks(k, c) /\ Provides(p[1], k)
  BY <1>2, <1>5, <1>6 DEF Fulfil
<1>. QED  BY <1>1, <1>5, <1>6, <1>8, <1>10, <1>11, <1>12, <1>13 DEF S, A

-----------------------------------------------------------------------------
(* The inductive invariant: wherever the steps to do commit a transaction, *)
(* it is pending, they do so once, and what it owes is on disk or among    *)
(* the steps before, unless its reconciliation record is.                  *)

Entries(C) == [cmd : C, state : {"pending", "committed", "rolledback"}]

LogOK(log) == \E C : log \in Seq(Entries(C))

Settled(k, i, s, keys) == k \in keys \/ \E j \in 1..i-1 : Provides(s[j], k)

Justified(n, i, s, log, keys, who) ==
  \/ who = "cli" /\ Settled(<<"reconciliation_records", n, 0>>, i, s, keys)
  \/ \A k \in Owed(log[n].cmd) : Settled(k, i, s, keys)

Commits(step) == step.do = "commit"

Sound(s, log, keys, who) ==
  /\ IsSeq(s)
  /\ \A i \in DOMAIN s :
       \/ Plain(s[i])
       \/ /\ Commits(s[i])
          /\ s[i].txn \in DOMAIN log /\ log[s[i].txn].state = "pending"
          /\ Justified(s[i].txn, i, s, log, keys, who)
  /\ \A i, j \in DOMAIN s :
       Commits(s[i]) /\ Commits(s[j]) /\ s[i].txn = s[j].txn => i = j

CoreInv ==
  /\ LogOK(wal)
  /\ TypeOK
  /\ Sound(todo, wal, Keys, process)
  /\ CommittedComplete

LEMMA SoundEmpty ==
  ASSUME NEW log, NEW keys, NEW who
  PROVE  Sound(<< >>, log, keys, who)
BY NoSteps DEF Sound

(* Going on after the first step, whose keys are there now.                *)
LEMMA TailFacts ==
  ASSUME NEW s, IsSeq(s), s # << >>
  PROVE  /\ IsSeq(Tail(s)) /\ Len(s) \in Nat /\ DOMAIN s = 1..Len(s)
         /\ Len(Tail(s)) = Len(s) - 1 /\ DOMAIN Tail(s) = 1..Len(Tail(s))
         /\ \A i \in DOMAIN Tail(s) : i + 1 \in DOMAIN s /\ Tail(s)[i] = s[i + 1]
         /\ 1 \in DOMAIN s /\ s[1] = Head(s)
<1>. DEFINE t == Tail(s)
<1>1. s \in Seq(Range(s)) /\ t \in Seq(Range(s))
  BY DEF IsSeq
<1>2. IsSeq(t)
  BY <1>1, SequenceOfElements
<1>3. /\ Len(s) \in Nat /\ DOMAIN s = 1..Len(s) /\ Len(s) # 0
      /\ Len(t) = Len(s) - 1 /\ DOMAIN t = 1..Len(t)
      /\ \A i \in 1..Len(t) : t[i] = s[i + 1]
      /\ s[1] = Head(s)
  BY <1>1
<1>. HIDE DEF t
<1>4. \A i \in DOMAIN t : i + 1 \in DOMAIN s
  BY <1>3
<1>. QED  BY <1>2, <1>3, <1>4 DEF t

LEMMA SettledTail ==
  ASSUME NEW s, NEW keys, NEW more, IsSeq(s), s # << >>, keys \subseteq more,
         \A k : Provides(Head(s), k) => k \in more,
         NEW i \in 1..Len(s), NEW k, Settled(k, i + 1, s, keys)
  PROVE  Settled(k, i, Tail(s), more)
<1>1. /\ Len(s) \in Nat /\ s[1] = Head(s)
      /\ DOMAIN Tail(s) = 1..Len(s) - 1
      /\ \A j \in DOMAIN Tail(s) : Tail(s)[j] = s[j + 1]
  BY TailFacts
<1>2. CASE k \in keys
  BY <1>2 DEF Settled
<1>3. CASE \E j \in 1..i : Provides(s[j], k)
  <2>1. PICK j \in 1..i : Provides(s[j], k)
    BY <1>3
  <2>2. CASE j = 1
    BY <1>1, <2>1, <2>2 DEF Settled
  <2>3. CASE j # 1
    <3>1. j - 1 \in 1..i-1 /\ j - 1 \in DOMAIN Tail(s) /\ (j - 1) + 1 = j
      BY <1>1, <2>3
    <3>2. Tail(s)[j - 1] = s[j]
      BY <1>1, <3>1
    <3>. QED  BY <2>1, <3>1, <3>2 DEF Settled
  <2>. QED  BY <2>2, <2>3
<1>4. (i + 1) - 1 = i
  OBVIOUS
<1>. QED  BY <1>2, <1>3, <1>4 DEF Settled

LEMMA SoundTail ==
  ASSUME NEW s, NEW log, NEW keys, NEW more, NEW who,
         Sound(s, log, keys, who), s # << >>, keys \subseteq more,
         \A k : Provides(Head(s), k) => k \in more
  PROVE  Sound(Tail(s), log, more, who)
<1>. DEFINE t == Tail(s)
<1>1. IsSeq(s)
  BY DEF Sound
<1>2. /\ IsSeq(t) /\ Len(s) \in Nat /\ DOMAIN s = 1..Len(s)
      /\ Len(t) = Len(s) - 1 /\ DOMAIN t = 1..Len(t)
      /\ \A i \in DOMAIN t : i + 1 \in DOMAIN s /\ t[i] = s[i + 1]
  BY <1>1, TailFacts
<1>3. ASSUME NEW i \in DOMAIN t, NEW k, Settled(k, i + 1, s, keys)
      PROVE  Settled(k, i, t, more)
  <2>1. i \in 1..Len(s)
    BY <1>2
  <2>. QED  BY <1>1, <1>3, <2>1, SettledTail
<1>. HIDE DEF t
<1>4. ASSUME NEW i \in DOMAIN t, ~Plain(t[i])
      PROVE  /\ Commits(t[i]) /\ t[i].txn \in DOMAIN log
             /\ log[t[i].txn].state = "pending"
             /\ Justified(t[i].txn, i, t, log, more, who)
  <2>1. /\ Commits(s[i + 1]) /\ s[i + 1].txn \in DOMAIN log
        /\ log[s[i + 1].txn].state = "pending"
        /\ Justified(s[i + 1].txn, i + 1, s, log, keys, who)
    BY <1>2, <1>4 DEF Sound
  <2>2. Justified(s[i + 1].txn, i, t, log, more, who)
    BY <1>3, <2>1 DEF Justified
  <2>. QED  BY <1>2, <2>1, <2>2
<1>5. ASSUME NEW i \in DOMAIN t, NEW j \in DOMAIN t,
             Commits(t[i]), Commits(t[j]), t[i].txn = t[j].txn
      PROVE  i = j
  <2>1. i + 1 = j + 1
    BY <1>2, <1>5 DEF Sound
  <2>. QED  BY <1>2, <2>1
<1>. QED  BY <1>2, <1>4, <1>5 DEF Sound, t

(* A transaction that no step commits may change its state.                *)
LEMMA SoundLog ==
  ASSUME NEW s, NEW log, NEW new, NEW keys, NEW who, NEW m,
         Sound(s, log, keys, who),
         \A i \in DOMAIN s : Commits(s[i]) => s[i].txn # m,
         DOMAIN log \subseteq DOMAIN new,
         \A n \in DOMAIN log : n # m => new[n] = log[n]
  PROVE  Sound(s, new, keys, who)
<1>1. ASSUME NEW i \in DOMAIN s, ~Plain(s[i])
      PROVE  /\ Commits(s[i]) /\ s[i].txn \in DOMAIN new
             /\ new[s[i].txn].state = "pending"
             /\ Justified(s[i].txn, i, s, new, keys, who)
  BY <1>1 DEF Sound, Justified
<1>. QED  BY <1>1 DEF Sound

(* Entering an operation, before the steps that were left.                 *)
LEMMA PieceBefore ==
  ASSUME NEW c, NEW d, NEW n, NEW rest, Command(c), IsSeq(rest)
  PROVE  LET p == Piece(c, d, n)
             t == p \o rest
         IN  /\ IsSeq(t) /\ Len(p) \in Nat /\ DOMAIN p = 1..Len(p)
             /\ Len(rest) \in Nat /\ DOMAIN rest = 1..Len(rest)
             /\ DOMAIN t = 1..Len(p) + Len(rest)
             /\ \A i \in DOMAIN p : t[i] = p[i]
             /\ \A i \in DOMAIN rest : t[Len(p) + i] = rest[i]
             /\ \A i \in DOMAIN t : i \notin DOMAIN p =>
                  LET j == i - Len(p) IN j \in DOMAIN rest /\ t[i] = rest[j] /\ i = Len(p) + j
<1>. DEFINE p == Piece(c, d, n)
<1>1. IsSeq(p)
  BY PieceFacts
<1>. HIDE DEF p
<1>2. Len(p) \in Nat /\ DOMAIN (p \o rest) = 1..Len(p) + Len(rest) /\ Len(rest) \in Nat
  BY <1>1, Concatenation
<1>3. \A i \in DOMAIN (p \o rest) : i = Len(p) + (i - Len(p))
  BY <1>2
<1>. QED  BY <1>1, <1>3, Concatenation DEF p

LEMMA SettledBefore ==
  ASSUME NEW c, NEW d, NEW n, NEW rest, NEW keys, NEW more, Command(c), IsSeq(rest),
         more \subseteq keys \cup Owed(c),
         NEW i \in 1..Len(rest) + 1, NEW k, Settled(k, i, rest, more)
  PROVE  Settled(k, Len(Piece(c, d, n)) + i, Piece(c, d, n) \o rest, keys)
<1>. DEFINE p == Piece(c, d, n)
            s == Len(Steps(c, d))
            t == p \o rest
<1>1. s \in Nat /\ s < Len(p) /\ \A q \in Owed(c) : \E j \in 1..s : Provides(p[j], q)
  BY PieceFacts
<1>2. /\ Len(p) \in Nat /\ DOMAIN p = 1..Len(p)
      /\ Len(rest) \in Nat /\ DOMAIN rest = 1..Len(rest)
      /\ \A j \in DOMAIN p : t[j] = p[j]
      /\ \A j \in DOMAIN rest : t[Len(p) + j] = rest[j]
  BY PieceBefore
<1>. HIDE DEF p, s, t
<1>3. CASE k \in keys
  BY <1>3 DEF Settled, p, t
<1>4. CASE k \in Owed(c)
  <2>1. PICK j \in 1..s : Provides(p[j], k)
    BY <1>1, <1>4
  <2>2. j \in DOMAIN p /\ j \in 1..(Len(p) + i) - 1
    BY <1>1, <1>2
  <2>. QED  BY <1>2, <2>1, <2>2 DEF Settled, p, t
<1>5. CASE \E j \in 1..i-1 : Provides(rest[j], k)
  <2>1. PICK j \in 1..i-1 : Provides(rest[j], k)
    BY <1>5
  <2>2. j \in DOMAIN rest /\ Len(p) + j \in 1..(Len(p) + i) - 1
    BY <1>2
  <2>. QED  BY <1>2, <2>1, <2>2 DEF Settled, p, t
<1>. QED  BY <1>3, <1>4, <1>5 DEF Settled

LEMMA SoundEnter ==
  ASSUME NEW c, NEW d, NEW rest, NEW log, NEW keys, NEW more, NEW who,
         Command(c), LogOK(log),
         Sound(rest, log, more, who), more \subseteq keys \cup Owed(c)
  PROVE  Sound(Piece(c, d, Len(log) + 1) \o rest,
               Append(log, [cmd |-> c, state |-> "pending"]), keys, who)
<1>. DEFINE n == Len(log) + 1
            new == Append(log, [cmd |-> c, state |-> "pending"])
            p == Piece(c, d, n)
            s == Len(Steps(c, d))
            t == p \o rest
<1>1. /\ s \in Nat /\ s < Len(p)
      /\ p[s + 1] = Commit(n)
      /\ \A i \in DOMAIN p : i # s + 1 => Plain(p[i])
      /\ \A k \in Owed(c) : \E i \in 1..s : Provides(p[i], k)
  BY PieceFacts
<1>2. /\ Len(log) \in Nat /\ DOMAIN log = 1..Len(log) /\ DOMAIN new = 1..n
      /\ \A i \in DOMAIN log : i \in DOMAIN new /\ i # n /\ new[i] = log[i]
      /\ new[n].cmd = c /\ new[n].state = "pending"
  <2>1. PICK C : log \in Seq(Entries(C))
    BY DEF LogOK
  <2>2. log \in Seq(Entries(C) \cup {[cmd |-> c, state |-> "pending"]})
    BY <2>1, SeqMonotonic
  <2>. HIDE DEF Entries
  <2>. QED  BY <2>2
<1>3. IsSeq(rest)
  BY DEF Sound
<1>4. /\ IsSeq(t) /\ Len(p) \in Nat /\ DOMAIN p = 1..Len(p)
      /\ Len(rest) \in Nat /\ DOMAIN rest = 1..Len(rest)
      /\ DOMAIN t = 1..Len(p) + Len(rest)
      /\ \A i \in DOMAIN p : t[i] = p[i]
      /\ \A i \in DOMAIN t : i \notin DOMAIN p =>
           LET j == i - Len(p) IN j \in DOMAIN rest /\ t[i] = rest[j] /\ i = Len(p) + j
  <2>. HIDE DEF n
  <2>. QED  BY <1>3, PieceBefore
<1>5. \A k \in Owed(c) : \E i \in 1..s : Provides(t[i], k)
  <2>. TAKE k \in Owed(c)
  <2>1. PICK i \in 1..s : Provides(p[i], k)
    BY <1>1
  <2>2. i \in DOMAIN p
    BY <1>1, <1>4
  <2>. QED  BY <1>4, <2>1, <2>2
<1>6. ASSUME NEW i \in DOMAIN rest, NEW k, Settled(k, i, rest, more)
      PROVE  Settled(k, Len(p) + i, t, keys)
  <2>1. i \in 1..Len(rest) + 1
    BY <1>4
  <2>. QED  BY <1>3, <1>6, <2>1, SettledBefore
<1>. HIDE DEF new, p, n, s, t
<1>7. \A i \in DOMAIN p : Commits(t[i]) => i = s + 1 /\ t[i].txn = n
  BY <1>1, <1>4 DEF Plain, Commits, Commit
<1>8. \A i \in DOMAIN rest : Commits(rest[i]) => rest[i].txn \in DOMAIN log
  BY DEF Sound, Plain, Commits
<1>9. ASSUME NEW i \in DOMAIN t, ~Plain(t[i])
      PROVE  /\ Commits(t[i]) /\ t[i].txn \in DOMAIN new
             /\ new[t[i].txn].state = "pending"
             /\ Justified(t[i].txn, i, t, new, keys, who)
  <2>1. CASE i \in DOMAIN p
    <3>1. i = s + 1 /\ t[i] = Commit(n) /\ (s + 1) - 1 = s
      BY <1>1, <1>4, <1>9, <2>1
    <3>2. Commits(t[i]) /\ t[i].txn = n
      BY <3>1 DEF Commits, Commit
    <3>3. \A k \in Owed(c) : Settled(k, i, t, keys)
      BY <1>5, <3>1 DEF Settled
    <3>4. n \in DOMAIN new
      BY <1>2 DEF n
    <3>. QED  BY <1>2, <3>2, <3>3, <3>4 DEF Justified
  <2>2. CASE i \notin DOMAIN p
    <3>. DEFINE j == i - Len(p)
    <3>1. j \in DOMAIN rest /\ t[i] = rest[j] /\ i = Len(p) + j
      BY <1>4, <1>9, <2>2
    <3>. HIDE DEF j
    <3>2. /\ Commits(t[i]) /\ t[i].txn \in DOMAIN log /\ log[t[i].txn].state = "pending"
          /\ Justified(t[i].txn, j, rest, log, more, who)
      BY <1>9, <3>1 DEF Sound
    <3>3. new[t[i].txn] = log[t[i].txn] /\ t[i].txn \in DOMAIN new
      BY <1>2, <3>2
    <3>4. Justified(t[i].txn, i, t, new, keys, who)
      BY <1>6, <3>1, <3>2, <3>3 DEF Justified
    <3>. QED  BY <3>2, <3>3, <3>4
  <2>. QED  BY <2>1, <2>2
<1>10. ASSUME NEW i \in DOMAIN t, NEW j \in DOMAIN t,
              Commits(t[i]), Commits(t[j]), t[i].txn = t[j].txn
       PROVE  i = j
  <2>1. ASSUME NEW x \in DOMAIN t, x \notin DOMAIN p, Commits(t[x])
        PROVE  t[x].txn \in DOMAIN log /\ t[x].txn # n
    BY <1>2, <1>4, <1>8, <2>1
  <2>2. CASE i \in DOMAIN p /\ j \in DOMAIN p
    BY <1>7, <1>10, <2>2
  <2>3. CASE i \notin DOMAIN p /\ j \notin DOMAIN p
    <3>1. i - Len(p) = j - Len(p)
      BY <1>4, <1>10, <2>3 DEF Sound
    <3>. QED  BY <1>4, <3>1
  <2>. QED  BY <1>7, <1>10, <2>1, <2>2, <2>3
<1>. QED  BY <1>4, <1>9, <1>10 DEF Sound, t, p, n, new

-----------------------------------------------------------------------------
(* The steps of the specification.                                         *)

LEMMA LogFacts ==
  ASSUME NEW log, LogOK(log)
  PROVE  /\ Len(log) \in Nat /\ DOMAIN log = 1..Len(log)
         /\ \A n \in DOMAIN log :
              /\ log[n].state \in {"pending", "committed", "rolledback"}
              /\ \A state \in {"pending", "committed", "rolledback"} :
                   /\ [log[n] EXCEPT !.state = state].state = state
                   /\ [log[n] EXCEPT !.state = state].cmd = log[n].cmd
<1>1. PICK C : log \in Seq(Entries(C))
  BY DEF LogOK
<1>2. \A n \in DOMAIN log : log[n] \in Entries(C)
  BY <1>1
<1>. QED  BY <1>1, <1>2 DEF Entries

LEMMA LogAppend ==
  ASSUME NEW log, NEW c, LogOK(log)
  PROVE  LET new == Append(log, [cmd |-> c, state |-> "pending"])
             n   == Len(log) + 1
         IN  /\ LogOK(new) /\ DOMAIN new = DOMAIN log \cup {n} /\ n \notin DOMAIN log
             /\ \A m \in DOMAIN log : new[m] = log[m]
             /\ new[n].cmd = c /\ new[n].state = "pending"
<1>. DEFINE entry == [cmd |-> c, state |-> "pending"]
            new == Append(log, entry)
<1>1. PICK C : log \in Seq(Entries(C))
  BY DEF LogOK
<1>2. Entries(C) \subseteq Entries(C \cup {c}) /\ entry \in Entries(C \cup {c})
  BY DEF Entries
<1>3. log \in Seq(Entries(C \cup {c}))
  BY <1>1, <1>2, SeqMonotonic
<1>4. LogOK(new)
  BY <1>2, <1>3 DEF LogOK
<1>5. entry.cmd = c /\ entry.state = "pending"
  OBVIOUS
<1>. HIDE DEF entry
<1>6. /\ Len(log) \in Nat /\ DOMAIN log = 1..Len(log)
      /\ DOMAIN new = 1..Len(log) + 1
      /\ \A m \in 1..Len(log) : new[m] = log[m]
      /\ new[Len(log) + 1] = entry
  BY <1>2, <1>3
<1>. HIDE DEF new
<1>7. DOMAIN new = DOMAIN log \cup {Len(log) + 1} /\ Len(log) + 1 \notin DOMAIN log
  BY <1>6
<1>. QED  BY <1>4, <1>5, <1>6, <1>7 DEF new, entry

(* A log whose entries only change their state is still one.               *)
LEMMA LogChange ==
  ASSUME NEW log, NEW new, LogOK(log), new = [n \in DOMAIN log |-> new[n]],
         \A n \in DOMAIN log :
           \/ new[n] = log[n]
           \/ \E state \in {"pending", "committed", "rolledback"} :
                new[n] = [log[n] EXCEPT !.state = state]
  PROVE  LogOK(new)
<1>1. PICK C : log \in Seq(Entries(C))
  BY DEF LogOK
<1>2. \A n \in DOMAIN log : log[n] \in Entries(C)
  BY <1>1
<1>3. \A n \in DOMAIN log : new[n] \in Entries(C)
  BY <1>2 DEF Entries
<1>4. Len(log) \in Nat /\ DOMAIN log = 1..Len(log)
  BY <1>1
<1>5. new \in [1..Len(log) -> Entries(C)]
  BY <1>3, <1>4
<1>. QED  BY <1>4, <1>5, SeqDef DEF LogOK

LEMMA TodoTypes ==
  ASSUME NEW s, NEW log, NEW keys, NEW who, Sound(s, log, keys, who)
  PROVE  \A i \in DOMAIN s : s[i].do \in {"put", "call", "commit"}
BY DEF Sound, Plain, Commits

(* Complete transactions stay so: files grow, and no log record changes    *)
(* once it is committed.                                                   *)
LEMMA CompleteStill ==
  ASSUME CommittedComplete, disk \subseteq disk',
         \A n \in Txns' : wal'[n].state = "committed" =>
           \/ n \in Txns /\ wal[n].state = "committed" /\ wal'[n].cmd = wal[n].cmd
           \/ Reconciled(n)
           \/ Owed(wal'[n].cmd) \subseteq Keys
  PROVE  CommittedComplete'
<1>1. Keys \subseteq Keys'
  BY DEF Keys
<1>2. \A n : Reconciled(n) => Reconciled(n)'
  BY DEF Reconciled, Has
<1>. QED  BY <1>1, <1>2 DEF CommittedComplete

LEMMA ClosedStill ==
  ASSUME disk \subseteq disk'
  PROVE  ClosedPeriods(disk) \subseteq ClosedPeriods(disk')
BY DEF ClosedPeriods, Of

LEMMA InitCore == Init => CoreInv
<1>. SUFFICES ASSUME Init PROVE CoreInv
  OBVIOUS
<1>1. LogOK(wal)
  BY DEF Init, LogOK
<1>2. Txns = {} /\ DOMAIN todo = {}
  BY DEF Init, Txns
<1>3. TypeOK
  BY <1>2, WorkflowsAssumption DEF Init, TypeOK
<1>4. Sound(todo, wal, Keys, process)
  BY SoundEmpty DEF Init
<1>. QED  BY <1>1, <1>2, <1>3, <1>4 DEF CoreInv, CommittedComplete

(* Entering an operation.                                                  *)
LEMMA EnterCore ==
  ASSUME CoreInv, NEW c, NEW known, NEW rest, NEW more,
         Command(c), Enter(c, known, rest),
         Sound(rest, wal, more, process'), more \subseteq Keys \cup Owed(c),
         process' \in {"app", "cli"}, closed' \subseteq ClosedPeriods(disk),
         UNCHANGED <<disk, faults>>
  PROVE  CoreInv'
<1>. DEFINE n == Len(wal) + 1
            new == [cmd |-> c, state |-> "pending"]
<1>1. wal' = Append(wal, new) /\ todo' = Piece(c, disk, n) \o rest
  BY DEF Enter, Piece
<1>2. /\ LogOK(wal') /\ DOMAIN wal' = DOMAIN wal \cup {n} /\ n \notin DOMAIN wal
      /\ \A m \in DOMAIN wal : wal'[m] = wal[m]
      /\ wal'[n].cmd = c /\ wal'[n].state = "pending"
  BY <1>1, LogAppend DEF CoreInv
<1>3. Sound(todo', wal', Keys, process')
  BY <1>1, SoundEnter DEF CoreInv
<1>. HIDE DEF n, new
<1>4. Keys' = Keys /\ ClosedPeriods(disk') = ClosedPeriods(disk)
  BY DEF Keys
<1>5. Sound(todo, wal, Keys, process)'
  BY <1>3, <1>4
<1>6. \A m \in Txns' : wal'[m].state \in {"pending", "committed", "rolledback"}
  BY <1>2, LogFacts DEF Txns
<1>7. \A i \in DOMAIN todo' : todo'[i].do \in {"put", "call", "commit"}
  BY <1>3, TodoTypes
<1>8. TypeOK'
  BY <1>4, <1>6, <1>7 DEF CoreInv, TypeOK
<1>9. \A m \in Txns' : wal'[m].state = "committed" =>
        m \in Txns /\ wal[m].state = "committed" /\ wal'[m].cmd = wal[m].cmd
  BY <1>2 DEF Txns
<1>10. CommittedComplete'
  BY <1>9, CompleteStill DEF CoreInv
<1>. QED  BY <1>2, <1>5, <1>8, <1>10 DEF CoreInv

LEMMA BeginCore ==
  ASSUME CoreInv, NEW c \in Commands, Begin(c)
  PROVE  CoreInv'
<1>1. Command(c)
  BY WorkflowsAssumption
<1>2. Sound(<< >>, wal, Keys, process')
  BY SoundEmpty
<1>3. Enter(c, closed, << >>) /\ process' = "app" /\ UNCHANGED <<disk, process, closed, faults>>
  BY DEF Begin
<1>4. closed' \subseteq ClosedPeriods(disk)
  BY <1>3 DEF CoreInv, TypeOK
<1>. QED  BY <1>1, <1>2, <1>3, <1>4, EnterCore

LEMMA CallCore ==
  ASSUME CoreInv, CallOperation
  PROVE  CoreInv'
<1>. DEFINE x == Head(todo)
            c == Priced(x.cmd, disk)
            more == Keys \cup Owed(c)
<1>1. /\ todo # << >> /\ x.do = "call" /\ Enter(c, closed, Tail(todo))
      /\ UNCHANGED <<disk, process, closed, faults>>
  BY DEF CallOperation, Doing
<1>2. IsSeq(todo) /\ 1 \in DOMAIN todo /\ x = todo[1]
  <2>1. todo \in Seq(Range(todo))
    BY DEF CoreInv, Sound, IsSeq
  <2>. QED  BY <1>1, <2>1 DEF IsSeq
<1>3. Command(x.cmd)
  BY <1>1, <1>2 DEF CoreInv, Sound, Plain, Commits
<1>4. Command(c) /\ Owed(c) = Owed(x.cmd)
  BY <1>3, PricedOwes
<1>5. \A k : Provides(x, k) => k \in more
  BY <1>1, <1>4 DEF Provides
<1>6. process' \in {"app", "cli"} /\ closed' \subseteq ClosedPeriods(disk)
  BY <1>1 DEF CoreInv, TypeOK
<1>. HIDE DEF c
<1>7. Sound(Tail(todo), wal, more, process)
  BY <1>1, <1>5, SoundTail DEF CoreInv
<1>. QED  BY <1>1, <1>4, <1>6, <1>7, EnterCore

LEMMA AppendCore ==
  ASSUME CoreInv, AppendRecord
  PROVE  CoreInv'
<1>. DEFINE x == Head(todo)
<1>1. /\ todo # << >> /\ x.do = "put" /\ disk' = disk \cup {x.rec}
      /\ todo' = Tail(todo)
      /\ process' = IF process = "cli" /\ todo' = << >> THEN "none" ELSE process
      /\ closed' \subseteq closed /\ UNCHANGED <<wal, faults>>
  BY DEF AppendRecord, Doing, Leave, Ends
<1>2. 1 \in DOMAIN todo /\ x = todo[1]
  <2>1. todo \in Seq(Range(todo))
    BY DEF CoreInv, Sound, IsSeq
  <2>. QED  BY <1>1, <2>1
<1>3. Record(x.rec)
  BY <1>1, <1>2 DEF CoreInv, Sound, Plain, Commits
<1>4. Keys' = Keys \cup {Key(x.rec)}
  BY <1>1 DEF Keys
<1>5. Sound(todo', wal, Keys', process)
  BY <1>1, <1>4, SoundTail DEF CoreInv, Provides
<1>6. Sound(todo, wal, Keys, process)'
  BY <1>1, <1>5, SoundEmpty
<1>7. \A i \in DOMAIN todo' : todo'[i].do \in {"put", "call", "commit"}
  BY <1>5, TodoTypes
<1>8. process' \in {"none", "app", "cli"} /\ (process' = "none" => todo' = << >>)
  BY <1>1 DEF CoreInv, TypeOK
<1>9. closed' \subseteq ClosedPeriods(disk')
  BY <1>1, ClosedStill DEF CoreInv, TypeOK
<1>10. \A r \in disk' : DOMAIN r = {"kind", "doc", "n", "data"}
  BY <1>1, <1>3 DEF CoreInv, TypeOK, Record
<1>11. TypeOK'
  BY <1>1, <1>7, <1>8, <1>9, <1>10 DEF CoreInv, TypeOK, Txns
<1>12. CommittedComplete'
  BY <1>1, CompleteStill DEF CoreInv, Txns
<1>. QED  BY <1>1, <1>6, <1>11, <1>12 DEF CoreInv

LEMMA CommitCore ==
  ASSUME CoreInv, CommitTransaction
  PROVE  CoreInv'
<1>. DEFINE x == Head(todo)
            n == x.txn
<1>1. /\ todo # << >> /\ x.do = "commit"
      /\ wal' = [wal EXCEPT ![n].state = "committed"]
      /\ todo' = Tail(todo)
      /\ process' = IF process = "cli" /\ todo' = << >> THEN "none" ELSE process
      /\ closed' = IF wal[n].cmd.op = "accounting.close_period" /\ process = "app"
                   THEN closed \cup {wal[n].cmd.doc} ELSE Ends
      /\ UNCHANGED <<disk, faults>>
  BY DEF CommitTransaction, Doing, Leave
<1>2. /\ IsSeq(todo) /\ DOMAIN todo = 1..Len(todo) /\ Len(todo) \in Nat
      /\ 1 \in DOMAIN todo /\ x = todo[1]
      /\ DOMAIN Tail(todo) = 1..Len(todo) - 1
      /\ \A i \in DOMAIN Tail(todo) : i + 1 \in DOMAIN todo /\ Tail(todo)[i] = todo[i + 1]
  <2>1. todo \in Seq(Range(todo))
    BY DEF CoreInv, Sound, IsSeq
  <2>. QED  BY <1>1, <2>1 DEF IsSeq
<1>3. /\ Commits(x) /\ n \in DOMAIN wal /\ wal[n].state = "pending"
      /\ Justified(n, 1, todo, wal, Keys, process)
  BY <1>1, <1>2 DEF CoreInv, Sound, Plain
<1>4. \A k : Settled(k, 1, todo, Keys) => k \in Keys
  BY DEF Settled
<1>5. \/ process = "cli" /\ <<"reconciliation_records", n, 0>> \in Keys
      \/ Owed(wal[n].cmd) \subseteq Keys
  BY <1>3, <1>4 DEF Justified
<1>6. DOMAIN wal' = DOMAIN wal /\ wal' = [m \in DOMAIN wal |-> wal'[m]]
  BY <1>1
<1>7. /\ wal'[n] = [wal[n] EXCEPT !.state = "committed"]
      /\ \A m \in DOMAIN wal : m # n => wal'[m] = wal[m]
  BY <1>1, <1>3
<1>8. LogOK(wal')
  BY <1>6, <1>7, LogChange DEF CoreInv
<1>9. wal'[n].cmd = wal[n].cmd
  BY <1>3, <1>7, LogFacts DEF CoreInv
<1>10. Sound(Tail(todo), wal, Keys, process)
  <2>1. \A k : ~Provides(x, k)
    BY <1>1 DEF Provides
  <2>. QED  BY <1>1, <2>1, SoundTail DEF CoreInv
<1>11. \A i \in DOMAIN Tail(todo) : Commits(Tail(todo)[i]) => Tail(todo)[i].txn # n
  <2>. SUFFICES ASSUME NEW i \in DOMAIN Tail(todo), Commits(Tail(todo)[i]),
                       Tail(todo)[i].txn = n
                PROVE  FALSE
    OBVIOUS
  <2>1. i + 1 \in DOMAIN todo /\ Commits(todo[i + 1]) /\ todo[i + 1].txn = todo[1].txn
    BY <1>2
  <2>2. i + 1 = 1
    BY <1>2, <1>3, <2>1 DEF CoreInv, Sound
  <2>. QED  BY <1>2, <2>2
<1>12. Sound(Tail(todo), wal', Keys, process)
  <2>. DEFINE t == Tail(todo)
  <2>1. /\ Sound(t, wal, Keys, process) /\ DOMAIN wal \subseteq DOMAIN wal'
        /\ \A i \in DOMAIN t : Commits(t[i]) => t[i].txn # n
        /\ \A m \in DOMAIN wal : m # n => wal'[m] = wal[m]
    BY <1>6, <1>7, <1>10, <1>11
  <2>. HIDE DEF t, n
  <2>2. Sound(t, wal', Keys, process)
    BY <2>1, SoundLog
  <2>. QED  BY <2>2 DEF t
<1>13. Keys' = Keys /\ ClosedPeriods(disk') = ClosedPeriods(disk)
  BY <1>1 DEF Keys
<1>14. Sound(todo, wal, Keys, process)'
  BY <1>1, <1>12, <1>13, SoundEmpty
<1>15. \A i \in DOMAIN todo' : todo'[i].do \in {"put", "call", "commit"}
  BY <1>14, TodoTypes
<1>16. process' \in {"none", "app", "cli"} /\ (process' = "none" => todo' = << >>)
  BY <1>1 DEF CoreInv, TypeOK
<1>17. closed' \subseteq ClosedPeriods(disk')
  <2>1. CASE wal[n].cmd.op = "accounting.close_period" /\ process = "app"
    <3>1. <<"periods", wal[n].cmd.doc, 0>> \in Owed(wal[n].cmd)
      BY <2>1 DEF Owed
    <3>2. <<"periods", wal[n].cmd.doc, 0>> \in Keys
      BY <1>5, <2>1, <3>1
    <3>3. wal[n].cmd.doc \in ClosedPeriods(disk)
      BY <3>2 DEF Keys, Key, ClosedPeriods, Of
    <3>. QED  BY <1>1, <1>13, <2>1, <3>3 DEF CoreInv, TypeOK
  <2>2. CASE ~(wal[n].cmd.op = "accounting.close_period" /\ process = "app")
    BY <1>1, <1>13, <2>2 DEF CoreInv, TypeOK, Ends
  <2>. QED  BY <2>1, <2>2
<1>18. \A m \in Txns' : wal'[m].state \in {"pending", "committed", "rolledback"}
  BY <1>8, LogFacts DEF Txns
<1>19. TypeOK'
  BY <1>1, <1>15, <1>16, <1>17, <1>18 DEF CoreInv, TypeOK
<1>20. Reconciled(n) \/ Owed(wal'[n].cmd) \subseteq Keys
  BY <1>5, <1>9 DEF Reconciled, Has, Keys, Key
<1>21. CommittedComplete'
  BY <1>1, <1>6, <1>7, <1>20, CompleteStill DEF CoreInv, Txns
<1>. QED  BY <1>8, <1>14, <1>19, <1>21 DEF CoreInv

(* A run that ends early leaves log and files as they are.                 *)
LEMMA EndCore ==
  ASSUME CoreInv, todo' = << >>, process' \in {"none", "app", "cli"},
         closed' \subseteq ClosedPeriods(disk), faults' \in 0..MaxFaults,
         UNCHANGED <<wal, disk>>
  PROVE  CoreInv'
<1>1. Sound(todo, wal, Keys, process)'
  BY SoundEmpty
<1>2. DOMAIN todo' = {}
  OBVIOUS
<1>3. TypeOK'
  BY <1>2 DEF CoreInv, TypeOK, Txns, ClosedPeriods
<1>4. CommittedComplete'
  BY CompleteStill DEF CoreInv, Txns
<1>. QED  BY <1>1, <1>3, <1>4 DEF CoreInv

LEMMA InterruptCore ==
  ASSUME CoreInv, StartApplication \/ Stop \/ Refused \/ StoreFails \/ Crash
  PROVE  CoreInv'
<1>. USE DEF CoreInv, TypeOK
<1>1. faults \in 0..MaxFaults /\ MaxFaults \in Nat
  BY WorkflowsAssumption
<1>2. CASE StartApplication
  BY <1>1, <1>2, EndCore DEF StartApplication
<1>3. CASE Stop
  BY <1>1, <1>3, EndCore DEF Stop
<1>4. CASE Refused
  BY <1>1, <1>4, EndCore DEF Refused, Abandon, Ends
<1>5. CASE StoreFails
  BY <1>1, <1>5, EndCore DEF StoreFails, Abandon, Ends
<1>6. CASE Crash
  BY <1>1, <1>6, EndCore DEF Crash
<1>. QED  BY <1>2, <1>3, <1>4, <1>5, <1>6

LEMMA RecoverCore ==
  ASSUME CoreInv, Recover
  PROVE  CoreInv'
<1>1. /\ process = "none" /\ todo' = << >> /\ UNCHANGED <<disk, todo, process, closed, faults>>
      /\ wal' = [n \in Txns |-> IF n \in Pending THEN [wal[n] EXCEPT !.state = "rolledback"]
                                                 ELSE wal[n]]
  BY DEF Recover, CoreInv, TypeOK
<1>2. DOMAIN wal' = DOMAIN wal /\ wal' = [n \in DOMAIN wal |-> wal'[n]]
  BY <1>1 DEF Txns
<1>3. LogOK(wal')
  BY <1>1, <1>2, LogChange DEF CoreInv, Txns
<1>4. \A n \in Txns' : wal'[n].state \in {"pending", "committed", "rolledback"}
  BY <1>3, LogFacts DEF Txns
<1>5. \A n \in Txns' : wal'[n].state = "committed" =>
        n \in Txns /\ wal[n].state = "committed" /\ wal'[n].cmd = wal[n].cmd
  <2>. SUFFICES ASSUME NEW n \in Txns', wal'[n].state = "committed"
                PROVE  n \in Txns /\ wal[n].state = "committed" /\ wal'[n].cmd = wal[n].cmd
    OBVIOUS
  <2>1. n \in Txns
    BY <1>2 DEF Txns
  <2>2. n \in Pending => wal'[n].state = "rolledback"
    BY <1>1, <2>1, LogFacts DEF CoreInv, Txns
  <2>. QED  BY <1>1, <2>1, <2>2
<1>6. Sound(todo, wal, Keys, process)'
  BY <1>1, SoundEmpty
<1>7. TypeOK'
  BY <1>1, <1>4 DEF CoreInv, TypeOK, ClosedPeriods
<1>8. CommittedComplete'
  BY <1>1, <1>5, CompleteStill DEF CoreInv
<1>. QED  BY <1>3, <1>6, <1>7, <1>8 DEF CoreInv

(* The recovery command's own records.                                     *)
Records(kind, doc, n, data, action, event) ==
  << Put(kind, doc, n, data) >> \o AuditAndEvent(action, event, doc, n)

LEMMA RecordsPlain ==
  ASSUME NEW kind, NEW doc, NEW n, NEW data, NEW action, NEW event
  PROVE  /\ IsSeq(Records(kind, doc, n, data, action, event))
         /\ \A x : In(x, Records(kind, doc, n, data, action, event)) =>
              Plain(x) /\ x.do = "put" /\ x.rec.doc = doc
         /\ \E x : /\ In(x, Records(kind, doc, n, data, action, event))
                   /\ Provides(x, <<kind, doc, n>>)
<1>. DEFINE a == Put(kind, doc, n, data)
            b == Put(action, doc, n, NoData)
            e == Put(event, doc, n, NoData)
            s == << a >> \o << b, e >>
<1>1. Records(kind, doc, n, data, action, event) = s
  BY DEF Records, AuditAndEvent
<1>2. /\ Plain(a) /\ a.do = "put" /\ Key(a.rec) = <<kind, doc, n>>
      /\ Plain(b) /\ b.do = "put" /\ Plain(e) /\ e.do = "put"
  BY PutStep
<1>3. a.rec.doc = doc /\ b.rec.doc = doc /\ e.rec.doc = doc
  BY DEF Put
<1>. HIDE DEF a, b, e
<1>4. IsSeq(s) /\ \A x : In(x, s) <=> x = a \/ x = b \/ x = e
  BY OneStep, TwoSteps, Concatenation, Members
<1>. HIDE DEF s
<1>. QED  BY <1>1, <1>2, <1>3, <1>4 DEF Provides

LEMMA SoundPlain ==
  ASSUME NEW s, NEW log, NEW keys, NEW who, IsSeq(s), \A x : In(x, s) => Plain(x)
  PROVE  Sound(s, log, keys, who)
BY DEF Sound, In, Plain, Commits

LEMMA SoundCommitLast ==
  ASSUME NEW s, NEW n, NEW log, NEW keys, IsSeq(s), \A x : In(x, s) => Plain(x),
         n \in DOMAIN log, log[n].state = "pending",
         \/ <<"reconciliation_records", n, 0>> \in keys
         \/ \E x : In(x, s) /\ Provides(x, <<"reconciliation_records", n, 0>>)
  PROVE  Sound(s \o << Commit(n) >>, log, keys, "cli")
<1>. DEFINE t == s \o << Commit(n) >>
            k == <<"reconciliation_records", n, 0>>
            l == Len(s)
<1>1. << Commit(n) >>[1] = Commit(n) /\ Len(<< Commit(n) >>) = 1 /\ IsSeq(<< Commit(n) >>)
  BY OneStep
<1>2. /\ IsSeq(t) /\ l \in Nat /\ DOMAIN s = 1..l /\ DOMAIN t = 1..l + 1
      /\ \A i \in DOMAIN s : t[i] = s[i]
      /\ t[l + 1] = Commit(n)
  <2>1. /\ IsSeq(t) /\ l \in Nat /\ DOMAIN s = 1..l /\ DOMAIN t = 1..l + Len(<< Commit(n) >>)
        /\ \A i \in DOMAIN s : t[i] = s[i]
    BY <1>1, Concatenation
  <2>2. 1 \in DOMAIN << Commit(n) >>
    OBVIOUS
  <2>3. t[l + 1] = << Commit(n) >>[1]
    BY <1>1, <2>2, Concatenation
  <2>. QED  BY <1>1, <2>1, <2>3
<1>. HIDE DEF t, l
<1>3. \A i \in DOMAIN t : i # l + 1 => i \in DOMAIN s
  BY <1>2
<1>4. \A i \in DOMAIN t : i # l + 1 => Plain(t[i])
  BY <1>2, <1>3 DEF In
<1>5. Commits(t[l + 1]) /\ t[l + 1].txn = n
  BY <1>2 DEF Commit, Commits
<1>6. Settled(k, l + 1, t, keys)
  <2>1. (l + 1) - 1 = l
    BY <1>2
  <2>2. CASE k \in keys
    BY <2>2 DEF Settled
  <2>3. CASE \E x : In(x, s) /\ Provides(x, k)
    <3>1. PICK i \in DOMAIN s : Provides(s[i], k)
      BY <2>3 DEF In
    <3>. QED  BY <1>2, <2>1, <3>1 DEF Settled
  <2>. QED  BY <2>2, <2>3
<1>7. Justified(n, l + 1, t, log, keys, "cli")
  BY <1>6 DEF Justified
<1>8. \A i \in DOMAIN t : Commits(t[i]) => i = l + 1
  BY <1>4 DEF Plain, Commits
<1>9. \A i \in DOMAIN t : \/ Plain(t[i])
                          \/ /\ Commits(t[i])
                             /\ t[i].txn \in DOMAIN log /\ log[t[i].txn].state = "pending"
                             /\ Justified(t[i].txn, i, t, log, keys, "cli")
  BY <1>4, <1>5, <1>7
<1>. QED  BY <1>2, <1>8, <1>9 DEF Sound, t

LEMMA ReconcileCore ==
  ASSUME CoreInv, NEW n, NEW decision, Reconcile(n, decision)
  PROVE  CoreInv'
<1>. DEFINE s == Records("reconciliation_records", n, 0, [decision |-> decision],
                         "recovery.reconciliation_recorded",
                         "recovery.reconciliation_recorded.v1")
<1>1. /\ todo' = s \o If(decision = "accepted_existing_records", << Commit(n) >>)
      /\ n \in Txns /\ wal[n].state = "pending"
      /\ process' = "cli" /\ UNCHANGED <<wal, disk, closed, faults>>
  BY DEF Reconcile, Pending, Records
<1>2. /\ IsSeq(s) /\ \A x : In(x, s) => Plain(x)
      /\ \E x : In(x, s) /\ Provides(x, <<"reconciliation_records", n, 0>>)
  BY RecordsPlain
<1>. HIDE DEF s
<1>3. Sound(s \o << Commit(n) >>, wal, Keys, "cli")
  BY <1>1, <1>2, SoundCommitLast DEF Txns
<1>4. Sound(s \o << >>, wal, Keys, "cli")
  <2>1. IsSeq(s \o << >>) /\ \A x : In(x, s \o << >>) => Plain(x)
    BY <1>2, NoSteps, Concatenation, Members
  <2>. QED  BY <2>1, SoundPlain
<1>5. Sound(todo', wal, Keys, "cli")
  BY <1>1, <1>3, <1>4 DEF If
<1>6. Keys' = Keys /\ ClosedPeriods(disk') = ClosedPeriods(disk)
  BY <1>1 DEF Keys
<1>7. Sound(todo, wal, Keys, process)'
  BY <1>1, <1>5, <1>6
<1>8. \A i \in DOMAIN todo' : todo'[i].do \in {"put", "call", "commit"}
  BY <1>5, TodoTypes
<1>9. TypeOK'
  BY <1>1, <1>6, <1>8 DEF CoreInv, TypeOK, Txns
<1>10. CommittedComplete'
  BY <1>1, CompleteStill DEF CoreInv, Txns
<1>. QED  BY <1>1, <1>7, <1>9, <1>10 DEF CoreInv

LEMMA AdjustCore ==
  ASSUME CoreInv, NEW n, NEW c \in Corrections, Adjust(n, c)
  PROVE  CoreInv'
<1>. DEFINE q == [c EXCEPT !.source = n]
            s == Records("reconciliation_records", n, 1,
                         [decision |-> "requires_accounting_adjustment"],
                         "recovery.accounting_adjustment_resolved",
                         "recovery.reconciliation_recorded.v1")
            rest == s \o << Commit(n) >>
<1>1. /\ AwaitsAdjustment(n) /\ Enter(q, ClosedPeriods(disk), rest)
      /\ process' = "cli" /\ closed' = ClosedPeriods(disk) /\ UNCHANGED <<disk, faults>>
  BY DEF Adjust, Records
<1>2. n \in Txns /\ wal[n].state = "pending" /\ <<"reconciliation_records", n, 0>> \in Keys
  <2>1. n \in Txns /\ wal[n].state = "pending"
    BY <1>1 DEF AwaitsAdjustment, Pending
  <2>2. PICK r \in disk : r.kind = "reconciliation_records" /\ r.doc = n /\ r.n = 0
    BY <1>1 DEF AwaitsAdjustment, Of
  <2>3. Key(r) = <<"reconciliation_records", n, 0>>
    BY <2>2 DEF Key
  <2>. QED  BY <2>1, <2>3 DEF Keys
<1>3. Command(q)
  <2>1. /\ Command(c) /\ c.op = "accounting.post_journal"
        /\ DOMAIN c = Fields("accounting.post_journal")
    BY WorkflowsAssumption DEF Command
  <2>2. q.op = c.op /\ DOMAIN q = DOMAIN c /\ q.lines = c.lines
    BY <2>1 DEF Fields
  <2>. HIDE DEF q
  <2>. QED  BY <2>1, <2>2 DEF Command
<1>4. IsSeq(s) /\ \A x : In(x, s) => Plain(x)
  BY RecordsPlain
<1>. HIDE DEF s, q
<1>5. Sound(rest, wal, Keys, process')
  BY <1>1, <1>2, <1>4, SoundCommitLast DEF Txns
<1>. HIDE DEF rest
<1>. QED  BY <1>1, <1>3, <1>5, EnterCore

LEMMA NextCore == CoreInv /\ [Next]_vars => CoreInv'
<1>. SUFFICES ASSUME CoreInv, [Next]_vars PROVE CoreInv'
  OBVIOUS
<1>1. CASE StartApplication \/ Stop \/ Refused \/ StoreFails \/ Crash
  BY <1>1, InterruptCore
<1>2. CASE \E c \in Commands : Begin(c)
  BY <1>2, BeginCore
<1>3. CASE AppendRecord
  BY <1>3, AppendCore
<1>4. CASE CallOperation
  BY <1>4, CallCore
<1>5. CASE CommitTransaction
  BY <1>5, CommitCore
<1>6. CASE Recover
  BY <1>6, RecoverCore
<1>7. CASE \E n \in Txns, d \in Decisions : Reconcile(n, d)
  BY <1>7, ReconcileCore
<1>8. CASE \E n \in Txns, c \in Corrections : Adjust(n, c)
  BY <1>8, AdjustCore
<1>9. CASE UNCHANGED vars
  BY <1>9 DEF vars, CoreInv, TypeOK, CommittedComplete, Txns, Keys, Reconciled
<1>. QED  BY <1>1, <1>2, <1>3, <1>4, <1>5, <1>6, <1>7, <1>8, <1>9 DEF Next

LEMMA Core == Spec => []CoreInv
BY InitCore, NextCore, PTL DEF Spec

(* The process that runs knows no period to be closed that is not closed   *)
(* on disk, and no step is left when no process runs.                      *)
THEOREM TypeCorrect == Spec => []TypeOK
<1>1. CoreInv => TypeOK
  BY DEF CoreInv
<1>. QED  BY <1>1, Core, PTL

(* Whatever the faults, a committed transaction that no administrator      *)
(* accepted has all the records its operation owes, nested ones included.  *)
THEOREM CompleteWhenCommitted == Spec => []CommittedComplete
<1>1. CoreInv => CommittedComplete
  BY DEF CoreInv
<1>. QED  BY <1>1, Core, PTL

-----------------------------------------------------------------------------
(* The services use the log as TxnLog allows.                              *)

Shown == 1..(MaxTxns + 4)

LEMMA StatusOf ==
  /\ LogStatus = [n \in Shown |-> IF n \in Txns THEN wal[n].state ELSE "absent"]
  /\ LogStatus' = [n \in Shown |-> IF n \in Txns' THEN wal'[n].state ELSE "absent"]
BY DEF LogStatus, Shown

LEMMA EnterLog ==
  ASSUME CoreInv, NEW c, NEW known, NEW rest, Enter(c, known, rest)
  PROVE  [Log!Next]_LogStatus
<1>. DEFINE n == Len(wal) + 1
<1>1. wal' = Append(wal, [cmd |-> c, state |-> "pending"])
  BY DEF Enter
<1>2. /\ DOMAIN wal' = DOMAIN wal \cup {n} /\ n \notin DOMAIN wal
      /\ \A m \in DOMAIN wal : wal'[m] = wal[m]
      /\ wal'[n].state = "pending"
  BY <1>1, LogAppend DEF CoreInv
<1>. HIDE DEF n
<1>3. CASE n \in Shown
  <2>1. LogStatus[n] = "absent"
    BY <1>2, <1>3, StatusOf DEF Txns
  <2>2. LogStatus' = [LogStatus EXCEPT ![n] = "pending"]
    BY <1>2, <1>3, StatusOf DEF Txns
  <2>3. Log!Begin(n)
    BY <2>1, <2>2 DEF Log!Begin
  <2>. QED  BY <1>3, <2>3 DEF Log!Next, Shown
<1>4. CASE n \notin Shown
  BY <1>2, <1>4, StatusOf DEF Txns
<1>. QED  BY <1>3, <1>4

LEMMA CommitLog ==
  ASSUME CoreInv, CommitTransaction
  PROVE  [Log!Next]_LogStatus
<1>. DEFINE x == Head(todo)
            n == x.txn
<1>1. todo # << >> /\ Commits(x) /\ wal' = [wal EXCEPT ![n].state = "committed"]
  BY DEF CommitTransaction, Doing, Commits
<1>2. 1 \in DOMAIN todo /\ x = todo[1]
  <2>1. todo \in Seq(Range(todo))
    BY DEF CoreInv, Sound, IsSeq
  <2>. QED  BY <1>1, <2>1
<1>3. n \in DOMAIN wal /\ wal[n].state = "pending"
  BY <1>1, <1>2 DEF CoreInv, Sound, Plain, Commits
<1>4. /\ DOMAIN wal' = DOMAIN wal
      /\ wal'[n] = [wal[n] EXCEPT !.state = "committed"]
      /\ \A m \in DOMAIN wal : m # n => wal'[m] = wal[m]
  BY <1>1, <1>3
<1>5. wal'[n].state = "committed"
  BY <1>3, <1>4, LogFacts DEF CoreInv
<1>. HIDE DEF n, x
<1>6. CASE n \in Shown
  <2>1. LogStatus[n] = "pending"
    BY <1>3, <1>6, StatusOf DEF Txns
  <2>2. LogStatus' = [LogStatus EXCEPT ![n] = "committed"]
    BY <1>3, <1>4, <1>5, <1>6, StatusOf DEF Txns
  <2>3. Log!Commit(n)
    BY <2>1, <2>2 DEF Log!Commit
  <2>. QED  BY <1>6, <2>3 DEF Log!Next, Shown
<1>7. CASE n \notin Shown
  BY <1>4, <1>7, StatusOf DEF Txns
<1>. QED  BY <1>6, <1>7

LEMMA RecoverLog ==
  ASSUME CoreInv, Recover
  PROVE  [Log!Next]_LogStatus
<1>1. wal' = [n \in Txns |-> IF n \in Pending THEN [wal[n] EXCEPT !.state = "rolledback"]
                                              ELSE wal[n]]
  BY DEF Recover
<1>2. /\ Txns' = Txns
      /\ \A n \in Txns : wal'[n].state = IF wal[n].state = "pending" THEN "rolledback"
                                                                      ELSE wal[n].state
  <2>1. Txns' = Txns
    BY <1>1 DEF Txns
  <2>2. \A n \in Txns : wal'[n].state = IF wal[n].state = "pending" THEN "rolledback"
                                                                      ELSE wal[n].state
    BY <1>1, LogFacts DEF CoreInv, Pending, Txns
  <2>. QED  BY <2>1, <2>2
<1>3. LogStatus' = [n \in Shown |-> IF LogStatus[n] = "pending" THEN "rolledback"
                                                                ELSE LogStatus[n]]
  <2>. SUFFICES ASSUME NEW n \in Shown
                PROVE  LogStatus'[n] = IF LogStatus[n] = "pending" THEN "rolledback"
                                                                   ELSE LogStatus[n]
    BY StatusOf
  <2>1. CASE n \in Txns
    BY <1>2, <2>1, StatusOf
  <2>2. CASE n \notin Txns
    BY <1>2, <2>2, StatusOf
  <2>. QED  BY <2>1, <2>2
<1>4. CASE \E n \in Shown : LogStatus[n] = "pending"
  BY <1>3, <1>4 DEF Log!Next, Log!RollbackPending, Shown
<1>5. CASE ~\E n \in Shown : LogStatus[n] = "pending"
  BY <1>3, <1>5, StatusOf
<1>. QED  BY <1>4, <1>5

LEMMA StepLog == CoreInv /\ [Next]_vars => [Log!Next]_LogStatus
<1>. SUFFICES ASSUME CoreInv, [Next]_vars PROVE [Log!Next]_LogStatus
  OBVIOUS
<1>1. CASE UNCHANGED wal
  BY <1>1 DEF LogStatus, Txns
<1>2. ASSUME NEW c, NEW known, NEW rest, Enter(c, known, rest)
      PROVE  [Log!Next]_LogStatus
  BY <1>2, EnterLog
<1>3. CASE \E c \in Commands : Begin(c)
  BY <1>2, <1>3 DEF Begin
<1>4. CASE CallOperation
  BY <1>2, <1>4 DEF CallOperation
<1>5. CASE \E n \in Txns, c \in Corrections : Adjust(n, c)
  BY <1>2, <1>5 DEF Adjust
<1>6. CASE CommitTransaction
  BY <1>6, CommitLog
<1>7. CASE Recover
  BY <1>7, RecoverLog
<1>8. CASE \/ StartApplication \/ Stop \/ AppendRecord \/ Refused \/ StoreFails \/ Crash
           \/ \E n \in Txns, d \in Decisions : Reconcile(n, d)
  BY <1>1, <1>8 DEF StartApplication, Stop, AppendRecord, Refused, StoreFails, Crash,
                    Abandon, Reconcile
<1>9. CASE UNCHANGED vars
  BY <1>1, <1>9 DEF vars
<1>. QED  BY <1>3, <1>4, <1>5, <1>6, <1>7, <1>8, <1>9 DEF Next

(* No transaction is committed twice or after it was rolled back, and      *)
(* recovery rolls back all that are pending or none.                       *)
THEOREM Refinement == Spec => LogRefinement
<1>1. Init => Log!Init
  <2>. SUFFICES ASSUME Init PROVE Log!Init
    OBVIOUS
  <2>1. Txns = {}
    BY DEF Init, Txns
  <2>. QED  BY <2>1 DEF Log!Init, LogStatus
<1>. QED  BY <1>1, Core, StepLog, PTL DEF Spec, LogRefinement, Log!Spec

-----------------------------------------------------------------------------
(* Automatic rollback leaves no record behind.  Every record, and every    *)
(* record still to be written, is owed by a transaction that is committed, *)
(* or pending and marked: recovery finds a record of it by then.           *)

Live == {"pending", "committed"}

Backed(i, s, log, keys) ==
  \E n \in DOMAIN log :
    /\ log[n].state \in Live /\ Key(s[i].rec) \in Owed(log[n].cmd)
    /\ \E k \in Owed(log[n].cmd) : Marks(k, log[n].cmd) /\ Settled(k, i + 1, s, keys)

Covering(s, log, keys) ==
  \A i \in DOMAIN s :
    s[i].do = "put" => s[i].rec.doc \in DOMAIN log \/ Backed(i, s, log, keys)

CoveredDisk ==
  \A r \in disk : r.doc \notin Txns =>
    \E n \in Txns :
      /\ Key(r) \in Owed(wal[n].cmd)
      /\ \/ wal[n].state = "committed"
         \/ wal[n].state = "pending" /\ SideEffects(wal[n].cmd, disk) # {}

CoverInv == CoreInv /\ Covering(todo, wal, Keys) /\ CoveredDisk

LEMMA MarkedEffects ==
  ASSUME NEW c, NEW d, NEW k \in {Key(r) : r \in d}, Marks(k, c)
  PROVE  SideEffects(c, d) # {}
<1>1. PICK r \in d : k = Key(r)
  OBVIOUS
<1>2. k[1] = r.kind /\ k[2] = r.doc /\ k[3] = r.n
  BY <1>1 DEF Key
<1>3. r \in SideEffects(c, d)
  BY <1>2 DEF SideEffects, Marks
<1>. QED  BY <1>3

LEMMA CoverTail ==
  ASSUME NEW s, NEW log, NEW keys, NEW more, IsSeq(s), s # << >>, keys \subseteq more,
         \A k : Provides(Head(s), k) => k \in more,
         Covering(s, log, keys)
  PROVE  Covering(Tail(s), log, more)
<1>. DEFINE t == Tail(s)
<1>1. /\ Len(s) \in Nat /\ DOMAIN s = 1..Len(s) /\ DOMAIN t = 1..Len(s) - 1
      /\ \A i \in DOMAIN t : i + 1 \in DOMAIN s /\ t[i] = s[i + 1]
  BY TailFacts
<1>2. ASSUME NEW i \in DOMAIN t, NEW k, Settled(k, (i + 1) + 1, s, keys)
      PROVE  Settled(k, i + 1, t, more)
  <2>1. i + 1 \in 1..Len(s)
    BY <1>1
  <2>. QED  BY <1>2, <2>1, SettledTail
<1>. HIDE DEF t
<1>3. ASSUME NEW i \in DOMAIN t, t[i].do = "put", t[i].rec.doc \notin DOMAIN log
      PROVE  Backed(i, t, log, more)
  <2>1. Backed(i + 1, s, log, keys)
    BY <1>1, <1>3 DEF Covering
  <2>. QED  BY <1>1, <1>2, <2>1 DEF Backed
<1>. QED  BY <1>3 DEF Covering, t

LEMMA CoverLog ==
  ASSUME NEW s, NEW log, NEW new, NEW keys, Covering(s, log, keys),
         DOMAIN log \subseteq DOMAIN new,
         \A n \in DOMAIN log : /\ new[n].cmd = log[n].cmd
                               /\ log[n].state \in Live => new[n].state \in Live
  PROVE  Covering(s, new, keys)
<1>1. ASSUME NEW i \in DOMAIN s, Backed(i, s, log, keys)
      PROVE  Backed(i, s, new, keys)
  BY <1>1 DEF Backed
<1>. QED  BY <1>1 DEF Covering

LEMMA CoverEnter ==
  ASSUME NEW c, NEW d, NEW rest, NEW log, NEW keys, NEW more,
         Command(c), c.op # "accounting.close_period", LogOK(log), IsSeq(rest),
         Covering(rest, log, more), more \subseteq keys \cup Owed(c)
  PROVE  Covering(Piece(c, d, Len(log) + 1) \o rest,
                  Append(log, [cmd |-> c, state |-> "pending"]), keys)
<1>. DEFINE n == Len(log) + 1
            new == Append(log, [cmd |-> c, state |-> "pending"])
            p == Piece(c, d, n)
            t == p \o rest
<1>1. /\ Len(Steps(c, d)) \in Nat /\ Len(Steps(c, d)) < Len(p) /\ Len(Steps(c, d)) >= 1
      /\ \A i \in DOMAIN p : p[i].do = "put" => Key(p[i].rec) \in Owed(c)
      /\ \E k \in Owed(c) : Marks(k, c) /\ Provides(p[1], k)
  BY PieceFacts
<1>2. /\ DOMAIN new = DOMAIN log \cup {n}
      /\ \A m \in DOMAIN log : new[m] = log[m]
      /\ new[n].cmd = c /\ new[n].state = "pending"
  BY LogAppend
<1>3. /\ Len(p) \in Nat /\ DOMAIN p = 1..Len(p) /\ Len(rest) \in Nat
      /\ DOMAIN rest = 1..Len(rest) /\ DOMAIN t = 1..Len(p) + Len(rest)
      /\ \A i \in DOMAIN p : t[i] = p[i]
      /\ \A i \in DOMAIN t : i \notin DOMAIN p =>
           LET j == i - Len(p) IN j \in DOMAIN rest /\ t[i] = rest[j] /\ i = Len(p) + j
  <2>. HIDE DEF n
  <2>. QED  BY PieceBefore
<1>4. ASSUME NEW i \in DOMAIN rest, NEW k, Settled(k, i + 1, rest, more)
      PROVE  Settled(k, Len(p) + (i + 1), t, keys)
  <2>1. i + 1 \in 1..Len(rest) + 1
    BY <1>3
  <2>. QED  BY <1>4, <2>1, SettledBefore
<1>5. ASSUME NEW i \in DOMAIN p, p[i].do = "put"
      PROVE  Backed(i, t, new, keys)
  <2>1. PICK k \in Owed(c) : Marks(k, c) /\ Provides(p[1], k)
    BY <1>1
  <2>. HIDE DEF n, new, p, t
  <2>2. 1 \in DOMAIN p /\ 1 \in 1..(i + 1) - 1
    BY <1>1, <1>3
  <2>3. Settled(k, i + 1, t, keys)
    BY <1>3, <2>1, <2>2 DEF Settled
  <2>4. n \in DOMAIN new /\ new[n].state \in Live /\ new[n].cmd = c
    BY <1>2 DEF Live
  <2>5. Key(t[i].rec) \in Owed(c)
    BY <1>1, <1>3, <1>5
  <2>. QED  BY <2>1, <2>3, <2>4, <2>5 DEF Backed
<1>. HIDE DEF n, new, p, t
<1>6. ASSUME NEW i \in DOMAIN t, t[i].do = "put", i \notin DOMAIN p,
             t[i].rec.doc \notin DOMAIN new
      PROVE  Backed(i, t, new, keys)
  <2>1. PICK j \in DOMAIN rest : t[i] = rest[j] /\ i = Len(p) + j
    BY <1>3, <1>6
  <2>2. Backed(j, rest, log, more)
    BY <1>2, <1>6, <2>1 DEF Covering
  <2>3. Len(p) + (j + 1) = i + 1
    BY <1>3, <2>1
  <2>4. PICK m \in DOMAIN log :
          /\ log[m].state \in Live /\ Key(rest[j].rec) \in Owed(log[m].cmd)
          /\ \E k \in Owed(log[m].cmd) : Marks(k, log[m].cmd) /\ Settled(k, j + 1, rest, more)
    BY <2>2 DEF Backed
  <2>5. \E k \in Owed(log[m].cmd) : Marks(k, log[m].cmd) /\ Settled(k, i + 1, t, keys)
    BY <1>4, <2>3, <2>4
  <2>6. m \in DOMAIN new /\ new[m] = log[m]
    BY <1>2
  <2>. QED  BY <2>1, <2>4, <2>5, <2>6 DEF Backed
<1>7. ASSUME NEW i \in DOMAIN t, t[i].do = "put", t[i].rec.doc \notin DOMAIN new
      PROVE  Backed(i, t, new, keys)
  BY <1>3, <1>5, <1>6, <1>7
<1>. QED  BY <1>7 DEF Covering, t, p, new, n

(* What was covered stays so while no transaction is rolled back.          *)
LEMMA CoveredStill ==
  ASSUME CoveredDisk, disk \subseteq disk', Txns \subseteq Txns',
         \A n \in Txns : /\ wal'[n].cmd = wal[n].cmd
                         /\ wal[n].state \in Live => wal'[n].state \in Live
                         /\ wal[n].state = "committed" => wal'[n].state = "committed",
         NEW r \in disk, r.doc \notin Txns'
  PROVE  \E n \in Txns' :
           /\ Key(r) \in Owed(wal'[n].cmd)
           /\ \/ wal'[n].state = "committed"
              \/ wal'[n].state = "pending" /\ SideEffects(wal'[n].cmd, disk') # {}
<1>1. PICK n \in Txns :
        /\ Key(r) \in Owed(wal[n].cmd)
        /\ \/ wal[n].state = "committed"
           \/ wal[n].state = "pending" /\ SideEffects(wal[n].cmd, disk) # {}
  BY DEF CoveredDisk
<1>2. SideEffects(wal[n].cmd, disk) \subseteq SideEffects(wal[n].cmd, disk')
  BY DEF SideEffects
<1>3. wal'[n].cmd = wal[n].cmd /\ n \in Txns'
  OBVIOUS
<1>4. wal[n].state = "pending" => wal'[n].state \in {"pending", "committed"}
  BY DEF Live
<1>. QED  BY <1>1, <1>2, <1>3, <1>4

LEMMA EnterCover ==
  ASSUME CoverInv, NEW c, NEW known, NEW rest, NEW more,
         Command(c), c.op # "accounting.close_period", Enter(c, known, rest),
         IsSeq(rest), Covering(rest, wal, more), more \subseteq Keys \cup Owed(c),
         UNCHANGED disk
  PROVE  Covering(todo, wal, Keys)' /\ CoveredDisk'
<1>. DEFINE n == Len(wal) + 1
            new == [cmd |-> c, state |-> "pending"]
<1>1. wal' = Append(wal, new) /\ todo' = Piece(c, disk, n) \o rest
  BY DEF Enter, Piece
<1>2. /\ DOMAIN wal' = DOMAIN wal \cup {n}
      /\ \A m \in DOMAIN wal : wal'[m] = wal[m]
  BY <1>1, LogAppend DEF CoverInv, CoreInv
<1>3. Keys' = Keys
  BY DEF Keys
<1>4. Covering(todo', wal', Keys)
  BY <1>1, CoverEnter DEF CoverInv, CoreInv
<1>5. CoveredDisk'
  <2>1. /\ Txns \subseteq Txns'
        /\ \A m \in Txns : wal'[m].cmd = wal[m].cmd /\ wal'[m].state = wal[m].state
    BY <1>2 DEF Txns
  <2>. QED  BY <2>1, CoveredStill DEF CoverInv, CoveredDisk
<1>. QED  BY <1>3, <1>4, <1>5

LEMMA CallCover ==
  ASSUME CoverInv, CallOperation
  PROVE  Covering(todo, wal, Keys)' /\ CoveredDisk'
<1>. DEFINE x == Head(todo)
            c == Priced(x.cmd, disk)
            more == Keys \cup Owed(c)
<1>1. /\ todo # << >> /\ x.do = "call" /\ Enter(c, closed, Tail(todo)) /\ UNCHANGED disk
  BY DEF CallOperation, Doing
<1>2. IsSeq(todo) /\ 1 \in DOMAIN todo /\ x = todo[1] /\ IsSeq(Tail(todo))
  BY <1>1, TailFacts DEF CoverInv, CoreInv, Sound
<1>3. Command(x.cmd) /\ x.cmd.op # "accounting.close_period"
  BY <1>1, <1>2 DEF CoverInv, CoreInv, Sound, Plain, Commits
<1>4. Command(c) /\ Owed(c) = Owed(x.cmd) /\ c.op # "accounting.close_period"
  BY <1>3, PricedOwes
<1>5. \A k : Provides(x, k) => k \in more
  BY <1>1, <1>4 DEF Provides
<1>. HIDE DEF c
<1>6. Covering(Tail(todo), wal, more)
  BY <1>1, <1>2, <1>5, CoverTail DEF CoverInv
<1>. QED  BY <1>1, <1>2, <1>4, <1>6, EnterCover

LEMMA AppendCover ==
  ASSUME CoverInv, AppendRecord
  PROVE  Covering(todo, wal, Keys)' /\ CoveredDisk'
<1>. DEFINE x == Head(todo)
<1>1. /\ todo # << >> /\ x.do = "put" /\ disk' = disk \cup {x.rec}
      /\ todo' = Tail(todo) /\ UNCHANGED wal
  BY DEF AppendRecord, Doing, Leave
<1>2. IsSeq(todo) /\ 1 \in DOMAIN todo /\ x = todo[1]
  BY <1>1, TailFacts DEF CoverInv, CoreInv, Sound
<1>3. Keys' = Keys \cup {Key(x.rec)}
  BY <1>1 DEF Keys
<1>. HIDE DEF x
<1>4. \A k : Provides(x, k) => k \in Keys'
  BY <1>1, <1>3 DEF Provides
<1>5. Covering(todo', wal', Keys')
  BY <1>1, <1>2, <1>3, <1>4, CoverTail DEF CoverInv, x
<1>6. ASSUME x.rec.doc \notin Txns
      PROVE  \E n \in Txns :
               /\ Key(x.rec) \in Owed(wal[n].cmd)
               /\ \/ wal[n].state = "committed"
                  \/ wal[n].state = "pending" /\ SideEffects(wal[n].cmd, disk') # {}
  <2>1. Backed(1, todo, wal, Keys)
    BY <1>1, <1>2, <1>6 DEF CoverInv, Covering, Txns
  <2>2. PICK n \in Txns :
          /\ wal[n].state \in Live /\ Key(x.rec) \in Owed(wal[n].cmd)
          /\ \E k \in Owed(wal[n].cmd) :
               Marks(k, wal[n].cmd) /\ Settled(k, 1 + 1, todo, Keys)
    BY <1>2, <2>1 DEF Backed, Txns
  <2>3. PICK k : Marks(k, wal[n].cmd) /\ Settled(k, 1 + 1, todo, Keys)
    BY <2>2
  <2>4. k \in Keys \/ Provides(x, k)
    BY <1>2, <2>3 DEF Settled
  <2>5. k \in {Key(r) : r \in disk'}
    BY <1>3, <1>4, <2>4 DEF Keys
  <2>6. SideEffects(wal[n].cmd, disk') # {}
    BY <2>3, <2>5, MarkedEffects
  <2>. QED  BY <2>2, <2>6 DEF Live
<1>7. CoveredDisk'
  <2>1. Txns' = Txns
    BY <1>1 DEF Txns
  <2>2. ASSUME NEW r \in disk', r.doc \notin Txns'
        PROVE  \E n \in Txns' :
                 /\ Key(r) \in Owed(wal'[n].cmd)
                 /\ \/ wal'[n].state = "committed"
                    \/ wal'[n].state = "pending" /\ SideEffects(wal'[n].cmd, disk') # {}
    <3>1. CASE r = x.rec
      BY <1>1, <1>6, <2>1, <2>2, <3>1
    <3>2. CASE r \in disk
      BY <1>1, <2>1, <2>2, <3>2, CoveredStill DEF CoverInv
    <3>. QED  BY <1>1, <3>1, <3>2
  <2>. QED  BY <2>2 DEF CoveredDisk
<1>. QED  BY <1>5, <1>7

LEMMA CommitCover ==
  ASSUME CoverInv, CommitTransaction
  PROVE  Covering(todo, wal, Keys)' /\ CoveredDisk'
<1>. DEFINE x == Head(todo)
            n == x.txn
<1>1. /\ todo # << >> /\ x.do = "commit"
      /\ wal' = [wal EXCEPT ![n].state = "committed"]
      /\ todo' = Tail(todo) /\ UNCHANGED disk
  BY DEF CommitTransaction, Doing, Leave
<1>2. IsSeq(todo) /\ 1 \in DOMAIN todo /\ x = todo[1]
  BY <1>1, TailFacts DEF CoverInv, CoreInv, Sound
<1>3. n \in DOMAIN wal /\ wal[n].state = "pending"
  BY <1>1, <1>2 DEF CoverInv, CoreInv, Sound, Plain, Commits
<1>4. /\ DOMAIN wal' = DOMAIN wal
      /\ wal'[n] = [wal[n] EXCEPT !.state = "committed"]
      /\ \A m \in DOMAIN wal : m # n => wal'[m] = wal[m]
  BY <1>1, <1>3
<1>5. wal'[n].state = "committed" /\ wal'[n].cmd = wal[n].cmd
  BY <1>3, <1>4, LogFacts DEF CoverInv, CoreInv
<1>6. Keys' = Keys
  BY <1>1 DEF Keys
<1>7. \A k : ~Provides(x, k)
  BY <1>1 DEF Provides
<1>. HIDE DEF n
<1>8. \A m \in DOMAIN wal : /\ wal'[m].cmd = wal[m].cmd
                            /\ wal[m].state \in Live => wal'[m].state \in Live
                            /\ wal[m].state = "committed" => wal'[m].state = "committed"
  BY <1>4, <1>5 DEF Live
<1>9. Covering(Tail(todo), wal, Keys)
  BY <1>1, <1>2, <1>7, CoverTail DEF CoverInv
<1>10. Covering(todo, wal, Keys)'
  <2>. DEFINE t == Tail(todo)
  <2>1. DOMAIN wal \subseteq DOMAIN wal' /\ Covering(t, wal, Keys)
    BY <1>4, <1>9
  <2>. HIDE DEF t
  <2>2. Covering(t, wal', Keys)
    BY <1>8, <2>1, CoverLog
  <2>. QED  BY <1>1, <1>6, <2>2 DEF t
<1>11. CoveredDisk'
  BY <1>1, <1>4, <1>8, CoveredStill DEF CoverInv, CoveredDisk, Txns
<1>. QED  BY <1>10, <1>11

LEMMA RecoverCover ==
  ASSUME CoverInv, Recover
  PROVE  Covering(todo, wal, Keys)' /\ CoveredDisk'
<1>1. /\ todo' = << >> /\ UNCHANGED disk /\ UnsafePending = {}
      /\ wal' = [n \in Txns |-> IF n \in Pending THEN [wal[n] EXCEPT !.state = "rolledback"]
                                                 ELSE wal[n]]
  BY DEF Recover, CoverInv, CoreInv, TypeOK
<1>2. Covering(todo, wal, Keys)'
  BY <1>1 DEF Covering
<1>3. Txns' = Txns
  BY <1>1 DEF Txns
<1>4. ASSUME NEW r \in disk, r.doc \notin Txns
      PROVE  \E n \in Txns : Key(r) \in Owed(wal'[n].cmd) /\ wal'[n].state = "committed"
  <2>1. PICK n \in Txns :
          /\ Key(r) \in Owed(wal[n].cmd)
          /\ \/ wal[n].state = "committed"
             \/ wal[n].state = "pending" /\ SideEffects(wal[n].cmd, disk) # {}
    BY <1>4 DEF CoverInv, CoveredDisk
  <2>2. wal[n].state # "pending"
    BY <1>1, <2>1 DEF UnsafePending, Pending
  <2>. QED  BY <1>1, <2>1, <2>2 DEF Pending
<1>5. CoveredDisk'
  BY <1>1, <1>3, <1>4 DEF CoveredDisk
<1>. QED  BY <1>2, <1>5

LEMMA ReconcileCover ==
  ASSUME CoverInv, NEW n, NEW decision, Reconcile(n, decision)
  PROVE  Covering(todo, wal, Keys)' /\ CoveredDisk'
<1>. DEFINE s == Records("reconciliation_records", n, 0, [decision |-> decision],
                         "recovery.reconciliation_recorded",
                         "recovery.reconciliation_recorded.v1")
            e == If(decision = "accepted_existing_records", << Commit(n) >>)
<1>1. todo' = s \o e /\ n \in Txns /\ UNCHANGED <<wal, disk>>
  BY DEF Reconcile, Pending, Records
<1>2. /\ IsSeq(s) /\ \A x : In(x, s) => Plain(x) /\ x.do = "put" /\ x.rec.doc = n
      /\ \E x : In(x, s) /\ Provides(x, <<"reconciliation_records", n, 0>>)
  BY RecordsPlain
<1>3. IsSeq(e) /\ \A x : In(x, e) => x.do = "commit"
  BY OneStep, NoSteps DEF If, Commit
<1>. HIDE DEF s, e
<1>4. \A x : In(x, todo') => x.do = "commit" \/ x.rec.doc = n
  BY <1>1, <1>2, <1>3, Members
<1>5. Covering(todo, wal, Keys)'
  BY <1>1, <1>4 DEF Covering, In, Txns
<1>6. CoveredDisk'
  BY <1>1 DEF CoverInv, CoveredDisk, Txns
<1>. QED  BY <1>5, <1>6

LEMMA AdjustCover ==
  ASSUME CoverInv, NEW n, NEW c \in Corrections, Adjust(n, c)
  PROVE  Covering(todo, wal, Keys)' /\ CoveredDisk'
<1>. DEFINE q == [c EXCEPT !.source = n]
            s == Records("reconciliation_records", n, 1,
                         [decision |-> "requires_accounting_adjustment"],
                         "recovery.accounting_adjustment_resolved",
                         "recovery.reconciliation_recorded.v1")
            rest == s \o << Commit(n) >>
<1>1. /\ n \in Txns /\ Enter(q, ClosedPeriods(disk), rest) /\ UNCHANGED disk
  BY DEF Adjust, AwaitsAdjustment, Pending, Records
<1>2. Command(q) /\ q.op # "accounting.close_period"
  <2>1. /\ Command(c) /\ c.op = "accounting.post_journal"
        /\ DOMAIN c = Fields("accounting.post_journal")
    BY WorkflowsAssumption DEF Command
  <2>2. q.op = c.op /\ DOMAIN q = DOMAIN c /\ q.lines = c.lines
    BY <2>1 DEF Fields
  <2>. HIDE DEF q
  <2>. QED  BY <2>1, <2>2 DEF Command
<1>3. /\ IsSeq(s) /\ \A x : In(x, s) => Plain(x) /\ x.do = "put" /\ x.rec.doc = n
      /\ \E x : In(x, s) /\ Provides(x, <<"reconciliation_records", n, 1>>)
  BY RecordsPlain
<1>4. Commit(n).do = "commit"
  BY DEF Commit
<1>. HIDE DEF s, q
<1>5. IsSeq(rest) /\ \A x : In(x, rest) => x.do = "commit" \/ x.rec.doc = n
  BY <1>3, <1>4, OneStep, Concatenation, Members
<1>. HIDE DEF rest
<1>6. Covering(rest, wal, Keys)
  BY <1>1, <1>5 DEF Covering, In, Txns
<1>. QED  BY <1>1, <1>2, <1>5, <1>6, EnterCover

LEMMA NextCover ==
  ASSUME \A c \in Commands : c.op # "accounting.close_period", CoverInv, [Next]_vars
  PROVE  CoverInv'
<1>. SUFFICES Covering(todo, wal, Keys)' /\ CoveredDisk'
  BY NextCore DEF CoverInv
<1>1. CASE StartApplication \/ Stop \/ Refused \/ StoreFails \/ Crash
  <2>1. UNCHANGED <<wal, disk>>
    BY <1>1 DEF StartApplication, Stop, Refused, StoreFails, Crash, Abandon
  <2>2. todo' = << >> \/ todo' = todo
    BY <1>1 DEF StartApplication, Stop, Refused, StoreFails, Crash, Abandon
  <2>3. Covering(<< >>, wal, Keys)
    BY DEF Covering
  <2>4. Keys' = Keys
    BY <2>1 DEF Keys
  <2>5. Covering(todo, wal, Keys)'
    BY <2>1, <2>2, <2>3, <2>4 DEF CoverInv
  <2>6. CoveredDisk'
    BY <2>1 DEF CoverInv, CoveredDisk, Txns
  <2>. QED  BY <2>5, <2>6
<1>2. CASE \E c \in Commands : Begin(c)
  <2>1. PICK c \in Commands : Begin(c)
    BY <1>2
  <2>2. Enter(c, closed, << >>) /\ UNCHANGED disk
    BY <2>1 DEF Begin
  <2>3. Covering(<< >>, wal, Keys) /\ IsSeq(<< >>)
    BY NoSteps DEF Covering
  <2>4. Command(c)
    BY WorkflowsAssumption
  <2>. QED  BY <2>2, <2>3, <2>4, EnterCover
<1>3. CASE AppendRecord
  BY <1>3, AppendCover
<1>4. CASE CallOperation
  BY <1>4, CallCover
<1>5. CASE CommitTransaction
  BY <1>5, CommitCover
<1>6. CASE Recover
  BY <1>6, RecoverCover
<1>7. CASE \E n \in Txns, d \in Decisions : Reconcile(n, d)
  BY <1>7, ReconcileCover
<1>8. CASE \E n \in Txns, c \in Corrections : Adjust(n, c)
  BY <1>8, AdjustCover
<1>9. CASE UNCHANGED vars
  BY <1>9 DEF vars, CoverInv, Covering, Backed, CoveredDisk, Txns, Keys
<1>. QED  BY <1>1, <1>2, <1>3, <1>4, <1>5, <1>6, <1>7, <1>8, <1>9 DEF Next

(* Where no period is closed, a clean log means that every record in every *)
(* file is owed by a committed transaction, whatever was interrupted and   *)
(* rolled back.  (Recovery does not look for the records of a close.)      *)
THEOREM HealthyIsCovered ==
  ASSUME \A c \in Commands : c.op # "accounting.close_period"
  PROVE  Spec => []HealthyMeansCovered
<1>1. Init => CoverInv
  <2>. SUFFICES ASSUME Init PROVE CoverInv
    OBVIOUS
  <2>1. Covering(todo, wal, Keys) /\ CoveredDisk
    BY DEF Init, Covering, CoveredDisk
  <2>. QED  BY <2>1, InitCore DEF CoverInv
<1>2. CoverInv /\ [Next]_vars => CoverInv'
  BY NextCover
<1>3. CoverInv => HealthyMeansCovered
  BY DEF CoverInv, CoveredDisk, HealthyMeansCovered, Pending
<1>. QED  BY <1>1, <1>2, <1>3, PTL DEF Spec

-----------------------------------------------------------------------------
(* The header comes before every other record of a document.               *)

Leads(h, s) ==
  /\ IsSeq(s) /\ In(h, s)
  /\ \A i \in DOMAIN s : s[i].do = "put" => \E j \in 1..i : s[j] = h

LEMMA LeadsEnd ==
  ASSUME NEW s, NEW h, IsSeq(s), \A x : In(x, s) => x.do # "put"
  PROVE  Leads(h, s \o << h >>)
<1>. DEFINE t == s \o << h >>
<1>1. IsSeq(<< h >>) /\ DOMAIN << h >> = {1} /\ << h >>[1] = h
  BY OneStep
<1>2. /\ IsSeq(t) /\ Len(s) \in Nat /\ DOMAIN s = 1..Len(s)
      /\ \A i \in DOMAIN s : t[i] = s[i]
      /\ \A i \in DOMAIN t : i \notin DOMAIN s => i - Len(s) \in {1} /\ t[i] = h
      /\ DOMAIN t = 1..Len(s) + 1
  BY <1>1, Concatenation, Len(<< h >>) = 1
<1>3. In(h, t)
  BY <1>1, OneStep, Members
<1>. HIDE DEF t
<1>4. ASSUME NEW i \in DOMAIN t, t[i].do = "put"
      PROVE  \E j \in 1..i : t[j] = h
  <2>1. i \notin DOMAIN s
    BY <1>2, <1>4 DEF In
  <2>2. t[i] = h /\ i \in 1..i
    BY <1>2, <2>1
  <2>. QED  BY <2>2
<1>. QED  BY <1>2, <1>3, <1>4 DEF Leads, t

LEMMA LeadsStill ==
  ASSUME NEW s, NEW t, NEW h, Leads(h, s), IsSeq(t)
  PROVE  Leads(h, s \o t)
<1>. DEFINE u == s \o t
<1>1. /\ IsSeq(u) /\ Len(s) \in Nat /\ DOMAIN s = 1..Len(s)
      /\ \A i \in DOMAIN s : u[i] = s[i]
      /\ Len(t) \in Nat /\ DOMAIN u = 1..Len(s) + Len(t)
  BY Concatenation DEF Leads
<1>2. PICK k \in DOMAIN s : s[k] = h
  BY DEF Leads, In
<1>. HIDE DEF u
<1>3. u[k] = h /\ k \in DOMAIN u
  BY <1>1, <1>2
<1>4. ASSUME NEW i \in DOMAIN u, u[i].do = "put"
      PROVE  \E j \in 1..i : u[j] = h
  <2>1. CASE i \in DOMAIN s
    <3>1. PICK j \in 1..i : s[j] = h
      BY <1>1, <1>4, <2>1 DEF Leads
    <3>2. j \in DOMAIN s
      BY <1>1, <2>1
    <3>. QED  BY <1>1, <3>1, <3>2
  <2>2. CASE i \notin DOMAIN s
    BY <1>1, <1>2, <1>3, <2>2
  <2>. QED  BY <2>1, <2>2
<1>. QED  BY <1>1, <1>3, <1>4 DEF Leads, In, u

(* No other record of a document is of the header's kind.                  *)
LEMMA DocumentLed ==
  ASSUME NEW j, NEW m, NEW h, NEW f, NEW b, NEW e, IsSeq(m), IsSeq(f),
         \A x : In(x, m) => x.do = "call",
         \A x : In(x, f) \/ x \in {b, e} => x.rec.kind # h.rec.kind
  PROVE  LET s == << Call(j) >> \o m \o << h >> \o f \o << b, e >> IN
         /\ Leads(h, s)
         /\ \A x : In(x, s) /\ x.do = "put" /\ x.rec.kind = h.rec.kind => x = h
<1>. DEFINE a == Call(j)
            s1 == << a >> \o m
            s2 == s1 \o << h >>
            s3 == s2 \o f
            s  == s3 \o << b, e >>
<1>1. a.do = "call"
  BY DEF Call
<1>. HIDE DEF a
<1>2. IsSeq(s1) /\ \A x : In(x, s1) => x.do = "call"
  BY <1>1, OneStep, Concatenation, Members
<1>. HIDE DEF s1
<1>3. Leads(h, s2) /\ IsSeq(s2) /\ \A x : In(x, s2) => x.do = "call" \/ x = h
  BY <1>2, OneStep, Concatenation, Members, LeadsEnd
<1>. HIDE DEF s2
<1>4. /\ Leads(h, s3) /\ IsSeq(s3)
      /\ \A x : In(x, s3) => x.do = "call" \/ x = h \/ In(x, f)
  BY <1>3, Concatenation, Members, LeadsStill
<1>. HIDE DEF s3
<1>5. /\ Leads(h, s)
      /\ \A x : In(x, s) => x.do = "call" \/ x = h \/ In(x, f) \/ x \in {b, e}
  BY <1>4, TwoSteps, Members, LeadsStill
<1>6. s = << Call(j) >> \o m \o << h >> \o f \o << b, e >>
  BY DEF s, s3, s2, s1, a
<1>. HIDE DEF s
<1>. QED  BY <1>5, <1>6

(* What a service puts of these kinds.                                     *)
LEMMA InvoiceLed ==
  ASSUME NEW c, NEW d, Command(c), c.op = "billing.create_invoice"
  PROVE  \E h : /\ Leads(h, InvoiceSteps(c, d)) /\ h.do = "put"
                /\ Key(h.rec) = <<"invoices", c.doc, 0>>
<1>. DEFINE cogs == InvoiceCogs(c, d)
            j == InvoiceJournal(c, SumFunction(cogs))
            move(i) == Movement(c.doc, i, c.lines[i].item, -c.lines[i].quantity, 0,
                                c.movePeriod, "sale")
            m == [i \in DOMAIN c.lines |-> Call(move(i))]
            h == Put("invoices", c.doc, 0,
                     [period |-> c.period, currency |-> c.currency,
                      subtotal |-> Subtotal(c.lines), tax |-> Tax(c.lines)])
            f == [i \in DOMAIN c.lines |->
                    Put("invoice_lines", c.doc, i, LineData(c, i, cogs, d))]
            b == Put("billing.invoice_created", c.doc, 0, NoData)
            e == Put("billing.sale_completed.v1", c.doc, 0, NoData)
<1>1. InvoiceSteps(c, d) = << Call(j) >> \o m \o << h >> \o f \o << b, e >>
  BY DEF InvoiceSteps
<1>2. "lines" \in DOMAIN c /\ Len(c.lines) \in Nat /\ DOMAIN c.lines = 1..Len(c.lines)
  BY DEF Command, Fields
<1>3. /\ \A i \in DOMAIN c.lines : m[i].do = "call"
      /\ \A i \in DOMAIN c.lines : f[i].rec.kind = "invoice_lines"
  BY DEF Call, Put
<1>4. /\ h.do = "put" /\ h.rec.kind = "invoices" /\ Key(h.rec) = <<"invoices", c.doc, 0>>
      /\ b.rec.kind = "billing.invoice_created" /\ e.rec.kind = "billing.sale_completed.v1"
  BY DEF Put, Key
<1>5. /\ IsSeq(m) /\ \A x : In(x, m) <=> \E i \in DOMAIN c.lines : x = m[i]
      /\ IsSeq(f) /\ \A x : In(x, f) <=> \E i \in DOMAIN c.lines : x = f[i]
  <2>1. m = [i \in 1..Len(c.lines) |-> m[i]] /\ f = [i \in 1..Len(c.lines) |-> f[i]]
    BY <1>2
  <2>. HIDE DEF m, f
  <2>. QED  BY <1>2, <2>1, OneStepPerLine
<1>. HIDE DEF j, m, h, f, b, e, cogs
<1>6. Leads(h, InvoiceSteps(c, d))
  <2>1. \A x : In(x, m) => x.do = "call"
    BY <1>3, <1>5
  <2>2. \A x : In(x, f) \/ x \in {b, e} => x.rec.kind # h.rec.kind
    BY <1>3, <1>4, <1>5
  <2>. QED  BY <1>1, <1>5, <2>1, <2>2, DocumentLed
<1>. QED  BY <1>4, <1>6

LEMMA RefundLed ==
  ASSUME NEW c, NEW d, Command(c), c.op = "billing.create_refund"
  PROVE  \E h : /\ Leads(h, RefundSteps(c, d)) /\ h.do = "put"
                /\ Key(h.rec) = <<"refunds", c.doc, 0>>
                /\ h.rec.data.invoice = c.invoice
                /\ \A x : In(x, RefundSteps(c, d)) /\ x.do = "put" /\ x.rec.kind = "refunds"
                            => x = h
<1>. DEFINE cogs == RefundCogs(c, d)
            n == Cardinality(Restocked(c.lines))
            j == RefundJournal(c, SumFunction(cogs))
            m == [k \in 1..n |-> Call(ReturnMovement(c, KthRestocked(c.lines, k), d))]
            h == Put("refunds", c.doc, 0,
                     [invoice |-> c.invoice, period |-> c.period, currency |-> c.currency,
                      subtotal |-> Subtotal(c.lines), tax |-> Tax(c.lines)])
            f == [i \in DOMAIN c.lines |->
                    Put("refund_lines", c.doc, i, LineData(c, i, cogs, d))]
            b == Put("billing.refund_created", c.doc, 0, NoData)
            e == Put("billing.refund_completed.v1", c.doc, 0, NoData)
<1>1. RefundSteps(c, d) = << Call(j) >> \o m \o << h >> \o f \o << b, e >>
  BY DEF RefundSteps
<1>2. "lines" \in DOMAIN c /\ Len(c.lines) \in Nat /\ DOMAIN c.lines = 1..Len(c.lines)
  BY DEF Command, Fields
<1>3. n \in Nat
  <2>1. Restocked(c.lines) \subseteq 1..Len(c.lines)
    BY <1>2 DEF Restocked
  <2>2. IsFiniteSet(1..Len(c.lines))
    BY <1>2, FS_Interval
  <2>3. IsFiniteSet(Restocked(c.lines))
    BY <2>1, <2>2, FS_Subset
  <2>. QED  BY <2>3, FS_CardinalityType
<1>4. /\ \A k \in 1..n : m[k].do = "call"
      /\ \A i \in DOMAIN c.lines : f[i].rec.kind = "refund_lines"
  BY DEF Call, Put
<1>5. /\ h.do = "put" /\ h.rec.kind = "refunds" /\ Key(h.rec) = <<"refunds", c.doc, 0>>
      /\ h.rec.data.invoice = c.invoice
      /\ b.rec.kind = "billing.refund_created" /\ e.rec.kind = "billing.refund_completed.v1"
  BY DEF Put, Key
<1>6. /\ IsSeq(m) /\ \A x : In(x, m) <=> \E k \in 1..n : x = m[k]
      /\ IsSeq(f) /\ \A x : In(x, f) <=> \E i \in DOMAIN c.lines : x = f[i]
  <2>1. m = [k \in 1..n |-> m[k]] /\ f = [i \in 1..Len(c.lines) |-> f[i]]
    BY <1>2
  <2>. HIDE DEF m, f, n
  <2>. QED  BY <1>2, <1>3, <2>1, OneStepPerLine
<1>. HIDE DEF j, m, h, f, b, e, n, cogs
<1>7. /\ Leads(h, RefundSteps(c, d))
      /\ \A x : In(x, RefundSteps(c, d)) /\ x.do = "put" /\ x.rec.kind = "refunds" => x = h
  <2>1. \A x : In(x, m) => x.do = "call"
    BY <1>4, <1>6
  <2>2. \A x : In(x, f) \/ x \in {b, e} => x.rec.kind # h.rec.kind
    BY <1>4, <1>5, <1>6
  <2>. DEFINE s == << Call(j) >> \o m \o << h >> \o f \o << b, e >>
  <2>3. /\ Leads(h, s)
        /\ \A x : In(x, s) /\ x.do = "put" /\ x.rec.kind = h.rec.kind => x = h
    BY <1>6, <2>1, <2>2, DocumentLed
  <2>. HIDE DEF s
  <2>4. RefundSteps(c, d) = s
    BY <1>1 DEF s
  <2>. QED  BY <1>5, <2>3, <2>4
<1>. QED  BY <1>5, <1>7

(* Only a sale owes an invoice or its lines, only a refund those of a      *)
(* refund, and each under its own name.                                    *)
LEMMA OwedKinds ==
  ASSUME NEW c, NEW r, Command(c), Key(r) \in Owed(c)
  PROVE  /\ r.kind = "invoice_lines" => c.op = "billing.create_invoice" /\ r.doc = c.doc
         /\ r.kind = "refund_lines" => c.op = "billing.create_refund" /\ r.doc = c.doc
         /\ r.kind = "refunds" => c.op = "billing.create_refund"
<1>1. \A k, x, n : Key(r) = <<k, x, n>> => r.kind = k /\ r.doc = x
  BY DEF Key
<1>2. CASE c.op = "inventory.register_item"
  BY <1>1, <1>2 DEF Owed
<1>3. CASE c.op = "inventory.commit_movement"
  BY <1>1, <1>3 DEF Owed
<1>4. CASE c.op = "accounting.post_journal"
  BY <1>1, <1>4 DEF Owed
<1>5. CASE c.op = "accounting.close_period"
  BY <1>1, <1>5 DEF Owed
<1>6. CASE c.op = "billing.create_invoice"
  BY <1>1, <1>6 DEF Owed
<1>7. CASE c.op = "billing.create_refund"
  BY <1>1, <1>7 DEF Owed
<1>. QED  BY <1>2, <1>3, <1>4, <1>5, <1>6, <1>7 DEF Command, Operations

-----------------------------------------------------------------------------
(* The invariant.  A line still to be written has its header on disk or    *)
(* among the steps before it, and a refund its invoice on disk.            *)

Headed(s, keys) ==
  \A i \in DOMAIN s : s[i].do = "put" =>
    /\ s[i].rec.kind = "invoice_lines" => Settled(<<"invoices", s[i].rec.doc, 0>>, i, s, keys)
    /\ s[i].rec.kind = "refund_lines" => Settled(<<"refunds", s[i].rec.doc, 0>>, i, s, keys)

Invoiced(s, d) ==
  \A x : In(x, s) /\ x.do = "put" /\ x.rec.kind = "refunds" =>
    Has(d, "invoices", x.rec.data.invoice)

RefundsInvoiced(d) == \A h \in Of(d, "refunds") : Has(d, "invoices", h.data.invoice)

ReadInv ==
  /\ CoreInv
  /\ Headed(todo, Keys) /\ Invoiced(todo, disk)
  /\ AvailabilityReadable(disk) /\ RefundsInvoiced(disk)

LEMMA PiecePuts ==
  ASSUME NEW c, NEW d, NEW n, Command(c)
  PROVE  /\ \A x : In(x, Piece(c, d, n)) /\ x.do = "put" => In(x, Steps(c, d))
         /\ \A h : Leads(h, Steps(c, d)) => Leads(h, Piece(c, d, n))
<1>. DEFINE S == Steps(c, d)
            A == AfterCommit(c, d)
            q == S \o << Commit(n) >>
<1>1. IsSeq(S)
  BY StepsFulfil DEF Fulfil
<1>2. IsSeq(A) /\ \A x : In(x, A) => x.do = "call"
  BY AfterCommitPlain
<1>3. /\ IsSeq(<< Commit(n) >>)
      /\ \A x : In(x, << Commit(n) >>) => x.do = "commit"
  BY OneStep DEF Commit
<1>4. Piece(c, d, n) = q \o A
  BY DEF Piece
<1>. HIDE DEF S, A
<1>5. /\ IsSeq(q) /\ \A x : In(x, q) => In(x, S) \/ x.do = "commit"
      /\ \A h : Leads(h, S) => Leads(h, q)
  BY <1>1, <1>3, Concatenation, Members, LeadsStill
<1>. HIDE DEF q
<1>6. /\ \A x : In(x, q \o A) => In(x, q) \/ In(x, A)
      /\ \A h : Leads(h, q) => Leads(h, q \o A)
  BY <1>2, <1>5, Members, LeadsStill
<1>. QED  BY <1>2, <1>4, <1>5, <1>6 DEF S

(* A line of an operation follows the operation's header.                  *)
LEMMA LedHeaded ==
  ASSUME NEW s, NEW h, Leads(h, s), h.do = "put", NEW i \in DOMAIN s,
         s[i].do = "put", s[i].rec.kind # h.rec.kind
  PROVE  Settled(Key(h.rec), i, s, {})
<1>1. DOMAIN s = 1..Len(s) /\ Len(s) \in Nat
  BY LenProperties DEF Leads, IsSeq
<1>2. PICK j \in 1..i : s[j] = h
  BY DEF Leads
<1>3. j \in 1..i-1
  BY <1>1, <1>2
<1>4. Provides(s[j], Key(h.rec))
  BY <1>2 DEF Provides
<1>. QED  BY <1>3, <1>4 DEF Settled

LEMMA PieceHeaded ==
  ASSUME NEW c, NEW d, NEW n, NEW known, Command(c), Admissible(c, d, known)
  PROVE  Headed(Piece(c, d, n), {}) /\ Invoiced(Piece(c, d, n), d)
<1>. DEFINE p == Piece(c, d, n)
<1>1. /\ \A i \in DOMAIN p : p[i].do = "put" => Key(p[i].rec) \in Owed(c)
      /\ \A x : In(x, p) /\ x.do = "put" => In(x, Steps(c, d))
      /\ \A h : Leads(h, Steps(c, d)) => Leads(h, p)
  BY PieceFacts, PiecePuts
<1>. HIDE DEF p
<1>2. ASSUME NEW i \in DOMAIN p, p[i].do = "put", p[i].rec.kind = "invoice_lines"
      PROVE  Settled(<<"invoices", p[i].rec.doc, 0>>, i, p, {})
  <2>1. c.op = "billing.create_invoice" /\ p[i].rec.doc = c.doc
    BY <1>1, <1>2, OwedKinds
  <2>2. Steps(c, d) = InvoiceSteps(c, d)
    BY <2>1 DEF Steps
  <2>3. PICK h : /\ Leads(h, InvoiceSteps(c, d)) /\ h.do = "put"
                 /\ Key(h.rec) = <<"invoices", c.doc, 0>>
    BY <2>1, InvoiceLed
  <2>4. h.rec.kind = "invoices"
    BY <2>3 DEF Key
  <2>. QED  BY <1>1, <1>2, <2>1, <2>2, <2>3, <2>4, LedHeaded
<1>3. ASSUME NEW i \in DOMAIN p, p[i].do = "put", p[i].rec.kind = "refund_lines"
      PROVE  Settled(<<"refunds", p[i].rec.doc, 0>>, i, p, {})
  <2>1. c.op = "billing.create_refund" /\ p[i].rec.doc = c.doc
    BY <1>1, <1>3, OwedKinds
  <2>2. Steps(c, d) = RefundSteps(c, d)
    BY <2>1 DEF Steps
  <2>3. PICK h : /\ Leads(h, RefundSteps(c, d)) /\ h.do = "put"
                 /\ Key(h.rec) = <<"refunds", c.doc, 0>>
    BY <2>1, RefundLed
  <2>4. h.rec.kind = "refunds"
    BY <2>3 DEF Key
  <2>. QED  BY <1>1, <1>3, <2>1, <2>2, <2>3, <2>4, LedHeaded
<1>4. ASSUME NEW x, In(x, p), x.do = "put", x.rec.kind = "refunds"
      PROVE  Has(d, "invoices", x.rec.data.invoice)
  <2>1. c.op = "billing.create_refund"
    BY <1>1, <1>4, OwedKinds DEF In
  <2>2. Steps(c, d) = RefundSteps(c, d) /\ RefundAdmissible(c, d, known)
    BY <2>1 DEF Steps, Admissible
  <2>3. PICK h : h.rec.data.invoice = c.invoice /\ x = h
    BY <1>1, <1>4, <2>1, <2>2, RefundLed
  <2>4. Has(d, "invoices", c.invoice)
    BY <2>2 DEF RefundAdmissible, Has, Of
  <2>. QED  BY <2>3, <2>4
<1>. QED  BY <1>2, <1>3, <1>4 DEF Headed, Invoiced, p

LEMMA HeadedTail ==
  ASSUME NEW s, NEW keys, NEW more, IsSeq(s), s # << >>, keys \subseteq more,
         \A k : Provides(Head(s), k) => k \in more, Headed(s, keys)
  PROVE  Headed(Tail(s), more)
<1>. DEFINE t == Tail(s)
<1>1. /\ Len(s) \in Nat /\ DOMAIN s = 1..Len(s) /\ DOMAIN t = 1..Len(s) - 1
      /\ \A i \in DOMAIN t : i + 1 \in DOMAIN s /\ t[i] = s[i + 1]
  BY TailFacts
<1>2. ASSUME NEW i \in DOMAIN t, NEW k, Settled(k, i + 1, s, keys)
      PROVE  Settled(k, i, t, more)
  <2>1. i \in 1..Len(s)
    BY <1>1
  <2>. QED  BY <1>2, <2>1, SettledTail
<1>. HIDE DEF t
<1>3. ASSUME NEW i \in DOMAIN t, t[i].do = "put"
      PROVE  /\ t[i].rec.kind = "invoice_lines" =>
                  Settled(<<"invoices", t[i].rec.doc, 0>>, i, t, more)
             /\ t[i].rec.kind = "refund_lines" =>
                  Settled(<<"refunds", t[i].rec.doc, 0>>, i, t, more)
  <2>1. i + 1 \in DOMAIN s /\ t[i] = s[i + 1]
    BY <1>1
  <2>2. /\ t[i].rec.kind = "invoice_lines" =>
             Settled(<<"invoices", t[i].rec.doc, 0>>, i + 1, s, keys)
        /\ t[i].rec.kind = "refund_lines" =>
             Settled(<<"refunds", t[i].rec.doc, 0>>, i + 1, s, keys)
    BY <1>3, <2>1 DEF Headed
  <2>. QED  BY <1>2, <2>2
<1>. QED  BY <1>3 DEF Headed, t

LEMMA HeadedEnter ==
  ASSUME NEW c, NEW d, NEW n, NEW rest, NEW keys, NEW more, NEW known,
         Command(c), Admissible(c, d, known), IsSeq(rest),
         Headed(rest, more), Invoiced(rest, d), more \subseteq keys \cup Owed(c)
  PROVE  /\ Headed(Piece(c, d, n) \o rest, keys)
         /\ Invoiced(Piece(c, d, n) \o rest, d)
<1>. DEFINE p == Piece(c, d, n)
            t == p \o rest
<1>1. /\ Len(p) \in Nat /\ DOMAIN p = 1..Len(p) /\ Len(rest) \in Nat
      /\ DOMAIN rest = 1..Len(rest) /\ DOMAIN t = 1..Len(p) + Len(rest)
      /\ \A i \in DOMAIN p : t[i] = p[i]
      /\ \A i \in DOMAIN t : i \notin DOMAIN p =>
           LET j == i - Len(p) IN j \in DOMAIN rest /\ t[i] = rest[j] /\ i = Len(p) + j
  BY PieceBefore
<1>2. Headed(p, {}) /\ Invoiced(p, d) /\ IsSeq(p)
  BY PieceHeaded, PieceFacts
<1>3. ASSUME NEW i \in DOMAIN rest, NEW k, Settled(k, i, rest, more)
      PROVE  Settled(k, Len(p) + i, t, keys)
  <2>1. i \in 1..Len(rest) + 1
    BY <1>1
  <2>. QED  BY <1>3, <2>1, SettledBefore
<1>. HIDE DEF p
<1>4. ASSUME NEW i \in DOMAIN p, NEW k, Settled(k, i, p, {})
      PROVE  Settled(k, i, t, keys)
  <2>1. PICK j \in 1..i-1 : Provides(p[j], k)
    BY <1>4 DEF Settled
  <2>2. t[j] = p[j]
    BY <1>1, <2>1
  <2>. QED  BY <2>1, <2>2 DEF Settled
<1>5. Invoiced(t, d)
  BY <1>2, Members DEF Invoiced
<1>. HIDE DEF t
<1>6. ASSUME NEW i \in DOMAIN t, t[i].do = "put"
      PROVE  /\ t[i].rec.kind = "invoice_lines" =>
                  Settled(<<"invoices", t[i].rec.doc, 0>>, i, t, keys)
             /\ t[i].rec.kind = "refund_lines" =>
                  Settled(<<"refunds", t[i].rec.doc, 0>>, i, t, keys)
  <2>1. CASE i \in DOMAIN p
    BY <1>1, <1>2, <1>4, <1>6, <2>1 DEF Headed
  <2>2. CASE i \notin DOMAIN p
    <3>1. PICK j \in DOMAIN rest : t[i] = rest[j] /\ i = Len(p) + j
      BY <1>1, <1>6, <2>2
    <3>. QED  BY <1>3, <1>6, <3>1 DEF Headed
  <2>. QED  BY <2>1, <2>2
<1>. QED  BY <1>5, <1>6 DEF Headed, t, p

-----------------------------------------------------------------------------
(* The steps of the specification.                                         *)

LEMMA EnterRead ==
  ASSUME ReadInv, NEW c, NEW known, NEW rest, NEW more,
         Command(c), Enter(c, known, rest), IsSeq(rest),
         Headed(rest, more), Invoiced(rest, disk), more \subseteq Keys \cup Owed(c),
         UNCHANGED disk
  PROVE  Headed(todo', Keys') /\ Invoiced(todo', disk')
<1>1. Admissible(c, disk, known) /\ todo' = Piece(c, disk, Len(wal) + 1) \o rest
  BY DEF Enter, Piece
<1>2. Keys' = Keys
  BY DEF Keys
<1>. QED  BY <1>1, <1>2, HeadedEnter

LEMMA CallRead ==
  ASSUME ReadInv, CallOperation
  PROVE  Headed(todo', Keys') /\ Invoiced(todo', disk')
<1>. DEFINE x == Head(todo)
            c == Priced(x.cmd, disk)
            more == Keys \cup Owed(c)
<1>1. /\ todo # << >> /\ x.do = "call" /\ Enter(c, closed, Tail(todo)) /\ UNCHANGED disk
  BY DEF CallOperation, Doing
<1>2. IsSeq(todo) /\ 1 \in DOMAIN todo /\ x = todo[1] /\ IsSeq(Tail(todo))
  BY <1>1, TailFacts DEF ReadInv, CoreInv, Sound
<1>3. Command(x.cmd)
  BY <1>1, <1>2 DEF ReadInv, CoreInv, Sound, Plain, Commits
<1>4. Command(c) /\ Owed(c) = Owed(x.cmd)
  BY <1>3, PricedOwes
<1>5. \A k : Provides(x, k) => k \in more
  BY <1>1, <1>4 DEF Provides
<1>. HIDE DEF c
<1>6. Headed(Tail(todo), more)
  BY <1>1, <1>2, <1>5, HeadedTail DEF ReadInv
<1>7. Invoiced(Tail(todo), disk)
  BY <1>1, <1>2, TailFacts DEF ReadInv, Invoiced, In
<1>. QED  BY <1>1, <1>2, <1>4, <1>6, <1>7, EnterRead

(* A record that lands under its header, or a refund under its invoice.    *)
LEMMA Found ==
  ASSUME NEW kind, NEW doc, <<kind, doc, 0>> \in Keys
  PROVE  \E r \in Of(disk, kind) : r.doc = doc
<1>1. PICK r \in disk : Key(r) = <<kind, doc, 0>>
  BY DEF Keys
<1>2. r.kind = kind /\ r.doc = doc
  BY <1>1 DEF Key
<1>. QED  BY <1>1, <1>2 DEF Of

LEMMA AppendRead ==
  ASSUME ReadInv, AppendRecord
  PROVE  /\ Headed(todo', Keys') /\ Invoiced(todo', disk')
         /\ AvailabilityReadable(disk') /\ RefundsInvoiced(disk')
<1>. DEFINE x == Head(todo)
<1>1. /\ todo # << >> /\ x.do = "put" /\ disk' = disk \cup {x.rec} /\ todo' = Tail(todo)
  BY DEF AppendRecord, Doing, Leave
<1>2. IsSeq(todo) /\ 1 \in DOMAIN todo /\ x = todo[1]
  BY <1>1, TailFacts DEF ReadInv, CoreInv, Sound
<1>3. Keys' = Keys \cup {Key(x.rec)}
  BY <1>1 DEF Keys
<1>. HIDE DEF x
<1>4. \A k : Provides(x, k) => k \in Keys'
  BY <1>1, <1>3 DEF Provides
<1>5. Headed(todo', Keys')
  BY <1>1, <1>2, <1>3, <1>4, HeadedTail DEF ReadInv, x
<1>6. \A kind, doc : Has(disk, kind, doc) => Has(disk', kind, doc)
  BY <1>1 DEF Has
<1>7. Invoiced(todo', disk')
  <2>1. \A y : In(y, Tail(todo)) => In(y, todo)
    BY <1>1, <1>2, TailFacts DEF In
  <2>. QED  BY <1>1, <1>6, <2>1 DEF ReadInv, Invoiced
<1>8. x.rec.kind = "refunds" => Has(disk, "invoices", x.rec.data.invoice)
  BY <1>1, <1>2 DEF ReadInv, Invoiced, In
<1>9. \A k : Settled(k, 1, todo, Keys) => k \in Keys
  BY DEF Settled
<1>10. x.rec.kind = "invoice_lines" => Has(disk, "invoices", x.rec.doc)
  <2>. SUFFICES ASSUME x.rec.kind = "invoice_lines" PROVE Has(disk, "invoices", x.rec.doc)
    OBVIOUS
  <2>1. \E r \in Of(disk, "invoices") : r.doc = x.rec.doc
    BY <1>1, <1>2, <1>9, Found DEF ReadInv, Headed
  <2>. QED  BY <2>1 DEF Has, Of
<1>11. x.rec.kind = "refund_lines" =>
         \E h \in Of(disk, "refunds") : h.doc = x.rec.doc /\ Has(disk, "invoices", h.data.invoice)
  <2>. SUFFICES ASSUME x.rec.kind = "refund_lines"
                PROVE  \E h \in Of(disk, "refunds") :
                         h.doc = x.rec.doc /\ Has(disk, "invoices", h.data.invoice)
    OBVIOUS
  <2>1. PICK h \in Of(disk, "refunds") : h.doc = x.rec.doc
    BY <1>1, <1>2, <1>9, Found DEF ReadInv, Headed
  <2>. QED  BY <2>1 DEF ReadInv, RefundsInvoiced
<1>12. RefundsInvoiced(disk')
  BY <1>1, <1>6, <1>8 DEF ReadInv, RefundsInvoiced, Of
<1>13. AvailabilityReadable(disk')
  <2>1. \A l \in Of(disk', "invoice_lines") : Has(disk', "invoices", l.doc)
    BY <1>1, <1>6, <1>10 DEF ReadInv, AvailabilityReadable, Of
  <2>2. ASSUME NEW l \in Of(disk', "refund_lines")
        PROVE  \E h \in Of(disk', "refunds") :
                 h.doc = l.doc /\ Has(disk', "invoices", h.data.invoice)
    <3>1. \E h \in Of(disk, "refunds") : h.doc = l.doc /\ Has(disk, "invoices", h.data.invoice)
      BY <1>1, <1>11, <2>2 DEF ReadInv, AvailabilityReadable, Of
    <3>. QED  BY <1>1, <1>6, <3>1 DEF Of
  <2>. QED  BY <2>1, <2>2 DEF AvailabilityReadable
<1>. QED  BY <1>5, <1>7, <1>12, <1>13

(* The recovery command puts records of its own kinds alone.               *)
Other(step) ==
  step.do = "put" => step.rec.kind \notin {"invoice_lines", "refund_lines", "refunds"}

LEMMA OthersRead ==
  ASSUME NEW s, NEW keys, NEW d, \A x : In(x, s) => Other(x)
  PROVE  Headed(s, keys) /\ Invoiced(s, d)
<1>1. \A i \in DOMAIN s : Other(s[i])
  BY DEF In
<1>. QED  BY <1>1 DEF Headed, Invoiced, Other

LEMMA RecordsOther ==
  ASSUME NEW n, NEW k, NEW data, NEW action, NEW event,
         action \in {"recovery.reconciliation_recorded",
                     "recovery.accounting_adjustment_resolved"},
         event = "recovery.reconciliation_recorded.v1"
  PROVE  LET s == Records("reconciliation_records", n, k, data, action, event) IN
         IsSeq(s) /\ \A x : In(x, s) => Other(x)
<1>. DEFINE a == Put("reconciliation_records", n, k, data)
            b == Put(action, n, k, NoData)
            e == Put(event, n, k, NoData)
            s == << a >> \o << b, e >>
<1>1. Records("reconciliation_records", n, k, data, action, event) = s
  BY DEF Records, AuditAndEvent
<1>2. Other(a) /\ Other(b) /\ Other(e)
  BY DEF Other, Put
<1>. HIDE DEF a, b, e
<1>3. IsSeq(s) /\ \A x : In(x, s) <=> x = a \/ x = b \/ x = e
  BY OneStep, TwoSteps, Concatenation, Members
<1>. HIDE DEF s
<1>. QED  BY <1>1, <1>2, <1>3

LEMMA CommitOther ==
  ASSUME NEW n
  PROVE  IsSeq(<< Commit(n) >>) /\ \A x : In(x, << Commit(n) >>) => Other(x)
<1>1. Other(Commit(n))
  BY DEF Other, Commit
<1>. QED  BY <1>1, OneStep

LEMMA ReconcileRead ==
  ASSUME ReadInv, NEW n, NEW decision, Reconcile(n, decision)
  PROVE  Headed(todo', Keys') /\ Invoiced(todo', disk')
<1>. DEFINE s == Records("reconciliation_records", n, 0, [decision |-> decision],
                         "recovery.reconciliation_recorded",
                         "recovery.reconciliation_recorded.v1")
            e == If(decision = "accepted_existing_records", << Commit(n) >>)
<1>1. todo' = s \o e
  BY DEF Reconcile, Records
<1>2. IsSeq(s) /\ \A x : In(x, s) => Other(x)
  BY RecordsOther
<1>3. IsSeq(e) /\ \A x : In(x, e) => Other(x)
  BY CommitOther, NoSteps DEF If
<1>. HIDE DEF s, e
<1>. QED  BY <1>1, <1>2, <1>3, Members, OthersRead

LEMMA AdjustRead ==
  ASSUME ReadInv, NEW n, NEW c \in Corrections, Adjust(n, c)
  PROVE  Headed(todo', Keys') /\ Invoiced(todo', disk')
<1>. DEFINE q == [c EXCEPT !.source = n]
            s == Records("reconciliation_records", n, 1,
                         [decision |-> "requires_accounting_adjustment"],
                         "recovery.accounting_adjustment_resolved",
                         "recovery.reconciliation_recorded.v1")
            rest == s \o << Commit(n) >>
<1>1. Enter(q, ClosedPeriods(disk), rest) /\ UNCHANGED disk
  BY DEF Adjust, Records
<1>2. Command(q)
  <2>1. /\ Command(c) /\ c.op = "accounting.post_journal"
        /\ DOMAIN c = Fields("accounting.post_journal")
    BY WorkflowsAssumption DEF Command
  <2>2. q.op = c.op /\ DOMAIN q = DOMAIN c /\ q.lines = c.lines
    BY <2>1 DEF Fields
  <2>. HIDE DEF q
  <2>. QED  BY <2>1, <2>2 DEF Command
<1>3. IsSeq(s) /\ \A x : In(x, s) => Other(x)
  BY RecordsOther
<1>. HIDE DEF s, q
<1>4. IsSeq(rest) /\ \A x : In(x, rest) => Other(x)
  BY <1>3, CommitOther, Concatenation, Members
<1>. HIDE DEF rest
<1>5. Headed(rest, Keys) /\ Invoiced(rest, disk)
  BY <1>4, OthersRead
<1>. QED  BY <1>1, <1>2, <1>4, <1>5, EnterRead

LEMMA NextRead == ReadInv /\ [Next]_vars => ReadInv'
<1>. SUFFICES ASSUME ReadInv, [Next]_vars PROVE ReadInv'
  OBVIOUS
<1>0. CoreInv'
  BY NextCore DEF ReadInv
<1>1. UNCHANGED disk => AvailabilityReadable(disk') /\ RefundsInvoiced(disk') /\ Keys' = Keys
  BY DEF ReadInv, Keys
<1>2. IsSeq(<< >>) /\ Headed(<< >>, Keys) /\ Invoiced(<< >>, disk)
  BY NoSteps, OthersRead
<1>3. CASE todo' \in {todo, << >>} /\ UNCHANGED disk
  BY <1>0, <1>1, <1>2, <1>3 DEF ReadInv
<1>4. CASE StartApplication \/ Stop \/ Refused \/ StoreFails \/ Crash \/ Recover
  <2>1. todo' \in {todo, << >>} /\ UNCHANGED disk
    BY <1>4 DEF StartApplication, Stop, Refused, StoreFails, Crash, Recover, Abandon
  <2>. QED  BY <1>3, <2>1
<1>5. CASE \E c \in Commands : Begin(c)
  <2>1. PICK c \in Commands : Begin(c)
    BY <1>5
  <2>2. Enter(c, closed, << >>) /\ UNCHANGED disk /\ Command(c)
    BY <2>1, WorkflowsAssumption DEF Begin
  <2>3. Headed(todo', Keys') /\ Invoiced(todo', disk')
    BY <1>2, <2>2, EnterRead
  <2>. QED  BY <1>0, <1>1, <2>2, <2>3 DEF ReadInv
<1>6. CASE AppendRecord
  BY <1>0, <1>6, AppendRead DEF ReadInv
<1>7. CASE CallOperation
  BY <1>0, <1>1, <1>7, CallRead DEF ReadInv, CallOperation
<1>8. CASE CommitTransaction
  <2>1. /\ todo # << >> /\ Head(todo).do = "commit" /\ todo' = Tail(todo) /\ UNCHANGED disk
    BY <1>8 DEF CommitTransaction, Doing, Leave
  <2>2. IsSeq(todo) /\ \A k : ~Provides(Head(todo), k)
    BY <2>1 DEF ReadInv, CoreInv, Sound, Provides
  <2>3. Headed(Tail(todo), Keys)
    BY <2>1, <2>2, HeadedTail DEF ReadInv
  <2>4. Invoiced(Tail(todo), disk)
    BY <2>1, <2>2, TailFacts DEF ReadInv, Invoiced, In
  <2>. QED  BY <1>0, <1>1, <2>1, <2>3, <2>4 DEF ReadInv
<1>9. CASE \E n \in Txns, d \in Decisions : Reconcile(n, d)
  <2>1. UNCHANGED disk
    BY <1>9 DEF Reconcile
  <2>. QED  BY <1>0, <1>1, <1>9, <2>1, ReconcileRead DEF ReadInv
<1>10. CASE \E n \in Txns, c \in Corrections : Adjust(n, c)
  <2>1. UNCHANGED disk
    BY <1>10 DEF Adjust
  <2>. QED  BY <1>0, <1>1, <1>10, <2>1, AdjustRead DEF ReadInv
<1>11. CASE UNCHANGED vars
  BY <1>3, <1>11 DEF vars
<1>. QED  BY <1>4, <1>5, <1>6, <1>7, <1>8, <1>9, <1>10, <1>11 DEF Next

(* The availability and revenue reports never meet a line without a header,*)
(* or a refund without its invoice, whatever was sold, refunded or         *)
(* interrupted, and however it was recovered.                              *)
THEOREM AlwaysReadable == Spec => []ReportsReadable
<1>1. Init => ReadInv
  <2>. SUFFICES ASSUME Init PROVE ReadInv
    OBVIOUS
  <2>1. CoreInv /\ disk = {} /\ todo = << >>
    BY InitCore DEF Init
  <2>2. Headed(todo, Keys) /\ Invoiced(todo, disk)
    BY <2>1, NoSteps, OthersRead
  <2>. QED  BY <2>1, <2>2 DEF ReadInv, AvailabilityReadable, RefundsInvoiced, Of
<1>2. ReadInv => ReportsReadable
  BY DEF ReadInv, ReportsReadable
<1>. QED  BY <1>1, <1>2, NextRead, PTL DEF Spec

-----------------------------------------------------------------------------
(* Recovery that is not interrupted is never stuck.  The records of a      *)
(* decision about transaction n are written one after the other; while     *)
(* they are, nothing else is about n, and every other pending transaction  *)
(* is untouched or has a complete decision that leaves it pending.         *)

RecoveryKinds ==
  {"reconciliation_records", "recovery.reconciliation_recorded",
   "recovery.reconciliation_recorded.v1", "recovery.accounting_adjustment_resolved"}

LeftPending ==
  {"voided_as_incomplete", "requires_accounting_adjustment", "requires_restore_from_backup"}

Touches(r, n) == r.kind \in RecoveryKinds /\ r.doc = n

Untouched(n) == \A r \in disk : ~Touches(r, n)

Answered(n, d) ==
  /\ \E r \in disk : r.kind = "reconciliation_records" /\ r.doc = n
  /\ \A r \in disk : Touches(r, n) =>
       r.n = 0 /\ (r.kind = "reconciliation_records" => r.data.decision = d)

Actionable(n) == Untouched(n) \/ \E d \in LeftPending : Answered(n, d)

(* The three records of a decision (i = 0) or of a correction (i = 1).     *)
Verdict(n, i, d) == Put("reconciliation_records", n, i, [decision |-> d])

Audit(n, i) ==
  Put(IF i = 0 THEN "recovery.reconciliation_recorded"
               ELSE "recovery.accounting_adjustment_resolved", n, i, NoData)

Event(n, i) == Put("recovery.reconciliation_recorded.v1", n, i, NoData)

Absent(x) == \A r \in disk : Key(r) # Key(x.rec)

Unrelated(x) == x.do = "put" => x.rec.kind \notin RecoveryKinds

Deciding(n, d) ==
  /\ Untouched(n)
  /\ \/ todo = << Verdict(n, 0, d), Audit(n, 0), Event(n, 0), Commit(n) >>
     \/ /\ todo = << Verdict(n, 0, d), Audit(n, 0), Event(n, 0) >>
        /\ d \in LeftPending

LastSteps(n) ==
  << Verdict(n, 1, "requires_accounting_adjustment"), Audit(n, 1), Event(n, 1), Commit(n) >>

Correcting(n) ==
  /\ Answered(n, "requires_accounting_adjustment")
  /\ \E p : /\ IsSeq(p) /\ \A x : In(x, p) => Unrelated(x)
            /\ todo = p \o LastSteps(n)

Recording(n, i) ==
  \/ /\ Absent(Audit(n, i)) /\ Absent(Event(n, i))
     /\ \/ todo = << Audit(n, i), Event(n, i), Commit(n) >>
        \/ /\ todo = << Audit(n, i), Event(n, i) >>
           /\ i = 0 /\ \E d \in LeftPending : Answered(n, d)
  \/ /\ Absent(Event(n, i))
     /\ \/ todo = << Event(n, i), Commit(n) >>
        \/ todo = << Event(n, i) >> /\ i = 0 /\ \E d \in LeftPending : Answered(n, d)
  \/ todo = << Commit(n) >>

Handles(n) ==
  \/ \E d \in Decisions : Deciding(n, d)
  \/ Correcting(n)
  \/ \E i \in {0, 1} : Recording(n, i)

OthersActionable(n) == \A m \in Pending \ {n} : Actionable(m)

Recovering ==
  /\ \A x : In(x, todo) => x.do # "call"
  /\ \E n \in Txns : Handles(n) /\ OthersActionable(n)

RecoverInv ==
  /\ CoreInv
  /\ \A r \in disk : r.kind \in RecoveryKinds => r.doc \in Txns
  /\ process # "cli" => /\ \A x : In(x, todo) => Unrelated(x)
                        /\ \A n \in Pending : Actionable(n)
  /\ process = "cli" => Recovering

-----------------------------------------------------------------------------
(* What the operations of the services put, and what a correction does.    *)

LEMMA OwedUnrelated ==
  ASSUME NEW c, NEW r, Command(c), Key(r) \in Owed(c)
  PROVE  r.kind \notin RecoveryKinds
<1>1. \A k, x, n : Key(r) = <<k, x, n>> => r.kind = k
  BY DEF Key
<1>2. CASE c.op = "inventory.register_item"
  BY <1>1, <1>2 DEF Owed, RecoveryKinds
<1>3. CASE c.op = "inventory.commit_movement"
  BY <1>1, <1>3 DEF Owed, RecoveryKinds
<1>4. CASE c.op = "accounting.post_journal"
  BY <1>1, <1>4 DEF Owed, RecoveryKinds
<1>5. CASE c.op = "accounting.close_period"
  BY <1>1, <1>5 DEF Owed, RecoveryKinds
<1>6. CASE c.op = "billing.create_invoice"
  BY <1>1, <1>6 DEF Owed, RecoveryKinds
<1>7. CASE c.op = "billing.create_refund"
  BY <1>1, <1>7 DEF Owed, RecoveryKinds
<1>. QED  BY <1>2, <1>3, <1>4, <1>5, <1>6, <1>7 DEF Command, Operations

LEMMA PieceUnrelated ==
  ASSUME NEW c, NEW d, NEW n, Command(c)
  PROVE  IsSeq(Piece(c, d, n)) /\ \A x : In(x, Piece(c, d, n)) => Unrelated(x)
<1>. DEFINE p == Piece(c, d, n)
<1>1. IsSeq(p) /\ \A i \in DOMAIN p : p[i].do = "put" => Key(p[i].rec) \in Owed(c)
  BY PieceFacts
<1>. HIDE DEF p
<1>2. \A x : In(x, p) => Unrelated(x)
  BY <1>1, OwedUnrelated DEF In, Unrelated
<1>. QED  BY <1>1, <1>2 DEF p

LEMMA JournalPuts ==
  ASSUME NEW c, NEW d, NEW n, Command(c), c.op = "accounting.post_journal"
  PROVE  \A x : In(x, Piece(c, d, n)) => x.do # "call"
<1>. DEFINE S == JournalSteps(c)
            a == Put("journal_entries", c.doc, 0,
                     [period |-> c.period, source |-> c.source,
                      debit |-> Debits(c.lines), credit |-> Credits(c.lines)])
            line(i) == [period |-> c.period, currency |-> c.currency,
                        account |-> c.lines[i].account, debit |-> c.lines[i].debit,
                        credit |-> c.lines[i].credit]
            f == [i \in DOMAIN c.lines |-> Put("journal_lines", c.doc, i, line(i))]
            b == Put("accounting.journal_posted", c.doc, 0, NoData)
            e == Put("accounting.journal_posted.v1", c.doc, 0, NoData)
<1>1. S = << a >> \o f \o << b, e >>
  BY DEF JournalSteps, AuditAndEvent
<1>2. /\ a.do = "put" /\ b.do = "put" /\ e.do = "put"
      /\ \A i \in DOMAIN c.lines : f[i].do = "put"
  BY DEF Put
<1>3. "lines" \in DOMAIN c /\ Len(c.lines) \in Nat /\ DOMAIN c.lines = 1..Len(c.lines)
  BY DEF Command, Fields
<1>4. IsSeq(f) /\ \A x : In(x, f) <=> \E i \in DOMAIN c.lines : x = f[i]
  <2>1. f = [i \in 1..Len(c.lines) |-> f[i]]
    BY <1>3
  <2>. HIDE DEF f
  <2>. QED  BY <1>3, <2>1, OneStepPerLine
<1>. HIDE DEF a, f, b, e
<1>5. IsSeq(<< a >> \o f) /\ \A x : In(x, << a >> \o f) => x.do = "put"
  BY <1>2, <1>4, OneStep, Concatenation, Members
<1>6. IsSeq(S) /\ \A x : In(x, S) => x.do = "put"
  BY <1>1, <1>2, <1>5, TwoSteps, Concatenation, Members
<1>7. Steps(c, d) = S /\ AfterCommit(c, d) = << >>
  BY DEF Steps, AfterCommit, If
<1>. HIDE DEF S
<1>8. /\ IsSeq(<< Commit(n) >>) /\ \A x : In(x, << Commit(n) >>) => x.do # "call"
  BY OneStep DEF Commit
<1>9. IsSeq(S \o << Commit(n) >>) /\ \A x : In(x, S \o << Commit(n) >>) => x.do # "call"
  BY <1>6, <1>8, Concatenation, Members
<1>. QED  BY <1>7, <1>9, NoSteps, Members DEF Piece

-----------------------------------------------------------------------------
(* What a new record leaves as it was.                                     *)

LEMMA UntouchedStill ==
  ASSUME NEW r, disk' = disk \cup {r}, NEW n, ~Touches(r, n)
  PROVE  /\ Untouched(n) => Untouched(n)'
         /\ \A d : Answered(n, d) => Answered(n, d)'
         /\ Actionable(n) => Actionable(n)'
<1>1. Untouched(n) => Untouched(n)'
  BY DEF Untouched, Touches
<1>2. \A d : Answered(n, d) => Answered(n, d)'
  BY DEF Answered, Touches
<1>. QED  BY <1>1, <1>2 DEF Actionable

LEMMA AnsweredStill ==
  ASSUME NEW r, disk' = disk \cup {r}, NEW n, NEW d, Answered(n, d),
         r.kind # "reconciliation_records", r.n = 0
  PROVE  Answered(n, d)'
BY DEF Answered, Touches

LEMMA SameAnswers ==
  ASSUME UNCHANGED disk
  PROVE  \A n : /\ Untouched(n)' <=> Untouched(n)
                /\ \A d : Answered(n, d)' <=> Answered(n, d)
                /\ Actionable(n)' <=> Actionable(n)
BY DEF Untouched, Answered, Actionable, Touches

(* The records of a verdict differ in kind, and say what they are about.   *)
About(x, n, i) ==
  /\ x.do = "put" /\ x.rec.doc = n /\ x.rec.n = i /\ Touches(x.rec, n)
  /\ \A m : m # n => ~Touches(x.rec, m)

LEMMA AboutPuts ==
  ASSUME NEW n, NEW i, NEW data
  PROVE  \A kind \in RecoveryKinds : About(Put(kind, n, i, data), n, i)
BY DEF About, Put, Touches

LEMMA VerdictRecords ==
  ASSUME NEW n, NEW i, NEW d
  PROVE  /\ About(Verdict(n, i, d), n, i)
         /\ Verdict(n, i, d).rec.kind = "reconciliation_records"
         /\ Verdict(n, i, d).rec.data.decision = d
<1>1. About(Verdict(n, i, d), n, i)
  BY AboutPuts DEF Verdict, RecoveryKinds
<1>. QED  BY <1>1 DEF Verdict, Put

LEMMA AuditRecords ==
  ASSUME NEW n, NEW i \in {0, 1}
  PROVE  /\ About(Audit(n, i), n, i) /\ About(Event(n, i), n, i)
         /\ Audit(n, i).rec.kind \in {"recovery.reconciliation_recorded",
                                      "recovery.accounting_adjustment_resolved"}
         /\ Event(n, i).rec.kind = "recovery.reconciliation_recorded.v1"
         /\ Commit(n).do = "commit" /\ Commit(n).txn = n
<1>1. About(Audit(n, i), n, i) /\ About(Event(n, i), n, i)
  BY AboutPuts DEF Audit, Event, RecoveryKinds
<1>. QED  BY <1>1 DEF Audit, Event, Put, Commit

(* No record of the next one's key is there, so it is not refused.         *)
LEMMA AbsentWhere ==
  ASSUME NEW n, NEW i, NEW x, About(x, n, i), \A r \in disk : Touches(r, n) => r.n # i
  PROVE  Absent(x)
<1>. SUFFICES ASSUME NEW r \in disk, Key(r) = Key(x.rec) PROVE FALSE
  BY DEF Absent
<1>1. r.kind = x.rec.kind /\ r.doc = n /\ r.n = i
  BY DEF Key, About
<1>. QED  BY <1>1 DEF Touches, About

LEMMA AbsentStill ==
  ASSUME NEW r, disk' = disk \cup {r}, NEW x, Absent(x), r.kind # x.rec.kind
  PROVE  Absent(x)'
BY DEF Absent, Key

LEMMA TailConcatenation ==
  ASSUME NEW p, NEW q, IsSeq(p), IsSeq(q), p # << >>
  PROVE  /\ p \o q # << >> /\ Head(p \o q) = Head(p) /\ Tail(p \o q) = Tail(p) \o q
         /\ In(Head(p), p) /\ IsSeq(Tail(p)) /\ \A x : In(x, Tail(p)) => In(x, p)
<1>. DEFINE S == Range(p) \cup Range(q)
<1>1. p \in Seq(S) /\ q \in Seq(S)
  BY SeqMonotonic, Range(p) \subseteq S, Range(q) \subseteq S DEF IsSeq
<1>. HIDE DEF S
<1>2. /\ p \o q # << >> /\ Head(p \o q) = Head(p) /\ Tail(p \o q) = Tail(p) \o q
  BY <1>1
<1>3. /\ In(Head(p), p) /\ IsSeq(Tail(p)) /\ \A x : In(x, Tail(p)) => In(x, p)
  BY TailFacts DEF In
<1>. QED  BY <1>2, <1>3

-----------------------------------------------------------------------------
(* A record of the recovery command.                                       *)

LEMMA Tails ==
  ASSUME NEW a, NEW b, NEW c, NEW e
  PROVE  /\ Head(<< a, b, c, e >>) = a /\ Tail(<< a, b, c, e >>) = << b, c, e >>
         /\ Head(<< a, b, c >>) = a /\ Tail(<< a, b, c >>) = << b, c >>
         /\ Head(<< a, b >>) = a /\ Tail(<< a, b >>) = << b >>
         /\ Head(<< a >>) = a /\ Tail(<< a >>) = << >>
         /\ \A s \in {<< a, b, c, e >>, << a, b, c >>, << a, b >>, << a >>} : s # << >>
OBVIOUS

LEMMA FourSteps ==
  ASSUME NEW a, NEW b, NEW c, NEW e
  PROVE  << a >> \o << b, c >> \o << e >> = << a, b, c, e >>
<1>. DEFINE S == {a, b, c, e}
            t == << a >> \o << b, c >>
            u == << a, b, c, e >>
<1>1. /\ << a >> \in Seq(S) /\ << b, c >> \in Seq(S) /\ << e >> \in Seq(S) /\ u \in Seq(S)
      /\ Len(<< a >>) = 1 /\ Len(<< b, c >>) = 2 /\ Len(<< e >>) = 1 /\ Len(u) = 4
      /\ << a >>[1] = a /\ << b, c >>[1] = b /\ << b, c >>[2] = c /\ << e >>[1] = e
      /\ u[1] = a /\ u[2] = b /\ u[3] = c /\ u[4] = e
  OBVIOUS
<1>. HIDE DEF S
<1>2. /\ t \in Seq(S) /\ Len(t) = 3
      /\ \A i \in 1..3 : t[i] = IF i <= 1 THEN << a >>[i] ELSE << b, c >>[i - 1]
  BY <1>1, ConcatProperties
<1>. HIDE DEF t, u
<1>3. t[1] = a /\ t[2] = b /\ t[3] = c
  BY <1>1, <1>2
<1>4. /\ t \o << e >> \in Seq(S) /\ Len(t \o << e >>) = 4
      /\ \A i \in 1..4 : (t \o << e >>)[i] = IF i <= 3 THEN t[i] ELSE << e >>[i - 3]
  <2>. DEFINE v == << e >>
  <2>1. v \in Seq(S) /\ Len(v) = 1 /\ Len(t) + Len(v) = 4
    BY <1>1, <1>2
  <2>. HIDE DEF v
  <2>2. /\ t \o v \in Seq(S) /\ Len(t \o v) = 4
        /\ \A i \in 1..Len(t) + Len(v) : (t \o v)[i] = IF i <= Len(t) THEN t[i] ELSE v[i - Len(t)]
    BY <1>2, <2>1, ConcatProperties
  <2>. QED  BY <1>2, <2>1, <2>2 DEF v
<1>5. \A i \in 1..4 : (t \o << e >>)[i] = u[i]
  <2>1. \A i \in 1..4 : i = 1 \/ i = 2 \/ i = 3 \/ i = 4
    OBVIOUS
  <2>. QED  BY <1>1, <1>4, <1>3, <2>1
<1>6. t \o << e >> = u
  BY <1>1, <1>4, <1>5, SeqEqual
<1>. QED  BY <1>6 DEF t, u

LEMMA ThreeSteps ==
  ASSUME NEW a, NEW b, NEW c
  PROVE  << a >> \o << b, c >> \o << >> = << a, b, c >>
<1>. DEFINE S == {a, b, c}
            t == << a >> \o << b, c >>
            u == << a, b, c >>
<1>1. /\ << a >> \in Seq(S) /\ << b, c >> \in Seq(S) /\ u \in Seq(S)
      /\ Len(<< a >>) = 1 /\ Len(<< b, c >>) = 2 /\ Len(u) = 3
      /\ << a >>[1] = a /\ << b, c >>[1] = b /\ << b, c >>[2] = c
      /\ u[1] = a /\ u[2] = b /\ u[3] = c
  OBVIOUS
<1>. HIDE DEF S
<1>2. /\ t \in Seq(S) /\ Len(t) = 3
      /\ \A i \in 1..3 : t[i] = IF i <= 1 THEN << a >>[i] ELSE << b, c >>[i - 1]
  BY <1>1, ConcatProperties
<1>. HIDE DEF t, u
<1>3. t[1] = a /\ t[2] = b /\ t[3] = c
  BY <1>1, <1>2
<1>4. \A i \in 1..3 : t[i] = u[i]
  <2>1. \A i \in 1..3 : i = 1 \/ i = 2 \/ i = 3
    OBVIOUS
  <2>. QED  BY <1>1, <1>3, <2>1
<1>5. t = u
  BY <1>1, <1>2, <1>4, SeqEqual
<1>6. t \o << >> = t
  BY <1>2, ConcatEmptySeq
<1>. QED  BY <1>5, <1>6 DEF t, u

LEMMA LastStepsAre ==
  ASSUME NEW n
  PROVE  /\ IsSeq(LastSteps(n))
         /\ Head(LastSteps(n)) = Verdict(n, 1, "requires_accounting_adjustment")
         /\ Tail(LastSteps(n)) = << Audit(n, 1), Event(n, 1), Commit(n) >>
         /\ LastSteps(n) # << >>
         /\ \A x : In(x, LastSteps(n)) => x.do # "call"
<1>. DEFINE a == Verdict(n, 1, "requires_accounting_adjustment")
            b == Audit(n, 1)
            e == Event(n, 1)
            c == Commit(n)
<1>1. a.do = "put" /\ b.do = "put" /\ e.do = "put" /\ c.do = "commit"
  BY VerdictRecords, AuditRecords DEF About
<1>. HIDE DEF a, b, e, c
<1>2. LastSteps(n) = << a, b, e, c >>
  BY DEF LastSteps, a, b, e, c
<1>3. << a, b, e, c >> \in Seq({a, b, e, c}) /\ DOMAIN << a, b, e, c >> = 1..4
  OBVIOUS
<1>4. \A x : In(x, << a, b, e, c >>) => x \in {a, b, e, c}
  BY <1>3 DEF In
<1>5. /\ Head(<< a, b, e, c >>) = a /\ Tail(<< a, b, e, c >>) = << b, e, c >>
      /\ << a, b, e, c >> # << >>
  OBVIOUS
<1>. QED  BY <1>1, <1>2, <1>3, <1>4, <1>5, SequenceOfElements DEF a, b, e, c

LEMMA CorrectingFacts ==
  ASSUME NEW n, Correcting(n)
  PROVE  /\ todo # << >>
         /\ \/ /\ Head(todo) = Verdict(n, 1, "requires_accounting_adjustment")
               /\ Tail(todo) = << Audit(n, 1), Event(n, 1), Commit(n) >>
            \/ /\ Unrelated(Head(todo))
               /\ \E p : /\ IsSeq(p) /\ \A x : In(x, p) => Unrelated(x)
                         /\ Tail(todo) = p \o LastSteps(n)
<1>. DEFINE q == LastSteps(n)
<1>1. PICK p : IsSeq(p) /\ (\A x : In(x, p) => Unrelated(x)) /\ todo = p \o q
  BY DEF Correcting
<1>2. /\ IsSeq(q) /\ q # << >>
      /\ Head(q) = Verdict(n, 1, "requires_accounting_adjustment")
      /\ Tail(q) = << Audit(n, 1), Event(n, 1), Commit(n) >>
  BY LastStepsAre
<1>. HIDE DEF q
<1>3. CASE p = << >>
  <2>1. << >> \o q = q
    BY <1>2 DEF IsSeq
  <2>. QED  BY <1>1, <1>2, <1>3, <2>1
<1>4. CASE p # << >>
  <2>1. /\ todo # << >> /\ Head(todo) = Head(p) /\ Tail(todo) = Tail(p) \o q
        /\ Unrelated(Head(p)) /\ IsSeq(Tail(p)) /\ \A x : In(x, Tail(p)) => Unrelated(x)
    BY <1>1, <1>2, <1>4, TailConcatenation
  <2>. QED  BY <2>1 DEF q
<1>. QED  BY <1>3, <1>4

(* What is done next is about n, or about no decision.                     *)
LEMMA HeadAbout ==
  ASSUME NEW n, Handles(n), Doing("put")
  PROVE  \A m : m # n => ~Touches(Head(todo).rec, m)
<1>. DEFINE h == Head(todo)
<1>1. CASE \E d \in Decisions : Deciding(n, d)
  <2>1. PICK d \in Decisions : Deciding(n, d)
    BY <1>1
  <2>2. h = Verdict(n, 0, d)
    BY <2>1, Tails DEF Deciding
  <2>3. About(Verdict(n, 0, d), n, 0)
    BY VerdictRecords
  <2>. QED  BY <2>2, <2>3 DEF About
<1>2. CASE Correcting(n)
  <2>1. h = Verdict(n, 1, "requires_accounting_adjustment") \/ Unrelated(h)
    BY <1>2, CorrectingFacts
  <2>2. h.do = "put"
    BY DEF Doing
  <2>3. About(Verdict(n, 1, "requires_accounting_adjustment"), n, 1)
    BY VerdictRecords
  <2>. HIDE DEF h
  <2>. QED  BY <2>1, <2>2, <2>3 DEF About, Unrelated, Touches, h
<1>3. CASE \E i \in {0, 1} : Recording(n, i)
  <2>1. PICK i \in {0, 1} : Recording(n, i)
    BY <1>3
  <2>2. h \in {Audit(n, i), Event(n, i), Commit(n)}
    BY <2>1, Tails DEF Recording
  <2>3. h.do = "put"
    BY DEF Doing
  <2>4. About(Audit(n, i), n, i) /\ About(Event(n, i), n, i) /\ Commit(n).do = "commit"
    BY AuditRecords
  <2>. HIDE DEF h
  <2>5. About(h, n, i)
    BY <2>2, <2>3, <2>4
  <2>. QED  BY <2>5 DEF About, h
<1>. QED  BY <1>1, <1>2, <1>3 DEF Handles

LEMMA AppendDeciding ==
  ASSUME AppendRecord, NEW n, NEW d, Deciding(n, d)
  PROVE  Recording(n, 0)'
<1>. DEFINE v == Verdict(n, 0, d)
<1>1. disk' = disk \cup {Head(todo).rec} /\ todo' = Tail(todo)
  BY DEF AppendRecord, Leave
<1>2. Untouched(n) /\ Head(todo) = v
  BY Tails DEF Deciding
<1>7. \/ Tail(todo) = << Audit(n, 0), Event(n, 0), Commit(n) >>
      \/ Tail(todo) = << Audit(n, 0), Event(n, 0) >> /\ d \in LeftPending
  <2>1. CASE todo = << v, Audit(n, 0), Event(n, 0), Commit(n) >>
    BY <2>1, Tails
  <2>2. CASE todo = << v, Audit(n, 0), Event(n, 0) >> /\ d \in LeftPending
    BY <2>2, Tails
  <2>. QED  BY <2>1, <2>2 DEF Deciding
<1>3. /\ About(v, n, 0) /\ About(Audit(n, 0), n, 0) /\ About(Event(n, 0), n, 0)
      /\ v.rec.kind = "reconciliation_records" /\ v.rec.data.decision = d
      /\ Audit(n, 0).rec.kind \in {"recovery.reconciliation_recorded",
                                   "recovery.accounting_adjustment_resolved"}
      /\ Event(n, 0).rec.kind = "recovery.reconciliation_recorded.v1"
  BY VerdictRecords, AuditRecords
<1>. HIDE DEF v
<1>4. Absent(Audit(n, 0)) /\ Absent(Event(n, 0))
  BY <1>2, <1>3, AbsentWhere DEF Untouched
<1>5. Absent(Audit(n, 0))' /\ Absent(Event(n, 0))'
  BY <1>1, <1>2, <1>3, <1>4, AbsentStill
<1>6. Answered(n, d)'
  BY <1>1, <1>2, <1>3 DEF Untouched, Answered, About, Touches
<1>. QED  BY <1>1, <1>5, <1>6, <1>7 DEF Recording

LEMMA AppendCorrecting ==
  ASSUME AppendRecord, NEW n, Correcting(n)
  PROVE  Correcting(n)' \/ Recording(n, 1)'
<1>1. disk' = disk \cup {Head(todo).rec} /\ todo' = Tail(todo) /\ Head(todo).do = "put"
  BY DEF AppendRecord, Leave, Doing
<1>2. CASE /\ Head(todo) = Verdict(n, 1, "requires_accounting_adjustment")
           /\ Tail(todo) = << Audit(n, 1), Event(n, 1), Commit(n) >>
  <2>1. /\ About(Audit(n, 1), n, 1) /\ About(Event(n, 1), n, 1)
        /\ Head(todo).rec.kind = "reconciliation_records"
        /\ Audit(n, 1).rec.kind \in {"recovery.reconciliation_recorded",
                                     "recovery.accounting_adjustment_resolved"}
        /\ Event(n, 1).rec.kind = "recovery.reconciliation_recorded.v1"
    BY <1>2, VerdictRecords, AuditRecords
  <2>2. \A r \in disk : Touches(r, n) => r.n # 1
    BY DEF Correcting, Answered
  <2>3. Absent(Audit(n, 1)) /\ Absent(Event(n, 1))
    BY <2>1, <2>2, AbsentWhere
  <2>4. Absent(Audit(n, 1))' /\ Absent(Event(n, 1))'
    BY <1>1, <2>1, <2>3, AbsentStill
  <2>. QED  BY <1>1, <1>2, <2>4 DEF Recording
<1>3. CASE /\ Unrelated(Head(todo))
           /\ \E p : /\ IsSeq(p) /\ \A x : In(x, p) => Unrelated(x)
                     /\ Tail(todo) = p \o LastSteps(n)
  <2>1. ~Touches(Head(todo).rec, n)
    BY <1>1, <1>3 DEF Unrelated, Touches
  <2>2. Answered(n, "requires_accounting_adjustment")'
    BY <1>1, <2>1, UntouchedStill DEF Correcting
  <2>. QED  BY <1>1, <1>3, <2>2 DEF Correcting, LastSteps, Verdict, Audit, Event, Put, Commit
<1>. QED  BY <1>2, <1>3, CorrectingFacts

LEMMA AppendRecording ==
  ASSUME AppendRecord, NEW n, NEW i \in {0, 1}, Recording(n, i)
  PROVE  Recording(n, i)' \/ (todo' = << >> /\ Actionable(n)')
<1>. DEFINE h == Head(todo)
<1>1. disk' = disk \cup {h.rec} /\ todo' = Tail(todo) /\ h.do = "put"
  BY DEF AppendRecord, Leave, Doing
<1>2. /\ About(Audit(n, i), n, i) /\ About(Event(n, i), n, i) /\ Commit(n).do = "commit"
      /\ Audit(n, i).rec.kind \in {"recovery.reconciliation_recorded",
                                   "recovery.accounting_adjustment_resolved"}
      /\ Event(n, i).rec.kind = "recovery.reconciliation_recorded.v1"
  BY AuditRecords
<1>3. ASSUME NEW d, Answered(n, d), i = 0, h \in {Audit(n, i), Event(n, i)}
      PROVE  Answered(n, d)'
  <2>1. h.rec.kind # "reconciliation_records" /\ h.rec.n = 0
    BY <1>2, <1>3 DEF About
  <2>. QED  BY <1>1, <1>3, <2>1, AnsweredStill
<1>4. CASE /\ Absent(Audit(n, i)) /\ Absent(Event(n, i))
           /\ \/ todo = << Audit(n, i), Event(n, i), Commit(n) >>
              \/ /\ todo = << Audit(n, i), Event(n, i) >>
                 /\ i = 0 /\ \E d \in LeftPending : Answered(n, d)
  <2>1. h = Audit(n, i)
    BY <1>4, Tails
  <2>2. Absent(Event(n, i))'
    BY <1>1, <1>2, <1>4, <2>1, AbsentStill
  <2>3. CASE todo = << Audit(n, i), Event(n, i), Commit(n) >>
    <3>1. todo' = << Event(n, i), Commit(n) >>
      BY <1>1, <2>3, Tails
    <3>. QED  BY <2>2, <3>1 DEF Recording
  <2>4. CASE /\ todo = << Audit(n, i), Event(n, i) >>
             /\ i = 0 /\ \E d \in LeftPending : Answered(n, d)
    <3>1. todo' = << Event(n, i) >>
      BY <1>1, <2>4, Tails
    <3>2. \E d \in LeftPending : Answered(n, d)'
      BY <1>3, <2>1, <2>4
    <3>. QED  BY <2>2, <2>4, <3>1, <3>2 DEF Recording
  <2>. QED  BY <1>4, <2>3, <2>4
<1>5. CASE \/ todo = << Event(n, i), Commit(n) >>
           \/ todo = << Event(n, i) >> /\ i = 0 /\ \E d \in LeftPending : Answered(n, d)
  <2>1. h = Event(n, i)
    BY <1>5, Tails
  <2>2. CASE todo = << Event(n, i), Commit(n) >>
    <3>1. todo' = << Commit(n) >>
      BY <1>1, <2>2, Tails
    <3>. QED  BY <3>1 DEF Recording
  <2>3. CASE todo = << Event(n, i) >> /\ i = 0 /\ \E d \in LeftPending : Answered(n, d)
    <3>1. todo' = << >>
      BY <1>1, <2>3, Tails
    <3>2. \E d \in LeftPending : Answered(n, d)'
      BY <1>3, <2>1, <2>3
    <3>. QED  BY <3>1, <3>2 DEF Actionable
  <2>. QED  BY <1>5, <2>2, <2>3
<1>6. todo # << Commit(n) >>
  BY <1>1, <1>2, Tails
<1>. QED  BY <1>4, <1>5, <1>6 DEF Recording

-----------------------------------------------------------------------------
(* The other steps of a run of the recovery command.                       *)

(* None of the records of a decision is ever refused.                      *)
LEMMA RefusedHandles ==
  ASSUME RecoveryKinds \cap RejectedEvents = {},
         NEW n, Handles(n), Doing("put"), ~Appendable(Head(todo).rec)
  PROVE  Actionable(n)
<1>. DEFINE h == Head(todo)
<1>1. ASSUME NEW i, About(h, n, i) PROVE ~Absent(h)
  <2>1. h.rec.kind \notin RejectedEvents
    BY <1>1 DEF About, Touches
  <2>. QED  BY <2>1 DEF Appendable, Absent
<1>2. CASE \E d \in Decisions : Deciding(n, d)
  <2>1. PICK d \in Decisions : Deciding(n, d)
    BY <1>2
  <2>2. h = Verdict(n, 0, d)
    BY <2>1, Tails DEF Deciding
  <2>3. About(Verdict(n, 0, d), n, 0)
    BY VerdictRecords
  <2>4. Absent(Verdict(n, 0, d))
    BY <2>1, <2>3, AbsentWhere DEF Deciding, Untouched
  <2>. QED  BY <1>1, <2>2, <2>3, <2>4
<1>3. CASE Correcting(n)
  BY <1>3 DEF Correcting, Actionable, LeftPending
<1>4. CASE \E i \in {0, 1} : Recording(n, i)
  <2>1. PICK i \in {0, 1} : Recording(n, i)
    BY <1>4
  <2>2. \/ h = Audit(n, i) /\ Absent(Audit(n, i))
        \/ h = Event(n, i) /\ Absent(Event(n, i))
        \/ h = Commit(n)
    BY <2>1, Tails DEF Recording
  <2>3. h.do = "put"
    BY DEF Doing
  <2>4. About(Audit(n, i), n, i) /\ About(Event(n, i), n, i) /\ Commit(n).do = "commit"
    BY AuditRecords
  <2>. HIDE DEF h
  <2>. QED  BY <1>1, <2>2, <2>3, <2>4
<1>. QED  BY <1>2, <1>3, <1>4 DEF Handles

LEMMA CommitHandles ==
  ASSUME NEW n, Handles(n), Doing("commit")
  PROVE  \/ \E p : /\ IsSeq(p) /\ \A x : In(x, p) => Unrelated(x)
                   /\ Tail(todo) = p \o LastSteps(n)
                   /\ Answered(n, "requires_accounting_adjustment")
         \/ Head(todo) = Commit(n) /\ Tail(todo) = << >>
<1>. DEFINE h == Head(todo)
<1>1. h.do = "commit"
  BY DEF Doing
<1>2. CASE \E d \in Decisions : Deciding(n, d)
  <2>1. PICK d \in Decisions : Deciding(n, d)
    BY <1>2
  <2>2. h = Verdict(n, 0, d)
    BY <2>1, Tails DEF Deciding
  <2>3. About(Verdict(n, 0, d), n, 0)
    BY VerdictRecords
  <2>. QED  BY <1>1, <2>2, <2>3 DEF About
<1>3. CASE Correcting(n)
  <2>1. Verdict(n, 1, "requires_accounting_adjustment").do = "put"
    BY VerdictRecords DEF About
  <2>2. h # Verdict(n, 1, "requires_accounting_adjustment")
    BY <1>1, <2>1
  <2>. QED  BY <1>3, <2>2, CorrectingFacts DEF Correcting
<1>4. CASE \E i \in {0, 1} : Recording(n, i)
  <2>1. PICK i \in {0, 1} : Recording(n, i)
    BY <1>4
  <2>2. About(Audit(n, i), n, i) /\ About(Event(n, i), n, i)
    BY AuditRecords
  <2>3. h # Audit(n, i) /\ h # Event(n, i)
    BY <1>1, <2>2 DEF About
  <2>4. todo = << Commit(n) >>
    BY <2>1, <2>3, Tails DEF Recording
  <2>. QED  BY <2>4, Tails
<1>. QED  BY <1>2, <1>3, <1>4 DEF Handles

-----------------------------------------------------------------------------
(* The steps of the specification.                                         *)

LEMMA PendingEnter ==
  ASSUME RecoverInv, NEW c, NEW known, NEW rest, Command(c), Enter(c, known, rest),
         UNCHANGED disk
  PROVE  /\ todo' = Piece(c, disk, Len(wal) + 1) \o rest
         /\ Txns \subseteq Txns' /\ Pending' \subseteq Pending \cup {Len(wal) + 1}
         /\ Len(wal) + 1 \notin Txns /\ Actionable(Len(wal) + 1)
<1>. DEFINE n == Len(wal) + 1
<1>1. todo' = Piece(c, disk, n) \o rest /\ wal' = Append(wal, [cmd |-> c, state |-> "pending"])
  BY DEF Enter, Piece
<1>2. /\ DOMAIN wal' = DOMAIN wal \cup {n} /\ n \notin DOMAIN wal
      /\ \A m \in DOMAIN wal : wal'[m] = wal[m]
  BY <1>1, LogAppend DEF RecoverInv, CoreInv
<1>. HIDE DEF n
<1>3. Actionable(n)
  BY <1>2 DEF RecoverInv, Actionable, Untouched, Touches, Txns
<1>. QED  BY <1>1, <1>2, <1>3 DEF Pending, Txns, n

LEMMA EnterRecover ==
  ASSUME RecoverInv, process # "cli", process' # "cli",
         NEW c, NEW known, NEW rest, Command(c), Enter(c, known, rest), UNCHANGED disk,
         IsSeq(rest), \A x : In(x, rest) => Unrelated(x)
  PROVE  (\A x : In(x, todo') => Unrelated(x)) /\ \A n \in Pending' : Actionable(n)'
<1>1. /\ todo' = Piece(c, disk, Len(wal) + 1) \o rest
      /\ Pending' \subseteq Pending \cup {Len(wal) + 1} /\ Actionable(Len(wal) + 1)
  BY PendingEnter
<1>2. \A x : In(x, todo') => Unrelated(x)
  BY <1>1, PieceUnrelated, Members
<1>3. \A n \in Pending' : Actionable(n)
  BY <1>1 DEF RecoverInv
<1>. QED  BY <1>2, <1>3, SameAnswers

LEMMA AwaitingIsAnswered ==
  ASSUME RecoverInv, process # "cli", NEW n, AwaitsAdjustment(n)
  PROVE  Answered(n, "requires_accounting_adjustment")
<1>1. n \in Pending
  BY DEF AwaitsAdjustment
<1>2. PICK r \in disk : /\ r.kind = "reconciliation_records" /\ r.doc = n
                        /\ r.data.decision = "requires_accounting_adjustment"
  BY DEF AwaitsAdjustment, Of
<1>3. Touches(r, n)
  BY <1>2 DEF Touches, RecoveryKinds
<1>4. PICK d \in LeftPending : Answered(n, d)
  BY <1>1, <1>3 DEF RecoverInv, Actionable, Untouched
<1>5. d = "requires_accounting_adjustment"
  BY <1>2, <1>3, <1>4 DEF Answered
<1>. QED  BY <1>4, <1>5

LEMMA AdjustRecover ==
  ASSUME RecoverInv, NEW n \in Txns, NEW c \in Corrections, Adjust(n, c)
  PROVE  Recovering'
<1>. DEFINE q == [c EXCEPT !.source = n]
            p == Piece(q, disk, Len(wal) + 1)
<1>1. /\ process # "cli" /\ AwaitsAdjustment(n) /\ UNCHANGED disk
      /\ Enter(q, ClosedPeriods(disk),
               Records("reconciliation_records", n, 1,
                       [decision |-> "requires_accounting_adjustment"],
                       "recovery.accounting_adjustment_resolved",
                       "recovery.reconciliation_recorded.v1") \o << Commit(n) >>)
  BY DEF Adjust, Records
<1>2. Command(q) /\ q.op = "accounting.post_journal"
  <2>1. /\ Command(c) /\ c.op = "accounting.post_journal"
        /\ DOMAIN c = Fields("accounting.post_journal")
    BY WorkflowsAssumption DEF Command
  <2>2. q.op = c.op /\ DOMAIN q = DOMAIN c /\ q.lines = c.lines
    BY <2>1 DEF Fields
  <2>. HIDE DEF q
  <2>. QED  BY <2>1, <2>2 DEF Command
<1>3. Records("reconciliation_records", n, 1,
              [decision |-> "requires_accounting_adjustment"],
              "recovery.accounting_adjustment_resolved",
              "recovery.reconciliation_recorded.v1") \o << Commit(n) >> = LastSteps(n)
  BY FourSteps DEF Records, AuditAndEvent, LastSteps, Verdict, Audit, Event
<1>. HIDE DEF q
<1>4. /\ todo' = p \o LastSteps(n) /\ Txns \subseteq Txns'
      /\ Pending' \subseteq Pending \cup {Len(wal) + 1} /\ Actionable(Len(wal) + 1)
  BY <1>1, <1>2, <1>3, PendingEnter
<1>5. /\ IsSeq(p) /\ \A x : In(x, p) => Unrelated(x)
      /\ \A x : In(x, p) => x.do # "call"
  BY <1>2, PieceUnrelated, JournalPuts
<1>6. Answered(n, "requires_accounting_adjustment")
  BY <1>1, AwaitingIsAnswered
<1>7. (\A x : In(x, todo') => x.do # "call")
  BY <1>4, <1>5, LastStepsAre, Members
<1>8. Answered(n, "requires_accounting_adjustment")'
  BY <1>1, <1>6, SameAnswers
<1>9. Correcting(n)'
  BY <1>4, <1>5, <1>8 DEF Correcting, LastSteps, Verdict, Audit, Event, Put, Commit
<1>10. \A m \in Pending' : Actionable(m)
  BY <1>1, <1>4 DEF RecoverInv
<1>11. \A m \in Pending' : Actionable(m)'
  BY <1>1, <1>10, SameAnswers
<1>. QED  BY <1>4, <1>7, <1>9, <1>11 DEF Recovering, Handles, OthersActionable

LEMMA ReconcileRecover ==
  ASSUME RecoverInv, NEW n \in Txns, NEW d \in Decisions, Reconcile(n, d)
  PROVE  Recovering'
<1>. DEFINE a == Verdict(n, 0, d)
            b == Audit(n, 0)
            e == Event(n, 0)
            c == Commit(n)
<1>1. /\ process # "cli" /\ n \in Pending /\ ~Reconciled(n) /\ UNCHANGED <<wal, disk>>
      /\ todo' = << a >> \o << b, e >> \o If(d = "accepted_existing_records", << c >>)
  BY DEF Reconcile, AuditAndEvent, Verdict, Audit, Event
<1>2. a.do = "put" /\ b.do = "put" /\ e.do = "put" /\ c.do = "commit"
  BY VerdictRecords, AuditRecords DEF About
<1>3. Untouched(n)
  <2>1. \A x : ~Answered(n, x)
    BY <1>1 DEF Answered, Reconciled, Has
  <2>. QED  BY <1>1, <2>1 DEF RecoverInv, Actionable
<1>4. Untouched(n)'
  BY <1>1, <1>3, SameAnswers
<1>. HIDE DEF a, b, e, c
<1>5. \/ todo' = << a, b, e, c >>
      \/ todo' = << a, b, e >> /\ d \in LeftPending
  <2>1. CASE d = "accepted_existing_records"
    BY <1>1, <2>1, FourSteps DEF If
  <2>2. CASE d # "accepted_existing_records"
    <3>1. d \in LeftPending
      BY <2>2, WorkflowsAssumption DEF LeftPending
    <3>2. << a >> \o << b, e >> \o << >> = << a, b, e >>
      BY ThreeSteps
    <3>. QED  BY <1>1, <2>2, <3>1, <3>2 DEF If
  <2>. QED  BY <2>1, <2>2
<1>6. \A x : In(x, todo') => x.do # "call"
  <2>1. DOMAIN << a, b, e, c >> = 1..4 /\ DOMAIN << a, b, e >> = 1..3
    OBVIOUS
  <2>2. \A x : In(x, todo') => x \in {a, b, e, c}
    BY <1>5, <2>1 DEF In
  <2>. QED  BY <1>2, <2>2
<1>7. Deciding(n, d)'
  BY <1>4, <1>5 DEF Deciding, a, b, e, c, Verdict, Audit, Event, Put, Commit
<1>8. OthersActionable(n)'
  BY <1>1, SameAnswers DEF RecoverInv, OthersActionable, Pending, Txns
<1>. QED  BY <1>1, <1>6, <1>7, <1>8 DEF Recovering, Handles, Txns

LEMMA AppendRecover ==
  ASSUME RecoverInv, AppendRecord
  PROVE  /\ \A r \in disk' : r.kind \in RecoveryKinds => r.doc \in Txns'
         /\ process' # "cli" => /\ \A x : In(x, todo') => Unrelated(x)
                                /\ \A n \in Pending' : Actionable(n)'
         /\ process' = "cli" => Recovering'
<1>. DEFINE h == Head(todo)
<1>1. /\ todo # << >> /\ h.do = "put" /\ disk' = disk \cup {h.rec} /\ todo' = Tail(todo)
      /\ process' = IF process = "cli" /\ todo' = << >> THEN "none" ELSE process
      /\ Txns' = Txns /\ Pending' = Pending /\ Doing("put")
  BY DEF AppendRecord, Doing, Leave, Txns, Pending
<1>2. /\ IsSeq(todo) /\ In(h, todo) /\ \A x : In(x, todo') => In(x, todo)
  <2>1. IsSeq(todo)
    BY DEF RecoverInv, CoreInv, Sound
  <2>. QED  BY <1>1, <2>1, TailFacts DEF In
<1>. HIDE DEF h
<1>3. CASE process # "cli"
  <2>1. \A n : ~Touches(h.rec, n)
    BY <1>1, <1>2, <1>3 DEF RecoverInv, Unrelated, Touches
  <2>2. \A n \in Pending' : Actionable(n)'
    BY <1>1, <1>3, <2>1, UntouchedStill DEF RecoverInv
  <2>3. \A r \in disk' : r.kind \in RecoveryKinds => r.doc \in Txns'
    BY <1>1, <2>1 DEF RecoverInv, Touches
  <2>. QED  BY <1>1, <1>2, <1>3, <2>2, <2>3 DEF RecoverInv
<1>4. CASE process = "cli"
  <2>1. PICK n \in Txns : Handles(n) /\ OthersActionable(n)
    BY <1>4 DEF RecoverInv, Recovering
  <2>2. \A m : m # n => ~Touches(h.rec, m)
    BY <1>1, <2>1, HeadAbout DEF h
  <2>3. \A r \in disk' : r.kind \in RecoveryKinds => r.doc \in Txns'
    BY <1>1, <2>1, <2>2 DEF RecoverInv, Touches
  <2>4. OthersActionable(n)'
    BY <1>1, <2>1, <2>2, UntouchedStill DEF OthersActionable
  <2>5. Handles(n)' \/ (todo' = << >> /\ Actionable(n)')
    <3>1. CASE \E d \in Decisions : Deciding(n, d)
      BY <3>1, AppendDeciding DEF Handles
    <3>2. CASE Correcting(n)
      BY <3>2, AppendCorrecting DEF Handles
    <3>3. CASE \E i \in {0, 1} : Recording(n, i)
      BY <3>3, AppendRecording DEF Handles
    <3>. QED  BY <2>1, <3>1, <3>2, <3>3 DEF Handles
  <2>6. \A x : In(x, todo') => x.do # "call"
    BY <1>2, <1>4 DEF RecoverInv, Recovering
  <2>7. CASE todo' = << >> /\ Actionable(n)'
    <3>1. \A m \in Pending' : Actionable(m)'
      BY <2>4, <2>7 DEF OthersActionable
    <3>. QED  BY <1>1, <1>4, <2>3, <2>7, <3>1, NoSteps
  <2>8. CASE Handles(n)' /\ todo' # << >>
    BY <1>1, <1>4, <2>1, <2>3, <2>4, <2>6, <2>8 DEF Recovering
  <2>9. Handles(n)' => todo' # << >>
    <3>1. \A d : Deciding(n, d)' => todo' # << >>
      BY Tails DEF Deciding
    <3>2. Correcting(n)' => todo' # << >>
      BY LastStepsAre, Concatenation DEF Correcting
    <3>3. \A i : Recording(n, i)' => todo' # << >>
      BY Tails DEF Recording
    <3>. QED  BY <3>1, <3>2, <3>3 DEF Handles
  <2>. QED  BY <2>5, <2>7, <2>8, <2>9
<1>. QED  BY <1>3, <1>4

LEMMA NextRecover ==
  ASSUME RecoveryKinds \cap RejectedEvents = {},
         RecoverInv, [Next /\ Uninterrupted]_vars
  PROVE  RecoverInv'
<1>0. CoreInv'
  BY NextCore DEF RecoverInv
<1>1. CASE StartApplication \/ Stop \/ Recover
  <2>1. /\ process # "cli" /\ process' # "cli" /\ todo' = todo /\ UNCHANGED disk
        /\ Txns' = Txns /\ Pending' \subseteq Pending
    <3>1. CASE StartApplication \/ Stop
      BY <3>1 DEF StartApplication, Stop, Txns, Pending
    <3>2. CASE Recover
      <4>1. \A n \in Pending : [wal[n] EXCEPT !.state = "rolledback"].state = "rolledback"
        BY LogFacts DEF RecoverInv, CoreInv, Pending, Txns
      <4>2. /\ process = "none" /\ process' = process /\ todo' = todo /\ UNCHANGED disk
            /\ wal' = [n \in Txns |-> IF n \in Pending
                                      THEN [wal[n] EXCEPT !.state = "rolledback"] ELSE wal[n]]
        BY <3>2 DEF Recover
      <4>3. Txns' = Txns
        BY <4>2 DEF Txns
      <4>4. Pending' \subseteq Pending
        BY <4>1, <4>2, <4>3 DEF Pending
      <4>. QED  BY <4>2, <4>3, <4>4
    <3>. QED  BY <1>1, <3>1, <3>2
  <2>. QED  BY <1>0, <2>1, SameAnswers DEF RecoverInv
<1>2. CASE \E c \in Commands : Begin(c)
  <2>1. PICK c \in Commands : Begin(c)
    BY <1>2
  <2>2. /\ Enter(c, closed, << >>) /\ UNCHANGED disk /\ Command(c)
        /\ process = "app" /\ process' = "app"
    BY <2>1, WorkflowsAssumption DEF Begin
  <2>3. (\A x : In(x, todo') => Unrelated(x)) /\ \A n \in Pending' : Actionable(n)'
    BY <2>2, EnterRecover, NoSteps
  <2>4. Txns \subseteq Txns'
    BY <2>2, PendingEnter
  <2>. QED  BY <1>0, <2>2, <2>3, <2>4 DEF RecoverInv
<1>3. CASE AppendRecord
  BY <1>0, <1>3, AppendRecover DEF RecoverInv
<1>4. CASE CallOperation
  <2>. DEFINE c == Priced(Head(todo).cmd, disk)
  <2>1. /\ todo # << >> /\ Head(todo).do = "call" /\ Enter(c, closed, Tail(todo))
        /\ UNCHANGED <<disk, process>>
    BY <1>4 DEF CallOperation, Doing
  <2>2. /\ IsSeq(todo) /\ IsSeq(Tail(todo)) /\ In(Head(todo), todo)
        /\ \A x : In(x, Tail(todo)) => In(x, todo)
    <3>1. IsSeq(todo)
      BY DEF RecoverInv, CoreInv, Sound
    <3>. QED  BY <2>1, <3>1, TailFacts DEF In
  <2>3. process # "cli"
    BY <2>1, <2>2 DEF RecoverInv, Recovering
  <2>4. Command(c)
    <3>1. Command(Head(todo).cmd)
      BY <2>1, <2>2 DEF RecoverInv, CoreInv, Sound, Plain, Commits, In
    <3>. QED  BY <3>1, PricedOwes
  <2>. HIDE DEF c
  <2>5. (\A x : In(x, todo') => Unrelated(x)) /\ \A n \in Pending' : Actionable(n)'
    BY <2>1, <2>2, <2>3, <2>4, EnterRecover DEF RecoverInv
  <2>6. Txns \subseteq Txns'
    BY <2>1, <2>4, PendingEnter
  <2>. QED  BY <1>0, <2>1, <2>3, <2>5, <2>6 DEF RecoverInv
<1>5. CASE CommitTransaction
  <2>. DEFINE k == Head(todo).txn
  <2>1. /\ todo # << >> /\ Doing("commit") /\ Head(todo).do = "commit" /\ todo' = Tail(todo)
        /\ wal' = [wal EXCEPT ![k].state = "committed"] /\ UNCHANGED disk
        /\ process' = IF process = "cli" /\ todo' = << >> THEN "none" ELSE process
    BY <1>5 DEF CommitTransaction, Doing, Leave
  <2>2. IsSeq(todo) /\ \A x : In(x, todo') => In(x, todo)
    <3>1. IsSeq(todo)
      BY DEF RecoverInv, CoreInv, Sound
    <3>. QED  BY <2>1, <3>1, TailFacts DEF In
  <2>3. Txns' = Txns
    BY <2>1 DEF Txns
  <2>. HIDE DEF k
  <2>4. Pending' \subseteq Pending \ {k}
    <3>1. \A n \in Txns : n # k => wal'[n] = wal[n]
      BY <2>1 DEF Txns
    <3>2. k \in Txns => wal'[k].state = "committed"
      <4>1. k \in Txns => wal'[k] = [wal[k] EXCEPT !.state = "committed"]
        BY <2>1 DEF Txns
      <4>2. \A n \in DOMAIN wal : [wal[n] EXCEPT !.state = "committed"].state = "committed"
        BY LogFacts DEF RecoverInv, CoreInv
      <4>. QED  BY <4>1, <4>2 DEF Txns
    <3>3. ASSUME NEW n \in Pending' PROVE n \in Pending \ {k}
      <4>1. n \in Txns /\ wal'[n].state = "pending"
        BY <2>3 DEF Pending
      <4>2. n # k
        BY <3>2, <4>1
      <4>. QED  BY <3>1, <4>1, <4>2 DEF Pending
    <3>. QED  BY <3>3
  <2>5. CASE process # "cli"
    BY <1>0, <2>1, <2>2, <2>3, <2>4, <2>5, SameAnswers DEF RecoverInv
  <2>6. CASE process = "cli"
    <3>1. PICK n \in Txns : Handles(n) /\ OthersActionable(n)
      BY <2>6 DEF RecoverInv, Recovering
    <3>2. OthersActionable(n)'
      BY <2>1, <2>4, <3>1, SameAnswers DEF OthersActionable
    <3>3. \A x : In(x, todo') => x.do # "call"
      BY <2>2, <2>6 DEF RecoverInv, Recovering
    <3>4. CASE \E p : /\ IsSeq(p) /\ \A x : In(x, p) => Unrelated(x)
                      /\ Tail(todo) = p \o LastSteps(n)
                      /\ Answered(n, "requires_accounting_adjustment")
      <4>1. Answered(n, "requires_accounting_adjustment")'
        BY <2>1, <3>4, SameAnswers
      <4>2. Correcting(n)'
        BY <2>1, <3>4, <4>1 DEF Correcting, LastSteps, Verdict, Audit, Event, Put, Commit
      <4>3. todo' # << >>
        BY <2>1, <3>4, LastStepsAre, Concatenation
      <4>. QED  BY <1>0, <2>1, <2>3, <2>6, <3>1, <3>2, <3>3, <4>2, <4>3
                DEF RecoverInv, Recovering, Handles
    <3>5. CASE Head(todo) = Commit(n) /\ Tail(todo) = << >>
      <4>1. k = n
        BY <3>5 DEF k, Commit
      <4>2. \A m \in Pending' : Actionable(m)'
        BY <2>4, <3>2, <4>1 DEF OthersActionable
      <4>. QED  BY <1>0, <2>1, <2>3, <2>6, <3>5, <4>2, NoSteps DEF RecoverInv
    <3>. QED  BY <2>1, <3>1, <3>4, <3>5, CommitHandles
  <2>. QED  BY <2>5, <2>6
<1>6. CASE Refused \/ StoreFails \/ Crash
  <2>1. todo' = << >> /\ process' # "cli" /\ UNCHANGED <<wal, disk>>
    BY <1>6 DEF Refused, StoreFails, Crash, Abandon
  <2>2. Txns' = Txns /\ Pending' = Pending
    BY <2>1 DEF Txns, Pending
  <2>3. \A n \in Pending : Actionable(n)
    <3>1. CASE process # "cli"
      BY <3>1 DEF RecoverInv
    <3>2. CASE process = "cli"
      <4>1. PICK n \in Txns : Handles(n) /\ OthersActionable(n)
        BY <3>2 DEF RecoverInv, Recovering
      <4>2. Refused
        <5>1. CASE StoreFails \/ Crash
          <6>1. faults' = faults + 1 /\ faults \in Nat
            BY <5>1, WorkflowsAssumption DEF StoreFails, Crash, RecoverInv, CoreInv, TypeOK
          <6>. QED  BY <3>2, <5>1, <6>1 DEF Uninterrupted, vars
        <5>. QED  BY <1>6, <5>1
      <4>3. Doing("put") /\ ~Appendable(Head(todo).rec)
        <5>1. IsSeq(todo)
          BY DEF RecoverInv, CoreInv, Sound
        <5>2. ~Doing("call")
          BY <3>2, <5>1, TailFacts DEF RecoverInv, Recovering, Doing, In
        <5>. QED  BY <4>2, <5>2 DEF Refused
      <4>4. Actionable(n)
        BY <4>1, <4>3, RefusedHandles
      <4>. QED  BY <4>1, <4>4 DEF OthersActionable
    <3>. QED  BY <3>1, <3>2
  <2>. QED  BY <1>0, <2>1, <2>2, <2>3, SameAnswers, NoSteps DEF RecoverInv
<1>7. CASE \E n \in Txns, d \in Decisions : Reconcile(n, d)
  <2>1. process' = "cli" /\ UNCHANGED <<wal, disk>>
    BY <1>7 DEF Reconcile
  <2>. QED  BY <1>0, <1>7, <2>1, ReconcileRecover DEF RecoverInv, Txns
<1>8. CASE \E n \in Txns, c \in Corrections : Adjust(n, c)
  <2>1. PICK n \in Txns, c \in Corrections : Adjust(n, c)
    BY <1>8
  <2>2. process' = "cli" /\ UNCHANGED disk
    BY <2>1 DEF Adjust
  <2>3. Txns \subseteq Txns'
    <3>1. \A e : DOMAIN wal \subseteq DOMAIN Append(wal, e)
      BY LogFacts DEF RecoverInv, CoreInv, LogOK
    <3>. QED  BY <2>1, <3>1 DEF Adjust, Enter, Txns
  <2>4. Recovering'
    BY <2>1, AdjustRecover
  <2>. QED  BY <1>0, <2>2, <2>3, <2>4 DEF RecoverInv
<1>9. CASE UNCHANGED vars
  <2>1. /\ UNCHANGED <<disk, todo, process>> /\ Txns' = Txns /\ Pending' = Pending
    BY <1>9 DEF vars, Txns, Pending
  <2>2. \A n : /\ Handles(n)' <=> Handles(n)
               /\ OthersActionable(n)' <=> OthersActionable(n)
    BY <2>1, SameAnswers DEF Handles, OthersActionable, Deciding, Correcting, Recording,
         Untouched, Answered, Touches, Absent
  <2>. QED  BY <1>0, <2>1, <2>2, SameAnswers DEF RecoverInv, Recovering
<1>. QED  BY <1>1, <1>2, <1>3, <1>4, <1>5, <1>6, <1>7, <1>8, <1>9 DEF Next

-----------------------------------------------------------------------------
(* What that means for the operator.                                       *)

LEMMA SmallestOf ==
  ASSUME NEW S, S \subseteq Nat, S # {}
  PROVE  Min(S) \in S
<1>. DEFINE B == {0..k : k \in S}
<1>1. IsWellFoundedOn(StrictSubsetOrdering(Nat), FiniteSubsetsOf(Nat))
  BY FS_StrictSubsetOrderingWellFounded
<1>2. B \subseteq FiniteSubsetsOf(Nat) /\ B # {}
  <2>1. \A k \in S : 0..k \subseteq Nat /\ IsFiniteSet(0..k)
    BY FS_Interval
  <2>. QED  BY <2>1 DEF FiniteSubsetsOf
<1>3. PICK A \in B : \A C \in B : <<C, A>> \notin StrictSubsetOrdering(Nat)
  BY <1>1, <1>2, WFMin
<1>4. PICK k \in S : A = 0..k
  OBVIOUS
<1>5. ASSUME NEW y \in S, y < k
      PROVE  FALSE
  <2>1. 0..y \subseteq A /\ A \subseteq Nat /\ k \in A /\ k \notin 0..y
    BY <1>4, <1>5
  <2>2. <<0..y, A>> \in (SUBSET Nat) \X (SUBSET Nat) /\ 0..y # A
    BY <2>1
  <2>3. <<0..y, A>> \in StrictSubsetOrdering(Nat)
    BY <2>1, <2>2 DEF StrictSubsetOrdering
  <2>. QED  BY <1>3, <2>3
<1>6. \A y \in S : k =< y
  BY <1>5
<1>. QED  BY <1>6 DEF Min

LEMMA VerdictOn ==
  ASSUME NEW n \in Pending
  PROVE  /\ Untouched(n) => ~Reconciled(n) /\ Decided(n) = {}
         /\ \A d : Answered(n, d) =>
              /\ Decided(n) = {d}
              /\ \E r \in Of(disk, "reconciliation_records") : r.data.decision = d
              /\ d = "requires_accounting_adjustment" => AwaitsAdjustment(n)
<1>1. ASSUME Untouched(n) PROVE ~Reconciled(n) /\ Decided(n) = {}
  BY <1>1 DEF Untouched, Touches, RecoveryKinds, Reconciled, Has, Decided, Of
<1>2. ASSUME NEW d, Answered(n, d)
      PROVE  /\ Decided(n) = {d}
             /\ \E r \in Of(disk, "reconciliation_records") : r.data.decision = d
             /\ d = "requires_accounting_adjustment" => AwaitsAdjustment(n)
  <2>1. \A r \in Of(disk, "reconciliation_records") : r.doc = n =>
          r.n = 0 /\ r.data.decision = d
    BY <1>2 DEF Answered, Touches, RecoveryKinds, Of
  <2>2. \E r \in Of(disk, "reconciliation_records") :
          r.doc = n /\ r.n = 0 /\ r.data.decision = d
    BY <1>2, <2>1 DEF Answered, Of
  <2>3. Decided(n) = {d}
    BY <2>1, <2>2 DEF Decided
  <2>. QED  BY <2>1, <2>2, <2>3 DEF AwaitsAdjustment
<1>. QED  BY <1>1, <1>2

LEMMA RecoverPossible ==
  ASSUME RecoverInv
  PROVE  RecoveryPossible
<1>. SUFFICES ASSUME process = "none", Pending # {}
              PROVE  \/ \E n \in Pending : ~Reconciled(n) \/ AwaitsAdjustment(n)
                     \/ \E r \in Of(disk, "reconciliation_records") :
                          r.data.decision \in {"voided_as_incomplete",
                                               "requires_restore_from_backup"}
  BY DEF RecoveryPossible
<1>1. PICK n \in Pending : Actionable(n)
  BY DEF RecoverInv
<1>. QED  BY <1>1, VerdictOn DEF Actionable, LeftPending

LEMMA RecoverAdvises ==
  ASSUME RecoverInv
  PROVE  NeverJustInspect
<1>. SUFFICES ASSUME process = "none", Pending # {}
              PROVE  RecommendedNextAction # "inspect"
  BY DEF NeverJustInspect
<1>1. ASSUME NEW n \in Pending
      PROVE  Decided(n) # {"accepted_existing_records"} /\ AdviceFor(n) # "inspect"
  <2>1. Actionable(n)
    BY DEF RecoverInv
  <2>2. CASE Untouched(n)
    BY <2>2, VerdictOn DEF AdviceFor
  <2>3. ASSUME NEW d \in LeftPending, Answered(n, d)
        PROVE  Decided(n) # {"accepted_existing_records"} /\ AdviceFor(n) # "inspect"
    <3>1. Decided(n) = {d} /\ (d = "requires_accounting_adjustment" => AwaitsAdjustment(n))
      BY <2>3, VerdictOn
    <3>. QED  BY <3>1 DEF AdviceFor, LeftPending
  <2>. QED  BY <2>1, <2>2, <2>3 DEF Actionable
<1>. DEFINE S == {n \in Pending : Decided(n) # {"accepted_existing_records"}}
<1>2. S \subseteq Nat /\ S # {} /\ S \subseteq Pending
  <2>1. Txns \subseteq Nat
    BY LogFacts DEF RecoverInv, CoreInv, Txns
  <2>. QED  BY <1>1, <2>1 DEF Pending
<1>3. FirstOpen \in Pending
  BY <1>2, SmallestOf DEF FirstOpen
<1>4. ~(\A n \in Pending : Decided(n) = {"accepted_existing_records"})
  BY <1>1
<1>5. RecommendedNextAction \in {"recover", AdviceFor(FirstOpen)}
  BY <1>4 DEF RecommendedNextAction
<1>. QED  BY <1>1, <1>3, <1>5

LEMMA RecoverAlways ==
  ASSUME RecoveryKinds \cap RejectedEvents = {}
  PROVE  RecoverySpec => []RecoverInv
<1>1. Init => RecoverInv
  <2>. SUFFICES ASSUME Init PROVE RecoverInv
    OBVIOUS
  <2>1. Pending = {}
    BY DEF Init, Pending, Txns
  <2>. QED  BY <2>1, InitCore, NoSteps DEF Init, RecoverInv
<1>2. RecoverInv /\ [Next /\ Uninterrupted]_vars => RecoverInv'
  BY NextRecover
<1>. QED  BY <1>1, <1>2, PTL DEF RecoverySpec

(* As long as the recovery command itself is not interrupted, and whatever *)
(* interrupted the application, some recovery command applies to what is   *)
(* pending, unless an administrator chose to end automatic handling.       *)
THEOREM RecoveryNeverStuck ==
  ASSUME RecoveryKinds \cap RejectedEvents = {}
  PROVE  RecoverySpec => []RecoveryPossible
<1>1. RecoverInv => RecoveryPossible
  BY RecoverPossible
<1>. QED  BY <1>1, RecoverAlways, PTL

(* ... and the inspection report names it: it never says only to look      *)
(* again.                                                                  *)
THEOREM AdviceIsUsable ==
  ASSUME RecoveryKinds \cap RejectedEvents = {}
  PROVE  RecoverySpec => []NeverJustInspect
<1>1. RecoverInv => NeverJustInspect
  BY RecoverAdvises
<1>. QED  BY <1>1, RecoverAlways, PTL
=============================================================================
