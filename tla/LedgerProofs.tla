---------------------------- MODULE LedgerProofs ----------------------------
(***************************************************************************)
(* The ledger agrees with the documents it was posted from, refunds stay   *)
(* within their invoice, and a transaction is corrected once, for every    *)
(* set of commands, every tax rate and files of any size.                  *)
(***************************************************************************)
EXTENDS TradingProofs

-----------------------------------------------------------------------------
(* The books reconcile.  For each check of the reconciliation report, the  *)
(* difference on disk and that of the steps still to do cancel.            *)

(* What a ledger line, or any other record, counts for in a check: the     *)
(* amounts on the documents' side with their sign, less those of the       *)
(* ledger's.                                                               *)
LedgerShare(k, l) ==
  CASE k = "inventory" -> IF l.account = "1200" THEN l.credit - l.debit ELSE 0
    [] k = "tax"       -> IF l.account = "2100" THEN l.debit - l.credit ELSE 0
    [] k = "sales"     -> IF l.account = "4000" THEN -l.credit ELSE 0
    [] k = "returns"   -> IF l.account = "4100" THEN -l.debit ELSE 0
    [] k = "cogs"      -> IF l.account = "5000" THEN l.credit - l.debit ELSE 0
    [] k = "revenue"   -> IF l.account \in Revenue THEN l.debit - l.credit ELSE 0
    [] OTHER           -> 0

Share(k, r) ==
  CASE r.kind = "stock_movements" -> IF k = "inventory" THEN r.data.value ELSE 0
    [] r.kind = "invoices" ->
         IF k = "tax" THEN r.data.tax
         ELSE IF k \in {"sales", "revenue", "units"} THEN r.data.subtotal ELSE 0
    [] r.kind = "refunds" ->
         IF k = "tax" THEN -r.data.tax
         ELSE IF k = "returns" THEN r.data.subtotal
         ELSE IF k \in {"revenue", "units"} THEN -r.data.subtotal ELSE 0
    [] r.kind = "invoice_lines" ->
         IF k = "cogs" THEN r.data.cogs ELSE IF k = "units" THEN -r.data.subtotal ELSE 0
    [] r.kind = "refund_lines" ->
         IF k = "cogs" THEN -r.data.cogs ELSE IF k = "units" THEN r.data.subtotal ELSE 0
    [] r.kind = "journal_lines" -> LedgerShare(k, r.data)
    [] OTHER -> 0

(* Lines of documents count in the period of their header.                 *)
HeaderOf(kind) == IF kind = "invoice_lines" THEN "invoices" ELSE "refunds"

Dated(r, p, H) ==
  IF r.kind \in {"invoice_lines", "refund_lines"}
  THEN \E h \in H : h.kind = HeaderOf(r.kind) /\ h.doc = r.doc /\ h.data.period = p
  ELSE r.data.period = p

Counting == {"stock_movements", "invoices", "refunds", "invoice_lines", "refund_lines",
             "journal_lines"}

Counts(q, r) ==
  IF r.kind \in Counting /\ Dated(r, q.period, q.headers) THEN Share(q.check, r) ELSE 0

(* A journal still to be posted counts for its lines, a movement still to  *)
(* be committed for the value it will have: goods are issued at their      *)
(* average cost.                                                           *)
Posted(k, lines) == SumFunction([i \in DOMAIN lines |-> LedgerShare(k, lines[i])])

MovedValue(m, d) ==
  m.quantity * (IF m.quantity < 0 THEN WeightedAverageUnitCost(d, m.item) ELSE m.cost)

Weight(q, x) ==
  CASE x.do = "put" -> Counts(q, x.rec)
    [] x.do = "call" ->
         IF x.cmd.period # q.period THEN 0
         ELSE IF x.cmd.op = "accounting.post_journal" THEN Posted(q.check, x.cmd.lines)
         ELSE IF q.check = "inventory" THEN MovedValue(x.cmd, q.disk) ELSE 0
    [] OTHER -> 0

Tally(q, s) == SumFunctionOnSet([i \in DOMAIN s |-> Weight(q, s[i])], DOMAIN s)

Total(q, d) == SumFunctionOnSet([r \in d |-> Counts(q, r)], d)

Checks == {"inventory", "tax", "sales", "returns", "cogs", "revenue", "units"}

(* The headers on disk and still to be written.                            *)
HeadersOf(s, d) ==
  {r \in d \cup {s[i].rec : i \in {i \in DOMAIN s : s[i].do = "put"}} :
     r.kind \in {"invoices", "refunds"}}

Question(k, p, s, d) == [check |-> k, period |-> p, headers |-> HeadersOf(s, d), disk |-> d]

Evens(s, d) ==
  \A k \in Checks : \A p :
    LET q == Question(k, p, s, d) IN Total(q, d) + Tally(q, s) = 0

Summed(q, s) == IsSeq(s) /\ \A x : In(x, s) => Weight(q, x) \in Int

TalliedBy(q, s, k, f) ==
  /\ k \in Nat /\ k = Len(s) /\ DOMAIN s = 1..k /\ DOMAIN f = 1..k
  /\ \A i \in 1..k : f[i] = Weight(q, s[i]) /\ f[i] \in Int
  /\ Tally(q, s) = SumFunction(f)

LEMMA TallyIs ==
  ASSUME NEW q, NEW s, Summed(q, s)
  PROVE  \E k, f : TalliedBy(q, s, k, f)
<1>1. Len(s) \in Nat /\ DOMAIN s = 1..Len(s)
  BY StepsCounted DEF Summed
<1>2. PICK f : f = [i \in DOMAIN s |-> Weight(q, s[i])]
  OBVIOUS
<1>3. DOMAIN f = DOMAIN s /\ \A i \in DOMAIN s : f[i] = Weight(q, s[i]) /\ f[i] \in Int
  BY <1>2 DEF Summed, In
<1>4. Tally(q, s) = SumFunction(f)
  BY <1>2, <1>3 DEF Tally, SumFunction
<1>5. TalliedBy(q, s, Len(s), f)
  BY <1>1, <1>3, <1>4 DEF TalliedBy
<1>. QED  BY <1>5

LEMMA TallyType ==
  ASSUME NEW q, NEW s, Summed(q, s)
  PROVE  Tally(q, s) \in Int
<1>0. PICK k, f : TalliedBy(q, s, k, f)
  BY TallyIs
<1>1. /\ k \in Nat /\ DOMAIN f = 1..k /\ \A i \in 1..k : f[i] \in Int
      /\ Tally(q, s) = SumFunction(f)
  BY <1>0 DEF TalliedBy
<1>2. IsFiniteSet(DOMAIN f)
  BY <1>1, FS_Interval
<1>. QED  BY <1>1, <1>2, SumLines

Joined(u, s, t) == u = s \o t

LEMMA TallyJoined ==
  ASSUME NEW q, NEW s, NEW t, NEW u, Joined(u, s, t), Summed(q, s), Summed(q, t)
  PROVE  Summed(q, u) /\ Tally(q, u) = Tally(q, s) + Tally(q, t)
<1>0. u = s \o t
  BY DEF Joined
<1>1. IsSeq(s) /\ IsSeq(t)
  BY DEF Summed
<1>2. IsSeq(u) /\ \A x : In(x, u) <=> In(x, s) \/ In(x, t)
  BY <1>0, <1>1, Joins, Members
<1>3. Summed(q, u)
  BY <1>2 DEF Summed
<1>4. PICK a, f : TalliedBy(q, s, a, f)
  BY ONLY Summed(q, s), TallyIs
<1>5. PICK b, g : TalliedBy(q, t, b, g)
  BY ONLY Summed(q, t), TallyIs
<1>6. PICK c, h : TalliedBy(q, u, c, h)
  BY ONLY <1>3, TallyIs
<1>14. /\ Len(u) = Len(s) + Len(t)
       /\ \A i \in DOMAIN s : u[i] = s[i]
       /\ \A i \in DOMAIN t : u[Len(s) + i] = t[i]
  BY <1>0, <1>1, Joins
<1>7. c = a + b
  BY ONLY <1>4, <1>5, <1>6, <1>14 DEF TalliedBy
<1>8. (\A i \in 1..a : u[i] = s[i]) /\ \A i \in 1..b : u[a + i] = t[i]
  BY ONLY <1>4, <1>5, <1>14 DEF TalliedBy
<1>9. /\ a \in Nat /\ b \in Nat /\ c = a + b
      /\ DOMAIN f = 1..a /\ DOMAIN g = 1..b /\ DOMAIN h = 1..c
  BY <1>4, <1>5, <1>6, <1>7 DEF TalliedBy
<1>10. /\ \A i \in 1..a : i \in 1..c
       /\ \A i \in 1..b : a + i \in 1..c
  BY ONLY <1>9
<1>11. /\ \A i \in 1..a : f[i] \in Int /\ h[i] = f[i]
       /\ \A i \in 1..b : g[i] \in Int /\ h[a + i] = g[i]
  <2>1. \A i \in 1..a : f[i] \in Int /\ h[i] = f[i]
    BY ONLY <1>4, <1>6, <1>8, <1>10 DEF TalliedBy
  <2>2. \A i \in 1..b : h[a + i] = Weight(q, u[a + i])
    BY ONLY <1>6, <1>10 DEF TalliedBy
  <2>3. \A i \in 1..b : g[i] \in Int /\ h[a + i] = g[i]
    BY ONLY <1>5, <1>8, <2>2 DEF TalliedBy
  <2>. QED  BY ONLY <2>1, <2>3
<1>12. /\ a \in Nat /\ b \in Nat
       /\ DOMAIN f = 1..a /\ DOMAIN g = 1..b /\ DOMAIN h = 1..a+b
  BY <1>9
<1>13. SumFunction(h) = SumFunction(f) + SumFunction(g)
  <2>1. Along(a, b, f, g, h)
    BY ONLY <1>11, <1>12 DEF Along
  <2>. QED  BY ONLY <2>1, SumAlong
<1>. QED  BY <1>3, <1>4, <1>5, <1>6, <1>13 DEF TalliedBy

LEMMA TallyNone ==
  ASSUME NEW q, NEW s, IsSeq(s), \A x : In(x, s) => Weight(q, x) = 0
  PROVE  Summed(q, s) /\ Tally(q, s) = 0
<1>1. Summed(q, s)
  BY DEF Summed
<1>2. PICK k, f :
        /\ k \in Nat /\ DOMAIN s = 1..k /\ DOMAIN f = 1..k
        /\ \A i \in 1..k : f[i] = Weight(q, s[i])
        /\ Tally(q, s) = SumFunction(f)
  BY <1>1, TallyIs DEF TalliedBy
<1>3. \A i \in DOMAIN f : f[i] = 0
  BY <1>2 DEF In
<1>4. IsFiniteSet(DOMAIN f)
  BY <1>2, FS_Interval
<1>. QED  BY <1>1, <1>2, <1>3, <1>4, SumZero DEF SumFunction

LEMMA TallyEmpty ==
  ASSUME NEW q
  PROVE  Summed(q, << >>) /\ Tally(q, << >>) = 0
BY NoSteps, TallyNone

LEMMA TallyOne ==
  ASSUME NEW q, NEW x, Weight(q, x) \in Int
  PROVE  Summed(q, << x >>) /\ Tally(q, << x >>) = Weight(q, x)
<1>1. PICK s : s = << x >>
  OBVIOUS
<1>2. IsSeq(s) /\ (\A y : In(y, s) => y = x) /\ s[1] = x /\ DOMAIN s = {1}
  BY <1>1, OneStep
<1>3. Summed(q, s)
  BY <1>2 DEF Summed
<1>4. PICK f : f = [i \in DOMAIN s |-> Weight(q, s[i])]
  OBVIOUS
<1>5. f[1] = Weight(q, x) /\ DOMAIN f = {1}
  BY <1>2, <1>4
<1>6. SumFunctionOnSet(f, {1}) = f[1]
  BY <1>5, SumSingleton
<1>7. Tally(q, s) = SumFunctionOnSet(f, {1})
  BY <1>2, <1>4 DEF Tally
<1>. QED  BY <1>1, <1>3, <1>5, <1>6, <1>7

LEMMA TallyHead ==
  ASSUME NEW q, NEW s, Summed(q, s), s # << >>
  PROVE  /\ Summed(q, Tail(s)) /\ Weight(q, Head(s)) \in Int
         /\ Tally(q, s) = Weight(q, Head(s)) + Tally(q, Tail(s))
<1>0. PICK x, t : x = Head(s) /\ t = Tail(s)
  OBVIOUS
<1>1. IsSeq(s) /\ In(x, s) /\ IsSeq(t) /\ \A y : In(y, t) => In(y, s)
  BY <1>0, HeadAndTail DEF Summed
<1>2. Summed(q, t) /\ Weight(q, x) \in Int
  BY <1>1 DEF Summed
<1>3. Summed(q, << x >>) /\ Tally(q, << x >>) = Weight(q, x)
  BY <1>2, TallyOne
<1>4. s = << x >> \o t
  <2>1. s \in Seq(Range(s))
    BY <1>1 DEF IsSeq
  <2>2. PICK S : S = Range(s)
    OBVIOUS
  <2>. QED  BY <1>0, <2>1, <2>2
<1>6. Joined(s, << x >>, t)
  BY <1>4 DEF Joined
<1>5. Tally(q, s) = Tally(q, << x >>) + Tally(q, t)
  BY <1>2, <1>3, <1>6, TallyJoined
<1>. QED  BY <1>0, <1>2, <1>3, <1>5

LEMMA TallySame ==
  ASSUME NEW q, NEW r, NEW s, IsSeq(s), \A x : In(x, s) => Weight(q, x) = Weight(r, x)
  PROVE  Tally(q, s) = Tally(r, s) /\ (Summed(q, s) => Summed(r, s))
<1>1. \A i \in DOMAIN s : Weight(q, s[i]) = Weight(r, s[i])
  BY DEF In
<1>2. [i \in DOMAIN s |-> Weight(q, s[i])] = [i \in DOMAIN s |-> Weight(r, s[i])]
  BY <1>1
<1>. QED  BY <1>2 DEF Tally, Summed

-----------------------------------------------------------------------------
(* Sums over records.                                                      *)

(* A sum over some records, as a sum over all in which the others count    *)
(* nothing.                                                                *)
LEMMA SumOfWithin ==
  ASSUME NEW field, NEW d, IsFiniteSet(d), NEW S, S \subseteq d, Integral(field, S),
         NEW f, \A r \in d : f[r] = IF r \in S THEN r.data[field] ELSE 0
  PROVE  SumFunctionOnSet(f, d) = SumOf(field, S) /\ \A r \in d : f[r] \in Int
<1>1. PICK R : R = d \ S
  OBVIOUS
<1>2. IsFiniteSet(S) /\ IsFiniteSet(R) /\ S \cap R = {} /\ S \cup R = d
  BY <1>1, FS_Subset
<1>3. \A r \in d : f[r] \in Int
  BY DEF Integral
<1>4. SumFunctionOnSet(f, S \cup R) = SumFunctionOnSet(f, S) + SumFunctionOnSet(f, R)
  BY <1>2, <1>3, SumUnion
<1>5. SumFunctionOnSet(f, R) = 0
  BY <1>1, <1>2, SumZero
<1>6. SumFunctionOnSet(f, S) = SumOf(field, S)
  <2>1. PICK g : g = [r \in S |-> r.data[field]]
    OBVIOUS
  <2>2. SumFunctionOnSet(f, S) = SumFunctionOnSet(g, S)
    BY <1>2, <2>1, SumCongruent
  <2>3. SumOf(field, S) = SumFunctionOnSet(g, S)
    BY <1>2, <2>1, SumOfOn
  <2>. QED  BY <2>2, <2>3
<1>7. SumFunctionOnSet(f, S) \in Int
  BY <1>2, <1>3, SumType
<1>8. SumFunctionOnSet(f, d) = SumFunctionOnSet(f, S) + SumFunctionOnSet(f, R)
  BY <1>2, <1>4
<1>9. SumFunctionOnSet(f, d) = SumFunctionOnSet(f, S)
  BY ONLY <1>5, <1>7, <1>8
<1>. QED  BY <1>3, <1>6, <1>9

(* A record counts with what it has in A and C, less what it has in B      *)
(* and D.                                                                  *)
LEMMA FourSums ==
  ASSUME NEW d, IsFiniteSet(d), NEW A, NEW B, NEW C, NEW D,
         A \subseteq d, B \subseteq d, C \subseteq d, D \subseteq d,
         NEW a, NEW b, NEW c, NEW e,
         Integral(a, A), Integral(b, B), Integral(c, C), Integral(e, D),
         NEW h, \A r \in d : h[r] = ((IF r \in A THEN r.data[a] ELSE 0)
                                      - (IF r \in B THEN r.data[b] ELSE 0))
                                    - ((IF r \in D THEN r.data[e] ELSE 0)
                                        - (IF r \in C THEN r.data[c] ELSE 0))
  PROVE  SumFunctionOnSet(h, d) = (SumOf(a, A) - SumOf(b, B)) - (SumOf(e, D) - SumOf(c, C))
<1>1. PICK fa, fb, fc, fe :
        /\ fa = [r \in d |-> IF r \in A THEN r.data[a] ELSE 0]
        /\ fb = [r \in d |-> IF r \in B THEN r.data[b] ELSE 0]
        /\ fc = [r \in d |-> IF r \in C THEN r.data[c] ELSE 0]
        /\ fe = [r \in d |-> IF r \in D THEN r.data[e] ELSE 0]
  OBVIOUS
<1>2. SumFunctionOnSet(fa, d) = SumOf(a, A) /\ \A r \in d : fa[r] \in Int
  <2>1. \A r \in d : fa[r] = IF r \in A THEN r.data[a] ELSE 0
    BY <1>1
  <2>. QED  BY <2>1, SumOfWithin
<1>3. SumFunctionOnSet(fb, d) = SumOf(b, B) /\ \A r \in d : fb[r] \in Int
  <2>1. \A r \in d : fb[r] = IF r \in B THEN r.data[b] ELSE 0
    BY <1>1
  <2>. QED  BY <2>1, SumOfWithin
<1>4. SumFunctionOnSet(fc, d) = SumOf(c, C) /\ \A r \in d : fc[r] \in Int
  <2>1. \A r \in d : fc[r] = IF r \in C THEN r.data[c] ELSE 0
    BY <1>1
  <2>. QED  BY <2>1, SumOfWithin
<1>5. SumFunctionOnSet(fe, d) = SumOf(e, D) /\ \A r \in d : fe[r] \in Int
  <2>1. \A r \in d : fe[r] = IF r \in D THEN r.data[e] ELSE 0
    BY <1>1
  <2>. QED  BY <2>1, SumOfWithin
<1>6. PICK x, y : x = [r \in d |-> fa[r] - fb[r]] /\ y = [r \in d |-> fe[r] - fc[r]]
  OBVIOUS
<1>7. /\ SumFunctionOnSet(x, d) = SumFunctionOnSet(fa, d) - SumFunctionOnSet(fb, d)
      /\ \A r \in d : x[r] \in Int
  BY <1>2, <1>3, <1>6, SumLess
<1>8. /\ SumFunctionOnSet(y, d) = SumFunctionOnSet(fe, d) - SumFunctionOnSet(fc, d)
      /\ \A r \in d : y[r] \in Int
  BY <1>4, <1>5, <1>6, SumLess
<1>9. \A r \in d : h[r] = x[r] - y[r]
  BY <1>1, <1>6
<1>10. SumFunctionOnSet(h, d) = SumFunctionOnSet(x, d) - SumFunctionOnSet(y, d)
  BY <1>7, <1>8, <1>9, SumLess
<1>. QED  BY <1>2, <1>3, <1>4, <1>5, <1>7, <1>8, <1>10

LEMMA CountsType ==
  ASSUME NEW q, NEW r, SaneRecord(r)
  PROVE  Counts(q, r) \in Int
<1>1. CASE r.kind = "journal_lines"
  <2>1. r.data.debit \in Int /\ r.data.credit \in Int
    BY <1>1 DEF SaneRecord
  <2>2. LedgerShare(q.check, r.data) \in Int
    BY <2>1 DEF LedgerShare
  <2>. QED  BY <1>1, <2>2 DEF Counts, Share
<1>2. CASE r.kind # "journal_lines"
  BY <1>2 DEF Counts, Share, Counting, SaneRecord
<1>. QED  BY <1>1, <1>2

LEMMA TotalType ==
  ASSUME NEW q, NEW d, SaneDisk(d)
  PROVE  Total(q, d) \in Int
<1>1. PICK f : f = [r \in d |-> Counts(q, r)]
  OBVIOUS
<1>2. \A r \in d : f[r] \in Int
  BY <1>1, CountsType DEF SaneDisk
<1>3. Total(q, d) = SumFunctionOnSet(f, d)
  BY <1>1 DEF Total
<1>. QED  BY <1>2, <1>3, SumType DEF SaneDisk

LEMMA TotalGrows ==
  ASSUME NEW q, NEW d, SaneDisk(d), NEW x, SaneRecord(x), x \notin d
  PROVE  Total(q, d \cup {x}) = Total(q, d) + Counts(q, x)
<1>1. PICK e, f, g : /\ e = d \cup {x} /\ f = [r \in d |-> Counts(q, r)]
                     /\ g = [r \in e |-> Counts(q, r)]
  OBVIOUS
<1>2. /\ \A r \in d : f[r] \in Int /\ g[r] = f[r]
      /\ g[x] = Counts(q, x) /\ g[x] \in Int
  BY <1>1, CountsType DEF SaneDisk
<1>3. SumFunctionOnSet(g, d \cup {x}) = g[x] + SumFunctionOnSet(g, d)
  BY <1>2, SumAdd DEF SaneDisk
<1>4. SumFunctionOnSet(g, d) = SumFunctionOnSet(f, d)
  BY <1>2, SumCongruent DEF SaneDisk
<1>5. Total(q, d) = SumFunctionOnSet(f, d) /\ Total(q, e) = SumFunctionOnSet(g, e)
  BY <1>1 DEF Total
<1>6. Total(q, d) \in Int
  BY TotalType
<1>. QED  BY <1>1, <1>2, <1>3, <1>4, <1>5, <1>6

LEMMA TotalSame ==
  ASSUME NEW q, NEW s, NEW d, \A r \in d : Counts(q, r) = Counts(s, r)
  PROVE  Total(q, d) = Total(s, d)
<1>1. [r \in d |-> Counts(q, r)] = [r \in d |-> Counts(s, r)]
  OBVIOUS
<1>. QED  BY <1>1 DEF Total

-----------------------------------------------------------------------------
(* With no run in progress, a check comes out even when its records do.    *)

(* When nothing is left to do the headers are those on disk.               *)
AtRest(k, p, d) == Question(k, p, << >>, d)

LEMMA AtRestIs ==
  ASSUME NEW k, NEW p, NEW d
  PROVE  LET q == AtRest(k, p, d) IN
         /\ q.check = k /\ q.period = p
         /\ \A h : h \in q.headers <=> h \in d /\ h.kind \in {"invoices", "refunds"}
BY DEF AtRest, Question, HeadersOf

Covered(d, header, line, p) ==
  {r \in Of(d, line) : \E h \in InPeriod(d, header, p) : h.doc = r.doc}

LEMMA LinesDated ==
  ASSUME NEW k, NEW p, NEW d, NEW q, q = AtRest(k, p, d), NEW r \in d
  PROVE  /\ r.kind = "invoice_lines" =>
              (Dated(r, q.period, q.headers) <=> r \in Covered(d, "invoices", "invoice_lines", p))
         /\ r.kind = "refund_lines" =>
              (Dated(r, q.period, q.headers) <=> r \in Covered(d, "refunds", "refund_lines", p))
         /\ r.kind \notin {"invoice_lines", "refund_lines"} =>
              (Dated(r, q.period, q.headers) <=> r.data.period = p)
<1>1. /\ q.period = p
      /\ \A h : h \in q.headers <=> h \in d /\ h.kind \in {"invoices", "refunds"}
  BY AtRestIs
<1>2. CASE r.kind = "invoice_lines"
  <2>1. HeaderOf(r.kind) = "invoices" /\ Dated(r, q.period, q.headers) <=>
          \E h \in q.headers : h.kind = "invoices" /\ h.doc = r.doc /\ h.data.period = p
    BY <1>1, <1>2 DEF Dated, HeaderOf
  <2>. QED  BY <1>1, <1>2, <2>1 DEF Dated, HeaderOf, Covered, InPeriod, Of
<1>3. CASE r.kind = "refund_lines"
  BY <1>1, <1>3 DEF Dated, HeaderOf, Covered, InPeriod, Of
<1>4. CASE r.kind \notin {"invoice_lines", "refund_lines"}
  BY <1>1, <1>4 DEF Dated
<1>. QED  BY <1>2, <1>3, <1>4

LEMMA RecordsIn ==
  ASSUME NEW d, SaneDisk(d), NEW p
  PROVE  /\ \A kind \in {"invoices", "refunds"} :
              LET S == InPeriod(d, kind, p) IN
              /\ S \subseteq d /\ Integral("subtotal", S) /\ Integral("tax", S)
              /\ \A r : r \in S <=> r \in d /\ r.kind = kind /\ r.data.period = p
         /\ LET S == InPeriod(d, "stock_movements", p) IN
              /\ S \subseteq d /\ Integral("value", S)
              /\ \A r : r \in S <=> r \in d /\ r.kind = "stock_movements" /\ r.data.period = p
         /\ \A account :
              LET S == LedgerLines(d, p, account) IN
              /\ S \subseteq d /\ Integral("debit", S) /\ Integral("credit", S)
              /\ \A r : r \in S <=> /\ r \in d /\ r.kind = "journal_lines"
                                    /\ r.data.period = p /\ r.data.account = account
<1>1. /\ IsFiniteSet(d) /\ \A S : S \subseteq d => IsFiniteSet(S)
      /\ \A r \in d : SaneRecord(r)
  BY FS_Subset DEF SaneDisk
<1>2. ASSUME NEW kind \in {"invoices", "refunds"}, NEW S, S = InPeriod(d, kind, p)
      PROVE  /\ S \subseteq d /\ Integral("subtotal", S) /\ Integral("tax", S)
             /\ \A r : r \in S <=> r \in d /\ r.kind = kind /\ r.data.period = p
  <2>1. /\ S \subseteq d
        /\ \A r : r \in S <=> r \in d /\ r.kind = kind /\ r.data.period = p
    BY <1>2 DEF InPeriod, Of
  <2>2. \A r \in S : r.data.subtotal \in Int /\ r.data.tax \in Int
    BY <1>1, <2>1 DEF SaneRecord
  <2>. QED  BY <1>1, <2>1, <2>2 DEF Integral
<1>3. ASSUME NEW S, S = InPeriod(d, "stock_movements", p)
      PROVE  /\ S \subseteq d /\ Integral("value", S)
             /\ \A r : r \in S <=> r \in d /\ r.kind = "stock_movements" /\ r.data.period = p
  <2>1. /\ S \subseteq d
        /\ \A r : r \in S <=> r \in d /\ r.kind = "stock_movements" /\ r.data.period = p
    BY <1>3 DEF InPeriod, Of
  <2>2. \A r \in S : r.data.value \in Int
    BY <1>1, <2>1 DEF SaneRecord
  <2>. QED  BY <1>1, <2>1, <2>2 DEF Integral
<1>4. ASSUME NEW account, NEW S, S = LedgerLines(d, p, account)
      PROVE  /\ S \subseteq d /\ Integral("debit", S) /\ Integral("credit", S)
             /\ \A r : r \in S <=> /\ r \in d /\ r.kind = "journal_lines"
                                   /\ r.data.period = p /\ r.data.account = account
  <2>1. /\ S \subseteq d
        /\ \A r : r \in S <=> /\ r \in d /\ r.kind = "journal_lines"
                              /\ r.data.period = p /\ r.data.account = account
    BY <1>4 DEF LedgerLines, InPeriod, Of
  <2>2. \A r \in S : r.data.debit \in Int /\ r.data.credit \in Int
    BY <1>1, <2>1 DEF SaneRecord
  <2>. QED  BY <1>1, <2>1, <2>2 DEF Integral
<1>. QED  BY <1>2, <1>3, <1>4

LEMMA CoveredIn ==
  ASSUME NEW d, SaneDisk(d), NEW p
  PROVE  /\ LET S == Covered(d, "invoices", "invoice_lines", p) IN
              /\ S \subseteq d /\ Integral("cogs", S) /\ Integral("subtotal", S)
              /\ \A r \in S : r.kind = "invoice_lines"
         /\ LET S == Covered(d, "refunds", "refund_lines", p) IN
              /\ S \subseteq d /\ Integral("cogs", S) /\ Integral("subtotal", S)
              /\ \A r \in S : r.kind = "refund_lines"
<1>1. /\ IsFiniteSet(d) /\ \A S : S \subseteq d => IsFiniteSet(S)
      /\ \A r \in d : SaneRecord(r)
  BY FS_Subset DEF SaneDisk
<1>2. ASSUME NEW header, NEW line \in {"invoice_lines", "refund_lines"},
             NEW S, S = Covered(d, header, line, p)
      PROVE  /\ S \subseteq d /\ Integral("cogs", S) /\ Integral("subtotal", S)
             /\ \A r \in S : r.kind = line
  <2>1. S \subseteq d /\ \A r \in S : r.kind = line
    BY <1>2 DEF Covered, Of
  <2>2. \A r \in S : r.data.cogs \in Int /\ r.data.subtotal \in Int
    BY <1>1, <2>1 DEF SaneRecord
  <2>. QED  BY <1>1, <2>1, <2>2 DEF Integral
<1>. QED  BY <1>2

LEMMA EmptyIn ==
  ASSUME NEW d, NEW field
  PROVE  {} \subseteq d /\ Integral(field, {}) /\ SumOf(field, {}) = 0
BY SumOfEmpty, FS_EmptySet DEF Integral

LEMMA TotalOn ==
  ASSUME NEW q, NEW d
  PROVE  \E h : /\ Total(q, d) = SumFunctionOnSet(h, d)
                /\ \A r \in d : h[r] = Counts(q, r)
<1>1. PICK h : h = [r \in d |-> Counts(q, r)]
  OBVIOUS
<1>. QED  BY <1>1 DEF Total

LEMMA InventoryLink ==
  ASSUME NEW d, SaneDisk(d), NEW p
  PROVE  Total(AtRest("inventory", p, d), d)
           = InventoryValueDelta(d, p) - DebitBalance(d, p, "1200")
<1>1. PICK q : q = AtRest("inventory", p, d)
  OBVIOUS
<1>2. PICK h : /\ Total(q, d) = SumFunctionOnSet(h, d)
               /\ \A r \in d : h[r] = Counts(q, r)
  BY TotalOn
<1>3. PICK A, D : A = InPeriod(d, "stock_movements", p) /\ D = LedgerLines(d, p, "1200")
  OBVIOUS
<1>4. /\ A \subseteq d /\ Integral("value", A)
      /\ \A r : r \in A <=> r \in d /\ r.kind = "stock_movements" /\ r.data.period = p
  BY <1>3, RecordsIn
<1>5. /\ D \subseteq d /\ Integral("debit", D) /\ Integral("credit", D)
      /\ \A r : r \in D <=> /\ r \in d /\ r.kind = "journal_lines"
                            /\ r.data.period = p /\ r.data.account = "1200"
  BY <1>3, RecordsIn
<1>6. ASSUME NEW r \in d
      PROVE  h[r] = ((IF r \in A THEN r.data["value"] ELSE 0)
                      - (IF r \in {} THEN r.data["value"] ELSE 0))
                    - ((IF r \in D THEN r.data["debit"] ELSE 0)
                        - (IF r \in D THEN r.data["credit"] ELSE 0))
  <2>1. q.check = "inventory" /\ h[r] = Counts(q, r)
    BY <1>1, <1>2, AtRestIs
  <2>2. r.kind \notin {"invoice_lines", "refund_lines"} =>
          (Dated(r, q.period, q.headers) <=> r.data.period = p)
    BY <1>1, LinesDated
  <2>3. CASE r.kind = "stock_movements"
    <3>1. h[r] = IF r \in A THEN r.data.value ELSE 0
      BY <1>4, <2>1, <2>2, <2>3 DEF Counts, Share, Counting
    <3>2. r \notin D /\ (r \in A => r.data.value \in Int)
      BY <1>4, <1>5, <2>3 DEF Integral
    <3>. QED  BY <3>1, <3>2
  <2>4. CASE r.kind = "journal_lines"
    <3>1. h[r] = IF r \in D THEN r.data.credit - r.data.debit ELSE 0
      BY <1>5, <2>1, <2>2, <2>4 DEF Counts, Share, Counting, LedgerShare
    <3>2. r \notin A /\ (r \in D => r.data.credit \in Int /\ r.data.debit \in Int)
      BY <1>4, <1>5, <2>4 DEF Integral
    <3>. QED  BY <3>1, <3>2
  <2>5. CASE r.kind \notin {"stock_movements", "journal_lines"}
    <3>1. h[r] = 0
      BY <2>1, <2>5 DEF Counts, Share, Counting
    <3>2. r \notin A /\ r \notin D
      BY <1>4, <1>5, <2>5
    <3>. QED  BY <3>1, <3>2
  <2>. QED  BY <2>3, <2>4, <2>5
<1>7. {} \subseteq d /\ Integral("value", {}) /\ SumOf("value", {}) = 0
  BY EmptyIn
<1>8. SumFunctionOnSet(h, d)
        = (SumOf("value", A) - SumOf("value", {})) - (SumOf("debit", D) - SumOf("credit", D))
  BY <1>4, <1>5, <1>6, <1>7, FourSums DEF SaneDisk
<1>9. SumOf("value", A) \in Int
  BY <1>4, SumOfType
<1>. QED  BY <1>1, <1>2, <1>3, <1>7, <1>8, <1>9
          DEF InventoryValueDelta, DebitBalance, DebitTotal, CreditTotal

LEMMA PlainDated ==
  ASSUME NEW k, NEW p, NEW d, NEW r, r.kind \notin {"invoice_lines", "refund_lines"}
  PROVE  LET q == AtRest(k, p, d) IN Dated(r, q.period, q.headers) <=> r.data.period = p
BY AtRestIs DEF Dated

LEMMA LedgerIn ==
  ASSUME NEW d, SaneDisk(d), NEW p, NEW account, NEW S, S = LedgerLines(d, p, account)
  PROVE  /\ S \subseteq d /\ Integral("debit", S) /\ Integral("credit", S)
         /\ \A r : r \in S <=> /\ r \in d /\ r.kind = "journal_lines"
                               /\ r.data.period = p /\ r.data.account = account
BY RecordsIn

LEMMA TotalIs ==
  ASSUME NEW q, NEW d, SaneDisk(d), NEW A, NEW B, NEW C, NEW D,
         A \subseteq d, B \subseteq d, C \subseteq d, D \subseteq d,
         NEW a, NEW b, NEW c, NEW e,
         Integral(a, A), Integral(b, B), Integral(c, C), Integral(e, D),
         \A r \in d : Counts(q, r) = ((IF r \in A THEN r.data[a] ELSE 0)
                                       - (IF r \in B THEN r.data[b] ELSE 0))
                                     - ((IF r \in D THEN r.data[e] ELSE 0)
                                         - (IF r \in C THEN r.data[c] ELSE 0))
  PROVE  Total(q, d) = (SumOf(a, A) - SumOf(b, B)) - (SumOf(e, D) - SumOf(c, C))
<1>1. PICK h : /\ Total(q, d) = SumFunctionOnSet(h, d)
               /\ \A r \in d : h[r] = Counts(q, r)
  BY TotalOn
<1>2. \A r \in d : h[r] = ((IF r \in A THEN r.data[a] ELSE 0)
                            - (IF r \in B THEN r.data[b] ELSE 0))
                          - ((IF r \in D THEN r.data[e] ELSE 0)
                              - (IF r \in C THEN r.data[c] ELSE 0))
  BY <1>1
<1>3. SumFunctionOnSet(h, d) = (SumOf(a, A) - SumOf(b, B)) - (SumOf(e, D) - SumOf(c, C))
  BY <1>2, FourSums DEF SaneDisk
<1>. QED  BY <1>1, <1>3

LEMMA TaxLink ==
  ASSUME NEW d, SaneDisk(d), NEW p
  PROVE  Total(AtRest("tax", p, d), d)
           = (Taxes(d, "invoices", p) - Taxes(d, "refunds", p)) + DebitBalance(d, p, "2100")
<1>1. PICK q : q = AtRest("tax", p, d)
  OBVIOUS
<1>2. PICK A, B, D : /\ A = InPeriod(d, "invoices", p) /\ B = InPeriod(d, "refunds", p)
                     /\ D = LedgerLines(d, p, "2100")
  OBVIOUS
<1>3. /\ A \subseteq d /\ Integral("tax", A)
      /\ \A r : r \in A <=> r \in d /\ r.kind = "invoices" /\ r.data.period = p
  BY <1>2, RecordsIn
<1>4. /\ B \subseteq d /\ Integral("tax", B)
      /\ \A r : r \in B <=> r \in d /\ r.kind = "refunds" /\ r.data.period = p
  BY <1>2, RecordsIn
<1>5. /\ D \subseteq d /\ Integral("debit", D) /\ Integral("credit", D)
      /\ \A r : r \in D <=> /\ r \in d /\ r.kind = "journal_lines"
                            /\ r.data.period = p /\ r.data.account = "2100"
  BY <1>2, LedgerIn
<1>6. ASSUME NEW r \in d
      PROVE  Counts(q, r) = ((IF r \in A THEN r.data["tax"] ELSE 0)
                      - (IF r \in B THEN r.data["tax"] ELSE 0))
                    - ((IF r \in D THEN r.data["credit"] ELSE 0)
                        - (IF r \in D THEN r.data["debit"] ELSE 0))
  <2>1. q.check = "tax"
    BY <1>1, AtRestIs
  <2>2. r.kind \notin {"invoice_lines", "refund_lines"} =>
          (Dated(r, q.period, q.headers) <=> r.data.period = p)
    BY <1>1, PlainDated
  <2>3. CASE r.kind = "invoices"
    <3>1. Counts(q, r) = IF r \in A THEN r.data.tax ELSE 0
      BY <1>3, <2>1, <2>2, <2>3 DEF Counts, Share, Counting
    <3>2. r \notin B /\ r \notin D /\ (r \in A => r.data.tax \in Int)
      BY <1>3, <1>4, <1>5, <2>3 DEF Integral
    <3>. QED  BY <3>1, <3>2
  <2>4. CASE r.kind = "refunds"
    <3>1. Counts(q, r) = IF r \in B THEN -r.data.tax ELSE 0
      BY <1>4, <2>1, <2>2, <2>4 DEF Counts, Share, Counting
    <3>2. r \notin A /\ r \notin D /\ (r \in B => r.data.tax \in Int)
      BY <1>3, <1>4, <1>5, <2>4 DEF Integral
    <3>. QED  BY <3>1, <3>2
  <2>5. CASE r.kind = "journal_lines"
    <3>1. Counts(q, r) = IF r \in D THEN r.data.debit - r.data.credit ELSE 0
      BY <1>5, <2>1, <2>2, <2>5 DEF Counts, Share, Counting, LedgerShare
    <3>2. r \notin A /\ r \notin B /\ (r \in D => r.data.credit \in Int /\ r.data.debit \in Int)
      BY <1>3, <1>4, <1>5, <2>5 DEF Integral
    <3>. QED  BY <3>1, <3>2
  <2>6. CASE r.kind \notin {"invoices", "refunds", "journal_lines"}
    <3>1. Counts(q, r) = 0
      BY <2>1, <2>6 DEF Counts, Share, Counting
    <3>2. r \notin A /\ r \notin B /\ r \notin D
      BY <1>3, <1>4, <1>5, <2>6
    <3>. QED  BY <3>1, <3>2
  <2>. QED  BY <2>3, <2>4, <2>5, <2>6
<1>7. Total(q, d)
        = (SumOf("tax", A) - SumOf("tax", B)) - (SumOf("credit", D) - SumOf("debit", D))
  BY <1>3, <1>4, <1>5, <1>6, TotalIs
<1>8. /\ SumOf("tax", A) \in Int /\ SumOf("tax", B) \in Int
      /\ SumOf("credit", D) \in Int /\ SumOf("debit", D) \in Int
  BY <1>3, <1>4, <1>5, SumOfType
<1>. QED  BY <1>1, <1>2, <1>7, <1>8 DEF Taxes, DebitBalance, DebitTotal, CreditTotal

LEMMA SalesLink ==
  ASSUME NEW d, SaneDisk(d), NEW p
  PROVE  Total(AtRest("sales", p, d), d)
           = Subtotals(d, "invoices", p) - CreditTotal(d, p, "4000")
<1>1. PICK q : q = AtRest("sales", p, d)
  OBVIOUS
<1>2. PICK A, D : A = InPeriod(d, "invoices", p) /\ D = LedgerLines(d, p, "4000")
  OBVIOUS
<1>3. /\ A \subseteq d /\ Integral("subtotal", A)
      /\ \A r : r \in A <=> r \in d /\ r.kind = "invoices" /\ r.data.period = p
  BY <1>2, RecordsIn
<1>4. {} \subseteq d /\ Integral("credit", {}) /\ SumOf("credit", {}) = 0
  BY EmptyIn
<1>5. /\ D \subseteq d /\ Integral("credit", D)
      /\ \A r : r \in D <=> /\ r \in d /\ r.kind = "journal_lines"
                            /\ r.data.period = p /\ r.data.account = "4000"
  BY <1>2, LedgerIn
<1>6. ASSUME NEW r \in d
      PROVE  Counts(q, r) = ((IF r \in A THEN r.data["subtotal"] ELSE 0)
                      - (IF r \in {} THEN r.data["credit"] ELSE 0))
                    - ((IF r \in D THEN r.data["credit"] ELSE 0)
                        - (IF r \in {} THEN r.data["credit"] ELSE 0))
  <2>1. q.check = "sales"
    BY <1>1, AtRestIs
  <2>2. r.kind \notin {"invoice_lines", "refund_lines"} =>
          (Dated(r, q.period, q.headers) <=> r.data.period = p)
    BY <1>1, PlainDated
  <2>3. CASE r.kind = "invoices"
    <3>1. Counts(q, r) = IF r \in A THEN r.data.subtotal ELSE 0
      BY <1>3, <2>1, <2>2, <2>3 DEF Counts, Share, Counting
    <3>2. r \notin D /\ (r \in A => r.data.subtotal \in Int)
      BY <1>3, <1>5, <2>3 DEF Integral
    <3>. QED  BY <3>1, <3>2
  <2>5. CASE r.kind = "journal_lines"
    <3>1. Counts(q, r) = IF r \in D THEN -r.data.credit ELSE 0
      BY <1>5, <2>1, <2>2, <2>5 DEF Counts, Share, Counting, LedgerShare
    <3>2. r \notin A /\ (r \in D => r.data.credit \in Int)
      BY <1>3, <1>5, <2>5 DEF Integral
    <3>. QED  BY <3>1, <3>2
  <2>6. CASE r.kind \notin {"invoices", "journal_lines"}
    <3>1. Counts(q, r) = 0
      BY <2>1, <2>6 DEF Counts, Share, Counting
    <3>2. r \notin A /\ r \notin D
      BY <1>3, <1>5, <2>6
    <3>. QED  BY <3>1, <3>2
  <2>. QED  BY <2>3, <2>5, <2>6
<1>7. Total(q, d)
        = (SumOf("subtotal", A) - SumOf("credit", {})) - (SumOf("credit", D) - SumOf("credit", {}))
  BY <1>3, <1>4, <1>5, <1>6, TotalIs
<1>8. SumOf("subtotal", A) \in Int /\ SumOf("credit", D) \in Int
  BY <1>3, <1>5, SumOfType
<1>. QED  BY <1>1, <1>2, <1>4, <1>7, <1>8 DEF Subtotals, CreditTotal

LEMMA ReturnsLink ==
  ASSUME NEW d, SaneDisk(d), NEW p
  PROVE  Total(AtRest("returns", p, d), d)
           = Subtotals(d, "refunds", p) - DebitTotal(d, p, "4100")
<1>1. PICK q : q = AtRest("returns", p, d)
  OBVIOUS
<1>2. PICK A, D : A = InPeriod(d, "refunds", p) /\ D = LedgerLines(d, p, "4100")
  OBVIOUS
<1>3. /\ A \subseteq d /\ Integral("subtotal", A)
      /\ \A r : r \in A <=> r \in d /\ r.kind = "refunds" /\ r.data.period = p
  BY <1>2, RecordsIn
<1>4. {} \subseteq d /\ Integral("debit", {}) /\ SumOf("debit", {}) = 0
  BY EmptyIn
<1>5. /\ D \subseteq d /\ Integral("debit", D)
      /\ \A r : r \in D <=> /\ r \in d /\ r.kind = "journal_lines"
                            /\ r.data.period = p /\ r.data.account = "4100"
  BY <1>2, LedgerIn
<1>6. ASSUME NEW r \in d
      PROVE  Counts(q, r) = ((IF r \in A THEN r.data["subtotal"] ELSE 0)
                      - (IF r \in {} THEN r.data["debit"] ELSE 0))
                    - ((IF r \in D THEN r.data["debit"] ELSE 0)
                        - (IF r \in {} THEN r.data["debit"] ELSE 0))
  <2>1. q.check = "returns"
    BY <1>1, AtRestIs
  <2>2. r.kind \notin {"invoice_lines", "refund_lines"} =>
          (Dated(r, q.period, q.headers) <=> r.data.period = p)
    BY <1>1, PlainDated
  <2>3. CASE r.kind = "refunds"
    <3>1. Counts(q, r) = IF r \in A THEN r.data.subtotal ELSE 0
      BY <1>3, <2>1, <2>2, <2>3 DEF Counts, Share, Counting
    <3>2. r \notin D /\ (r \in A => r.data.subtotal \in Int)
      BY <1>3, <1>5, <2>3 DEF Integral
    <3>. QED  BY <3>1, <3>2
  <2>5. CASE r.kind = "journal_lines"
    <3>1. Counts(q, r) = IF r \in D THEN -r.data.debit ELSE 0
      BY <1>5, <2>1, <2>2, <2>5 DEF Counts, Share, Counting, LedgerShare
    <3>2. r \notin A /\ (r \in D => r.data.debit \in Int)
      BY <1>3, <1>5, <2>5 DEF Integral
    <3>. QED  BY <3>1, <3>2
  <2>6. CASE r.kind \notin {"refunds", "journal_lines"}
    <3>1. Counts(q, r) = 0
      BY <2>1, <2>6 DEF Counts, Share, Counting
    <3>2. r \notin A /\ r \notin D
      BY <1>3, <1>5, <2>6
    <3>. QED  BY <3>1, <3>2
  <2>. QED  BY <2>3, <2>5, <2>6
<1>7. Total(q, d)
        = (SumOf("subtotal", A) - SumOf("debit", {})) - (SumOf("debit", D) - SumOf("debit", {}))
  BY <1>3, <1>4, <1>5, <1>6, TotalIs
<1>8. SumOf("subtotal", A) \in Int /\ SumOf("debit", D) \in Int
  BY <1>3, <1>5, SumOfType
<1>. QED  BY <1>1, <1>2, <1>4, <1>7, <1>8 DEF Subtotals, DebitTotal

LEMMA CogsLink ==
  ASSUME NEW d, SaneDisk(d), NEW p
  PROVE  Total(AtRest("cogs", p, d), d)
           = (Cogs(d, "invoices", "invoice_lines", p) - Cogs(d, "refunds", "refund_lines", p))
             - DebitBalance(d, p, "5000")
<1>1. PICK q : q = AtRest("cogs", p, d)
  OBVIOUS
<1>2. PICK A, B, D : /\ A = Covered(d, "invoices", "invoice_lines", p)
                     /\ B = Covered(d, "refunds", "refund_lines", p)
                     /\ D = LedgerLines(d, p, "5000")
  OBVIOUS
<1>3. /\ A \subseteq d /\ Integral("cogs", A) /\ \A r \in A : r.kind = "invoice_lines"
      /\ B \subseteq d /\ Integral("cogs", B) /\ \A r \in B : r.kind = "refund_lines"
  BY <1>2, CoveredIn
<1>5. /\ D \subseteq d /\ Integral("debit", D) /\ Integral("credit", D)
      /\ \A r : r \in D <=> /\ r \in d /\ r.kind = "journal_lines"
                            /\ r.data.period = p /\ r.data.account = "5000"
  BY <1>2, LedgerIn
<1>6. ASSUME NEW r \in d
      PROVE  Counts(q, r) = ((IF r \in A THEN r.data["cogs"] ELSE 0)
                      - (IF r \in B THEN r.data["cogs"] ELSE 0))
                    - ((IF r \in D THEN r.data["debit"] ELSE 0)
                        - (IF r \in D THEN r.data["credit"] ELSE 0))
  <2>1. q.check = "cogs"
    BY <1>1, AtRestIs
  <2>2. /\ r.kind = "invoice_lines" => (Dated(r, q.period, q.headers) <=> r \in A)
        /\ r.kind = "refund_lines" => (Dated(r, q.period, q.headers) <=> r \in B)
        /\ r.kind \notin {"invoice_lines", "refund_lines"} =>
             (Dated(r, q.period, q.headers) <=> r.data.period = p)
    <3>1. /\ r.kind = "invoice_lines" => (Dated(r, q.period, q.headers) <=> r \in A)
          /\ r.kind = "refund_lines" => (Dated(r, q.period, q.headers) <=> r \in B)
      BY <1>1, <1>2, LinesDated
    <3>2. r.kind \notin {"invoice_lines", "refund_lines"} =>
            (Dated(r, q.period, q.headers) <=> r.data.period = p)
      BY <1>1, PlainDated
    <3>. QED  BY <3>1, <3>2
  <2>3. CASE r.kind = "invoice_lines"
    <3>1. Counts(q, r) = IF r \in A THEN r.data.cogs ELSE 0
      BY <2>1, <2>2, <2>3 DEF Counts, Share, Counting
    <3>2. r \notin B /\ r \notin D /\ (r \in A => r.data.cogs \in Int)
      BY <1>3, <1>5, <2>3 DEF Integral
    <3>. QED  BY <3>1, <3>2
  <2>4. CASE r.kind = "refund_lines"
    <3>1. Counts(q, r) = IF r \in B THEN -r.data.cogs ELSE 0
      BY <2>1, <2>2, <2>4 DEF Counts, Share, Counting
    <3>2. r \notin A /\ r \notin D /\ (r \in B => r.data.cogs \in Int)
      BY <1>3, <1>5, <2>4 DEF Integral
    <3>. QED  BY <3>1, <3>2
  <2>5. CASE r.kind = "journal_lines"
    <3>1. Counts(q, r) = IF r \in D THEN r.data.credit - r.data.debit ELSE 0
      BY <1>5, <2>1, <2>2, <2>5 DEF Counts, Share, Counting, LedgerShare
    <3>2. r \notin A /\ r \notin B /\ (r \in D => r.data.credit \in Int /\ r.data.debit \in Int)
      BY <1>3, <1>5, <2>5 DEF Integral
    <3>. QED  BY <3>1, <3>2
  <2>6. CASE r.kind \notin {"invoice_lines", "refund_lines", "journal_lines"}
    <3>1. Counts(q, r) = 0
      BY <2>1, <2>6 DEF Counts, Share, Counting
    <3>2. r \notin A /\ r \notin B /\ r \notin D
      BY <1>3, <1>5, <2>6
    <3>. QED  BY <3>1, <3>2
  <2>. QED  BY <2>3, <2>4, <2>5, <2>6
<1>7. Total(q, d)
        = (SumOf("cogs", A) - SumOf("cogs", B)) - (SumOf("debit", D) - SumOf("credit", D))
  BY <1>3, <1>5, <1>6, TotalIs
<1>. QED  BY <1>1, <1>2, <1>7 DEF Cogs, Covered, DebitBalance, DebitTotal, CreditTotal

LEMMA LinksReconcile ==
  ASSUME NEW d, SaneDisk(d), NEW p, OneCurrencyPerAccount(d, p),
         \A k \in Checks : Total(AtRest(k, p, d), d) = 0
  PROVE  Reconciles(d, p)
<1>1. \A kind \in {"invoices", "refunds"} :
        Subtotals(d, kind, p) \in Int /\ Taxes(d, kind, p) \in Int
  BY RecordsIn, SumOfType DEF Subtotals, Taxes
<1>2. \A account : /\ DebitTotal(d, p, account) \in Int /\ CreditTotal(d, p, account) \in Int
                   /\ DebitBalance(d, p, account) \in Int
  <2>1. ASSUME NEW account
        PROVE  DebitTotal(d, p, account) \in Int /\ CreditTotal(d, p, account) \in Int
    BY LedgerIn, SumOfType DEF DebitTotal, CreditTotal
  <2>. QED  BY <2>1 DEF DebitBalance
<1>3. InventoryValueDelta(d, p) \in Int
  BY RecordsIn, SumOfType DEF InventoryValueDelta
<1>4. /\ Cogs(d, "invoices", "invoice_lines", p) \in Int
      /\ Cogs(d, "refunds", "refund_lines", p) \in Int
  BY CoveredIn, SumOfType DEF Cogs, Covered
<1>5. InventoryValueDelta(d, p) = DebitBalance(d, p, "1200")
  BY <1>2, <1>3, InventoryLink DEF Checks
<1>6. Taxes(d, "invoices", p) - Taxes(d, "refunds", p) = -DebitBalance(d, p, "2100")
  BY <1>1, <1>2, TaxLink DEF Checks
<1>7. Subtotals(d, "invoices", p) = CreditTotal(d, p, "4000")
  BY <1>1, <1>2, SalesLink DEF Checks
<1>8. Subtotals(d, "refunds", p) = DebitTotal(d, p, "4100")
  BY <1>1, <1>2, ReturnsLink DEF Checks
<1>9. Cogs(d, "invoices", "invoice_lines", p) - Cogs(d, "refunds", "refund_lines", p)
        = DebitBalance(d, p, "5000")
  BY <1>2, <1>4, CogsLink DEF Checks
<1>. QED  BY <1>5, <1>6, <1>7, <1>8, <1>9 DEF Reconciles

-----------------------------------------------------------------------------
(* Journals.                                                               *)

(* What the lines of a journal count for.                                  *)
Posts(k, lines, v) == Amounts(lines) /\ v \in Int /\ Posted(k, lines) = v

LEMMA ShareType ==
  ASSUME NEW k, NEW l, l.debit \in Int, l.credit \in Int
  PROVE  LedgerShare(k, l) \in Int
BY DEF LedgerShare

PostedBy(k, s, n, f) ==
  /\ n \in Nat /\ n = Len(s) /\ DOMAIN s = 1..n /\ DOMAIN f = 1..n
  /\ \A i \in 1..n : f[i] = LedgerShare(k, s[i]) /\ f[i] \in Int
  /\ Posted(k, s) = SumFunction(f)

LEMMA PostedIs ==
  ASSUME NEW k, NEW s, Amounts(s)
  PROVE  \E n, f : PostedBy(k, s, n, f)
<1>1. Len(s) \in Nat /\ DOMAIN s = 1..Len(s)
  BY StepsCounted DEF Amounts
<1>2. PICK f : f = [i \in DOMAIN s |-> LedgerShare(k, s[i])]
  OBVIOUS
<1>3. \A i \in DOMAIN s : s[i].debit \in Int /\ s[i].credit \in Int
  BY DEF Amounts, In
<1>4. DOMAIN f = DOMAIN s /\ \A i \in DOMAIN s : f[i] = LedgerShare(k, s[i]) /\ f[i] \in Int
  BY <1>2, <1>3, ShareType
<1>5. Posted(k, s) = SumFunction(f)
  BY <1>2 DEF Posted
<1>6. PostedBy(k, s, Len(s), f)
  BY <1>1, <1>4, <1>5 DEF PostedBy
<1>. QED  BY <1>6

LEMMA PostsJoined ==
  ASSUME NEW k, NEW s, NEW t, NEW u, u = s \o t, NEW x, NEW y, Posts(k, s, x), Posts(k, t, y)
  PROVE  Posts(k, u, x + y)
<1>1. IsSeq(s) /\ IsSeq(t) /\ x \in Int /\ y \in Int /\ Amounts(s) /\ Amounts(t)
      /\ Posted(k, s) = x /\ Posted(k, t) = y
  BY DEF Posts, Amounts
<1>2. IsSeq(u) /\ \A z : In(z, u) <=> In(z, s) \/ In(z, t)
  BY <1>1, Joins, Members
<1>3. Amounts(u)
  BY <1>1, <1>2 DEF Amounts
<1>4. PICK a, f : PostedBy(k, s, a, f)
  BY <1>1, PostedIs
<1>5. PICK b, g : PostedBy(k, t, b, g)
  BY <1>1, PostedIs
<1>6. PICK c, h : PostedBy(k, u, c, h)
  BY <1>3, PostedIs
<1>16. /\ Len(u) = Len(s) + Len(t)
       /\ \A i \in DOMAIN s : u[i] = s[i]
       /\ \A i \in DOMAIN t : u[Len(s) + i] = t[i]
  <2>1. IsSeq(s) /\ IsSeq(t)
    BY <1>1
  <2>. QED  BY ONLY u = s \o t, <2>1, Joins
<1>7. c = a + b
  BY ONLY <1>4, <1>5, <1>6, <1>16 DEF PostedBy
<1>8. (\A i \in 1..a : u[i] = s[i]) /\ \A i \in 1..b : u[a + i] = t[i]
  BY ONLY <1>4, <1>5, <1>16 DEF PostedBy
<1>9. /\ a \in Nat /\ b \in Nat /\ c = a + b
      /\ DOMAIN f = 1..a /\ DOMAIN g = 1..b /\ DOMAIN h = 1..c
  BY ONLY <1>4, <1>5, <1>6, <1>7 DEF PostedBy
<1>10. /\ \A i \in 1..a : i \in 1..c
       /\ \A i \in 1..b : a + i \in 1..c
  BY ONLY <1>9
<1>11. /\ \A i \in 1..a : f[i] \in Int /\ h[i] = f[i]
       /\ \A i \in 1..b : g[i] \in Int /\ h[a + i] = g[i]
  <2>1. \A i \in 1..a : f[i] \in Int /\ h[i] = f[i]
    BY ONLY <1>4, <1>6, <1>8, <1>10 DEF PostedBy
  <2>2. \A i \in 1..b : h[a + i] = LedgerShare(k, u[a + i])
    BY ONLY <1>6, <1>10 DEF PostedBy
  <2>3. \A i \in 1..b : g[i] \in Int /\ h[a + i] = g[i]
    BY ONLY <1>5, <1>8, <2>2 DEF PostedBy
  <2>. QED  BY ONLY <2>1, <2>3
<1>12. /\ a \in Nat /\ b \in Nat
       /\ DOMAIN f = 1..a /\ DOMAIN g = 1..b /\ DOMAIN h = 1..a+b
  BY <1>9
<1>13. SumFunction(h) = SumFunction(f) + SumFunction(g)
  <2>1. Along(a, b, f, g, h)
    BY ONLY <1>11, <1>12 DEF Along
  <2>. QED  BY ONLY <2>1, SumAlong
<1>14. Posted(k, u) = x + y
  BY ONLY <1>1, <1>4, <1>5, <1>6, <1>13 DEF PostedBy
<1>15. x + y \in Int
  BY <1>1
<1>. QED  BY <1>3, <1>14, <1>15 DEF Posts

LEMMA PostsNone ==
  ASSUME NEW k
  PROVE  Posts(k, << >>, 0)
<1>1. DOMAIN << >> = {}
  OBVIOUS
<1>2. \A f : DOMAIN f = {} => SumFunction(f) = 0
  BY SumEmpty DEF SumFunction
<1>3. Posted(k, << >>) = 0
  BY <1>1, <1>2 DEF Posted
<1>. QED  BY <1>3, NoSteps DEF Posts, Amounts

LEMMA PostsOne ==
  ASSUME NEW k, NEW x, x.debit \in Int, x.credit \in Int
  PROVE  Posts(k, << x >>, LedgerShare(k, x))
<1>1. PICK s : s = << x >>
  OBVIOUS
<1>2. IsSeq(s) /\ (\A y : In(y, s) => y = x) /\ DOMAIN s = {1} /\ s[1] = x
  BY <1>1, OneStep
<1>3. LedgerShare(k, x) \in Int
  BY ShareType
<1>4. PICK f : f = [i \in DOMAIN s |-> LedgerShare(k, s[i])]
  OBVIOUS
<1>5. DOMAIN f = {1} /\ f[1] = LedgerShare(k, x)
  BY <1>2, <1>4
<1>6. SumFunction(f) = f[1]
  BY <1>3, <1>5, SumSingleton DEF SumFunction
<1>7. Posted(k, s) = SumFunction(f)
  BY <1>4 DEF Posted
<1>8. Amounts(s)
  BY <1>2 DEF Amounts
<1>. QED  BY <1>1, <1>3, <1>5, <1>6, <1>7, <1>8 DEF Posts

LEMMA PostsTwo ==
  ASSUME NEW k, NEW x, x.debit \in Int, x.credit \in Int,
         NEW y, y.debit \in Int, y.credit \in Int
  PROVE  Posts(k, << x, y >>, LedgerShare(k, x) + LedgerShare(k, y))
<1>1. << x, y >> = << x >> \o << y >>
  OBVIOUS
<1>2. Posts(k, << x >>, LedgerShare(k, x)) /\ Posts(k, << y >>, LedgerShare(k, y))
  BY PostsOne
<1>. QED  BY <1>1, <1>2, PostsJoined

LEMMA ShareOf ==
  ASSUME NEW a, NEW x \in Int
  PROVE  /\ Debit(a, x).debit = x /\ Debit(a, x).credit = 0 /\ Debit(a, x).account = a
         /\ Credit(a, x).debit = 0 /\ Credit(a, x).credit = x /\ Credit(a, x).account = a
BY DEF Debit, Credit

LEMMA MovementPosts ==
  ASSUME NEW c, NEW v \in Int, NEW k \in Checks
  PROVE  Posts(k, MovementJournal(c, v).lines, IF k = "inventory" THEN -v ELSE 0)
<1>1. CASE v > 0
  <2>1. MovementJournal(c, v).lines = << Debit("1200", v), Credit("3000", v) >>
    BY <1>1 DEF MovementJournal, Journal
  <2>2. PICK x, y : x = Debit("1200", v) /\ y = Credit("3000", v)
    OBVIOUS
  <2>3. /\ x.account = "1200" /\ x.debit = v /\ x.credit = 0
        /\ y.account = "3000" /\ y.debit = 0 /\ y.credit = v
    BY <2>2, ShareOf
  <2>4. Posts(k, << x, y >>, LedgerShare(k, x) + LedgerShare(k, y))
    BY <2>3, PostsTwo
  <2>5. LedgerShare(k, x) + LedgerShare(k, y) = IF k = "inventory" THEN -v ELSE 0
    BY <2>3 DEF LedgerShare, Checks, Revenue
  <2>. QED  BY <2>1, <2>2, <2>4, <2>5
<1>2. CASE ~(v > 0)
  <2>1. MovementJournal(c, v).lines = << Debit("5100", -v), Credit("1200", -v) >>
    BY <1>2 DEF MovementJournal, Journal
  <2>2. PICK x, y : x = Debit("5100", -v) /\ y = Credit("1200", -v)
    OBVIOUS
  <2>3. /\ x.account = "5100" /\ x.debit = -v /\ x.credit = 0
        /\ y.account = "1200" /\ y.debit = 0 /\ y.credit = -v
    BY <2>2, ShareOf
  <2>4. Posts(k, << x, y >>, LedgerShare(k, x) + LedgerShare(k, y))
    BY <2>3, PostsTwo
  <2>5. LedgerShare(k, x) + LedgerShare(k, y) = IF k = "inventory" THEN -v ELSE 0
    BY <2>3 DEF LedgerShare, Checks, Revenue
  <2>. QED  BY <2>1, <2>2, <2>4, <2>5
<1>. QED  BY <1>1, <1>2

LEMMA InvoicePosts ==
  ASSUME NEW c, NEW g \in Int, NEW x \in Int, NEW y \in Int,
         x = Subtotal(c.lines), y = Tax(c.lines), NEW k \in Checks
  PROVE  Posts(k, InvoiceJournal(c, g).lines,
               CASE k = "inventory" -> g [] k = "tax" -> -y [] k = "cogs" -> -g
                 [] k \in {"sales", "revenue"} -> -x [] OTHER -> 0)
<1>1. PICK r, s, t : /\ r = << Debit("1000", x + y), Credit("4000", x) >>
                     /\ s = If(y # 0, << Credit("2100", y) >>)
                     /\ t = If(g # 0, << Debit("5000", g), Credit("1200", g) >>)
  OBVIOUS
<1>2. InvoiceJournal(c, g).lines = (r \o s) \o t
  BY <1>1 DEF InvoiceJournal, Journal
<1>3. Posts(k, r, IF k \in {"sales", "revenue"} THEN -x ELSE 0)
  <2>1. PICK a, b : a = Debit("1000", x + y) /\ b = Credit("4000", x)
    OBVIOUS
  <2>2. /\ a.account = "1000" /\ a.debit = x + y /\ a.credit = 0
        /\ b.account = "4000" /\ b.debit = 0 /\ b.credit = x
    BY <2>1, ShareOf
  <2>3. Posts(k, << a, b >>, LedgerShare(k, a) + LedgerShare(k, b))
    BY <2>2, PostsTwo
  <2>4. LedgerShare(k, a) + LedgerShare(k, b) = IF k \in {"sales", "revenue"} THEN -x ELSE 0
    BY <2>2 DEF LedgerShare, Checks, Revenue
  <2>. QED  BY <1>1, <2>1, <2>3, <2>4
<1>4. Posts(k, s, IF k = "tax" THEN -y ELSE 0)
  <2>1. CASE y = 0
    BY <1>1, <2>1, PostsNone DEF If
  <2>2. CASE y # 0
    <3>1. PICK a : a = Credit("2100", y)
      OBVIOUS
    <3>2. a.account = "2100" /\ a.debit = 0 /\ a.credit = y /\ s = << a >>
      BY <1>1, <2>2, <3>1, ShareOf DEF If
    <3>3. Posts(k, << a >>, LedgerShare(k, a))
      BY <3>2, PostsOne
    <3>4. LedgerShare(k, a) = IF k = "tax" THEN -y ELSE 0
      BY <3>2 DEF LedgerShare, Checks, Revenue
    <3>. QED  BY <3>2, <3>3, <3>4
  <2>. QED  BY <2>1, <2>2
<1>5. Posts(k, t, IF k = "inventory" THEN g ELSE IF k = "cogs" THEN -g ELSE 0)
  <2>1. CASE g = 0
    BY <1>1, <2>1, PostsNone DEF If
  <2>2. CASE g # 0
    <3>1. PICK a, b : a = Debit("5000", g) /\ b = Credit("1200", g)
      OBVIOUS
    <3>2. /\ a.account = "5000" /\ a.debit = g /\ a.credit = 0
          /\ b.account = "1200" /\ b.debit = 0 /\ b.credit = g
      BY <3>1, ShareOf
    <3>3. t = << a, b >>
      BY <1>1, <2>2, <3>1 DEF If
    <3>4. Posts(k, << a, b >>, LedgerShare(k, a) + LedgerShare(k, b))
      BY <3>2, PostsTwo
    <3>5. LedgerShare(k, a) + LedgerShare(k, b)
            = IF k = "inventory" THEN g ELSE IF k = "cogs" THEN -g ELSE 0
      BY <3>2 DEF LedgerShare, Checks, Revenue
    <3>. QED  BY <3>3, <3>4, <3>5
  <2>. QED  BY <2>1, <2>2
<1>6. PICK u, v, w : /\ u = IF k \in {"sales", "revenue"} THEN -x ELSE 0
                     /\ v = IF k = "tax" THEN -y ELSE 0
                     /\ w = IF k = "inventory" THEN g ELSE IF k = "cogs" THEN -g ELSE 0
  OBVIOUS
<1>7. Posts(k, (r \o s) \o t, (u + v) + w)
  <2>1. Posts(k, r, u)
    BY <1>3, <1>6
  <2>2. Posts(k, s, v)
    BY <1>4, <1>6
  <2>3. Posts(k, t, w)
    BY <1>5, <1>6
  <2>4. Posts(k, r \o s, u + v)
    BY <2>1, <2>2, PostsJoined
  <2>. QED  BY <2>3, <2>4, PostsJoined
<1>8. (u + v) + w = CASE k = "inventory" -> g [] k = "tax" -> -y [] k = "cogs" -> -g
                      [] k \in {"sales", "revenue"} -> -x [] OTHER -> 0
  BY <1>6 DEF Checks
<1>. QED  BY <1>2, <1>7, <1>8

LEMMA RefundPosts ==
  ASSUME NEW c, NEW g \in Int, NEW x \in Int, NEW y \in Int,
         x = Subtotal(c.lines), y = Tax(c.lines), NEW k \in Checks
  PROVE  Posts(k, RefundJournal(c, g).lines,
               CASE k = "inventory" -> -g [] k = "tax" -> y [] k = "cogs" -> g
                 [] k = "returns" -> -x [] k = "revenue" -> x [] OTHER -> 0)
<1>1. PICK r, s, t : /\ r = << Debit("4100", x), Credit("1000", x + y) >>
                     /\ s = If(y # 0, << Debit("2100", y) >>)
                     /\ t = If(g # 0, << Debit("1200", g), Credit("5000", g) >>)
  OBVIOUS
<1>2. RefundJournal(c, g).lines = (r \o s) \o t
  BY <1>1 DEF RefundJournal, Journal
<1>3. Posts(k, r, IF k = "returns" THEN -x ELSE IF k = "revenue" THEN x ELSE 0)
  <2>1. PICK a, b : a = Debit("4100", x) /\ b = Credit("1000", x + y)
    OBVIOUS
  <2>2. /\ a.account = "4100" /\ a.debit = x /\ a.credit = 0
        /\ b.account = "1000" /\ b.debit = 0 /\ b.credit = x + y
    BY <2>1, ShareOf
  <2>3. Posts(k, << a, b >>, LedgerShare(k, a) + LedgerShare(k, b))
    BY <2>2, PostsTwo
  <2>4. LedgerShare(k, a) + LedgerShare(k, b)
          = IF k = "returns" THEN -x ELSE IF k = "revenue" THEN x ELSE 0
    BY <2>2 DEF LedgerShare, Checks, Revenue
  <2>. QED  BY <1>1, <2>1, <2>3, <2>4
<1>4. Posts(k, s, IF k = "tax" THEN y ELSE 0)
  <2>1. CASE y = 0
    BY <1>1, <2>1, PostsNone DEF If
  <2>2. CASE y # 0
    <3>1. PICK a : a = Debit("2100", y)
      OBVIOUS
    <3>2. a.account = "2100" /\ a.debit = y /\ a.credit = 0 /\ s = << a >>
      BY <1>1, <2>2, <3>1, ShareOf DEF If
    <3>3. Posts(k, << a >>, LedgerShare(k, a))
      BY <3>2, PostsOne
    <3>4. LedgerShare(k, a) = IF k = "tax" THEN y ELSE 0
      BY <3>2 DEF LedgerShare, Checks, Revenue
    <3>. QED  BY <3>2, <3>3, <3>4
  <2>. QED  BY <2>1, <2>2
<1>5. Posts(k, t, IF k = "inventory" THEN -g ELSE IF k = "cogs" THEN g ELSE 0)
  <2>1. CASE g = 0
    BY <1>1, <2>1, PostsNone DEF If
  <2>2. CASE g # 0
    <3>1. PICK a, b : a = Debit("1200", g) /\ b = Credit("5000", g)
      OBVIOUS
    <3>2. /\ a.account = "1200" /\ a.debit = g /\ a.credit = 0
          /\ b.account = "5000" /\ b.debit = 0 /\ b.credit = g
      BY <3>1, ShareOf
    <3>3. t = << a, b >>
      BY <1>1, <2>2, <3>1 DEF If
    <3>4. Posts(k, << a, b >>, LedgerShare(k, a) + LedgerShare(k, b))
      BY <3>2, PostsTwo
    <3>5. LedgerShare(k, a) + LedgerShare(k, b)
            = IF k = "inventory" THEN -g ELSE IF k = "cogs" THEN g ELSE 0
      BY <3>2 DEF LedgerShare, Checks, Revenue
    <3>. QED  BY <3>3, <3>4, <3>5
  <2>. QED  BY <2>1, <2>2
<1>6. PICK u, v, w : /\ u = IF k = "returns" THEN -x ELSE IF k = "revenue" THEN x ELSE 0
                     /\ v = IF k = "tax" THEN y ELSE 0
                     /\ w = IF k = "inventory" THEN -g ELSE IF k = "cogs" THEN g ELSE 0
  OBVIOUS
<1>7. Posts(k, (r \o s) \o t, (u + v) + w)
  <2>1. Posts(k, r, u)
    BY <1>3, <1>6
  <2>2. Posts(k, s, v)
    BY <1>4, <1>6
  <2>3. Posts(k, t, w)
    BY <1>5, <1>6
  <2>4. Posts(k, r \o s, u + v)
    BY <2>1, <2>2, PostsJoined
  <2>. QED  BY <2>3, <2>4, PostsJoined
<1>8. (u + v) + w = CASE k = "inventory" -> -g [] k = "tax" -> y [] k = "cogs" -> g
                      [] k = "returns" -> -x [] k = "revenue" -> x [] OTHER -> 0
  BY <1>6 DEF Checks
<1>. QED  BY <1>2, <1>7, <1>8

-----------------------------------------------------------------------------
(* Operations of one service.                                              *)

LEMMA PlainWeight ==
  ASSUME NEW q, NEW x, x.do # "call", x.do = "put" => x.rec.kind \notin Counting
  PROVE  Weight(q, x) = 0
BY DEF Weight, Counts

LEMMA PostedWeight ==
  ASSUME NEW q, NEW c, c.op = "accounting.post_journal"
  PROVE  Weight(q, Call(c)) = IF c.period = q.period THEN Posted(q.check, c.lines) ELSE 0
BY DEF Weight, Call

LEMMA MovedWeight ==
  ASSUME NEW q, NEW c, c.op = "inventory.commit_movement"
  PROVE  Weight(q, Call(c))
           = IF c.period = q.period /\ q.check = "inventory" THEN MovedValue(c, q.disk) ELSE 0
BY DEF Weight, Call

(* Registering an item and closing a period count for nothing.             *)
LEMMA NeutralTally ==
  ASSUME NEW c, NEW d, NEW n, NEW q, Command(c),
         c.op \in {"inventory.register_item", "accounting.close_period"}
  PROVE  Summed(q, Piece(c, d, n)) /\ Tally(q, Piece(c, d, n)) = 0
<1>1. IsSeq(Piece(c, d, n))
  BY PieceFacts
<1>2. ASSUME NEW x, In(x, Piece(c, d, n))
      PROVE  Weight(q, x) = 0
  <2>1. x.do # "call"
    BY <1>2, CallIs
  <2>2. x.do = "put" => x.rec.kind \notin Counting
    BY <1>2, PutIs DEF Counting, CloseKinds
  <2>. QED  BY <2>1, <2>2, PlainWeight
<1>. QED  BY <1>1, <1>2, TallyNone

(* A journal posted by a user leaves alone the accounts that the report    *)
(* checks.                                                                 *)
Checked == {"1200", "2100", "4000", "4100", "5000"}

LEMMA UserJournalTally ==
  ASSUME NEW c, NEW d, NEW n, NEW q, q.check \in Checks, Command(c),
         c.op = "accounting.post_journal",
         \A i \in DOMAIN c.lines : c.lines[i].account \notin Checked
  PROVE  Summed(q, Piece(c, d, n)) /\ Tally(q, Piece(c, d, n)) = 0
<1>1. IsSeq(Piece(c, d, n))
  BY PieceFacts
<1>2. ASSUME NEW x, In(x, Piece(c, d, n))
      PROVE  Weight(q, x) = 0
  <2>1. x.do # "call"
    BY <1>2, CallIs
  <2>2. CASE \E i \in DOMAIN c.lines : x = LinePut(c, i)
    <3>1. PICK i \in DOMAIN c.lines : x = LinePut(c, i)
      BY <2>2
    <3>2. /\ x.do = "put" /\ x.rec.kind = "journal_lines"
          /\ x.rec.data.account = c.lines[i].account
      BY <3>1 DEF LinePut, Put
    <3>3. x.rec.data.account \notin Checked
      BY <3>2
    <3>4. LedgerShare(q.check, x.rec.data) = 0
      BY <3>3 DEF LedgerShare, Checked, Checks, Revenue
    <3>5. Share(q.check, x.rec) = 0
      BY <3>2, <3>4 DEF Share
    <3>. QED  BY <3>2, <3>5 DEF Weight, Counts
  <2>3. CASE ~ \E i \in DOMAIN c.lines : x = LinePut(c, i)
    <3>1. x.do = "put" => x.rec.kind \notin Counting
      <4>1. x = EntryPut(c) => x.rec.kind = "journal_entries"
        BY DEF EntryPut, Put
      <4>. QED  BY <1>2, <2>3, <4>1, PutIs DEF Counting
    <3>. QED  BY <2>1, <3>1, PlainWeight
  <2>. QED  BY <2>2, <2>3
<1>. QED  BY <1>1, <1>2, TallyNone

(* A journal counts for its lines once it is being posted.                 *)
LEMMA JournalTally ==
  ASSUME NEW c, NEW d, NEW n, NEW q, Command(c), Numbers(c), c.op = "accounting.post_journal"
  PROVE  Summed(q, Piece(c, d, n)) /\ Tally(q, Piece(c, d, n)) = Weight(q, Call(c))
<1>1. PICK a, s, e : a = << EntryPut(c) >> /\ s = LineSteps(c) /\ e = JournalEnd(c, d, n)
  OBVIOUS
<1>2. /\ Piece(c, d, n) = (a \o s) \o e
      /\ IsSeq(s) /\ IsSeq(e) /\ Len(c.lines) \in Nat /\ DOMAIN c.lines = 1..Len(c.lines)
      /\ \A x : In(x, e) => ~KindIn(x, JournalKinds)
  BY <1>1, JournalPiece
<1>3. Summed(q, a) /\ Tally(q, a) = 0
  <2>1. IsSeq(a) /\ \A x : In(x, a) => x = EntryPut(c)
    BY <1>1, OneStep
  <2>2. Weight(q, EntryPut(c)) = 0
    BY PlainWeight DEF EntryPut, Put, Counting
  <2>. QED  BY <2>1, <2>2, TallyNone
<1>4. Summed(q, e) /\ Tally(q, e) = 0
  <2>1. ASSUME NEW x, In(x, e)
        PROVE  Weight(q, x) = 0
    <3>1. In(x, Piece(c, d, n))
      <4>1. IsSeq(a \o s) /\ IsSeq(a)
        BY <1>1, <1>2, OneStep, Concatenation
      <4>. QED  BY <1>2, <2>1, <4>1, Members
    <3>2. x.do # "call"
      BY <3>1, CallIs
    <3>3. ~KindIn(x, JournalKinds)
      BY <1>2, <2>1
    <3>4. x.do = "put" => x.rec.kind \notin Counting
      <4>1. ASSUME x.do = "put" PROVE x.rec.kind \notin JournalKinds
        BY <3>3, <4>1 DEF KindIn
      <4>2. EntryPut(c).rec.kind \in JournalKinds
        BY DEF EntryPut, Put, JournalKinds
      <4>3. \A i : LinePut(c, i).rec.kind \in JournalKinds
        BY DEF LinePut, Put, JournalKinds
      <4>. QED  BY <3>1, <4>1, <4>2, <4>3, PutIs DEF Counting
    <3>. QED  BY <3>2, <3>4, PlainWeight
  <2>. QED  BY <1>2, <2>1, TallyNone
<1>5. PICK k, g : k = Len(c.lines) /\ g = [i \in 1..k |-> Weight(q, s[i])]
  OBVIOUS
<1>6. ASSUME NEW i \in 1..k
      PROVE  /\ s[i] = LinePut(c, i) /\ g[i] = Weight(q, s[i])
             /\ g[i] = IF c.period = q.period THEN LedgerShare(q.check, c.lines[i]) ELSE 0
             /\ g[i] \in Int /\ LedgerShare(q.check, c.lines[i]) \in Int
  <2>1. s[i] = LinePut(c, i) /\ g[i] = Weight(q, s[i])
    BY <1>1, <1>2, <1>5 DEF LineSteps
  <2>2. c.lines[i].debit \in Int /\ c.lines[i].credit \in Int
    BY <1>2, <1>5 DEF Numbers
  <2>3. PICK l, m : l = LinePut(c, i).rec /\ m = l.data
    OBVIOUS
  <2>4. /\ l.kind = "journal_lines" /\ m.period = c.period
        /\ m.account = c.lines[i].account /\ m.debit = c.lines[i].debit
        /\ m.credit = c.lines[i].credit
    BY <2>3 DEF LinePut, Put
  <2>5. LedgerShare(q.check, m) = LedgerShare(q.check, c.lines[i])
    BY <2>4 DEF LedgerShare
  <2>6. Share(q.check, l) = LedgerShare(q.check, c.lines[i])
    BY <2>3, <2>4, <2>5 DEF Share
  <2>7. Dated(l, q.period, q.headers) <=> c.period = q.period
    BY <2>3, <2>4 DEF Dated
  <2>8. Weight(q, s[i]) = Counts(q, l)
    BY <2>1, <2>3 DEF Weight, LinePut, Put
  <2>9. Counts(q, l) = IF c.period = q.period THEN LedgerShare(q.check, c.lines[i]) ELSE 0
    BY <2>4, <2>6, <2>7 DEF Counts, Counting
  <2>10. LedgerShare(q.check, c.lines[i]) \in Int
    BY <2>2, ShareType
  <2>11. g[i] = IF c.period = q.period THEN LedgerShare(q.check, c.lines[i]) ELSE 0
    BY <2>1, <2>8, <2>9
  <2>12. g[i] \in Int
    <3>1. PICK w : w = LedgerShare(q.check, c.lines[i])
      OBVIOUS
    <3>2. g[i] = w \/ g[i] = 0
      BY <2>11, <3>1
    <3>. QED  BY <2>10, <3>1, <3>2
  <2>. QED  BY <2>1, <2>10, <2>11, <2>12
<1>7. Summed(q, s) /\ Tally(q, s) = SumFunctionOnSet(g, 1..k)
  <2>1. IsSeq(s) /\ DOMAIN s = 1..k
    BY <1>1, <1>2, <1>5 DEF LineSteps
  <2>2. Summed(q, s)
    BY <1>6, <2>1 DEF Summed, In
  <2>3. PICK l, f :
          /\ l \in Nat /\ l = Len(s) /\ DOMAIN s = 1..l /\ DOMAIN f = 1..l
          /\ \A i \in 1..l : f[i] = Weight(q, s[i]) /\ f[i] \in Int
          /\ Tally(q, s) = SumFunction(f)
    BY <2>2, TallyIs DEF TalliedBy
  <2>4. DOMAIN f = 1..k /\ \A i \in 1..k : f[i] = g[i]
    BY <1>6, <2>1, <2>3
  <2>5. SumFunctionOnSet(f, 1..k) = SumFunctionOnSet(g, 1..k)
    <3>1. IsFiniteSet(1..k)
      BY <1>2, <1>5, FS_Interval
    <3>. QED  BY <2>4, <3>1, SumCongruent
  <2>. QED  BY <2>2, <2>3, <2>4, <2>5 DEF SumFunction
<1>8. SumFunctionOnSet(g, 1..k) = Weight(q, Call(c))
  <2>1. IsFiniteSet(1..k)
    BY <1>2, <1>5, FS_Interval
  <2>2. CASE c.period = q.period
    <3>1. PICK h : h = [i \in DOMAIN c.lines |-> LedgerShare(q.check, c.lines[i])]
      OBVIOUS
    <3>2. DOMAIN h = 1..k /\ \A i \in 1..k : g[i] = h[i]
      BY <1>2, <1>5, <1>6, <2>2, <3>1
    <3>3. SumFunctionOnSet(g, 1..k) = SumFunctionOnSet(h, 1..k)
      BY <2>1, <3>2, SumCongruent
    <3>4. Posted(q.check, c.lines) = SumFunctionOnSet(h, 1..k)
      BY <3>1, <3>2 DEF Posted, SumFunction
    <3>. QED  BY <2>2, <3>3, <3>4, PostedWeight
  <2>3. CASE c.period # q.period
    <3>1. \A i \in 1..k : g[i] = 0
      BY <1>6, <2>3
    <3>. QED  BY <2>1, <2>3, <3>1, SumZero, PostedWeight
  <2>. QED  BY <2>2, <2>3
<1>9. PICK u : u = a \o s /\ Joined(u, a, s)
  BY DEF Joined
<1>10. Summed(q, u) /\ Tally(q, u) = Tally(q, a) + Tally(q, s)
  BY <1>3, <1>7, <1>9, TallyJoined
<1>11. PICK v : v = u \o e /\ Joined(v, u, e)
  BY DEF Joined
<1>12. Summed(q, v) /\ Tally(q, v) = Tally(q, u) + Tally(q, e)
  BY <1>4, <1>10, <1>11, TallyJoined
<1>13. Tally(q, s) \in Int
  BY <1>7, TallyType
<1>14. Tally(q, v) = Tally(q, s)
  BY <1>3, <1>4, <1>10, <1>12, <1>13
<1>. QED  BY <1>2, <1>7, <1>8, <1>9, <1>11, <1>12, <1>14

LEMMA MovePutWeight ==
  ASSUME NEW q, NEW c, NEW d
  PROVE  Weight(q, MovePut(c, d))
           = IF c.period = q.period /\ q.check = "inventory" THEN ValueDelta(c, d) ELSE 0
<1>1. PICK r : r = MovePut(c, d).rec
  OBVIOUS
<1>2. r.kind = "stock_movements" /\ r.data.period = c.period /\ r.data.value = ValueDelta(c, d)
  BY <1>1 DEF MovePut, Put
<1>3. Dated(r, q.period, q.headers) <=> c.period = q.period
  BY <1>2 DEF Dated
<1>4. Share(q.check, r) = IF q.check = "inventory" THEN ValueDelta(c, d) ELSE 0
  BY <1>2 DEF Share
<1>5. Weight(q, MovePut(c, d)) = Counts(q, r)
  BY <1>1 DEF Weight, MovePut, Put
<1>6. Counts(q, r) = IF c.period = q.period THEN Share(q.check, r) ELSE 0
  BY <1>2, <1>3 DEF Counts, Counting
<1>. QED  BY <1>4, <1>5, <1>6

(* A movement, then the journal of its value if there is one.              *)
LEMMA MovementTally ==
  ASSUME NEW c, NEW d, NEW n, NEW q, q.check \in Checks, Numbers(c), SaneDisk(d),
         c.op = "inventory.commit_movement"
  PROVE  /\ Summed(q, Piece(c, d, n))
         /\ c.by = "use_case" => Tally(q, Piece(c, d, n)) = 0
         /\ c.by # "use_case" => Tally(q, Piece(c, d, n)) = Weight(q, MovePut(c, d))
<1>0. PICK v, w : v = ValueDelta(c, d) /\ w = Weight(q, MovePut(c, d))
  OBVIOUS
<1>1. v \in Int /\ w = IF c.period = q.period /\ q.check = "inventory" THEN v ELSE 0
  BY <1>0, SaneValue, MovePutWeight
<1>2. w \in Int
  BY <1>1
<1>3. PICK a, b, e, t, u :
        /\ a = << MovePut(c, d) >>
        /\ b = AuditAndEvent("inventory.stock_moved", "inventory.stock_moved.v1", c.doc, c.n)
        /\ e = << Commit(n) >>
        /\ t = AfterCommit(c, d)
        /\ u = (a \o b) \o e
  OBVIOUS
<1>4. Piece(c, d, n) = u \o t
  BY <1>3 DEF Piece, Steps, MovementSteps, MovePut
<1>5. Summed(q, a) /\ Tally(q, a) = w
  BY <1>0, <1>2, <1>3, TallyOne
<1>6. Summed(q, b) /\ Tally(q, b) = 0
  <2>1. PICK x, y : /\ x = Put("inventory.stock_moved", c.doc, c.n, NoData)
                    /\ y = Put("inventory.stock_moved.v1", c.doc, c.n, NoData)
    OBVIOUS
  <2>2. IsSeq(b) /\ \A z : In(z, b) => z = x \/ z = y
    BY <1>3, <2>1, TwoSteps DEF AuditAndEvent
  <2>3. Weight(q, x) = 0 /\ Weight(q, y) = 0
    BY <2>1, PlainWeight DEF Put, Counting
  <2>4. \A z : In(z, b) => Weight(q, z) = 0
    BY <2>2, <2>3
  <2>. QED  BY <2>2, <2>4, TallyNone
<1>7. Summed(q, e) /\ Tally(q, e) = 0
  <2>1. IsSeq(e) /\ \A z : In(z, e) => z = Commit(n)
    BY <1>3, OneStep
  <2>2. Weight(q, Commit(n)) = 0
    BY PlainWeight DEF Commit
  <2>. QED  BY <2>1, <2>2, TallyNone
<1>8. Summed(q, u) /\ Tally(q, u) = w
  <2>1. PICK s : s = a \o b /\ Joined(s, a, b)
    BY DEF Joined
  <2>2. Summed(q, s) /\ Tally(q, s) = Tally(q, a) + Tally(q, b)
    BY ONLY <1>5, <1>6, <2>1, TallyJoined
  <2>3. Joined(u, s, e)
    BY ONLY <1>3, <2>1 DEF Joined
  <2>4. Summed(q, u) /\ Tally(q, u) = Tally(q, s) + Tally(q, e)
    BY ONLY <1>7, <2>2, <2>3, TallyJoined
  <2>. QED  BY ONLY <1>2, <1>5, <1>6, <1>7, <2>2, <2>4
<1>9. /\ Summed(q, t)
      /\ c.by # "use_case" => Tally(q, t) = 0
      /\ c.by = "use_case" => Tally(q, t) + w = 0
  <2>1. CASE c.by # "use_case" \/ v = 0
    <3>1. t = << >>
      BY <1>0, <1>3, <2>1 DEF AfterCommit, If
    <3>2. Summed(q, t) /\ Tally(q, t) = 0
      BY <3>1, TallyEmpty
    <3>3. v = 0 => w = 0
      BY ONLY <1>1
    <3>. QED  BY ONLY <2>1, <3>2, <3>3
  <2>2. CASE c.by = "use_case" /\ v # 0
    <3>1. PICK j : j = MovementJournal(c, v)
      OBVIOUS
    <3>2. t = << Call(j) >>
      BY <1>0, <1>3, <2>2, <3>1 DEF AfterCommit, If
    <3>3. j.op = "accounting.post_journal" /\ j.period = c.period
      BY <3>1 DEF MovementJournal, Journal
    <3>4. Posts(q.check, j.lines, IF q.check = "inventory" THEN -v ELSE 0)
      BY <1>1, <3>1, MovementPosts
    <3>5. Weight(q, Call(j)) = IF c.period = q.period THEN Posted(q.check, j.lines) ELSE 0
      BY <3>3, PostedWeight
    <3>6. Weight(q, Call(j)) = -w
      BY <1>1, <3>4, <3>5 DEF Posts
    <3>7. Weight(q, Call(j)) \in Int
      BY <1>2, <3>6
    <3>8. Summed(q, t) /\ Tally(q, t) = Weight(q, Call(j))
      BY <3>2, <3>7, TallyOne
    <3>. QED  BY ONLY <1>2, <2>2, <3>6, <3>8
  <2>. QED  BY <2>1, <2>2
<1>10. PICK p : p = u \o t /\ Joined(p, u, t)
  BY DEF Joined
<1>11. Summed(q, p) /\ Tally(q, p) = Tally(q, u) + Tally(q, t)
  <2>1. Summed(q, u) /\ Summed(q, t)
    BY <1>8, <1>9
  <2>. QED  BY ONLY <2>1, <1>10, TallyJoined
<1>12. /\ c.by = "use_case" => Tally(q, p) = 0
       /\ c.by # "use_case" => Tally(q, p) = w
  <2>1. Tally(q, t) \in Int
    <3>1. Summed(q, t)
      BY <1>9
    <3>. QED  BY ONLY <3>1, TallyType
  <2>. QED  BY ONLY <2>1, <1>2, <1>8, <1>9, <1>11
<1>. QED  BY <1>0, <1>4, <1>10, <1>11, <1>12

(* A movement that is called counts for what its call counted for.         *)
LEMMA CalledMovementTally ==
  ASSUME NEW m, NEW d, NEW n, NEW q, q.check \in Checks, q.disk = d,
         SaneCall(m), SaneDisk(d), m.op = "inventory.commit_movement", m.by # "use_case",
         m.quantity # 0, m.by = "sale" => m.quantity < 0
  PROVE  LET p == Piece(Priced(m, d), d, n) IN
         Summed(q, p) /\ Tally(q, p) = Weight(q, Call(m))
<1>1. PICK c : c = Priced(m, d)
  OBVIOUS
<1>2. Numbers(c) /\ c.op = m.op
  BY <1>1, SanePriced
<1>3. /\ c.quantity = m.quantity /\ c.item = m.item /\ c.period = m.period /\ c.by = m.by
      /\ c.cost = IF m.by = "sale" THEN WeightedAverageUnitCost(d, m.item) ELSE m.cost
  <2>1. DOMAIN m = {"op", "doc", "n", "item", "quantity", "cost", "period", "by"}
    BY DEF SaneCall, Command, Fields
  <2>. QED  BY <1>1, <2>1 DEF Priced
<1>4. m.quantity \in Int /\ m.quantity < 0 <=> m.by = "sale"
  BY DEF SaneCall, Numbers
<1>5. ValueDelta(c, d) = MovedValue(m, d)
  <2>1. CASE m.by = "sale"
    <3>1. UnitCost(c, d) = WeightedAverageUnitCost(d, m.item)
      BY <1>3, <2>1 DEF UnitCost
    <3>. QED  BY <1>3, <1>4, <2>1, <3>1 DEF ValueDelta, MovedValue
  <2>2. CASE m.by # "sale"
    <3>1. m.quantity > 0
      <4>1. m.quantity \in Int
        BY DEF SaneCall, Numbers
      <4>. QED  BY <1>4, <2>2, <4>1
    <3>2. ~(m.quantity < 0)
      <4>1. m.quantity \in Int
        BY DEF SaneCall, Numbers
      <4>. QED  BY <3>1, <4>1
    <3>3. UnitCost(c, d) = m.cost
      <4>1. c.quantity > 0 /\ c.cost = m.cost
        BY ONLY <1>3, <2>2, <3>1
      <4>. QED  BY ONLY <4>1 DEF UnitCost
    <3>. QED  BY <1>3, <3>2, <3>3 DEF ValueDelta, MovedValue
  <2>. QED  BY <2>1, <2>2
<1>6. Weight(q, MovePut(c, d)) = Weight(q, Call(m))
  BY <1>3, <1>5, MovePutWeight, MovedWeight
<1>7. Summed(q, Piece(c, d, n)) /\ Tally(q, Piece(c, d, n)) = Weight(q, MovePut(c, d))
  BY <1>2, <1>3, MovementTally
<1>. QED  BY <1>1, <1>6, <1>7

-----------------------------------------------------------------------------
(* Sales and refunds.                                                      *)

(* A run of steps, one for each of 1..k.                                   *)
LEMMA TallyMapped ==
  ASSUME NEW q, NEW k \in Nat, NEW s, IsSeq(s), DOMAIN s = 1..k, NEW g,
         \A i \in 1..k : Weight(q, s[i]) = g[i] /\ g[i] \in Int
  PROVE  Summed(q, s) /\ Tally(q, s) = SumFunctionOnSet(g, 1..k)
<1>1. IsSeq(s) /\ DOMAIN s = 1..k /\ \A x : In(x, s) <=> \E i \in 1..k : x = s[i]
  BY DEF In
<1>2. Summed(q, s)
  BY <1>1 DEF Summed
<1>3. PICK l, f :
        /\ l \in Nat /\ l = Len(s) /\ DOMAIN s = 1..l /\ DOMAIN f = 1..l
        /\ \A i \in 1..l : f[i] = Weight(q, s[i]) /\ f[i] \in Int
        /\ Tally(q, s) = SumFunction(f)
  BY <1>2, TallyIs DEF TalliedBy
<1>4. DOMAIN f = 1..k /\ \A i \in 1..k : f[i] = g[i]
  BY <1>1, <1>3
<1>5. IsFiniteSet(1..k)
  BY ONLY k \in Nat, FS_Interval
<1>6. SumFunctionOnSet(f, 1..k) = SumFunctionOnSet(g, 1..k)
  BY <1>4, <1>5, SumCongruent
<1>. QED  BY <1>2, <1>3, <1>4, <1>6 DEF SumFunction

LEMMA SumNegated ==
  ASSUME NEW f, NEW g, NEW S, IsFiniteSet(S), \A x \in S : f[x] \in Int /\ g[x] = -f[x]
  PROVE  SumFunctionOnSet(g, S) = -SumFunctionOnSet(f, S)
<1>1. PICK z, k : z = [x \in S |-> 0] /\ k = -1
  OBVIOUS
<1>2. k \in Int /\ \A x \in S : z[x] \in Int /\ f[x] \in Int /\ g[x] = z[x] + k * f[x]
  BY <1>1
<1>3. SumFunctionOnSet(g, S) = SumFunctionOnSet(z, S) + k * SumFunctionOnSet(f, S)
  BY <1>2, SumCombine
<1>4. SumFunctionOnSet(z, S) = 0
  BY <1>1, SumZero
<1>5. SumFunctionOnSet(f, S) \in Int
  BY SumType
<1>. QED  BY ONLY <1>1, <1>3, <1>4, <1>5

(* A document: its journal, its movements, its header and its lines.       *)
LEMMA ManyJoined ==
  ASSUME NEW q, NEW s1, NEW s2, NEW s3, NEW s4, NEW s5, NEW s6,
         Summed(q, s1), Summed(q, s2), Summed(q, s3), Summed(q, s4), Summed(q, s5), Summed(q, s6)
  PROVE  LET s == s1 \o s2 \o s3 \o s4 \o s5 \o s6 IN
         /\ Summed(q, s)
         /\ Tally(q, s) = ((((Tally(q, s1) + Tally(q, s2)) + Tally(q, s3)) + Tally(q, s4))
                              + Tally(q, s5)) + Tally(q, s6)
<1>1. PICK t2 : t2 = s1 \o s2 /\ Joined(t2, s1, s2)
  BY DEF Joined
<1>2. PICK t3 : t3 = t2 \o s3 /\ Joined(t3, t2, s3)
  BY DEF Joined
<1>3. PICK t4 : t4 = t3 \o s4 /\ Joined(t4, t3, s4)
  BY DEF Joined
<1>4. PICK t5 : t5 = t4 \o s5 /\ Joined(t5, t4, s5)
  BY DEF Joined
<1>5. PICK s : s = t5 \o s6 /\ Joined(s, t5, s6)
  BY DEF Joined
<1>6. Summed(q, t2)
  BY ONLY <1>1, Summed(q, s1), Summed(q, s2), TallyJoined
<1>7. Summed(q, t3)
  BY ONLY <1>2, <1>6, Summed(q, s3), TallyJoined
<1>8. Summed(q, t4)
  BY ONLY <1>3, <1>7, Summed(q, s4), TallyJoined
<1>9. Summed(q, t5)
  BY ONLY <1>4, <1>8, Summed(q, s5), TallyJoined
<1>10. Summed(q, s)
  BY ONLY <1>5, <1>9, Summed(q, s6), TallyJoined
<1>11. Tally(q, t2) = Tally(q, s1) + Tally(q, s2)
  BY ONLY <1>1, Summed(q, s1), Summed(q, s2), TallyJoined
<1>12. Tally(q, t3) = Tally(q, t2) + Tally(q, s3)
  BY ONLY <1>2, <1>6, Summed(q, s3), TallyJoined
<1>13. Tally(q, t4) = Tally(q, t3) + Tally(q, s4)
  BY ONLY <1>3, <1>7, Summed(q, s4), TallyJoined
<1>14. Tally(q, t5) = Tally(q, t4) + Tally(q, s5)
  BY ONLY <1>4, <1>8, Summed(q, s5), TallyJoined
<1>15. Tally(q, s) = Tally(q, t5) + Tally(q, s6)
  BY ONLY <1>5, <1>9, Summed(q, s6), TallyJoined
<1>16. s = s1 \o s2 \o s3 \o s4 \o s5 \o s6
  BY <1>1, <1>2, <1>3, <1>4, <1>5
<1>. QED  BY ONLY <1>10, <1>11, <1>12, <1>13, <1>14, <1>15, <1>16

LEMMA DocumentTally ==
  ASSUME NEW q, NEW n, NEW x, NEW m, NEW h, NEW f, NEW b, NEW e,
         Weight(q, x) \in Int, Summed(q, m), Weight(q, h) \in Int, Summed(q, f),
         Weight(q, b) = 0, Weight(q, e) = 0,
         NEW w, w = ((Weight(q, x) + Tally(q, m)) + Weight(q, h)) + Tally(q, f)
  PROVE  LET s == << x >> \o m \o << h >> \o f \o << b, e >> \o << Commit(n) >> IN
         /\ Summed(q, s)
         /\ Tally(q, s) = w
<1>1. PICK s1, s3, s5, s6 : s1 = << x >> /\ s3 = << h >> /\ s5 = << b, e >> /\ s6 = << Commit(n) >>
  OBVIOUS
<1>2. PICK s : s = s1 \o m \o s3 \o f \o s5 \o s6
  OBVIOUS
<1>3. /\ Summed(q, s1) /\ Tally(q, s1) = Weight(q, x)
      /\ Summed(q, s3) /\ Tally(q, s3) = Weight(q, h)
  BY <1>1, TallyOne
<1>4. Summed(q, s5) /\ Tally(q, s5) = 0
  <2>1. IsSeq(s5) /\ \A y : In(y, s5) => Weight(q, y) = 0
    BY <1>1, TwoSteps
  <2>. QED  BY <2>1, TallyNone
<1>5. Summed(q, s6) /\ Tally(q, s6) = 0
  <2>1. Weight(q, Commit(n)) = 0
    BY PlainWeight DEF Commit
  <2>. QED  BY <1>1, <2>1, TallyOne
<1>6. /\ Summed(q, s)
      /\ Tally(q, s) = ((((Tally(q, s1) + Tally(q, m)) + Tally(q, s3)) + Tally(q, f))
                              + Tally(q, s5)) + Tally(q, s6)
  BY <1>2, <1>3, <1>4, <1>5, ManyJoined
<1>7. Tally(q, m) \in Int /\ Tally(q, f) \in Int
  BY TallyType
<1>8. Tally(q, s) = ((Weight(q, x) + Tally(q, m)) + Weight(q, h)) + Tally(q, f)
  BY ONLY <1>3, <1>4, <1>5, <1>6, <1>7, Weight(q, x) \in Int, Weight(q, h) \in Int
<1>9. Tally(q, s) = w
  BY <1>8
<1>. QED  BY ONLY <1>1, <1>2, <1>6, <1>9

(* The one header of a document is that of its command.                    *)
Heads(q, kind, c) ==
  (\E h \in q.headers : h.kind = kind /\ h.doc = c.doc /\ h.data.period = q.period)
    <=> c.period = q.period

LEMMA HeaderWeight ==
  ASSUME NEW q, NEW x, x.do = "put", x.rec.kind \in {"invoices", "refunds"}
  PROVE  Weight(q, x) = IF x.rec.data.period = q.period THEN Share(q.check, x.rec) ELSE 0
BY DEF Weight, Counts, Dated, Counting

LEMMA LineWeight ==
  ASSUME NEW q, NEW c, NEW x, x.do = "put", x.rec.kind \in {"invoice_lines", "refund_lines"},
         x.rec.doc = c.doc, Heads(q, HeaderOf(x.rec.kind), c)
  PROVE  Weight(q, x) = IF c.period = q.period THEN Share(q.check, x.rec) ELSE 0
<1>1. PICK r, kind : r = x.rec /\ kind = HeaderOf(r.kind)
  OBVIOUS
<1>2. Dated(r, q.period, q.headers) <=> c.period = q.period
  BY <1>1 DEF Dated, Heads
<1>3. Weight(q, x) = Counts(q, r)
  BY <1>1 DEF Weight
<1>. QED  BY <1>1, <1>2, <1>3 DEF Counts, Counting

(* The steps of one kind of a document count for the sum of their amounts, *)
(* with their sign, or for nothing.                                        *)
LEMMA Negated ==
  ASSUME NEW k \in Nat, NEW v, \A i \in 1..k : v[i] \in Int
  PROVE  \E w : /\ \A i \in 1..k : w[i] \in Int /\ w[i] = -v[i]
               /\ SumFunctionOnSet(w, 1..k) = -SumFunctionOnSet(v, 1..k)
<1>1. PICK w : w = [i \in 1..k |-> -v[i]]
  OBVIOUS
<1>2. \A i \in 1..k : v[i] \in Int /\ w[i] = -v[i]
  BY <1>1
<1>3. \A i \in 1..k : w[i] \in Int
  <2>1. \A i \in 1..k : -v[i] \in Int
    OBVIOUS
  <2>. QED  BY <1>2, <2>1
<1>4. IsFiniteSet(1..k)
  BY ONLY k \in Nat, FS_Interval
<1>5. SumFunctionOnSet(w, 1..k) = -SumFunctionOnSet(v, 1..k)
  BY ONLY <1>2, <1>4, SumNegated
<1>. QED  BY <1>2, <1>3, <1>5

LEMMA TallyNothing ==
  ASSUME NEW q, NEW k \in Nat, NEW s, IsSeq(s), DOMAIN s = 1..k,
         \A i \in 1..k : Weight(q, s[i]) = 0
  PROVE  Summed(q, s) /\ Tally(q, s) = 0
<1>1. \A x : In(x, s) => Weight(q, x) = 0
  BY DEF In
<1>. QED  BY <1>1, TallyNone

LEMMA Opposite ==
  ASSUME NEW a \in Int, NEW b \in Int
  PROVE  (-a) * b = -(a * b)
OBVIOUS

(* Goods sold leave the stock at their average cost.                       *)
LEMMA SaleMoves ==
  ASSUME NEW q, NEW c, NEW d, q.disk = d, Command(c), Numbers(c), SaneDisk(d),
         c.op = "billing.create_invoice", \A i \in DOMAIN c.lines : c.lines[i].quantity > 0,
         NEW m, m = [i \in DOMAIN c.lines |-> Call(SaleMovement(c, i))],
         NEW g, g = SumFunction(InvoiceCogs(c, d))
  PROVE  /\ Summed(q, m)
         /\ Tally(q, m) = IF c.movePeriod = q.period /\ q.check = "inventory" THEN -g ELSE 0
<1>1. PICK k, v : k = Len(c.lines) /\ v = InvoiceCogs(c, d)
  OBVIOUS
<1>2. k \in Nat /\ DOMAIN c.lines = 1..k
  BY <1>1, LinesAre DEF Command, Fields
<1>3. DOMAIN v = 1..k /\ \A i \in 1..k : v[i] \in Int
  BY <1>1, <1>2, SaneCogs DEF InvoiceCogs
<1>4. IsSeq(m) /\ DOMAIN m = 1..k
  <2>1. m = [i \in 1..k |-> m[i]]
    BY <1>2
  <2>. QED  BY <1>2, <2>1, OneStepPerLine
<1>5. ASSUME NEW i \in 1..k
      PROVE  Weight(q, m[i])
               = IF c.movePeriod = q.period /\ q.check = "inventory" THEN -v[i] ELSE 0
  <2>1. PICK z, a, b : /\ z = SaleMovement(c, i) /\ a = c.lines[i].quantity
                       /\ b = WeightedAverageUnitCost(d, c.lines[i].item)
    OBVIOUS
  <2>2. m[i] = Call(z) /\ v[i] = a * b
    BY <1>1, <1>2, <2>1 DEF InvoiceCogs
  <2>3. /\ z.op = "inventory.commit_movement" /\ z.period = c.movePeriod
        /\ z.quantity = -a /\ z.item = c.lines[i].item
    BY <2>1 DEF SaleMovement, Movement
  <2>4. a \in Int /\ a > 0 /\ b \in Int
    BY <1>2, <2>1, SaneStock DEF Numbers
  <2>5. -a < 0
    BY ONLY <2>4
  <2>6. MovedValue(z, d) = (-a) * b
    BY <2>1, <2>3, <2>5 DEF MovedValue
  <2>7. (-a) * b = -(a * b)
    BY ONLY <2>4, Opposite
  <2>8. MovedValue(z, d) = -v[i]
    BY ONLY <2>2, <2>6, <2>7
  <2>9. Weight(q, Call(z))
          = IF z.period = q.period /\ q.check = "inventory" THEN MovedValue(z, q.disk) ELSE 0
    BY <2>3, MovedWeight
  <2>. QED  BY <2>2, <2>3, <2>8, <2>9
<1>6. SumFunctionOnSet(v, 1..k) = g
  BY <1>1, <1>3 DEF SumFunction
<1>7. CASE c.movePeriod = q.period /\ q.check = "inventory"
  <2>1. PICK w : /\ \A i \in 1..k : w[i] \in Int /\ w[i] = -v[i]
                 /\ SumFunctionOnSet(w, 1..k) = -SumFunctionOnSet(v, 1..k)
    BY <1>2, <1>3, Negated
  <2>2. \A i \in 1..k : Weight(q, m[i]) = w[i] /\ w[i] \in Int
    BY <1>5, <1>7, <2>1
  <2>3. k \in Nat
    BY <1>2
  <2>4. Summed(q, m) /\ Tally(q, m) = SumFunctionOnSet(w, 1..k)
    BY ONLY <1>4, <2>2, <2>3, TallyMapped
  <2>. QED  BY <1>6, <1>7, <2>1, <2>4
<1>8. CASE ~(c.movePeriod = q.period /\ q.check = "inventory")
  <2>1. \A i \in 1..k : Weight(q, m[i]) = 0
    BY <1>5, <1>8
  <2>2. Summed(q, m) /\ Tally(q, m) = 0
    BY ONLY <1>2, <1>4, <2>1, TallyNothing
  <2>. QED  BY <1>8, <2>2
<1>. QED  BY <1>7, <1>8

(* Lines count for cost and for revenue by unit.                           *)
LEMMA InvoiceLineTally ==
  ASSUME NEW q, NEW c, NEW d, Command(c), Numbers(c), SaneDisk(d),
         c.op = "billing.create_invoice", Heads(q, "invoices", c),
         NEW f, f = [i \in DOMAIN c.lines |-> InvoiceLinePut(c, d, i)],
         NEW g, g = SumFunction(InvoiceCogs(c, d)), NEW x, x = Subtotal(c.lines)
  PROVE  /\ Summed(q, f)
         /\ Tally(q, f) = IF c.period = q.period
                          THEN IF q.check = "cogs" THEN g
                               ELSE IF q.check = "units" THEN -x ELSE 0
                          ELSE 0
<1>1. PICK k, v, t : /\ k = Len(c.lines) /\ v = InvoiceCogs(c, d)
                     /\ t = [i \in DOMAIN c.lines |-> c.lines[i].quantity * c.lines[i].price]
  OBVIOUS
<1>2. k \in Nat /\ DOMAIN c.lines = 1..k
  BY <1>1, LinesAre DEF Command, Fields
<1>3. DOMAIN v = 1..k /\ \A i \in 1..k : v[i] \in Int
  BY <1>1, <1>2, SaneCogs DEF InvoiceCogs
<1>4. DOMAIN t = 1..k /\ \A i \in 1..k : t[i] \in Int
  BY <1>1, <1>2 DEF Numbers
<1>5. IsSeq(f) /\ DOMAIN f = 1..k
  <2>1. f = [i \in 1..k |-> f[i]]
    BY <1>2
  <2>. QED  BY <1>2, <2>1, OneStepPerLine
<1>6. ASSUME NEW i \in 1..k
      PROVE  Weight(q, f[i]) = IF c.period = q.period
                               THEN IF q.check = "cogs" THEN v[i]
                                    ELSE IF q.check = "units" THEN -t[i] ELSE 0
                               ELSE 0
  <2>1. PICK y, r : y = InvoiceLinePut(c, d, i) /\ r = y.rec
    OBVIOUS
  <2>2. f[i] = y
    BY <1>2, <2>1
  <2>3. y.do = "put" /\ r.kind = "invoice_lines" /\ r.doc = c.doc
    BY <2>1 DEF InvoiceLinePut, Put
  <2>4. r.data.cogs = v[i] /\ r.data.subtotal = t[i]
    BY <1>1, <1>2, <2>1 DEF InvoiceLinePut, Put, LineData
  <2>5. Share(q.check, r) = IF q.check = "cogs" THEN v[i]
                            ELSE IF q.check = "units" THEN -t[i] ELSE 0
    BY <2>3, <2>4 DEF Share
  <2>6. HeaderOf(y.rec.kind) = "invoices"
    BY <2>1, <2>3 DEF HeaderOf
  <2>7. Weight(q, y) = IF c.period = q.period THEN Share(q.check, y.rec) ELSE 0
    BY <2>1, <2>3, <2>6, LineWeight
  <2>. QED  BY <2>1, <2>2, <2>5, <2>7
<1>7. SumFunctionOnSet(v, 1..k) = g /\ SumFunctionOnSet(t, 1..k) = x
  BY <1>1, <1>3, <1>4 DEF SumFunction, Subtotal
<1>8. k \in Nat
  BY <1>2
<1>9. CASE c.period = q.period /\ q.check = "cogs"
  <2>1. \A i \in 1..k : Weight(q, f[i]) = v[i] /\ v[i] \in Int
    BY <1>3, <1>6, <1>9
  <2>2. Summed(q, f) /\ Tally(q, f) = SumFunctionOnSet(v, 1..k)
    BY ONLY <1>5, <1>8, <2>1, TallyMapped
  <2>. QED  BY <1>7, <1>9, <2>2
<1>10. CASE c.period = q.period /\ q.check = "units"
  <2>1. PICK w : /\ \A i \in 1..k : w[i] \in Int /\ w[i] = -t[i]
                 /\ SumFunctionOnSet(w, 1..k) = -SumFunctionOnSet(t, 1..k)
    BY <1>4, <1>8, Negated
  <2>2. \A i \in 1..k : Weight(q, f[i]) = w[i] /\ w[i] \in Int
    BY <1>6, <1>10, <2>1
  <2>3. Summed(q, f) /\ Tally(q, f) = SumFunctionOnSet(w, 1..k)
    BY ONLY <1>5, <1>8, <2>2, TallyMapped
  <2>. QED  BY <1>7, <1>10, <2>1, <2>3
<1>11. CASE ~(c.period = q.period /\ q.check \in {"cogs", "units"})
  <2>1. \A i \in 1..k : Weight(q, f[i]) = 0
    BY <1>6, <1>11
  <2>2. Summed(q, f) /\ Tally(q, f) = 0
    BY ONLY <1>5, <1>8, <2>1, TallyNothing
  <2>. QED  BY <1>11, <2>2
<1>. QED  BY <1>9, <1>10, <1>11

LEMMA DocumentPiece ==
  ASSUME NEW c, NEW d, NEW n, c.op \in {"billing.create_invoice", "billing.create_refund"},
         NEW q, Summed(q, Steps(c, d) \o << Commit(n) >>)
  PROVE  /\ Summed(q, Piece(c, d, n))
         /\ Tally(q, Piece(c, d, n)) = Tally(q, Steps(c, d) \o << Commit(n) >>)
<1>1. AfterCommit(c, d) = << >>
  BY DEF AfterCommit, If
<1>2. PICK s, t : s = Steps(c, d) \o << Commit(n) >> /\ t = << >>
  OBVIOUS
<1>0. Summed(q, s)
  BY <1>2
<1>3. Piece(c, d, n) = s \o t
  BY <1>1, <1>2 DEF Piece
<1>4. Summed(q, t) /\ Tally(q, t) = 0
  BY <1>2, TallyEmpty
<1>5. PICK p : p = s \o t /\ Joined(p, s, t)
  BY DEF Joined
<1>6. Summed(q, p)
  BY ONLY <1>4, <1>5, <1>0, TallyJoined
<1>7. Tally(q, p) = Tally(q, s) + Tally(q, t)
  BY ONLY <1>4, <1>5, <1>0, TallyJoined
<1>8. Tally(q, s) \in Int
  BY <1>0, TallyType
<1>. QED  BY ONLY <1>2, <1>3, <1>4, <1>5, <1>6, <1>7, <1>8

(* A sale comes to nothing in every check.                                 *)
LEMMA InvoiceTally ==
  ASSUME NEW q, NEW c, NEW d, NEW n, q.disk = d, q.check \in Checks,
         Command(c), Numbers(c), SaneDisk(d),
         c.op = "billing.create_invoice", \A i \in DOMAIN c.lines : c.lines[i].quantity > 0,
         c.movePeriod = c.period, Heads(q, "invoices", c)
  PROVE  Summed(q, Piece(c, d, n)) /\ Tally(q, Piece(c, d, n)) = 0
<1>1. PICK g, x, y : /\ g = SumFunction(InvoiceCogs(c, d))
                     /\ x = Subtotal(c.lines) /\ y = Tax(c.lines)
  OBVIOUS
<1>2. g \in Int /\ x \in Int /\ y \in Int
  BY <1>1, SaneCogs, SaneTotals
<1>3. PICK j, m, f, h, b, e :
        /\ j = InvoiceJournal(c, g)
        /\ m = [i \in DOMAIN c.lines |-> Call(SaleMovement(c, i))]
        /\ f = [i \in DOMAIN c.lines |-> InvoiceLinePut(c, d, i)]
        /\ h = InvoicePut(c)
        /\ b = Put("billing.invoice_created", c.doc, 0, NoData)
        /\ e = Put("billing.sale_completed.v1", c.doc, 0, NoData)
  OBVIOUS
<1>4. InvoiceSteps(c, d) = << Call(j) >> \o m \o << h >> \o f \o << b, e >>
  BY <1>1, <1>3 DEF InvoiceSteps, SaleMovement, InvoicePut, InvoiceLinePut
<1>5. Steps(c, d) = InvoiceSteps(c, d)
  BY DEF Steps
<1>6. Weight(q, b) = 0 /\ Weight(q, e) = 0
  BY <1>3, PlainWeight DEF Put, Counting
<1>7. Weight(q, h) = IF c.period = q.period
                     THEN IF q.check = "tax" THEN y
                          ELSE IF q.check \in {"sales", "revenue", "units"} THEN x ELSE 0
                     ELSE 0
  <2>1. PICK r : r = h.rec
    OBVIOUS
  <2>2. /\ h.do = "put" /\ r.kind = "invoices" /\ r.data.period = c.period
        /\ r.data.subtotal = x /\ r.data.tax = y
    BY <1>1, <1>3, <2>1 DEF InvoicePut, Put
  <2>3. Weight(q, h) = IF r.data.period = q.period THEN Share(q.check, r) ELSE 0
    BY <2>1, <2>2, HeaderWeight
  <2>4. Share(q.check, r) = IF q.check = "tax" THEN y
                            ELSE IF q.check \in {"sales", "revenue", "units"} THEN x ELSE 0
    BY <2>2 DEF Share
  <2>. QED  BY <2>2, <2>3, <2>4
<1>8. Weight(q, Call(j)) = IF c.period = q.period
                           THEN CASE q.check = "inventory" -> g [] q.check = "tax" -> -y
                                  [] q.check = "cogs" -> -g
                                  [] q.check \in {"sales", "revenue"} -> -x [] OTHER -> 0
                           ELSE 0
  <2>1. j.op = "accounting.post_journal" /\ j.period = c.period
    BY <1>3 DEF InvoiceJournal, Journal
  <2>2. Weight(q, Call(j)) = IF j.period = q.period THEN Posted(q.check, j.lines) ELSE 0
    BY <2>1, PostedWeight
  <2>3. Posts(q.check, j.lines,
              CASE q.check = "inventory" -> g [] q.check = "tax" -> -y
                [] q.check = "cogs" -> -g [] q.check \in {"sales", "revenue"} -> -x [] OTHER -> 0)
    BY <1>1, <1>2, <1>3, InvoicePosts
  <2>. QED  BY <2>1, <2>2, <2>3 DEF Posts
<1>9. /\ Summed(q, m)
      /\ Tally(q, m) = IF c.period = q.period /\ q.check = "inventory" THEN -g ELSE 0
  BY <1>1, <1>3, SaleMoves
<1>10. /\ Summed(q, f)
       /\ Tally(q, f) = IF c.period = q.period
                        THEN IF q.check = "cogs" THEN g
                             ELSE IF q.check = "units" THEN -x ELSE 0
                        ELSE 0
  BY <1>1, <1>3, InvoiceLineTally
<1>11. PICK z, s : z = Call(j) /\ s = << z >> \o m \o << h >> \o f \o << b, e >> \o << Commit(n) >>
  OBVIOUS
<1>12. Weight(q, z) \in Int /\ Weight(q, h) \in Int
  BY <1>2, <1>7, <1>8, <1>11
<1>13. Summed(q, m) /\ Summed(q, f)
  BY <1>9, <1>10
<1>14. PICK w : w = ((Weight(q, z) + Tally(q, m)) + Weight(q, h)) + Tally(q, f)
  OBVIOUS
<1>15. Summed(q, s) /\ Tally(q, s) = w
  BY ONLY <1>6, <1>11, <1>12, <1>13, <1>14, DocumentTally
<1>16. Tally(q, s) = 0
  <2>1. PICK A, M, H, F : /\ A = Weight(q, z) /\ M = Tally(q, m)
                          /\ H = Weight(q, h) /\ F = Tally(q, f)
    OBVIOUS
  <2>2. CASE c.period # q.period
    <3>1. A = 0 /\ M = 0 /\ H = 0 /\ F = 0
      BY <1>7, <1>8, <1>9, <1>10, <1>11, <2>1, <2>2
    <3>. QED  BY <1>14, <1>15, <2>1, <3>1
  <2>3. CASE c.period = q.period
    <3>1. /\ q.check = "inventory" => A = g /\ M = -g /\ H = 0 /\ F = 0
          /\ q.check = "tax" => A = -y /\ M = 0 /\ H = y /\ F = 0
          /\ q.check \in {"sales", "revenue"} => A = -x /\ M = 0 /\ H = x /\ F = 0
          /\ q.check = "returns" => A = 0 /\ M = 0 /\ H = 0 /\ F = 0
          /\ q.check = "cogs" => A = -g /\ M = 0 /\ H = 0 /\ F = g
          /\ q.check = "units" => A = 0 /\ M = 0 /\ H = x /\ F = -x
      BY <1>7, <1>8, <1>9, <1>10, <1>11, <2>1, <2>3
    <3>2. ((A + M) + H) + F = 0
      BY ONLY <1>2, <3>1, q.check \in Checks DEF Checks
    <3>. QED  BY <1>14, <1>15, <2>1, <3>2
  <2>. QED  BY <2>2, <2>3
<1>17. s = Steps(c, d) \o << Commit(n) >>
  BY <1>4, <1>5, <1>11
<1>. QED  BY <1>15, <1>16, <1>17, DocumentPiece

(* What the restocked lines cost is what all lines cost.                   *)
LEMMA RestockedCost ==
  ASSUME NEW c, NEW d, Command(c), Numbers(c), SaneDisk(d), c.op = "billing.create_refund",
         NEW g, g = SumFunction(RefundCogs(c, d)),
         NEW k, k = Cardinality(Restocked(c.lines)),
         NEW u, u = [i \in 1..k |-> RefundCogs(c, d)[KthRestocked(c.lines, i)]]
  PROVE  SumFunctionOnSet(u, 1..k) = g
<1>1. PICK n, v, R : /\ n = Len(c.lines) /\ v = RefundCogs(c, d) /\ R = Restocked(c.lines)
  OBVIOUS
<1>2. n \in Nat /\ DOMAIN c.lines = 1..n
  BY <1>1, LinesAre DEF Command, Fields
<1>3. DOMAIN v = 1..n /\ \A i \in 1..n : v[i] \in Int
  BY <1>1, <1>2, SaneCogs DEF RefundCogs
<1>4. /\ IsFiniteSet(R) /\ k \in Nat /\ \A i \in 1..k : KthRestocked(c.lines, i) \in R
      /\ \A i, l \in 1..k : KthRestocked(c.lines, i) = KthRestocked(c.lines, l) => i = l
      /\ \A x \in R : \E i \in 1..k : KthRestocked(c.lines, i) = x
  BY <1>1, <1>2, EveryRestockedLine
<1>5. R \subseteq 1..n /\ \A x \in 1..n : x \notin R => v[x] = 0
  BY <1>1, <1>2 DEF Restocked, RefundCogs
<1>6. PICK phi : phi = [i \in 1..k |-> KthRestocked(c.lines, i)]
  OBVIOUS
<1>7. /\ \A i \in 1..k : phi[i] \in R /\ phi[i] = KthRestocked(c.lines, i)
      /\ \A i, l \in 1..k : phi[i] = phi[l] => i = l
      /\ \A x \in R : \E i \in 1..k : x = phi[i]
  BY <1>4, <1>6
<1>8. \A i \in 1..k : u[i] = v[phi[i]] /\ u[i] \in Int
  BY <1>1, <1>3, <1>5, <1>7
<1>9. SumFunctionOnSet(v, R) = SumFunctionOnSet(u, 1..k)
  <2>1. PICK S : S = 1..k
    OBVIOUS
  <2>2. IsFiniteSet(S)
    BY ONLY <1>4, <2>1, FS_Interval
  <2>3. /\ \A x \in S : phi[x] \in R
        /\ \A y \in R : \E x \in S : y = phi[x]
        /\ \A x, y \in S : phi[x] = phi[y] => x = y
        /\ \A x \in S : u[x] \in Int /\ v[phi[x]] = u[x]
    BY ONLY <1>7, <1>8, <2>1
  <2>4. SumFunctionOnSet(v, R) = SumFunctionOnSet(u, S)
    BY ONLY <2>2, <2>3, SumImage
  <2>. QED  BY <2>1, <2>4
<1>10. PICK D, E : D = 1..n /\ E = D \ R
  OBVIOUS
<1>11. /\ IsFiniteSet(D) /\ IsFiniteSet(E) /\ D = R \cup E /\ R \cap E = {}
       /\ \A x \in R \cup E : v[x] \in Int
       /\ \A x \in E : v[x] = 0
  <2>1. IsFiniteSet(D)
    BY ONLY <1>2, <1>10, FS_Interval
  <2>2. E \subseteq D
    BY <1>10
  <2>3. IsFiniteSet(E)
    BY <2>1, <2>2, FS_Subset
  <2>. QED  BY <1>3, <1>5, <1>10, <2>1, <2>3
<1>12. SumFunctionOnSet(v, R \cup E) = SumFunctionOnSet(v, R) + SumFunctionOnSet(v, E)
  BY ONLY <1>4, <1>11, SumUnion
<1>13. SumFunctionOnSet(v, E) = 0
  BY ONLY <1>11, SumZero
<1>14. SumFunctionOnSet(v, R) \in Int
  <2>1. \A x \in R : v[x] \in Int
    BY <1>11
  <2>. QED  BY ONLY <1>4, <2>1, SumType
<1>15. g = SumFunctionOnSet(v, D)
  BY <1>1, <1>3, <1>10 DEF SumFunction
<1>. QED  BY ONLY <1>9, <1>11, <1>12, <1>13, <1>14, <1>15

(* Goods that come back enter the stock at what they were sold for.        *)
LEMMA ReturnMoves ==
  ASSUME NEW q, NEW c, NEW d, q.disk = d, Command(c), Numbers(c), SaneDisk(d),
         c.op = "billing.create_refund", \A i \in DOMAIN c.lines : c.lines[i].quantity > 0,
         NEW k, k = Cardinality(Restocked(c.lines)),
         NEW m, m = [i \in 1..k |-> Call(ReturnMovement(c, KthRestocked(c.lines, i), d))],
         NEW g, g = SumFunction(RefundCogs(c, d))
  PROVE  /\ Summed(q, m)
         /\ Tally(q, m) = IF c.movePeriod = q.period /\ q.check = "inventory" THEN g ELSE 0
<1>1. PICK n, v : n = Len(c.lines) /\ v = RefundCogs(c, d)
  OBVIOUS
<1>2. n \in Nat /\ DOMAIN c.lines = 1..n
  BY <1>1, LinesAre DEF Command, Fields
<1>3. k \in Nat /\ \A i \in 1..k : KthRestocked(c.lines, i) \in Restocked(c.lines)
  BY <1>2, EveryRestockedLine
<1>4. IsSeq(m) /\ DOMAIN m = 1..k
  <2>1. m = [i \in 1..k |-> m[i]]
    OBVIOUS
  <2>. QED  BY <1>3, <2>1, OneStepPerLine
<1>5. PICK u : u = [i \in 1..k |-> RefundCogs(c, d)[KthRestocked(c.lines, i)]]
  OBVIOUS
<1>6. ASSUME NEW i \in 1..k
      PROVE  /\ u[i] \in Int
             /\ Weight(q, m[i])
                  = IF c.movePeriod = q.period /\ q.check = "inventory" THEN u[i] ELSE 0
  <2>1. PICK l : l = KthRestocked(c.lines, i)
    OBVIOUS
  <2>2. l \in DOMAIN c.lines /\ c.lines[l].restock
    BY <1>3, <2>1 DEF Restocked
  <2>3. PICK z, a, b : /\ z = ReturnMovement(c, l, d) /\ a = c.lines[l].quantity
                       /\ b = RefundUnitCost(c, d, l)
    OBVIOUS
  <2>4. m[i] = Call(z) /\ u[i] = a * b
    BY <1>5, <2>1, <2>2, <2>3 DEF RefundCogs
  <2>5. /\ z.op = "inventory.commit_movement" /\ z.period = c.movePeriod
        /\ z.quantity = a /\ z.cost = b
    BY <2>3 DEF ReturnMovement, Movement
  <2>6. a \in Int /\ a > 0 /\ b \in Int
    BY <2>2, <2>3, SaneCogs DEF Numbers
  <2>7. ~(a < 0)
    BY ONLY <2>6
  <2>8. MovedValue(z, d) = a * b
    BY <2>5, <2>7 DEF MovedValue
  <2>9. Weight(q, Call(z))
          = IF z.period = q.period /\ q.check = "inventory" THEN MovedValue(z, q.disk) ELSE 0
    BY <2>5, MovedWeight
  <2>10. u[i] \in Int
    BY ONLY <2>4, <2>6
  <2>. QED  BY <2>4, <2>5, <2>8, <2>9, <2>10
<1>7. SumFunctionOnSet(u, 1..k) = g
  BY <1>5, RestockedCost
<1>8. CASE c.movePeriod = q.period /\ q.check = "inventory"
  <2>1. \A i \in 1..k : Weight(q, m[i]) = u[i] /\ u[i] \in Int
    BY <1>6, <1>8
  <2>2. k \in Nat
    BY <1>3
  <2>3. Summed(q, m) /\ Tally(q, m) = SumFunctionOnSet(u, 1..k)
    BY ONLY <1>4, <2>1, <2>2, TallyMapped
  <2>. QED  BY <1>7, <1>8, <2>3
<1>9. CASE ~(c.movePeriod = q.period /\ q.check = "inventory")
  <2>1. \A i \in 1..k : Weight(q, m[i]) = 0
    BY <1>6, <1>9
  <2>2. k \in Nat
    BY <1>3
  <2>3. Summed(q, m) /\ Tally(q, m) = 0
    BY ONLY <1>4, <2>1, <2>2, TallyNothing
  <2>. QED  BY <1>9, <2>3
<1>. QED  BY <1>8, <1>9

(* Lines of a refund count the other way.                                  *)
LEMMA RefundLineTally ==
  ASSUME NEW q, NEW c, NEW d, Command(c), Numbers(c), SaneDisk(d),
         c.op = "billing.create_refund", Heads(q, "refunds", c),
         NEW f, f = [i \in DOMAIN c.lines |-> RefundLinePut(c, d, i)],
         NEW g, g = SumFunction(RefundCogs(c, d)), NEW x, x = Subtotal(c.lines)
  PROVE  /\ Summed(q, f)
         /\ Tally(q, f) = IF c.period = q.period
                          THEN IF q.check = "cogs" THEN -g
                               ELSE IF q.check = "units" THEN x ELSE 0
                          ELSE 0
<1>1. PICK k, v, t : /\ k = Len(c.lines) /\ v = RefundCogs(c, d)
                     /\ t = [i \in DOMAIN c.lines |-> c.lines[i].quantity * c.lines[i].price]
  OBVIOUS
<1>2. k \in Nat /\ DOMAIN c.lines = 1..k
  BY <1>1, LinesAre DEF Command, Fields
<1>3. DOMAIN v = 1..k /\ \A i \in 1..k : v[i] \in Int
  BY <1>1, <1>2, SaneCogs DEF RefundCogs
<1>4. DOMAIN t = 1..k /\ \A i \in 1..k : t[i] \in Int
  BY <1>1, <1>2 DEF Numbers
<1>5. IsSeq(f) /\ DOMAIN f = 1..k
  <2>1. f = [i \in 1..k |-> f[i]]
    BY <1>2
  <2>. QED  BY <1>2, <2>1, OneStepPerLine
<1>6. ASSUME NEW i \in 1..k
      PROVE  Weight(q, f[i]) = IF c.period = q.period
                               THEN IF q.check = "cogs" THEN -v[i]
                                    ELSE IF q.check = "units" THEN t[i] ELSE 0
                               ELSE 0
  <2>1. PICK y, r : y = RefundLinePut(c, d, i) /\ r = y.rec
    OBVIOUS
  <2>2. f[i] = y
    BY <1>2, <2>1
  <2>3. y.do = "put" /\ r.kind = "refund_lines" /\ r.doc = c.doc
    BY <2>1 DEF RefundLinePut, Put
  <2>4. r.data.cogs = v[i] /\ r.data.subtotal = t[i]
    BY <1>1, <1>2, <2>1 DEF RefundLinePut, Put, LineData
  <2>5. Share(q.check, r) = IF q.check = "cogs" THEN -v[i]
                            ELSE IF q.check = "units" THEN t[i] ELSE 0
    BY <2>3, <2>4 DEF Share
  <2>6. HeaderOf(y.rec.kind) = "refunds"
    BY <2>1, <2>3 DEF HeaderOf
  <2>7. Weight(q, y) = IF c.period = q.period THEN Share(q.check, y.rec) ELSE 0
    BY <2>1, <2>3, <2>6, LineWeight
  <2>. QED  BY <2>1, <2>2, <2>5, <2>7
<1>7. SumFunctionOnSet(v, 1..k) = g /\ SumFunctionOnSet(t, 1..k) = x
  BY <1>1, <1>3, <1>4 DEF SumFunction, Subtotal
<1>8. k \in Nat
  BY <1>2
<1>9. CASE c.period = q.period /\ q.check = "units"
  <2>1. \A i \in 1..k : Weight(q, f[i]) = t[i] /\ t[i] \in Int
    BY <1>4, <1>6, <1>9
  <2>2. Summed(q, f) /\ Tally(q, f) = SumFunctionOnSet(t, 1..k)
    BY ONLY <1>5, <1>8, <2>1, TallyMapped
  <2>. QED  BY <1>7, <1>9, <2>2
<1>10. CASE c.period = q.period /\ q.check = "cogs"
  <2>1. PICK w : /\ \A i \in 1..k : w[i] \in Int /\ w[i] = -v[i]
                 /\ SumFunctionOnSet(w, 1..k) = -SumFunctionOnSet(v, 1..k)
    BY <1>3, <1>8, Negated
  <2>2. \A i \in 1..k : Weight(q, f[i]) = w[i] /\ w[i] \in Int
    BY <1>6, <1>10, <2>1
  <2>3. Summed(q, f) /\ Tally(q, f) = SumFunctionOnSet(w, 1..k)
    BY ONLY <1>5, <1>8, <2>2, TallyMapped
  <2>. QED  BY <1>7, <1>10, <2>1, <2>3
<1>11. CASE ~(c.period = q.period /\ q.check \in {"cogs", "units"})
  <2>1. \A i \in 1..k : Weight(q, f[i]) = 0
    BY <1>6, <1>11
  <2>2. Summed(q, f) /\ Tally(q, f) = 0
    BY ONLY <1>5, <1>8, <2>1, TallyNothing
  <2>. QED  BY <1>11, <2>2
<1>. QED  BY <1>9, <1>10, <1>11

(* ... and so does a refund.                                               *)
LEMMA RefundTally ==
  ASSUME NEW q, NEW c, NEW d, NEW n, q.disk = d, q.check \in Checks,
         Command(c), Numbers(c), SaneDisk(d),
         c.op = "billing.create_refund", \A i \in DOMAIN c.lines : c.lines[i].quantity > 0,
         c.movePeriod = c.period, Heads(q, "refunds", c)
  PROVE  Summed(q, Piece(c, d, n)) /\ Tally(q, Piece(c, d, n)) = 0
<1>1. PICK g, x, y : /\ g = SumFunction(RefundCogs(c, d))
                     /\ x = Subtotal(c.lines) /\ y = Tax(c.lines)
  OBVIOUS
<1>2. g \in Int /\ x \in Int /\ y \in Int
  BY <1>1, SaneCogs, SaneTotals
<1>3. PICK k, j, m, f, h, b, e :
        /\ k = Cardinality(Restocked(c.lines))
        /\ j = RefundJournal(c, g)
        /\ m = [i \in 1..k |-> Call(ReturnMovement(c, KthRestocked(c.lines, i), d))]
        /\ f = [i \in DOMAIN c.lines |-> RefundLinePut(c, d, i)]
        /\ h = RefundPut(c)
        /\ b = Put("billing.refund_created", c.doc, 0, NoData)
        /\ e = Put("billing.refund_completed.v1", c.doc, 0, NoData)
  OBVIOUS
<1>4. RefundSteps(c, d) = << Call(j) >> \o m \o << h >> \o f \o << b, e >>
  BY <1>1, <1>3 DEF RefundSteps, RefundPut, RefundLinePut
<1>5. Steps(c, d) = RefundSteps(c, d)
  BY DEF Steps
<1>6. Weight(q, b) = 0 /\ Weight(q, e) = 0
  BY <1>3, PlainWeight DEF Put, Counting
<1>7. Weight(q, h) = IF c.period = q.period
                     THEN IF q.check = "tax" THEN -y
                          ELSE IF q.check = "returns" THEN x
                          ELSE IF q.check \in {"revenue", "units"} THEN -x ELSE 0
                     ELSE 0
  <2>1. PICK r : r = h.rec
    OBVIOUS
  <2>2. /\ h.do = "put" /\ r.kind = "refunds" /\ r.data.period = c.period
        /\ r.data.subtotal = x /\ r.data.tax = y
    BY <1>1, <1>3, <2>1 DEF RefundPut, Put
  <2>3. Weight(q, h) = IF r.data.period = q.period THEN Share(q.check, r) ELSE 0
    BY <2>1, <2>2, HeaderWeight
  <2>4. Share(q.check, r) = IF q.check = "tax" THEN -y
                            ELSE IF q.check = "returns" THEN x
                            ELSE IF q.check \in {"revenue", "units"} THEN -x ELSE 0
    BY <2>2 DEF Share
  <2>. QED  BY <2>2, <2>3, <2>4
<1>8. Weight(q, Call(j)) = IF c.period = q.period
                           THEN CASE q.check = "inventory" -> -g [] q.check = "tax" -> y
                                  [] q.check = "cogs" -> g [] q.check = "returns" -> -x
                                  [] q.check = "revenue" -> x [] OTHER -> 0
                           ELSE 0
  <2>1. j.op = "accounting.post_journal" /\ j.period = c.period
    BY <1>3 DEF RefundJournal, Journal
  <2>2. Weight(q, Call(j)) = IF j.period = q.period THEN Posted(q.check, j.lines) ELSE 0
    BY <2>1, PostedWeight
  <2>3. Posts(q.check, j.lines,
              CASE q.check = "inventory" -> -g [] q.check = "tax" -> y
                [] q.check = "cogs" -> g [] q.check = "returns" -> -x
                [] q.check = "revenue" -> x [] OTHER -> 0)
    BY <1>1, <1>2, <1>3, RefundPosts
  <2>. QED  BY <2>1, <2>2, <2>3 DEF Posts
<1>9. /\ Summed(q, m)
      /\ Tally(q, m) = IF c.period = q.period /\ q.check = "inventory" THEN g ELSE 0
  BY <1>1, <1>3, ReturnMoves
<1>10. /\ Summed(q, f)
       /\ Tally(q, f) = IF c.period = q.period
                        THEN IF q.check = "cogs" THEN -g
                             ELSE IF q.check = "units" THEN x ELSE 0
                        ELSE 0
  BY <1>1, <1>3, RefundLineTally
<1>11. PICK z, s : z = Call(j) /\ s = << z >> \o m \o << h >> \o f \o << b, e >> \o << Commit(n) >>
  OBVIOUS
<1>12. Weight(q, z) \in Int /\ Weight(q, h) \in Int
  BY <1>2, <1>7, <1>8, <1>11
<1>13. Summed(q, m) /\ Summed(q, f)
  BY <1>9, <1>10
<1>14. PICK w : w = ((Weight(q, z) + Tally(q, m)) + Weight(q, h)) + Tally(q, f)
  OBVIOUS
<1>15. Summed(q, s) /\ Tally(q, s) = w
  BY ONLY <1>6, <1>11, <1>12, <1>13, <1>14, DocumentTally
<1>16. Tally(q, s) = 0
  <2>1. PICK A, M, H, F : /\ A = Weight(q, z) /\ M = Tally(q, m)
                          /\ H = Weight(q, h) /\ F = Tally(q, f)
    OBVIOUS
  <2>2. CASE c.period # q.period
    <3>1. A = 0 /\ M = 0 /\ H = 0 /\ F = 0
      BY <1>7, <1>8, <1>9, <1>10, <1>11, <2>1, <2>2
    <3>. QED  BY <1>14, <1>15, <2>1, <3>1
  <2>3. CASE c.period = q.period
    <3>1. /\ q.check = "inventory" => A = -g /\ M = g /\ H = 0 /\ F = 0
          /\ q.check = "tax" => A = y /\ M = 0 /\ H = -y /\ F = 0
          /\ q.check = "sales" => A = 0 /\ M = 0 /\ H = 0 /\ F = 0
          /\ q.check = "returns" => A = -x /\ M = 0 /\ H = x /\ F = 0
          /\ q.check = "revenue" => A = x /\ M = 0 /\ H = -x /\ F = 0
          /\ q.check = "cogs" => A = g /\ M = 0 /\ H = 0 /\ F = -g
          /\ q.check = "units" => A = 0 /\ M = 0 /\ H = -x /\ F = x
      BY <1>7, <1>8, <1>9, <1>10, <1>11, <2>1, <2>3
    <3>2. ((A + M) + H) + F = 0
      BY ONLY <1>2, <3>1, q.check \in Checks DEF Checks
    <3>. QED  BY <1>14, <1>15, <2>1, <3>2
  <2>. QED  BY <2>2, <2>3
<1>17. s = Steps(c, d) \o << Commit(n) >>
  BY <1>4, <1>5, <1>11
<1>. QED  BY <1>15, <1>16, <1>17, DocumentPiece

-----------------------------------------------------------------------------
(* The steps of a run keep every check even.                               *)

LEMMA HeadersAre ==
  ASSUME NEW s, NEW d
  PROVE  \A r : r \in HeadersOf(s, d) <=>
                  /\ r.kind \in {"invoices", "refunds"}
                  /\ r \in d \/ \E x : In(x, s) /\ x.do = "put" /\ x.rec = r
BY DEF HeadersOf, In

LEMMA SaneWeight ==
  ASSUME NEW q, SaneDisk(q.disk), NEW x, Sane(x)
  PROVE  Weight(q, x) \in Int
<1>1. CASE x.do = "put"
  <2>1. Counts(q, x.rec) \in Int
    BY <1>1, CountsType DEF Sane
  <2>. QED  BY <1>1, <2>1 DEF Weight
<1>2. CASE x.do = "call"
  <2>1. SaneCall(x.cmd)
    BY <1>2 DEF Sane
  <2>2. ASSUME x.cmd.op = "accounting.post_journal"
        PROVE  Posted(q.check, x.cmd.lines) \in Int
    <3>1. PICK f : f = [i \in DOMAIN x.cmd.lines |-> LedgerShare(q.check, x.cmd.lines[i])]
      OBVIOUS
    <3>2. PICK k : k = Len(x.cmd.lines)
      OBVIOUS
    <3>3. k \in Nat /\ DOMAIN f = 1..k /\ DOMAIN x.cmd.lines = 1..k
      BY <2>1, <2>2, <3>1, <3>2 DEF SaneCall, Command, Fields
    <3>4. \A i \in DOMAIN f : f[i] \in Int
      BY <2>1, <2>2, <3>1, ShareType DEF SaneCall, Numbers
    <3>5. IsFiniteSet(DOMAIN f)
      <4>1. IsFiniteSet(1..k)
        BY ONLY <3>3, FS_Interval
      <4>. QED  BY <3>3, <4>1
    <3>. QED  BY <3>1, <3>4, <3>5, SumLines DEF Posted
  <2>3. ASSUME x.cmd.op = "inventory.commit_movement"
        PROVE  MovedValue(x.cmd, q.disk) \in Int
    <3>1. PICK a, b : a = x.cmd.quantity /\ b = x.cmd.cost
      OBVIOUS
    <3>2. a \in Int /\ b \in Int
      BY <2>1, <2>3, <3>1 DEF SaneCall, Numbers
    <3>3. PICK w : w = WeightedAverageUnitCost(q.disk, x.cmd.item)
      OBVIOUS
    <3>4. w \in Int
      BY <3>3, SaneStock
    <3>5. MovedValue(x.cmd, q.disk) = a * (IF a < 0 THEN w ELSE b)
      BY <3>1, <3>3 DEF MovedValue
    <3>. QED  BY ONLY <3>2, <3>4, <3>5
  <2>4. x.cmd.op \in {"accounting.post_journal", "inventory.commit_movement"}
    BY <2>1 DEF SaneCall
  <2>. QED  BY <1>2, <2>2, <2>3, <2>4 DEF Weight
<1>3. CASE x.do # "put" /\ x.do # "call"
  BY <1>3 DEF Weight
<1>. QED  BY <1>1, <1>2, <1>3

LEMMA SaneSummed ==
  ASSUME NEW q, SaneDisk(q.disk), NEW s, IsSeq(s), \A x : In(x, s) => Sane(x)
  PROVE  Summed(q, s)
BY SaneWeight DEF Summed

(* What a movement still to be committed is worth does not change while    *)
(* records are written that it is kept apart from.                         *)
LEMMA MovedSame ==
  ASSUME NEW d, SaneDisk(d), NEW r, SaneRecord(r), r \notin d,
         NEW y, y.do = "put", y.rec = r,
         NEW x, x.do = "call", x.cmd.op = "inventory.commit_movement", Clear(y, x)
  PROVE  MovedValue(x.cmd, d \cup {r}) = MovedValue(x.cmd, d)
<1>. SUFFICES ASSUME x.cmd.quantity < 0
              PROVE  WeightedAverageUnitCost(d \cup {r}, x.cmd.item)
                       = WeightedAverageUnitCost(d, x.cmd.item)
  BY DEF MovedValue
<1>1. ~(r.kind = "stock_movements" /\ r.data.item = x.cmd.item)
  BY DEF Clear, Affects, Issues
<1>2. PICK item : item = x.cmd.item
  OBVIOUS
<1>3. StockOnHand(d, item) \in Int /\ InventoryValue(d, item) \in Int
  BY SaneStock
<1>4. /\ StockOnHand(d \cup {r}, item)
           = StockOnHand(d, item)
             + IF r.kind = "stock_movements" /\ r.data.item = item THEN r.data.quantity ELSE 0
      /\ InventoryValue(d \cup {r}, item)
           = InventoryValue(d, item)
             + IF r.kind = "stock_movements" /\ r.data.item = item THEN r.data.value ELSE 0
  BY StockMoves
<1>5. /\ StockOnHand(d \cup {r}, item) = StockOnHand(d, item)
      /\ InventoryValue(d \cup {r}, item) = InventoryValue(d, item)
  BY ONLY <1>1, <1>2, <1>3, <1>4
<1>. QED  BY <1>2, <1>5 DEF WeightedAverageUnitCost

LeaveChecked ==
  \A c \in Commands :
    c.op = "accounting.post_journal" =>
      \A i \in DOMAIN c.lines : c.lines[i].account \notin Checked

LEMMA PieceEven ==
  ASSUME LeaveChecked, DatedTogether, SaneDisk(disk), NEW c \in Commands,
         NEW known, Admissible(c, disk, known),
         NEW q, q.disk = disk, q.check \in Checks, NEW n,
         c.op = "billing.create_invoice" => Heads(q, "invoices", c),
         c.op = "billing.create_refund" => Heads(q, "refunds", c)
  PROVE  Summed(q, Piece(c, disk, n)) /\ Tally(q, Piece(c, disk, n)) = 0
<1>1. Command(c) /\ Numbers(c)
  BY WorkflowsAssumption
<1>2. CASE c.op \in {"inventory.register_item", "accounting.close_period"}
  BY <1>1, <1>2, NeutralTally
<1>3. CASE c.op = "accounting.post_journal"
  BY <1>1, <1>3, UserJournalTally DEF LeaveChecked
<1>4. CASE c.op = "inventory.commit_movement"
  <2>1. c.by = "use_case"
    BY <1>4 DEF DatedTogether
  <2>. QED  BY <1>1, <1>4, <2>1, MovementTally
<1>5. CASE c.op = "billing.create_invoice"
  <2>1. c.movePeriod = c.period /\ \A i \in DOMAIN c.lines : c.lines[i].quantity > 0
    BY <1>5 DEF DatedTogether, Admissible, InvoiceAdmissible
  <2>. QED  BY <1>1, <1>5, <2>1, InvoiceTally
<1>6. CASE c.op = "billing.create_refund"
  <2>1. c.movePeriod = c.period /\ \A i \in DOMAIN c.lines : c.lines[i].quantity > 0
    BY <1>6 DEF DatedTogether, Admissible, RefundAdmissible
  <2>. QED  BY <1>1, <1>6, <2>1, RefundTally
<1>. QED  BY <1>1, <1>2, <1>3, <1>4, <1>5, <1>6 DEF Command, Operations

(* The header of a document is written by its own run only.                *)
LEMMA OwnHeader ==
  ASSUME NEW c, NEW d, NEW n, Command(c), \A r \in d : r.doc # c.doc,
         NEW k, NEW p, NEW q, q = Question(k, p, Piece(c, d, n), d)
  PROVE  /\ c.op = "billing.create_invoice" => Heads(q, "invoices", c)
         /\ c.op = "billing.create_refund" => Heads(q, "refunds", c)
         /\ \A r \in d : Counts(q, r) = Counts(AtRest(k, p, d), r)
<1>1. q.period = p /\ q.check = k /\ q.headers = HeadersOf(Piece(c, d, n), d)
  BY DEF Question
<1>2. \A r : r \in q.headers <=>
        /\ r.kind \in {"invoices", "refunds"}
        /\ r \in d \/ \E x : In(x, Piece(c, d, n)) /\ x.do = "put" /\ x.rec = r
  BY <1>1, HeadersAre
<1>3. \A x : In(x, Piece(c, d, n)) /\ x.do = "put" => x.rec.doc = c.doc
  BY PutIs
<1>4. PICK x : In(x, Piece(c, d, n)) /\ x.do = "put" /\ Key(x.rec) = Main(c)
  BY PiecePutsMain DEF Putting
<1>5. ASSUME c.op = "billing.create_invoice"
      PROVE  Heads(q, "invoices", c)
  <2>1. x.rec.kind = "invoices" /\ x.rec.doc = c.doc
    BY <1>4, <1>5 DEF Main, Key
  <2>2. \A z : In(z, Piece(c, d, n)) /\ z.do = "put" /\ z.rec.kind = "invoices"
                 => z.rec.data.period = c.period
    <3>. SUFFICES ASSUME NEW z, In(z, Piece(c, d, n)), z.do = "put", z.rec.kind = "invoices"
                  PROVE  z.rec.data.period = c.period
      OBVIOUS
    <3>1. z = InvoicePut(c)
      BY <1>5, PutIs DEF InvoiceLinePut, Put
    <3>. QED  BY <3>1 DEF InvoicePut, Put
  <2>3. x.rec \in q.headers /\ x.rec.data.period = c.period
    BY <1>2, <1>4, <2>1, <2>2
  <2>4. \A h \in q.headers : h.kind = "invoices" /\ h.doc = c.doc => h.data.period = c.period
    BY <1>2, <2>2
  <2>. QED  BY <2>1, <2>3, <2>4 DEF Heads
<1>6. ASSUME c.op = "billing.create_refund"
      PROVE  Heads(q, "refunds", c)
  <2>1. x.rec.kind = "refunds" /\ x.rec.doc = c.doc
    BY <1>4, <1>6 DEF Main, Key
  <2>2. \A z : In(z, Piece(c, d, n)) /\ z.do = "put" /\ z.rec.kind = "refunds"
                 => z.rec.data.period = c.period
    <3>. SUFFICES ASSUME NEW z, In(z, Piece(c, d, n)), z.do = "put", z.rec.kind = "refunds"
                  PROVE  z.rec.data.period = c.period
      OBVIOUS
    <3>1. z = RefundPut(c)
      BY <1>6, PutIs DEF RefundLinePut, Put
    <3>. QED  BY <3>1 DEF RefundPut, Put
  <2>3. x.rec \in q.headers /\ x.rec.data.period = c.period
    BY <1>2, <1>4, <2>1, <2>2
  <2>4. \A h \in q.headers : h.kind = "refunds" /\ h.doc = c.doc => h.data.period = c.period
    BY <1>2, <2>2
  <2>. QED  BY <2>1, <2>3, <2>4 DEF Heads
<1>7. \A r \in d : Counts(q, r) = Counts(AtRest(k, p, d), r)
  <2>. SUFFICES ASSUME NEW r \in d PROVE Counts(q, r) = Counts(AtRest(k, p, d), r)
    OBVIOUS
  <2>1. PICK a : a = AtRest(k, p, d)
    OBVIOUS
  <2>2. /\ a.check = k /\ a.period = p
        /\ \A h : h \in a.headers <=> h \in d /\ h.kind \in {"invoices", "refunds"}
    BY <2>1, AtRestIs
  <2>3. \A h : h.doc = r.doc => (h \in q.headers <=> h \in a.headers)
    BY <1>2, <1>3, <2>2
  <2>4. Dated(r, p, q.headers) <=> Dated(r, p, a.headers)
    BY <2>3 DEF Dated
  <2>5. Counts(q, r) = Counts(a, r)
    BY <1>1, <2>2, <2>4 DEF Counts
  <2>. QED  BY <2>1, <2>5
<1>. QED  BY <1>5, <1>6, <1>7

OneCurrency == \A c \in Commands : "currency" \in DOMAIN c => c.currency = "INR"

InRupees(r) ==
  r.kind \in {"journal_lines", "invoices", "refunds", "invoice_lines", "refund_lines"} =>
    r.data.currency = "INR"

Regular(x) ==
  /\ x.do = "put" => InRupees(x.rec)
  /\ x.do = "call" =>
       /\ x.cmd.op = "accounting.post_journal" => x.cmd.currency = "INR"
       /\ x.cmd.op = "inventory.commit_movement" /\ x.cmd.by = "sale" => x.cmd.quantity < 0

BooksInv ==
  /\ FairInv
  /\ \A r \in disk : InRupees(r)
  /\ \A x : In(x, todo) => Regular(x)
  /\ Evens(todo, disk)

LEMMA JournalCalled ==
  ASSUME NEW doc, NEW p, NEW s, NEW currency, NEW lines,
         NEW x, x = Call(Journal(doc, p, s, currency, lines))
  PROVE  x.cmd.op = "accounting.post_journal" /\ x.cmd.currency = currency
BY DEF Call, Journal

LEMMA MovementCalled ==
  ASSUME NEW doc, NEW n, NEW item, NEW quantity, NEW cost, NEW p, NEW by,
         NEW x, x = Call(Movement(doc, n, item, quantity, cost, p, by))
  PROVE  /\ x.cmd.op = "inventory.commit_movement" /\ x.cmd.by = by
         /\ x.cmd.quantity = quantity
BY DEF Call, Movement

LEMMA MovementJournalCalled ==
  ASSUME NEW c, NEW v, NEW x, x = Call(MovementJournal(c, v))
  PROVE  x.cmd.op = "accounting.post_journal" /\ x.cmd.currency = "INR"
BY JournalCalled DEF MovementJournal

LEMMA InvoiceJournalCalled ==
  ASSUME NEW c, NEW v, NEW x, x = Call(InvoiceJournal(c, v))
  PROVE  x.cmd.op = "accounting.post_journal" /\ x.cmd.currency = c.currency
BY JournalCalled DEF InvoiceJournal

LEMMA RefundJournalCalled ==
  ASSUME NEW c, NEW v, NEW x, x = Call(RefundJournal(c, v))
  PROVE  x.cmd.op = "accounting.post_journal" /\ x.cmd.currency = c.currency
BY JournalCalled DEF RefundJournal

LEMMA SaleCalled ==
  ASSUME NEW c, NEW i, NEW x, x = Call(SaleMovement(c, i))
  PROVE  x.cmd.op = "inventory.commit_movement" /\ x.cmd.quantity = -c.lines[i].quantity
BY MovementCalled DEF SaleMovement

LEMMA ReturnCalled ==
  ASSUME NEW c, NEW d, NEW i, NEW x, x = Call(ReturnMovement(c, i, d))
  PROVE  x.cmd.op = "inventory.commit_movement" /\ x.cmd.by = "return"
BY MovementCalled DEF ReturnMovement

LEMMA PieceRegular ==
  ASSUME NEW c, NEW d, NEW n, Command(c), "currency" \in DOMAIN c => c.currency = "INR",
         Numbers(c),
         c.op = "billing.create_invoice" => \A i \in DOMAIN c.lines : c.lines[i].quantity > 0,
         NEW x, In(x, Piece(c, d, n))
  PROVE  Regular(x)
<1>1. c.op \in {"accounting.post_journal", "billing.create_invoice", "billing.create_refund"}
        => c.currency = "INR"
  BY DEF Command, Fields
<1>2. ASSUME x.do = "put" PROVE InRupees(x.rec)
  <2>1. CASE c.op \in {"inventory.register_item", "accounting.close_period"}
    BY <1>2, <2>1, PutIs DEF InRupees, CloseKinds
  <2>2. CASE c.op = "inventory.commit_movement"
    BY <1>2, <2>2, PutIs DEF InRupees, MovePut, Put
  <2>3. CASE c.op = "accounting.post_journal"
    BY <1>1, <1>2, <2>3, PutIs DEF InRupees, EntryPut, LinePut, Put
  <2>4. CASE c.op = "billing.create_invoice"
    BY <1>1, <1>2, <2>4, PutIs DEF InRupees, InvoicePut, InvoiceLinePut, LineData, Put
  <2>5. CASE c.op = "billing.create_refund"
    BY <1>1, <1>2, <2>5, PutIs DEF InRupees, RefundPut, RefundLinePut, LineData, Put
  <2>. QED  BY <2>1, <2>2, <2>3, <2>4, <2>5 DEF Command, Operations
<1>3. ASSUME x.do = "call"
      PROVE  \/ x.cmd.op = "accounting.post_journal" /\ x.cmd.currency = "INR"
             \/ x.cmd.op = "inventory.commit_movement" /\ x.cmd.by = "return"
             \/ c.op = "billing.create_invoice" /\ \E i \in DOMAIN c.lines : x = Call(SaleMovement(c, i))
  <2>1. CASE c.op = "inventory.commit_movement"
    <3>1. x = Call(MovementJournal(c, ValueDelta(c, d)))
      BY <1>3, <2>1, CallIs
    <3>. QED  BY <3>1, MovementJournalCalled
  <2>2. CASE /\ c.op = "billing.create_invoice"
             /\ x = Call(InvoiceJournal(c, SumFunction(InvoiceCogs(c, d))))
    BY <1>1, <2>2, InvoiceJournalCalled
  <2>3. CASE /\ c.op = "billing.create_refund"
             /\ x = Call(RefundJournal(c, SumFunction(RefundCogs(c, d))))
    BY <1>1, <2>3, RefundJournalCalled
  <2>4. CASE /\ c.op = "billing.create_refund"
             /\ \E i \in DOMAIN c.lines : x = Call(ReturnMovement(c, i, d))
    <3>1. PICK i \in DOMAIN c.lines : x = Call(ReturnMovement(c, i, d))
      BY <2>4
    <3>. QED  BY <3>1, ReturnCalled
  <2>. QED  BY <1>3, <2>1, <2>2, <2>3, <2>4, CallIs
<1>4. ASSUME x.do = "call", x.cmd.op = "inventory.commit_movement", x.cmd.by = "sale"
      PROVE  x.cmd.quantity < 0
  <2>1. c.op = "billing.create_invoice" /\ \E i \in DOMAIN c.lines : x = Call(SaleMovement(c, i))
    BY <1>3, <1>4
  <2>2. PICK i \in DOMAIN c.lines : x = Call(SaleMovement(c, i))
    BY <2>1
  <2>3. PICK v : v = c.lines[i].quantity
    OBVIOUS
  <2>4. v \in Int /\ v > 0
    BY <2>1, <2>3 DEF Numbers
  <2>5. x.cmd.quantity = -v
    BY <2>2, <2>3, SaleCalled
  <2>. QED  BY ONLY <2>4, <2>5
<1>5. ASSUME x.do = "call", x.cmd.op = "accounting.post_journal"
      PROVE  x.cmd.currency = "INR"
  <2>1. CASE \E i \in DOMAIN c.lines : x = Call(SaleMovement(c, i))
    <3>1. PICK i \in DOMAIN c.lines : x = Call(SaleMovement(c, i))
      BY <2>1
    <3>. QED  BY <1>5, <3>1, SaleCalled
  <2>. QED  BY <1>3, <1>5, <2>1
<1>. QED  BY <1>2, <1>4, <1>5 DEF Regular

LEMMA BeginEvens ==
  ASSUME BooksInv, Orderly, LeaveChecked, DatedTogether, OneCurrency,
         NEW c \in Commands, Begin(c)
  PROVE  /\ \A r \in disk' : InRupees(r)
         /\ \A x : In(x, todo') => Regular(x)
         /\ Evens(todo', disk')
<1>0. PICK n, p : n = Len(wal) + 1 /\ p = Piece(c, disk, n)
  OBVIOUS
<1>1. /\ SaneInv /\ SaneDisk(disk) /\ todo = << >> /\ disk' = disk
      /\ Enters(c, closed, << >>)
  BY BeginEnters DEF BooksInv, FairInv, StockInv, SaneInv, Begin
<1>2. /\ todo' = p \o << >> /\ Admissible(c, disk, closed) /\ IsSeq(p)
  BY <1>0, <1>1, EnterIs
<1>3. todo' = p
  <2>1. p \in Seq(Range(p))
    BY <1>2 DEF IsSeq
  <2>. QED  BY <1>2, <2>1, ConcatEmptySeq
<1>4. Command(c) /\ Numbers(c)
  BY WorkflowsAssumption
<1>5. \A r \in disk : r.doc # c.doc
  BY NewDocument DEF BooksInv
<1>6. \A x : In(x, todo') => Regular(x)
  <2>1. c.op = "billing.create_invoice" => \A i \in DOMAIN c.lines : c.lines[i].quantity > 0
    BY <1>2 DEF Admissible, InvoiceAdmissible
  <2>2. "currency" \in DOMAIN c => c.currency = "INR"
    BY DEF OneCurrency
  <2>. QED  BY <1>0, <1>3, <1>4, <2>1, <2>2, PieceRegular
<1>7. ASSUME NEW k \in Checks, NEW z, NEW q, q = Question(k, z, p, disk)
      PROVE  Total(q, disk) + Tally(q, p) = 0
  <2>1. /\ c.op = "billing.create_invoice" => Heads(q, "invoices", c)
        /\ c.op = "billing.create_refund" => Heads(q, "refunds", c)
        /\ \A r \in disk : Counts(q, r) = Counts(AtRest(k, z, disk), r)
    BY <1>0, <1>4, <1>5, <1>7, OwnHeader
  <2>2. q.disk = disk /\ q.check \in Checks
    BY <1>7 DEF Question
  <2>3. Tally(q, p) = 0
    BY <1>0, <1>1, <1>2, <2>1, <2>2, PieceEven
  <2>4. PICK a : a = AtRest(k, z, disk)
    OBVIOUS
  <2>5. Total(a, disk) + Tally(a, << >>) = 0
    BY <1>1, <2>4 DEF BooksInv, Evens, AtRest
  <2>6. Tally(a, << >>) = 0
    BY TallyEmpty
  <2>7. Total(q, disk) = Total(a, disk)
    BY <2>1, <2>4, TotalSame
  <2>8. Total(a, disk) \in Int
    BY <1>1, TotalType
  <2>. QED  BY ONLY <2>3, <2>5, <2>6, <2>7, <2>8
<1>8. Evens(p, disk)
  BY <1>7 DEF Evens
<1>. QED  BY <1>1, <1>3, <1>6, <1>8 DEF BooksInv

(* Headers are those that are written or will be.                          *)
LEMMA SameHeaders ==
  ASSUME NEW s, NEW u, NEW d,
         \A x : x.do = "put" /\ x.rec.kind \in {"invoices", "refunds"} =>
           (In(x, u) <=> In(x, s))
  PROVE  HeadersOf(u, d) = HeadersOf(s, d)
<1>1. \A r : r \in HeadersOf(s, d) <=>
               /\ r.kind \in {"invoices", "refunds"}
               /\ r \in d \/ \E x : In(x, s) /\ x.do = "put" /\ x.rec = r
  BY HeadersAre
<1>2. \A r : r \in HeadersOf(u, d) <=>
               /\ r.kind \in {"invoices", "refunds"}
               /\ r \in d \/ \E x : In(x, u) /\ x.do = "put" /\ x.rec = r
  BY HeadersAre
<1>3. ASSUME NEW r, r.kind \in {"invoices", "refunds"}
      PROVE  (\E x : In(x, s) /\ x.do = "put" /\ x.rec = r)
               <=> \E x : In(x, u) /\ x.do = "put" /\ x.rec = r
  BY <1>3
<1>. QED  BY <1>1, <1>2, <1>3

LEMMA CalledTally ==
  ASSUME NEW y, y.do = "call", SaneCall(y.cmd), Regular(y),
         NEW d, SaneDisk(d), Ready(y.cmd, d),
         NEW q, q.disk = d, q.check \in Checks, NEW n, NEW p, p = Piece(Priced(y.cmd, d), d, n)
  PROVE  Summed(q, p) /\ Tally(q, p) = Weight(q, y)
<1>0. PICK m : m = y.cmd
  OBVIOUS
<1>1. Weight(q, y) = Weight(q, Call(m))
  BY <1>0 DEF Weight, Call
<1>2. SaneCall(m) /\ m.op \in {"accounting.post_journal", "inventory.commit_movement"}
  BY <1>0 DEF SaneCall
<1>3. CASE m.op = "accounting.post_journal"
  <2>1. Priced(m, d) = m /\ Command(m) /\ Numbers(m)
    BY <1>2, <1>3 DEF Priced, SaneCall
  <2>2. p = Piece(m, d, n)
    BY <1>0, <2>1
  <2>3. Summed(q, p) /\ Tally(q, p) = Weight(q, Call(m))
    BY <1>3, <2>1, <2>2, JournalTally
  <2>. QED  BY <1>1, <2>3
<1>4. CASE m.op = "inventory.commit_movement"
  <2>1. m.by # "use_case" /\ m.quantity # 0
    BY <1>0, <1>4 DEF Ready
  <2>2. m.by = "sale" => m.quantity < 0
    BY <1>0, <1>4 DEF Regular
  <2>3. Summed(q, Piece(Priced(m, d), d, n))
        /\ Tally(q, Piece(Priced(m, d), d, n)) = Weight(q, Call(m))
    BY <1>2, <1>4, <2>1, <2>2, CalledMovementTally
  <2>. QED  BY <1>0, <1>1, <2>3
<1>. QED  BY <1>2, <1>3, <1>4

LEMMA SumOfCall ==
  ASSUME NEW a, NEW w, NEW b, NEW s, NEW u, NEW p,
         a + s = 0, s = w + b, p = w, u = p + b
  PROVE  a + u = 0
OBVIOUS

LEMMA CallEvens ==
  ASSUME BooksInv, CallOperation
  PROVE  /\ \A r \in disk' : InRupees(r)
         /\ \A x : In(x, todo') => Regular(x)
         /\ Evens(todo', disk')
<1>0. PICK c, n, p, y, t : /\ y = Head(todo) /\ t = Tail(todo) /\ c = Priced(y.cmd, disk)
                           /\ n = Len(wal) + 1 /\ p = Piece(c, disk, n)
  OBVIOUS
<1>1. /\ SaneInv /\ SaneDisk(disk) /\ IsSeq(todo) /\ todo # << >> /\ y.do = "call"
      /\ disk' = disk /\ Enters(c, closed, t)
  BY <1>0, CallEnters, SealFacts DEF BooksInv, FairInv, SaneInv, CallOperation, Doing
<1>2. /\ todo' = p \o t /\ IsSeq(p) /\ IsSeq(t)
      /\ \A x : In(x, todo') <=> In(x, p) \/ In(x, t)
  BY <1>0, <1>1, EnterIs
<1>3. /\ In(y, todo) /\ (\A x : In(x, t) => In(x, todo))
      /\ \A x : In(x, todo) => x = y \/ In(x, t)
  BY <1>0, <1>1, HeadAndTail, HeadOrTail
<1>4. SaneCall(y.cmd) /\ Ready(y.cmd, disk) /\ Regular(y)
  BY <1>1, <1>3 DEF SaneInv, Sane, BooksInv, FairInv, Clearing, InOrder
<1>5. /\ Command(c) /\ Numbers(c) /\ c.op = y.cmd.op
      /\ c.op \in {"accounting.post_journal", "inventory.commit_movement"}
  BY <1>0, <1>1, <1>4, SanePriced
<1>6. \A x : In(x, p) => Regular(x)
  <2>1. "currency" \in DOMAIN c => c.currency = "INR"
    <3>1. CASE c.op = "accounting.post_journal"
      <4>1. c = y.cmd
        BY <1>0, <1>5, <3>1 DEF Priced
      <4>. QED  BY <1>1, <1>4, <3>1, <4>1 DEF Regular
    <3>2. CASE c.op = "inventory.commit_movement"
      BY <1>5, <3>2 DEF Command, Fields
    <3>. QED  BY <1>5, <3>1, <3>2
  <2>2. c.op # "billing.create_invoice"
    BY <1>5
  <2>. QED  BY <1>0, <1>5, <2>1, <2>2, PieceRegular
<1>7. \A x : In(x, p) /\ x.do = "put" => x.rec.kind \notin {"invoices", "refunds"}
  <2>. SUFFICES ASSUME NEW x, In(x, p), x.do = "put"
                PROVE  x.rec.kind \notin {"invoices", "refunds"}
    OBVIOUS
  <2>1. CASE c.op = "accounting.post_journal"
    BY <1>0, <1>5, <2>1, PutIs DEF EntryPut, LinePut, Put
  <2>2. CASE c.op = "inventory.commit_movement"
    BY <1>0, <1>5, <2>2, PutIs DEF MovePut, Put
  <2>. QED  BY <1>5, <2>1, <2>2
<1>8. HeadersOf(todo', disk) = HeadersOf(todo, disk)
  <2>1. \A x : x.do = "put" /\ x.rec.kind \in {"invoices", "refunds"} =>
                  (In(x, todo') <=> In(x, todo))
    BY <1>1, <1>2, <1>3, <1>7
  <2>. QED  BY ONLY <2>1, SameHeaders
<1>9. ASSUME NEW k \in Checks, NEW z, NEW q, q = Question(k, z, todo', disk)
      PROVE  Total(q, disk) + Tally(q, todo') = 0
  <2>1. q = Question(k, z, todo, disk)
    BY <1>8, <1>9 DEF Question
  <2>2. q.disk = disk /\ q.check \in Checks
    BY <1>9 DEF Question
  <2>3. Total(q, disk) + Tally(q, todo) = 0
    BY <2>1 DEF BooksInv, Evens
  <2>4. Summed(q, todo)
    BY <1>1, <2>2, SaneSummed DEF SaneInv
  <2>5. Summed(q, t) /\ Tally(q, todo) = Weight(q, y) + Tally(q, t)
    BY <1>0, <1>1, <2>4, TallyHead
  <2>6. Summed(q, p) /\ Tally(q, p) = Weight(q, y)
    BY <1>0, <1>1, <1>4, <2>2, CalledTally
  <2>7. Tally(q, todo') = Tally(q, p) + Tally(q, t)
    <3>1. Joined(todo', p, t)
      BY <1>2 DEF Joined
    <3>2. Summed(q, p) /\ Summed(q, t)
      BY <2>5, <2>6
    <3>. QED  BY ONLY <3>1, <3>2, TallyJoined
  <2>. QED  BY ONLY <2>3, <2>5, <2>6, <2>7, SumOfCall
<1>10. Evens(todo', disk)
  BY <1>9 DEF Evens
<1>11. \A x : In(x, todo') => Regular(x)
  BY <1>2, <1>3, <1>6 DEF BooksInv
<1>. QED  BY <1>1, <1>10, <1>11 DEF BooksInv

(* The headers stay those that are written or will be.                     *)
LEMMA WrittenHeaders ==
  ASSUME NEW s, NEW t, NEW y, NEW d, In(y, s), y.do = "put",
         \A x : In(x, s) => x = y \/ In(x, t), \A x : In(x, t) => In(x, s)
  PROVE  HeadersOf(t, d \cup {y.rec}) = HeadersOf(s, d)
<1>1. \A r : r \in HeadersOf(s, d) <=>
               /\ r.kind \in {"invoices", "refunds"}
               /\ r \in d \/ \E x : In(x, s) /\ x.do = "put" /\ x.rec = r
  BY HeadersAre
<1>2. \A r : r \in HeadersOf(t, d \cup {y.rec}) <=>
               /\ r.kind \in {"invoices", "refunds"}
               /\ r \in d \cup {y.rec} \/ \E x : In(x, t) /\ x.do = "put" /\ x.rec = r
  BY HeadersAre
<1>3. ASSUME NEW r
      PROVE  (r \in d \/ \E x : In(x, s) /\ x.do = "put" /\ x.rec = r)
               <=> (r \in d \cup {y.rec} \/ \E x : In(x, t) /\ x.do = "put" /\ x.rec = r)
  OBVIOUS
<1>. QED  BY <1>1, <1>2, <1>3

LEMMA SumOfPut ==
  ASSUME NEW a \in Int, NEW w \in Int, NEW b \in Int, NEW s, NEW e, NEW u,
         a + s = 0, s = w + b, e = a + w, u = b
  PROVE  e + u = 0
OBVIOUS

LEMMA AppendEvens ==
  ASSUME BooksInv, AppendRecord
  PROVE  /\ \A r \in disk' : InRupees(r)
         /\ \A x : In(x, todo') => Regular(x)
         /\ Evens(todo', disk')
<1>0. PICK y, t, r : y = Head(todo) /\ t = Tail(todo) /\ r = y.rec
  OBVIOUS
<1>1. CoreInv /\ SaneInv /\ SaneDisk(disk) /\ IsSeq(todo)
  BY SealFacts DEF BooksInv, FairInv, SaneInv
<1>2. /\ todo # << >> /\ IsSeq(t) /\ In(y, todo) /\ todo' = t /\ y.do = "put"
      /\ disk' = disk \cup {r}
      /\ \A x \in disk : Key(x) # Key(r)
      /\ \A x : In(x, t) => In(x, todo)
  BY <1>0, <1>1, GoOn
<1>3. \A x : In(x, todo) => x = y \/ In(x, t)
  BY <1>0, <1>1, <1>2, HeadOrTail
<1>4. \A x : In(x, t) => Clear(y, x)
  BY <1>0, <1>1, <1>2, TailApart DEF BooksInv, FairInv, Clearing
<1>5. SaneRecord(r) /\ r \notin disk /\ InRupees(r)
  BY <1>0, <1>1, <1>2 DEF SaneInv, Sane, BooksInv, Regular
<1>6. HeadersOf(t, disk') = HeadersOf(todo, disk)
  BY <1>0, <1>2, <1>3, WrittenHeaders
<1>7. ASSUME NEW k \in Checks, NEW z, NEW w, w = Question(k, z, t, disk')
      PROVE  Total(w, disk') + Tally(w, t) = 0
  <2>1. PICK q : q = Question(k, z, todo, disk)
    OBVIOUS
  <2>2. /\ q.check = k /\ q.period = z /\ q.headers = HeadersOf(todo, disk) /\ q.disk = disk
        /\ w.check = k /\ w.period = z /\ w.headers = HeadersOf(t, disk') /\ w.disk = disk'
    BY <1>7, <2>1 DEF Question
  <2>3. \A x : Counts(w, x) = Counts(q, x)
    BY <1>6, <2>2 DEF Counts
  <2>4. Total(q, disk) + Tally(q, todo) = 0
    BY <2>1 DEF BooksInv, Evens
  <2>5. Summed(q, todo)
    BY <1>1, <2>2, SaneSummed DEF SaneInv
  <2>6. /\ Summed(q, t) /\ Weight(q, y) \in Int
        /\ Tally(q, todo) = Weight(q, y) + Tally(q, t)
    BY <1>0, <1>2, <2>5, TallyHead
  <2>7. Weight(q, y) = Counts(q, r)
    BY <1>0, <1>2 DEF Weight
  <2>8. Total(w, disk') = Total(q, disk) + Counts(q, r)
    <3>1. Total(w, disk') = Total(q, disk')
      BY <2>3, TotalSame
    <3>2. Total(q, disk \cup {r}) = Total(q, disk) + Counts(q, r)
      BY <1>1, <1>5, TotalGrows
    <3>. QED  BY <1>2, <3>1, <3>2
  <2>9. Tally(w, t) = Tally(q, t)
    <3>1. ASSUME NEW x, In(x, t) PROVE Weight(q, x) = Weight(w, x)
      <4>1. CASE x.do = "call"
        <5>1. SaneCall(x.cmd)
          BY <1>1, <1>2, <3>1, <4>1 DEF SaneInv, Sane
        <5>2. ASSUME x.cmd.op = "inventory.commit_movement"
              PROVE  MovedValue(x.cmd, disk') = MovedValue(x.cmd, disk)
          <6>1. SaneDisk(disk) /\ SaneRecord(r) /\ r \notin disk
            BY <1>1, <1>5
          <6>2. y.do = "put" /\ y.rec = r /\ Clear(y, x)
            BY <1>0, <1>2, <1>4, <3>1
          <6>3. MovedValue(x.cmd, disk \cup {r}) = MovedValue(x.cmd, disk)
            BY ONLY <4>1, <5>2, <6>1, <6>2, MovedSame
          <6>. QED  BY <1>2, <6>3
        <5>3. x.cmd.op \in {"accounting.post_journal", "inventory.commit_movement"}
          BY <5>1 DEF SaneCall
        <5>. QED  BY <2>2, <4>1, <5>2, <5>3 DEF Weight
      <4>2. CASE x.do # "call"
        BY <2>3, <4>2 DEF Weight
      <4>. QED  BY <4>1, <4>2
    <3>. QED  BY <1>2, <3>1, TallySame
  <2>10. Total(q, disk) \in Int /\ Tally(q, t) \in Int
    BY <1>1, <2>6, TotalType, TallyType
  <2>. QED  BY ONLY <2>4, <2>6, <2>7, <2>8, <2>9, <2>10, SumOfPut
<1>8. Evens(t, disk')
  BY <1>7 DEF Evens
<1>9. \A x \in disk' : InRupees(x)
  BY <1>2, <1>5 DEF BooksInv
<1>10. \A x : In(x, todo') => Regular(x)
  BY <1>2 DEF BooksInv
<1>. QED  BY <1>2, <1>8, <1>9, <1>10

LEMMA SumOfCommit ==
  ASSUME NEW a, NEW w, NEW b \in Int, NEW s, a + s = 0, s = w + b, w = 0
  PROVE  a + b = 0
OBVIOUS

LEMMA CommitEvens ==
  ASSUME BooksInv, CommitTransaction
  PROVE  /\ \A r \in disk' : InRupees(r)
         /\ \A x : In(x, todo') => Regular(x)
         /\ Evens(todo', disk')
<1>0. PICK y, t : y = Head(todo) /\ t = Tail(todo)
  OBVIOUS
<1>1. CoreInv /\ SaneInv /\ SaneDisk(disk) /\ IsSeq(todo)
  BY SealFacts DEF BooksInv, FairInv, SaneInv
<1>2. /\ todo # << >> /\ IsSeq(t) /\ In(y, todo) /\ todo' = t /\ y.do = "commit"
      /\ disk' = disk
      /\ \A x : In(x, t) => In(x, todo)
  BY <1>0, <1>1, GoOn
<1>3. \A x : In(x, todo) => x = y \/ In(x, t)
  BY <1>0, <1>1, <1>2, HeadOrTail
<1>4. HeadersOf(t, disk) = HeadersOf(todo, disk)
  <2>1. \A x : x.do = "put" /\ x.rec.kind \in {"invoices", "refunds"} =>
                  (In(x, t) <=> In(x, todo))
    BY <1>2, <1>3
  <2>. QED  BY ONLY <2>1, SameHeaders
<1>5. ASSUME NEW k \in Checks, NEW z, NEW q, q = Question(k, z, t, disk)
      PROVE  Total(q, disk) + Tally(q, t) = 0
  <2>1. q = Question(k, z, todo, disk)
    BY <1>4, <1>5 DEF Question
  <2>2. q.disk = disk /\ q.check \in Checks
    BY <1>5 DEF Question
  <2>3. Total(q, disk) + Tally(q, todo) = 0
    BY <2>1 DEF BooksInv, Evens
  <2>4. Summed(q, todo)
    BY <1>1, <2>2, SaneSummed DEF SaneInv
  <2>5. Summed(q, t) /\ Tally(q, todo) = Weight(q, y) + Tally(q, t)
    BY <1>0, <1>2, <2>4, TallyHead
  <2>6. Weight(q, y) = 0
    BY <1>2 DEF Weight
  <2>7. Tally(q, t) \in Int
    BY <2>5, TallyType
  <2>. QED  BY ONLY <2>3, <2>5, <2>6, <2>7, SumOfCommit
<1>6. Evens(t, disk)
  BY <1>5 DEF Evens
<1>7. \A x : In(x, todo') => Regular(x)
  BY <1>2 DEF BooksInv
<1>. QED  BY <1>2, <1>6, <1>7 DEF BooksInv

-----------------------------------------------------------------------------
(* The report passes.                                                      *)

LEMMA NextBooks ==
  ASSUME Orderly, IssuesLeaveCost, DatedTogether, OneCurrency, LeaveChecked
  PROVE  BooksInv /\ [Next]_vars => BooksInv'
<1>. SUFFICES ASSUME BooksInv, [Next]_vars PROVE BooksInv'
  OBVIOUS
<1>1. FairInv'
  BY NextFair DEF BooksInv
<1>2. /\ process # "cli" /\ (process = "none" => todo = << >>)
      /\ (todo = << >> => Pending = {})
  BY SealFacts, NoSteps DEF BooksInv, FairInv, Clearing
<1>3. CASE StartApplication \/ Stop \/ UNCHANGED vars
  <2>1. disk' = disk /\ todo' = todo
    BY <1>3 DEF StartApplication, Stop, vars
  <2>. QED  BY <1>1, <2>1 DEF BooksInv
<1>4. CASE \E c \in Commands : Begin(c)
  BY <1>1, <1>4, BeginEvens DEF BooksInv
<1>5. CASE AppendRecord
  BY <1>1, <1>5, AppendEvens DEF BooksInv
<1>6. CASE CallOperation
  BY <1>1, <1>6, CallEvens DEF BooksInv
<1>7. CASE CommitTransaction
  BY <1>1, <1>7, CommitEvens DEF BooksInv
<1>8. ~Refused
  BY NothingRefused DEF Orderly, BooksInv
<1>9. ~StoreFails /\ ~Crash
  BY DEF Orderly, StoreFails, Crash
<1>10. ~Recover /\ \A n \in Txns : /\ \A d \in Decisions : ~Reconcile(n, d)
                                   /\ \A c \in Corrections : ~Adjust(n, c)
  BY <1>2 DEF Recover, Reconcile, Adjust, AwaitsAdjustment
<1>. QED  BY <1>3, <1>4, <1>5, <1>6, <1>7, <1>8, <1>9, <1>10 DEF Next

LEMMA InitBooks == Init => BooksInv
<1>. SUFFICES ASSUME Init PROVE BooksInv
  OBVIOUS
<1>1. disk = {} /\ todo = << >>
  BY DEF Init
<1>2. Evens(<< >>, {})
  <2>1. \A q : Total(q, {}) = 0
    BY FS_EmptySet, SumZero DEF Total
  <2>2. \A q : Tally(q, << >>) = 0
    BY TallyEmpty
  <2>. QED  BY <2>1, <2>2 DEF Evens
<1>. QED  BY <1>1, <1>2, InitFair, NoSteps DEF BooksInv

LEMMA EvenAtRest ==
  ASSUME BooksInv, todo = << >>
  PROVE  /\ SaneDisk(disk)
         /\ \A k \in Checks : \A p : Total(AtRest(k, p, disk), disk) = 0
<1>1. SaneDisk(disk)
  BY DEF BooksInv, FairInv, StockInv, SaneInv
<1>2. ASSUME NEW k \in Checks, NEW p
      PROVE  Total(AtRest(k, p, disk), disk) = 0
  <2>1. PICK q : q = AtRest(k, p, disk)
    OBVIOUS
  <2>2. Total(q, disk) + Tally(q, << >>) = 0
    BY <2>1 DEF BooksInv, Evens, AtRest
  <2>3. Tally(q, << >>) = 0
    BY TallyEmpty
  <2>4. Total(q, disk) \in Int
    BY <1>1, TotalType
  <2>. QED  BY ONLY <2>1, <2>2, <2>3, <2>4
<1>. QED  BY <1>1, <1>2

(* Whatever was bought, sold, refunded and posted, and in whatever order,  *)
(* whenever no run is in progress the reconciliation report that gates a   *)
(* period close passes for every period in use: inventory, tax, sales,     *)
(* returns and cost of goods sold in the ledger are what the movements,    *)
(* invoices and refunds come to (create_invoice, create_refund and         *)
(* commit_movement with the journals they post, against                    *)
(* get_reconciliation_report).  The hypotheses say what the code does not  *)
(* enforce: no faults, one currency, movements dated with their documents, *)
(* and no manual journal on an account the report checks.                  *)
THEOREM BooksAlwaysReconcile ==
  ASSUME Orderly, IssuesLeaveCost, DatedTogether, OneCurrency, LeaveChecked
  PROVE  Spec => []BooksReconcile
<1>1. Init => BooksInv
  BY InitBooks
<1>2. BooksInv /\ [Next]_vars => BooksInv'
  BY NextBooks
<1>3. BooksInv => BooksReconcile
  <2>. SUFFICES ASSUME BooksInv, todo = << >>, NEW p PROVE Reconciles(disk, p)
    BY DEF BooksReconcile
  <2>1. SaneDisk(disk) /\ \A k \in Checks : Total(AtRest(k, p, disk), disk) = 0
    BY EvenAtRest
  <2>2. OneCurrencyPerAccount(disk, p)
    BY DEF BooksInv, InRupees, OneCurrencyPerAccount, InPeriod, Of
  <2>. QED  BY <2>1, <2>2, LinksReconcile
<1>. QED  BY <1>1, <1>2, <1>3, PTL DEF Spec

-----------------------------------------------------------------------------
(* The revenue of a period, read from the ledger, from headers and from    *)
(* lines.                                                                  *)

LEMMA UnitsLink ==
  ASSUME NEW d, SaneDisk(d), NEW p
  PROVE  Total(AtRest("units", p, d), d)
           = (Subtotals(d, "invoices", p) - Subtotals(d, "refunds", p))
             - (SumOf("subtotal", Covered(d, "invoices", "invoice_lines", p))
                - SumOf("subtotal", Covered(d, "refunds", "refund_lines", p)))
<1>1. PICK q : q = AtRest("units", p, d)
  OBVIOUS
<1>2. PICK A, B, C, D : /\ A = InPeriod(d, "invoices", p) /\ B = InPeriod(d, "refunds", p)
                        /\ D = Covered(d, "invoices", "invoice_lines", p)
                        /\ C = Covered(d, "refunds", "refund_lines", p)
  OBVIOUS
<1>3. /\ D \subseteq d /\ Integral("subtotal", D) /\ \A r \in D : r.kind = "invoice_lines"
      /\ C \subseteq d /\ Integral("subtotal", C) /\ \A r \in C : r.kind = "refund_lines"
  BY <1>2, CoveredIn
<1>4. /\ A \subseteq d /\ Integral("subtotal", A)
      /\ \A r : r \in A <=> r \in d /\ r.kind = "invoices" /\ r.data.period = p
      /\ B \subseteq d /\ Integral("subtotal", B)
      /\ \A r : r \in B <=> r \in d /\ r.kind = "refunds" /\ r.data.period = p
  BY <1>2, RecordsIn
<1>5. ASSUME NEW r \in d
      PROVE  Counts(q, r) = ((IF r \in A THEN r.data["subtotal"] ELSE 0)
                      - (IF r \in B THEN r.data["subtotal"] ELSE 0))
                    - ((IF r \in D THEN r.data["subtotal"] ELSE 0)
                        - (IF r \in C THEN r.data["subtotal"] ELSE 0))
  <2>1. q.check = "units"
    BY <1>1, AtRestIs
  <2>2. /\ r.kind = "invoice_lines" => (Dated(r, q.period, q.headers) <=> r \in D)
        /\ r.kind = "refund_lines" => (Dated(r, q.period, q.headers) <=> r \in C)
        /\ r.kind \notin {"invoice_lines", "refund_lines"} =>
             (Dated(r, q.period, q.headers) <=> r.data.period = p)
    <3>1. /\ r.kind = "invoice_lines" => (Dated(r, q.period, q.headers) <=> r \in D)
          /\ r.kind = "refund_lines" => (Dated(r, q.period, q.headers) <=> r \in C)
      BY <1>1, <1>2, LinesDated
    <3>2. r.kind \notin {"invoice_lines", "refund_lines"} =>
            (Dated(r, q.period, q.headers) <=> r.data.period = p)
      BY <1>1, PlainDated
    <3>. QED  BY <3>1, <3>2
  <2>3. CASE r.kind = "invoice_lines"
    <3>1. Counts(q, r) = IF r \in D THEN -r.data.subtotal ELSE 0
      BY <2>1, <2>2, <2>3 DEF Counts, Share, Counting
    <3>2. r \notin A /\ r \notin B /\ r \notin C /\ (r \in D => r.data.subtotal \in Int)
      BY <1>3, <1>4, <2>3 DEF Integral
    <3>. QED  BY <3>1, <3>2
  <2>4. CASE r.kind = "refund_lines"
    <3>1. Counts(q, r) = IF r \in C THEN r.data.subtotal ELSE 0
      BY <2>1, <2>2, <2>4 DEF Counts, Share, Counting
    <3>2. r \notin A /\ r \notin B /\ r \notin D /\ (r \in C => r.data.subtotal \in Int)
      BY <1>3, <1>4, <2>4 DEF Integral
    <3>. QED  BY <3>1, <3>2
  <2>5. CASE r.kind = "invoices"
    <3>1. Counts(q, r) = IF r \in A THEN r.data.subtotal ELSE 0
      BY <1>4, <2>1, <2>2, <2>5 DEF Counts, Share, Counting
    <3>2. r \notin B /\ r \notin C /\ r \notin D /\ (r \in A => r.data.subtotal \in Int)
      BY <1>3, <1>4, <2>5 DEF Integral
    <3>. QED  BY <3>1, <3>2
  <2>6. CASE r.kind = "refunds"
    <3>1. Counts(q, r) = IF r \in B THEN -r.data.subtotal ELSE 0
      BY <1>4, <2>1, <2>2, <2>6 DEF Counts, Share, Counting
    <3>2. r \notin A /\ r \notin C /\ r \notin D /\ (r \in B => r.data.subtotal \in Int)
      BY <1>3, <1>4, <2>6 DEF Integral
    <3>. QED  BY <3>1, <3>2
  <2>7. CASE r.kind \notin {"invoice_lines", "refund_lines", "invoices", "refunds"}
    <3>1. Counts(q, r) = 0
      BY <2>1, <2>7 DEF Counts, Share, Counting, LedgerShare
    <3>2. r \notin A /\ r \notin B /\ r \notin C /\ r \notin D
      BY <1>3, <1>4, <2>7
    <3>. QED  BY <3>1, <3>2
  <2>. QED  BY <2>3, <2>4, <2>5, <2>6, <2>7
<1>6. Total(q, d)
        = (SumOf("subtotal", A) - SumOf("subtotal", B))
            - (SumOf("subtotal", D) - SumOf("subtotal", C))
  BY <1>3, <1>4, <1>5, TotalIs
<1>. QED  BY <1>1, <1>2, <1>6 DEF Subtotals

(* The revenue accounts of a period.                                       *)
LEMMA RevenueLink ==
  ASSUME NEW d, SaneDisk(d), NEW p
  PROVE  Total(AtRest("revenue", p, d), d)
           = (Subtotals(d, "invoices", p) - Subtotals(d, "refunds", p))
             + (DebitBalance(d, p, "4000") + DebitBalance(d, p, "4100"))
<1>1. PICK q : q = AtRest("revenue", p, d)
  OBVIOUS
<1>2. PICK A, B, E, F, D : /\ A = InPeriod(d, "invoices", p) /\ B = InPeriod(d, "refunds", p)
                           /\ E = LedgerLines(d, p, "4000") /\ F = LedgerLines(d, p, "4100")
                           /\ D = E \cup F
  OBVIOUS
<1>3. /\ E \subseteq d /\ Integral("debit", E) /\ Integral("credit", E)
      /\ \A r : r \in E <=> /\ r \in d /\ r.kind = "journal_lines"
                            /\ r.data.period = p /\ r.data.account = "4000"
  BY <1>2, LedgerIn
<1>4. /\ F \subseteq d /\ Integral("debit", F) /\ Integral("credit", F)
      /\ \A r : r \in F <=> /\ r \in d /\ r.kind = "journal_lines"
                            /\ r.data.period = p /\ r.data.account = "4100"
  BY <1>2, LedgerIn
<1>5. /\ A \subseteq d /\ Integral("subtotal", A)
      /\ \A r : r \in A <=> r \in d /\ r.kind = "invoices" /\ r.data.period = p
      /\ B \subseteq d /\ Integral("subtotal", B)
      /\ \A r : r \in B <=> r \in d /\ r.kind = "refunds" /\ r.data.period = p
  BY <1>2, RecordsIn
<1>6. /\ D \subseteq d /\ Integral("debit", D) /\ Integral("credit", D)
      /\ \A r : r \in D <=> /\ r \in d /\ r.kind = "journal_lines"
                            /\ r.data.period = p /\ r.data.account \in Revenue
  BY <1>2, <1>3, <1>4, FS_Union DEF Integral, Revenue
<1>7. ASSUME NEW r \in d
      PROVE  Counts(q, r) = ((IF r \in A THEN r.data["subtotal"] ELSE 0)
                      - (IF r \in B THEN r.data["subtotal"] ELSE 0))
                    - ((IF r \in D THEN r.data["credit"] ELSE 0)
                        - (IF r \in D THEN r.data["debit"] ELSE 0))
  <2>1. q.check = "revenue"
    BY <1>1, AtRestIs
  <2>2. r.kind \notin {"invoice_lines", "refund_lines"} =>
          (Dated(r, q.period, q.headers) <=> r.data.period = p)
    BY <1>1, PlainDated
  <2>3. CASE r.kind = "journal_lines"
    <3>1. Counts(q, r) = IF r \in D THEN r.data.debit - r.data.credit ELSE 0
      BY <1>6, <2>1, <2>2, <2>3 DEF Counts, Share, Counting, LedgerShare
    <3>2. r \notin A /\ r \notin B /\ (r \in D => r.data.credit \in Int /\ r.data.debit \in Int)
      BY <1>5, <1>6, <2>3 DEF Integral
    <3>. QED  BY <3>1, <3>2
  <2>4. CASE r.kind = "invoices"
    <3>1. Counts(q, r) = IF r \in A THEN r.data.subtotal ELSE 0
      BY <1>5, <2>1, <2>2, <2>4 DEF Counts, Share, Counting
    <3>2. r \notin B /\ r \notin D /\ (r \in A => r.data.subtotal \in Int)
      BY <1>5, <1>6, <2>4 DEF Integral
    <3>. QED  BY <3>1, <3>2
  <2>5. CASE r.kind = "refunds"
    <3>1. Counts(q, r) = IF r \in B THEN -r.data.subtotal ELSE 0
      BY <1>5, <2>1, <2>2, <2>5 DEF Counts, Share, Counting
    <3>2. r \notin A /\ r \notin D /\ (r \in B => r.data.subtotal \in Int)
      BY <1>5, <1>6, <2>5 DEF Integral
    <3>. QED  BY <3>1, <3>2
  <2>6. CASE r.kind \notin {"journal_lines", "invoices", "refunds"}
    <3>1. Counts(q, r) = 0
      BY <2>1, <2>6 DEF Counts, Share, Counting
    <3>2. r \notin A /\ r \notin B /\ r \notin D
      BY <1>5, <1>6, <2>6
    <3>. QED  BY <3>1, <3>2
  <2>. QED  BY <2>3, <2>4, <2>5, <2>6
<1>8. Total(q, d)
        = (SumOf("subtotal", A) - SumOf("subtotal", B))
            - (SumOf("credit", D) - SumOf("debit", D))
  BY <1>5, <1>6, <1>7, TotalIs
<1>9. /\ SumOf("debit", D) = SumOf("debit", E) + SumOf("debit", F)
      /\ SumOf("credit", D) = SumOf("credit", E) + SumOf("credit", F)
  <2>1. E \cap F = {}
    BY <1>3, <1>4
  <2>. QED  BY <1>2, <1>3, <1>4, <2>1, SumOfUnion
<1>10. /\ SumOf("debit", E) \in Int /\ SumOf("credit", E) \in Int
       /\ SumOf("debit", F) \in Int /\ SumOf("credit", F) \in Int
       /\ SumOf("subtotal", A) \in Int /\ SumOf("subtotal", B) \in Int
  BY <1>3, <1>4, <1>5, SumOfType
<1>11. /\ DebitBalance(d, p, "4000") = SumOf("debit", E) - SumOf("credit", E)
       /\ DebitBalance(d, p, "4100") = SumOf("debit", F) - SumOf("credit", F)
       /\ Subtotals(d, "invoices", p) = SumOf("subtotal", A)
       /\ Subtotals(d, "refunds", p) = SumOf("subtotal", B)
  BY <1>2 DEF DebitBalance, DebitTotal, CreditTotal, Subtotals
<1>12. Total(AtRest("revenue", p, d), d) = Total(q, d)
  BY <1>1
<1>. QED  BY ONLY <1>8, <1>9, <1>10, <1>11, <1>12

(* The lines of a period's documents, unit by unit.                        *)
LEMMA UnitShares ==
  ASSUME NEW d, SaneDisk(d), \A r \in d : InRupees(r), NEW p,
         NEW header, NEW line \in {"invoice_lines", "refund_lines"},
         NEW U, IsFiniteSet(U), \A r \in Of(d, line) : r.data.unit \in U,
         NEW g, \A u \in U : g[u] = UnitSubtotal(d, line, Headers(d, header, {p}), "INR", u)
  PROVE  /\ SumFunctionOnSet(g, U) = SumOf("subtotal", Covered(d, header, line, p))
         /\ \A u \in U : g[u] \in Int
<1>1. PICK S : S = Covered(d, header, line, p)
  OBVIOUS
<1>2. /\ S \subseteq d
      /\ \A r \in S : r.kind = line /\ r \in Of(d, line)
      /\ LinesUnder(d, line, Headers(d, header, {p})) = S
  BY <1>1 DEF Covered, Of, InPeriod, LinesUnder, Headers
<1>3. Integral("subtotal", S)
  BY <1>2, FS_Subset DEF SaneDisk, SaneRecord, Integral
<1>4. PICK f, key : f = [r \in S |-> r.data["subtotal"]] /\ key = [r \in S |-> r.data.unit]
  OBVIOUS
<1>5. IsFiniteSet(S) /\ (\A r \in S : f[r] \in Int) /\ (\A r \in S : key[r] \in U)
  BY <1>2, <1>3, <1>4 DEF Integral
<1>6. ASSUME NEW u \in U
      PROVE  g[u] = SumFunctionOnSet(f, {x \in S : key[x] = u})
  <2>1. PICK R : R = {x \in S : key[x] = u}
    OBVIOUS
  <2>2. R = {l \in S : l.data.currency = "INR" /\ l.data.unit = u}
    BY <1>2, <1>4, <2>1 DEF InRupees
  <2>3. g[u] = SumOf("subtotal", R)
    BY <1>2, <2>2 DEF UnitSubtotal
  <2>4. R \subseteq S /\ IsFiniteSet(R)
    BY <1>5, <2>1, FS_Subset
  <2>5. SumOf("subtotal", R) = SumFunctionOnSet(f, R)
    BY <1>4, <2>4, SumOfOn
  <2>. QED  BY <2>1, <2>3, <2>5
<1>7. SumFunctionOnSet(g, U) = SumFunctionOnSet(f, S) /\ \A u \in U : g[u] \in Int
  <2>1. Grouped(f, S, key, U, g)
    BY ONLY <1>5, <1>6, IsFiniteSet(U) DEF Grouped
  <2>. QED  BY ONLY <2>1, SumOfGroups
<1>8. SumOf("subtotal", S) = SumFunctionOnSet(f, S)
  BY <1>4, <1>5, SumOfOn
<1>. QED  BY <1>1, <1>7, <1>8

LEMMA UnitsFinite ==
  ASSUME NEW d, SaneDisk(d)
  PROVE  IsFiniteSet(BusinessUnits(d))
<1>1. PICK L : L = Of(d, "invoice_lines") \cup Of(d, "refund_lines")
  OBVIOUS
<1>2. IsFiniteSet(L)
  BY <1>1, FS_Subset DEF SaneDisk, Of
<1>3. PICK key : key = [r \in L |-> r.data.unit]
  OBVIOUS
<1>4. key \in Surjection(L, BusinessUnits(d))
  BY <1>1, <1>3 DEF Surjection, BusinessUnits
<1>. QED  BY <1>2, <1>4, FS_Surjection

LEMMA RevenueByUnit ==
  ASSUME NEW d, SaneDisk(d), \A r \in d : InRupees(r), NEW p
  PROVE  SumFunction(BusinessUnitRevenue(d, {p}, "INR"))
           = SumOf("subtotal", Covered(d, "invoices", "invoice_lines", p))
             - SumOf("subtotal", Covered(d, "refunds", "refund_lines", p))
<1>1. PICK U, s, r, n :
        /\ U = BusinessUnits(d)
        /\ s = [u \in U |-> UnitSubtotal(d, "invoice_lines", Headers(d, "invoices", {p}), "INR", u)]
        /\ r = [u \in U |-> UnitSubtotal(d, "refund_lines", Headers(d, "refunds", {p}), "INR", u)]
        /\ n = [u \in U |-> s[u] - r[u]]
  OBVIOUS
<1>2. IsFiniteSet(U)
  BY <1>1, UnitsFinite
<1>3. /\ \A x \in Of(d, "invoice_lines") : x.data.unit \in U
      /\ \A x \in Of(d, "refund_lines") : x.data.unit \in U
  BY <1>1 DEF BusinessUnits
<1>4. /\ SumFunctionOnSet(s, U) = SumOf("subtotal", Covered(d, "invoices", "invoice_lines", p))
      /\ \A u \in U : s[u] \in Int
  <2>1. \A u \in U : s[u] = UnitSubtotal(d, "invoice_lines", Headers(d, "invoices", {p}), "INR", u)
    BY <1>1
  <2>. QED  BY <1>2, <1>3, <2>1, UnitShares
<1>5. /\ SumFunctionOnSet(r, U) = SumOf("subtotal", Covered(d, "refunds", "refund_lines", p))
      /\ \A u \in U : r[u] \in Int
  <2>1. \A u \in U : r[u] = UnitSubtotal(d, "refund_lines", Headers(d, "refunds", {p}), "INR", u)
    BY <1>1
  <2>. QED  BY <1>2, <1>3, <2>1, UnitShares
<1>6. SumFunctionOnSet(n, U) = SumFunctionOnSet(s, U) - SumFunctionOnSet(r, U)
  <2>1. \A u \in U : s[u] \in Int /\ r[u] \in Int /\ n[u] = s[u] - r[u]
    BY <1>1, <1>4, <1>5
  <2>. QED  BY ONLY <1>2, <2>1, SumLess
<1>7. BusinessUnitRevenue(d, {p}, "INR") = n
  BY <1>1 DEF BusinessUnitRevenue, UnitRevenue
<1>8. SumFunction(n) = SumFunctionOnSet(n, U)
  BY <1>1 DEF SumFunction
<1>. QED  BY <1>4, <1>5, <1>6, <1>7, <1>8

(* An account that was not posted has no balance.                          *)
LEMMA BalanceIs ==
  ASSUME NEW d, SaneDisk(d), \A r \in d : InRupees(r), NEW p, NEW a
  PROVE  /\ DebitBalance(d, p, a) \in Int
         /\ a \notin AccountsPosted(d, p, "INR") => DebitBalance(d, p, a) = 0
<1>1. PICK E : E = LedgerLines(d, p, a)
  OBVIOUS
<1>2. /\ E \subseteq d /\ Integral("debit", E) /\ Integral("credit", E)
      /\ \A r : r \in E <=> /\ r \in d /\ r.kind = "journal_lines"
                            /\ r.data.period = p /\ r.data.account = a
  BY <1>1, LedgerIn
<1>3. DebitBalance(d, p, a) = SumOf("debit", E) - SumOf("credit", E)
  BY <1>1 DEF DebitBalance, DebitTotal, CreditTotal
<1>4. SumOf("debit", E) \in Int /\ SumOf("credit", E) \in Int
  BY <1>2, SumOfType
<1>5. ASSUME a \notin AccountsPosted(d, p, "INR")
      PROVE  DebitBalance(d, p, a) = 0
  <2>1. E = {}
    BY <1>2, <1>5 DEF AccountsPosted, InPeriod, Of, InRupees
  <2>. QED  BY <1>3, <2>1, SumOfEmpty
<1>. QED  BY <1>3, <1>4, <1>5

(* Summing over the accounts that were posted leaves out only zeros.       *)
LEMMA SumPosted ==
  ASSUME NEW A, IsFiniteSet(A), NEW f, NEW g, DOMAIN g \subseteq A,
         \A a \in A : f[a] \in Int /\ f[a] = IF a \in DOMAIN g THEN g[a] ELSE 0
  PROVE  SumFunction(g) = SumFunctionOnSet(f, A)
<1>1. PICK B, C : B = DOMAIN g /\ C = A \ DOMAIN g
  OBVIOUS
<1>2. IsFiniteSet(B) /\ IsFiniteSet(C) /\ B \cap C = {} /\ B \cup C = A
  BY <1>1, FS_Subset
<1>3. SumFunctionOnSet(f, B \cup C) = SumFunctionOnSet(f, B) + SumFunctionOnSet(f, C)
  BY <1>2, SumUnion
<1>4. SumFunctionOnSet(f, C) = 0
  BY <1>1, <1>2, SumZero
<1>5. SumFunctionOnSet(g, B) = SumFunctionOnSet(f, B)
  BY <1>1, <1>2, SumCongruent
<1>6. SumFunctionOnSet(f, B) \in Int
  BY <1>2, SumType
<1>7. SumFunction(g) = SumFunctionOnSet(g, B)
  BY <1>1 DEF SumFunction
<1>8. SumFunctionOnSet(f, A) = SumFunctionOnSet(f, B) + SumFunctionOnSet(f, C)
  BY ONLY <1>2, <1>3
<1>. QED  BY ONLY <1>4, <1>5, <1>6, <1>7, <1>8

LEMMA NetRevenueIs ==
  ASSUME NEW d, SaneDisk(d), \A r \in d : InRupees(r), NEW p
  PROVE  NetRevenue(d, p, "INR") = -(DebitBalance(d, p, "4000") + DebitBalance(d, p, "4100"))
<1>1. PICK f : f = [a \in Revenue |-> -DebitBalance(d, p, a)]
  OBVIOUS
<1>2. PICK P, g : /\ P = AccountsPosted(d, p, "INR")
                  /\ g = [a \in P \cap Revenue |-> LedgerReport(d, p, "INR")[a].balance]
  OBVIOUS
<1>3. \A a : /\ DebitBalance(d, p, a) \in Int
             /\ a \notin P => DebitBalance(d, p, a) = 0
  BY <1>2, BalanceIs
<1>4. /\ \A a \in Revenue : f[a] \in Int
      /\ \A a \in Revenue : a \notin P => f[a] = 0
  BY <1>1, <1>3
<1>5. \A a \in P \cap Revenue : g[a] = f[a]
  <2>1. \A a \in Revenue : a \notin DebitNormal
    BY DEF Revenue, DebitNormal, Expense
  <2>2. \A a \in P : LedgerReport(d, p, "INR")[a].balance
                       = IF a \in DebitNormal THEN DebitBalance(d, p, a) ELSE -DebitBalance(d, p, a)
    BY <1>2 DEF LedgerReport
  <2>. QED  BY <1>1, <1>2, <2>1, <2>2
<1>6. IsFiniteSet({"4000"}) /\ IsFiniteSet({"4100"}) /\ IsFiniteSet(Revenue)
      /\ Revenue = {"4000"} \cup {"4100"} /\ {"4000"} \cap {"4100"} = {}
  <2>1. Revenue = {"4000"} \cup {"4100"} /\ {"4000"} \cap {"4100"} = {}
    BY DEF Revenue
  <2>2. IsFiniteSet({"4000"}) /\ IsFiniteSet({"4100"})
    BY FS_Singleton
  <2>3. IsFiniteSet({"4000"} \cup {"4100"})
    BY <2>2, FS_Union
  <2>. QED  BY <2>1, <2>2, <2>3
<1>7. DOMAIN g = P \cap Revenue
  BY <1>2
<1>8. SumFunction(g) = SumFunctionOnSet(f, Revenue)
  <2>1. DOMAIN g \subseteq Revenue
    BY <1>7
  <2>2. \A a \in Revenue : f[a] \in Int /\ f[a] = IF a \in DOMAIN g THEN g[a] ELSE 0
    BY <1>4, <1>5, <1>7
  <2>3. IsFiniteSet(Revenue)
    BY <1>6
  <2>. QED  BY ONLY <2>1, <2>2, <2>3, SumPosted
<1>9. SumFunctionOnSet(f, {"4000"} \cup {"4100"})
        = SumFunctionOnSet(f, {"4000"}) + SumFunctionOnSet(f, {"4100"})
  BY <1>4, <1>6, SumUnion
<1>10. /\ SumFunctionOnSet(f, {"4000"}) = f["4000"]
       /\ SumFunctionOnSet(f, {"4100"}) = f["4100"]
  BY <1>4, <1>6, SumSingleton
<1>11. /\ f["4000"] = -DebitBalance(d, p, "4000") /\ f["4100"] = -DebitBalance(d, p, "4100")
       /\ DebitBalance(d, p, "4000") \in Int /\ DebitBalance(d, p, "4100") \in Int
  BY <1>1, <1>3, <1>6
<1>12. NetRevenue(d, p, "INR") = SumFunction(g)
  BY <1>2 DEF NetRevenue
<1>13. SumFunctionOnSet(f, Revenue) = f["4000"] + f["4100"]
  BY <1>6, <1>9, <1>10
<1>. QED  BY ONLY <1>8, <1>11, <1>12, <1>13

LEMMA HeaderReports ==
  ASSUME NEW d, \A r \in d : InRupees(r), NEW p
  PROVE  /\ InvoiceReport(d, {p}, "INR").subtotal = Subtotals(d, "invoices", p)
         /\ RefundReport(d, {p}, "INR").subtotal = Subtotals(d, "refunds", p)
<1>1. \A kind \in {"invoices", "refunds"} :
        {h \in Headers(d, kind, {p}) : h.data.currency = "INR"} = InPeriod(d, kind, p)
  BY DEF Headers, InPeriod, Of, InRupees
<1>. QED  BY <1>1 DEF InvoiceReport, RefundReport, Totals, Subtotals

LEMMA RevenueReports ==
  ASSUME BooksInv, todo = << >>, NEW p
  PROVE  /\ NetRevenue(disk, p, "INR")
              = Subtotals(disk, "invoices", p) - Subtotals(disk, "refunds", p)
         /\ NetRevenue(disk, p, "INR") = SumFunction(BusinessUnitRevenue(disk, {p}, "INR"))
<1>1. /\ SaneDisk(disk)
      /\ Total(AtRest("revenue", p, disk), disk) = 0
      /\ Total(AtRest("units", p, disk), disk) = 0
  BY EvenAtRest DEF Checks
<1>2. \A r \in disk : InRupees(r)
  BY DEF BooksInv
<1>3. PICK i, r, x, y, s, t :
        /\ i = Subtotals(disk, "invoices", p) /\ r = Subtotals(disk, "refunds", p)
        /\ x = DebitBalance(disk, p, "4000") /\ y = DebitBalance(disk, p, "4100")
        /\ s = SumOf("subtotal", Covered(disk, "invoices", "invoice_lines", p))
        /\ t = SumOf("subtotal", Covered(disk, "refunds", "refund_lines", p))
  OBVIOUS
<1>4. i \in Int /\ r \in Int /\ x \in Int /\ y \in Int /\ s \in Int /\ t \in Int
  <2>1. i \in Int /\ r \in Int
    BY <1>1, <1>3, RecordsIn, SumOfType DEF Subtotals
  <2>2. x \in Int /\ y \in Int
    BY <1>1, <1>2, <1>3, BalanceIs
  <2>3. s \in Int /\ t \in Int
    BY <1>1, <1>3, CoveredIn, SumOfType
  <2>. QED  BY <2>1, <2>2, <2>3
<1>5. 0 = (i - r) + (x + y)
  BY <1>1, <1>3, RevenueLink
<1>6. 0 = (i - r) - (s - t)
  BY <1>1, <1>3, UnitsLink
<1>7. NetRevenue(disk, p, "INR") = -(x + y)
  BY <1>1, <1>2, <1>3, NetRevenueIs
<1>8. SumFunction(BusinessUnitRevenue(disk, {p}, "INR")) = s - t
  BY <1>1, <1>2, <1>3, RevenueByUnit
<1>9. -(x + y) = i - r /\ -(x + y) = s - t
  BY ONLY <1>4, <1>5, <1>6
<1>. QED  BY <1>3, <1>7, <1>8, <1>9

(* Whenever no run is in progress, a period's revenue is one number,       *)
(* whichever report is asked: the profit and loss statement reads it from  *)
(* the journal lines of accounts 4000 and 4100, the invoice and refund     *)
(* reports from the document headers, the business-unit report from the    *)
(* document lines (get_profit_and_loss_report, get_invoice_report,         *)
(* get_refund_report, get_business_unit_revenue_report), under the         *)
(* hypotheses of BooksAlwaysReconcile.                                     *)
THEOREM RevenueAlwaysAgrees ==
  ASSUME Orderly, IssuesLeaveCost, DatedTogether, OneCurrency, LeaveChecked
  PROVE  Spec => []RevenueAgrees
<1>1. Init => BooksInv
  BY InitBooks
<1>2. BooksInv /\ [Next]_vars => BooksInv'
  BY NextBooks
<1>3. BooksInv => RevenueAgrees
  <2>. SUFFICES ASSUME BooksInv, todo = << >>, NEW p, NEW currency \in Currencies
                PROVE  /\ NetRevenue(disk, p, currency)
                            = InvoiceReport(disk, {p}, currency).subtotal
                                - RefundReport(disk, {p}, currency).subtotal
                       /\ NetRevenue(disk, p, currency)
                            = SumFunction(BusinessUnitRevenue(disk, {p}, currency))
    BY DEF RevenueAgrees, ProfitAndLoss
  <2>1. currency = "INR"
    BY DEF BooksInv, Currencies, InRupees, Of
  <2>2. \A r \in disk : InRupees(r)
    BY DEF BooksInv
  <2>. QED  BY <2>1, <2>2, HeaderReports, RevenueReports
<1>. QED  BY <1>1, <1>2, <1>3, PTL DEF Spec

-----------------------------------------------------------------------------
(* Refunds stay within their invoice: the documents on file and still to   *)
(* be written agree with their lines, and the lines returned with those    *)
(* sold.                                                                   *)

Papers == {"invoices", "invoice_lines", "refunds", "refund_lines"}

SoundPaperLine(r) ==
  /\ r.data.quantity \in Nat /\ r.data.price \in Nat
  /\ r.data.subtotal = r.data.quantity * r.data.price

LinesOf(M, header) ==
  {r \in Of(M, IF header.kind = "invoices" THEN "invoice_lines" ELSE "refund_lines") :
     r.doc = header.doc}

RefundsOf(M, doc) == {h \in Of(M, "refunds") : h.data.invoice = doc}

RefundLinesOf(M, doc) ==
  {r \in Of(M, "refund_lines") : \E h \in RefundsOf(M, doc) : h.doc = r.doc}

(* No more goods of an item and price were returned than were sold.        *)
RefundsCovered(M) ==
  \A doc, item, price :
    Quantity(RefundedLines(M, doc, item, price)) <= Quantity(SoldLines(M, doc, item, price))

(* Lines have their header, refunds their invoice, and ids are unique.     *)
Filed(M) ==
  /\ \A r \in M : r.kind = "invoice_lines" => Has(M, "invoices", r.doc)
  /\ \A r \in M : r.kind = "refund_lines" => Has(M, "refunds", r.doc)
  /\ \A h \in M : h.kind = "refunds" => Has(M, "invoices", h.data.invoice)
  /\ \A g, h \in M :
       g.kind = h.kind /\ g.kind \in {"invoices", "refunds"} /\ g.doc = h.doc => g = h

(* The subtotal of a document is that of its lines.                        *)
AddsUp(M) ==
  /\ IsFiniteSet(M)
  /\ \A r \in M : r.kind \in {"invoice_lines", "refund_lines"} => SoundPaperLine(r)
  /\ \A h \in M : h.kind \in {"invoices", "refunds"} =>
       h.data.subtotal = SumOf("subtotal", LinesOf(M, h))

PapersSound(M) == AddsUp(M) /\ Filed(M) /\ RefundsCovered(M)

LEMMA LineAmounts ==
  ASSUME NEW M, AddsUp(M), NEW S, S \subseteq M,
         \A r \in S : r.kind \in {"invoice_lines", "refund_lines"}
  PROVE  /\ IsFiniteSet(S)
         /\ \A r \in S : /\ r.data.quantity \in Nat /\ r.data.price \in Nat
                         /\ r.data.subtotal \in Nat
                         /\ r.data.subtotal = r.data.quantity * r.data.price
         /\ SumOf("subtotal", S) \in Nat /\ SumOf("quantity", S) \in Nat
<1>1. IsFiniteSet(S)
  BY FS_Subset DEF AddsUp
<1>2. \A r \in S : /\ r.data.quantity \in Nat /\ r.data.price \in Nat
                   /\ r.data.subtotal = r.data.quantity * r.data.price
  BY DEF AddsUp, SoundPaperLine
<1>3. \A a, b \in Nat : a * b \in Nat
  OBVIOUS
<1>4. \A r \in S : r.data.subtotal \in Nat
  BY <1>2, <1>3
<1>5. (\A r \in S : r.data["subtotal"] \in Nat) /\ \A r \in S : r.data["quantity"] \in Nat
  BY <1>2, <1>4
<1>6. SumOf("subtotal", S) \in Nat
  BY <1>1, <1>5, SumOfNatural
<1>7. SumOf("quantity", S) \in Nat
  BY <1>1, <1>5, SumOfNatural
<1>. QED  BY <1>1, <1>2, <1>4, <1>6, <1>7

(* Lines of one price come to the price times their quantity.              *)
LEMMA OnePrice ==
  ASSUME NEW M, AddsUp(M), NEW S, S \subseteq M, NEW price \in Nat,
         \A r \in S : r.kind \in {"invoice_lines", "refund_lines"} /\ r.data.price = price
  PROVE  SumOf("subtotal", S) = price * Quantity(S)
<1>1. /\ IsFiniteSet(S)
      /\ \A r \in S : r.data.quantity \in Nat /\ r.data.subtotal = r.data.quantity * price
  BY LineAmounts
<1>2. PICK z, q, s : /\ z = [r \in S |-> 0] /\ q = [r \in S |-> r.data["quantity"]]
                     /\ s = [r \in S |-> r.data["subtotal"]]
  OBVIOUS
<1>3. \A r \in S : z[r] = 0 /\ q[r] \in Int /\ s[r] = q[r] * price
  BY <1>1, <1>2
<1>4. \A a, b \in Int : 0 + a * b = b * a
  OBVIOUS
<1>5. \A r \in S : q[r] * price = 0 + price * q[r]
  BY <1>3, <1>4
<1>6. \A r \in S : z[r] \in Int /\ q[r] \in Int /\ s[r] = z[r] + price * q[r]
  BY <1>3, <1>5
<1>7. SumFunctionOnSet(s, S) = SumFunctionOnSet(z, S) + price * SumFunctionOnSet(q, S)
  BY <1>1, <1>6, SumCombine
<1>8. SumFunctionOnSet(z, S) = 0
  BY <1>1, <1>3, SumZero
<1>9. /\ SumOf("subtotal", S) = SumFunctionOnSet(s, S)
      /\ Quantity(S) = SumFunctionOnSet(q, S)
  BY <1>1, <1>2, SumOfOn DEF Quantity
<1>10. SumFunctionOnSet(q, S) \in Int
  BY <1>1, <1>3, SumType
<1>11. \A a \in Int : 0 + price * a = price * a
  OBVIOUS
<1>. QED  BY <1>7, <1>8, <1>9, <1>10, <1>11

LEMMA TimesAtMost ==
  ASSUME NEW p \in Nat, NEW a \in Nat, NEW b \in Nat, a <= b
  PROVE  p * a <= p * b
<1>1. PICK e \in Nat : b = a + e
  <2>1. b - a \in Nat /\ b = a + (b - a)
    OBVIOUS
  <2>. QED  BY <2>1
<1>2. p * (a + e) = p * a + p * e
  OBVIOUS
<1>3. p * a \in Nat /\ p * e \in Nat
  OBVIOUS
<1>. QED  BY <1>1, <1>2, <1>3

AtPrice(N, item, price) == {r \in N : r.data.item = item /\ r.data.price = price}

(* Lines pooled by item and price: fewer goods at each price are worth     *)
(* less together.                                                          *)
LEMMA PooledAtMost ==
  ASSUME NEW M, AddsUp(M), NEW R, R \subseteq M, NEW S, S \subseteq M,
         \A r \in R \cup S : r.kind \in {"invoice_lines", "refund_lines"},
         \A item, price : Quantity(AtPrice(R, item, price)) <= Quantity(AtPrice(S, item, price))
  PROVE  SumOf("subtotal", R) <= SumOf("subtotal", S)
<1>1. PICK L : L = R \cup S
  OBVIOUS
<1>2. /\ L \subseteq M /\ R \subseteq L /\ S \subseteq L
      /\ \A r \in L : r.kind \in {"invoice_lines", "refund_lines"}
  BY <1>1
<1>3. /\ IsFiniteSet(L) /\ IsFiniteSet(R) /\ IsFiniteSet(S)
      /\ \A r \in L : r.data.price \in Nat /\ r.data.subtotal \in Nat
  BY <1>2, LineAmounts
<1>4. PICK key, U : /\ key = [r \in L |-> <<r.data.item, r.data.price>>]
                    /\ U = {<<r.data.item, r.data.price>> : r \in L}
  OBVIOUS
<1>5. IsFiniteSet(U) /\ \A r \in L : key[r] \in U
  <2>1. key \in Surjection(L, U)
    BY <1>4 DEF Surjection
  <2>. QED  BY <1>3, <1>4, <2>1, FS_Surjection
<1>6. PICK f : f = [r \in L |-> r.data["subtotal"]]
  OBVIOUS
<1>7. \A r \in L : f[r] \in Int
  BY <1>3, <1>6
<1>8. PICK gr, gs : /\ gr = [u \in U |-> SumFunctionOnSet(f, {x \in R : key[x] = u})]
                    /\ gs = [u \in U |-> SumFunctionOnSet(f, {x \in S : key[x] = u})]
  OBVIOUS
<1>9. /\ SumFunctionOnSet(gr, U) = SumFunctionOnSet(f, R) /\ \A u \in U : gr[u] \in Int
  <2>1. /\ IsFiniteSet(R) /\ IsFiniteSet(U)
        /\ (\A x \in R : f[x] \in Int) /\ (\A x \in R : key[x] \in U)
    BY <1>2, <1>3, <1>5, <1>7
  <2>2. \A u \in U : gr[u] = SumFunctionOnSet(f, {x \in R : key[x] = u})
    BY <1>8
  <2>3. Grouped(f, R, key, U, gr)
    BY ONLY <2>1, <2>2 DEF Grouped
  <2>. QED  BY ONLY <2>3, SumOfGroups
<1>10. /\ SumFunctionOnSet(gs, U) = SumFunctionOnSet(f, S) /\ \A u \in U : gs[u] \in Int
  <2>1. /\ IsFiniteSet(S) /\ IsFiniteSet(U)
        /\ (\A x \in S : f[x] \in Int) /\ (\A x \in S : key[x] \in U)
    BY <1>2, <1>3, <1>5, <1>7
  <2>2. \A u \in U : gs[u] = SumFunctionOnSet(f, {x \in S : key[x] = u})
    BY <1>8
  <2>3. Grouped(f, S, key, U, gs)
    BY ONLY <2>1, <2>2 DEF Grouped
  <2>. QED  BY ONLY <2>3, SumOfGroups
<1>11. ASSUME NEW u \in U PROVE gr[u] <= gs[u]
  <2>1. PICK l \in L : u = <<l.data.item, l.data.price>>
    BY <1>4
  <2>2. PICK item, price : item = l.data.item /\ price = l.data.price
    OBVIOUS
  <2>3. price \in Nat
    BY <1>3, <2>2
  <2>4. PICK A, B : /\ A = {r \in R : r.data.item = item /\ r.data.price = price}
                    /\ B = {r \in S : r.data.item = item /\ r.data.price = price}
    OBVIOUS
  <2>5. A = {x \in R : key[x] = u} /\ B = {x \in S : key[x] = u}
    BY <1>2, <1>4, <2>1, <2>2, <2>4
  <2>6. /\ A \subseteq L /\ B \subseteq L /\ IsFiniteSet(A) /\ IsFiniteSet(B)
        /\ A \subseteq M /\ B \subseteq M
    BY <1>2, <1>3, <2>4, FS_Subset
  <2>7. gr[u] = SumOf("subtotal", A)
    BY <1>6, <1>8, <2>5, <2>6, SumOfOn
  <2>8. gs[u] = SumOf("subtotal", B)
    BY <1>6, <1>8, <2>5, <2>6, SumOfOn
  <2>9. SumOf("subtotal", A) = price * Quantity(A)
    BY <1>2, <2>3, <2>4, <2>6, OnePrice
  <2>10. SumOf("subtotal", B) = price * Quantity(B)
    BY <1>2, <2>3, <2>4, <2>6, OnePrice
  <2>11. Quantity(A) \in Nat /\ Quantity(B) \in Nat
    BY <1>2, <2>6, LineAmounts DEF Quantity
  <2>12. Quantity(A) <= Quantity(B)
    <3>1. Quantity(AtPrice(R, item, price)) <= Quantity(AtPrice(S, item, price))
      OBVIOUS
    <3>. QED  BY ONLY <2>4, <3>1 DEF AtPrice
  <2>13. price * Quantity(A) <= price * Quantity(B)
    BY ONLY <2>3, <2>11, <2>12, TimesAtMost
  <2>. QED  BY <2>7, <2>8, <2>9, <2>10, <2>13
<1>12. SumFunctionOnSet(gr, U) <= SumFunctionOnSet(gs, U)
  <2>1. \A u \in U : gr[u] \in Int /\ gs[u] \in Int /\ gr[u] <= gs[u]
    BY <1>9, <1>10, <1>11
  <2>. QED  BY ONLY <1>5, <2>1, SumAtMost
<1>13. SumOf("subtotal", R) = SumFunctionOnSet(f, R)
  BY <1>2, <1>3, <1>6, SumOfOn
<1>14. SumOf("subtotal", S) = SumFunctionOnSet(f, S)
  BY <1>2, <1>3, <1>6, SumOfOn
<1>. QED  BY <1>9, <1>10, <1>12, <1>13, <1>14

(* What all refunds of an invoice come to is within what it came to.       *)
LEMMA RefundsAtMost ==
  ASSUME NEW M, PapersSound(M), NEW v \in M, v.kind = "invoices"
  PROVE  /\ IsFiniteSet(RefundsOf(M, v.doc))
         /\ \A h \in RefundsOf(M, v.doc) : h.data.subtotal \in Nat
         /\ SumOf("subtotal", RefundsOf(M, v.doc)) <= v.data.subtotal
<1>1. PICK H, R, S : /\ H = RefundsOf(M, v.doc) /\ R = RefundLinesOf(M, v.doc)
                     /\ S = LinesOf(M, v)
  OBVIOUS
<1>2. /\ AddsUp(M) /\ H \subseteq M /\ R \subseteq M /\ S \subseteq M
      /\ \A h \in H : h.kind = "refunds"
      /\ \A r \in R : r.kind = "refund_lines" /\ \E h \in H : h.doc = r.doc
      /\ \A r \in S : r.kind = "invoice_lines"
  BY <1>1 DEF PapersSound, RefundsOf, RefundLinesOf, LinesOf, Of
<1>3. IsFiniteSet(H) /\ IsFiniteSet(R) /\ \A r \in R : r.data.subtotal \in Nat
  BY <1>2, FS_Subset, LineAmounts DEF AddsUp
<1>4. PICK f, key, g : /\ f = [r \in R |-> r.data["subtotal"]]
                       /\ key = [r \in R |-> CHOOSE h \in H : h.doc = r.doc]
                       /\ g = [h \in H |-> h.data["subtotal"]]
  OBVIOUS
<1>5. \A r \in R : key[r] \in H /\ key[r].doc = r.doc
  BY <1>2, <1>4
<1>6. ASSUME NEW h \in H
      PROVE  /\ g[h] = SumFunctionOnSet(f, {x \in R : key[x] = h})
             /\ h.data.subtotal \in Nat
  <2>1. PICK Q : Q = LinesOf(M, h)
    OBVIOUS
  <2>2. h \in M /\ h.kind = "refunds"
    BY <1>2
  <2>3. Q = {r \in Of(M, "refund_lines") : r.doc = h.doc}
    BY <2>1, <2>2 DEF LinesOf
  <2>4. \A e \in H : e.doc = h.doc => e = h
    BY <1>2, <2>2 DEF PapersSound, Filed
  <2>5. Q \subseteq R
    BY <1>1, <2>3 DEF RefundLinesOf
  <2>6. Q = {x \in R : key[x] = h}
    <3>1. \A x \in R : x \in Q <=> x.doc = h.doc
      BY <1>2, <2>3 DEF Of
    <3>. QED  BY <1>5, <2>4, <2>5, <3>1
  <2>7. h.data.subtotal = SumOf("subtotal", Q)
    BY <1>2, <2>1, <2>2 DEF AddsUp
  <2>8. IsFiniteSet(Q) /\ SumOf("subtotal", Q) \in Nat
    BY <1>2, <2>5, LineAmounts
  <2>9. SumOf("subtotal", Q) = SumFunctionOnSet(f, Q)
    BY <1>4, <2>5, <2>8, SumOfOn
  <2>. QED  BY <1>4, <2>6, <2>7, <2>8, <2>9
<1>7. SumFunctionOnSet(g, H) = SumFunctionOnSet(f, R)
  <2>1. /\ IsFiniteSet(R) /\ IsFiniteSet(H)
        /\ (\A x \in R : f[x] \in Int) /\ (\A x \in R : key[x] \in H)
    BY <1>3, <1>4, <1>5
  <2>2. \A u \in H : g[u] = SumFunctionOnSet(f, {x \in R : key[x] = u})
    BY <1>6
  <2>3. Grouped(f, R, key, H, g)
    BY ONLY <2>1, <2>2 DEF Grouped
  <2>. QED  BY ONLY <2>3, SumOfGroups
<1>8. SumOf("subtotal", H) = SumOf("subtotal", R)
  <2>1. SumOf("subtotal", H) = SumFunctionOnSet(g, H)
    BY <1>3, <1>4, SumOfOn
  <2>2. SumOf("subtotal", R) = SumFunctionOnSet(f, R)
    BY <1>3, <1>4, SumOfOn
  <2>. QED  BY <1>7, <2>1, <2>2
<1>9. SumOf("subtotal", R) <= SumOf("subtotal", S)
  <2>1. ASSUME NEW item, NEW price
        PROVE  Quantity(AtPrice(R, item, price)) <= Quantity(AtPrice(S, item, price))
    <3>1. AtPrice(R, item, price) = RefundedLines(M, v.doc, item, price)
      BY <1>1 DEF AtPrice, RefundLinesOf, RefundsOf, RefundedLines
    <3>2. AtPrice(S, item, price) = SoldLines(M, v.doc, item, price)
      BY <1>1 DEF AtPrice, LinesOf, SoldLines
    <3>. QED  BY <3>1, <3>2 DEF PapersSound, RefundsCovered
  <2>2. \A r \in R \cup S : r.kind \in {"invoice_lines", "refund_lines"}
    BY <1>2
  <2>. QED  BY <1>2, <2>1, <2>2, PooledAtMost
<1>10. v.data.subtotal = SumOf("subtotal", S)
  BY <1>1, <1>2 DEF AddsUp
<1>. QED  BY <1>1, <1>3, <1>6, <1>8, <1>9, <1>10

(* The records of a document's lines, as LineData makes them.              *)
Lined(L, lines, kind, doc) ==
  /\ Len(lines) \in Nat /\ DOMAIN lines = 1..Len(lines)
  /\ \A i \in DOMAIN lines :
       /\ lines[i].quantity \in Int /\ lines[i].quantity > 0
       /\ lines[i].price \in Int /\ lines[i].price >= 0
       /\ L[i].kind = kind /\ L[i].doc = doc /\ L[i].n = i
       /\ L[i].data.item = lines[i].item
       /\ L[i].data.quantity = lines[i].quantity /\ L[i].data.price = lines[i].price
       /\ L[i].data.subtotal = lines[i].quantity * lines[i].price

LinesAtPrice(lines, item, price) ==
  {j \in DOMAIN lines : lines[j].item = item /\ lines[j].price = price}

LEMMA LinedSums ==
  ASSUME NEW L, NEW lines, NEW kind, NEW doc, Lined(L, lines, kind, doc),
         NEW N, N = {L[i] : i \in DOMAIN lines}
  PROVE  /\ IsFiniteSet(N)
         /\ \A r \in N : r.kind = kind /\ r.doc = doc /\ SoundPaperLine(r)
         /\ SumOf("subtotal", N) = Subtotal(lines)
         /\ \A item, price :
              Quantity(AtPrice(N, item, price))
                = Requested(lines, LinesAtPrice(lines, item, price))
<1>1. PICK D : D = DOMAIN lines
  OBVIOUS
<1>2. IsFiniteSet(D)
  <2>1. PICK k \in Nat : D = 1..k
    BY <1>1 DEF Lined
  <2>2. IsFiniteSet(1..k)
    BY ONLY k \in Nat, FS_Interval
  <2>. QED  BY <2>1, <2>2
<1>3. IsFiniteSet(N)
  <2>1. PICK phi : phi = [i \in D |-> L[i]]
    OBVIOUS
  <2>2. phi \in Surjection(D, N)
    BY <1>1, <2>1 DEF Surjection
  <2>. QED  BY <1>2, <2>2, FS_Surjection
<1>4. \A r \in N : r.kind = kind /\ r.doc = doc /\ SoundPaperLine(r)
  BY DEF Lined, SoundPaperLine
<1>5. /\ \A x \in D : L[x] \in N
      /\ \A y \in N : \E x \in D : y = L[x]
      /\ \A x, y \in D : L[x] = L[y] => x = y
  BY <1>1 DEF Lined
<1>6. SumOf("subtotal", N) = Subtotal(lines)
  <2>1. PICK f, g : /\ f = [i \in D |-> lines[i].quantity * lines[i].price]
                    /\ g = [r \in N |-> r.data["subtotal"]]
    OBVIOUS
  <2>2. \A x \in D : f[x] \in Int /\ g[L[x]] = f[x]
    BY <1>1, <1>5, <2>1 DEF Lined
  <2>3. SumFunctionOnSet(g, N) = SumFunctionOnSet(f, D)
    BY ONLY <1>2, <1>5, <2>2, SumImage
  <2>4. SumOf("subtotal", N) = SumFunctionOnSet(g, N)
    BY <1>3, <2>1, SumOfOn
  <2>5. Subtotal(lines) = SumFunctionOnSet(f, D)
    BY <1>1, <2>1 DEF Subtotal, SumFunction
  <2>. QED  BY <2>3, <2>4, <2>5
<1>7. ASSUME NEW item, NEW price
      PROVE  Quantity(AtPrice(N, item, price))
               = Requested(lines, LinesAtPrice(lines, item, price))
  <2>0. PICK R, J : R = AtPrice(N, item, price) /\ J = LinesAtPrice(lines, item, price)
    OBVIOUS
  <2>1. /\ R = {r \in N : r.data.item = item /\ r.data.price = price}
        /\ J = {j \in D : lines[j].item = item /\ lines[j].price = price}
    BY <1>1, <2>0 DEF AtPrice, LinesAtPrice
  <2>2. IsFiniteSet(R) /\ IsFiniteSet(J) /\ J \subseteq D
    BY <1>2, <1>3, <2>1, FS_Subset
  <2>3. \A j \in D : L[j].data.item = lines[j].item /\ L[j].data.price = lines[j].price
    BY <1>1 DEF Lined
  <2>4. /\ \A x \in J : L[x] \in R
        /\ \A y \in R : \E x \in J : y = L[x]
        /\ \A x, y \in J : L[x] = L[y] => x = y
    <3>1. \A x \in J : x \in D /\ L[x] \in N /\ lines[x].item = item /\ lines[x].price = price
      BY <1>5, <2>1
    <3>2. \A x \in J : L[x] \in R
      BY <2>1, <2>3, <3>1
    <3>3. \A y \in R : \E x \in J : y = L[x]
      <4>. SUFFICES ASSUME NEW y \in R PROVE \E x \in J : y = L[x]
        OBVIOUS
      <4>1. y \in N /\ y.data.item = item /\ y.data.price = price
        BY <2>1
      <4>2. PICK x \in D : y = L[x]
        BY <1>5, <4>1
      <4>. QED  BY <2>1, <2>3, <4>1, <4>2
    <3>. QED  BY <1>5, <3>1, <3>2, <3>3
  <2>5. PICK f, g : /\ f = [i \in J |-> lines[i].quantity]
                    /\ g = [r \in R |-> r.data["quantity"]]
    OBVIOUS
  <2>6. \A x \in J : f[x] \in Int /\ g[L[x]] = f[x]
    BY <1>1, <2>2, <2>4, <2>5 DEF Lined
  <2>7. SumFunctionOnSet(g, R) = SumFunctionOnSet(f, J)
    BY ONLY <2>2, <2>4, <2>6, SumImage
  <2>8. Quantity(R) = SumFunctionOnSet(g, R)
    BY <2>2, <2>5, SumOfOn DEF Quantity
  <2>9. Requested(lines, J) = SumFunctionOnSet(f, J)
    BY <2>5 DEF Requested, SumFunction
  <2>. QED  BY <2>0, <2>7, <2>8, <2>9
<1>. QED  BY <1>3, <1>4, <1>6, <1>7

(* A document and its lines, all new.                                      *)
NewPapers(M, h, N) ==
  /\ \A r \in M : r.doc # h.doc
  /\ h.kind \in {"invoices", "refunds"}
  /\ IsFiniteSet(N)
  /\ \A r \in N : /\ r.kind = (IF h.kind = "invoices" THEN "invoice_lines" ELSE "refund_lines")
                  /\ r.doc = h.doc /\ SoundPaperLine(r)
  /\ h.data.subtotal = SumOf("subtotal", N)

LEMMA NewAddsUp ==
  ASSUME NEW M, AddsUp(M), NEW h, NEW N, NewPapers(M, h, N)
  PROVE  AddsUp(M \cup ({h} \cup N))
<1>1. PICK K : K = M \cup ({h} \cup N)
  OBVIOUS
<1>2. IsFiniteSet(K)
  <2>1. IsFiniteSet({h}) /\ IsFiniteSet(N) /\ IsFiniteSet(M)
    BY FS_Singleton DEF AddsUp, NewPapers
  <2>2. IsFiniteSet({h} \cup N)
    BY <2>1, FS_Union
  <2>. QED  BY <1>1, <2>1, <2>2, FS_Union
<1>3. \A r \in K : r.kind \in {"invoice_lines", "refund_lines"} => SoundPaperLine(r)
  BY <1>1 DEF AddsUp, NewPapers
<1>4. ASSUME NEW g \in K, g.kind \in {"invoices", "refunds"}
      PROVE  g.data.subtotal = SumOf("subtotal", LinesOf(K, g))
  <2>1. CASE g \in M
    <3>1. LinesOf(K, g) = LinesOf(M, g)
      BY <1>1, <1>4, <2>1 DEF LinesOf, Of, NewPapers
    <3>. QED  BY <1>4, <2>1, <3>1 DEF AddsUp
  <2>2. CASE g \notin M
    <3>1. g = h
      BY <1>1, <1>4, <2>2 DEF NewPapers
    <3>2. LinesOf(K, h) = N
      BY <1>1 DEF LinesOf, Of, NewPapers
    <3>. QED  BY <3>1, <3>2 DEF NewPapers
  <2>. QED  BY <2>1, <2>2
<1>. QED  BY <1>1, <1>2, <1>3, <1>4 DEF AddsUp

LEMMA InvoiceFiled ==
  ASSUME NEW M, PapersSound(M), NEW h, NEW N, NewPapers(M, h, N), h.kind = "invoices"
  PROVE  PapersSound(M \cup ({h} \cup N))
<1>1. PICK K : K = M \cup ({h} \cup N)
  OBVIOUS
<1>2. AddsUp(K)
  BY <1>1, NewAddsUp DEF PapersSound
<1>3. Filed(K)
  <2>1. \A r \in K : r \in M \/ r = h \/ r \in N
    BY <1>1
  <2>2. \A kind, doc : Has(M, kind, doc) => Has(K, kind, doc)
    BY <1>1 DEF Has
  <2>3. \A r \in N : Has(K, h.kind, r.doc)
    BY <1>1 DEF NewPapers, Has
  <2>4. \A r \in K : r.kind = "invoice_lines" => Has(K, "invoices", r.doc)
    BY <2>1, <2>2, <2>3 DEF PapersSound, Filed, NewPapers
  <2>5. \A r \in K : r.kind = "refund_lines" => Has(K, "refunds", r.doc)
    BY <2>1, <2>2, <2>3 DEF PapersSound, Filed, NewPapers
  <2>6. \A g \in K : g.kind = "refunds" => Has(K, "invoices", g.data.invoice)
    BY <2>1, <2>2 DEF PapersSound, Filed, NewPapers
  <2>7. \A g, e \in K :
          g.kind = e.kind /\ g.kind \in {"invoices", "refunds"} /\ g.doc = e.doc => g = e
    <3>. SUFFICES ASSUME NEW g \in K, NEW e \in K, g.kind = e.kind,
                         g.kind \in {"invoices", "refunds"}, g.doc = e.doc
                  PROVE  g = e
      OBVIOUS
    <3>1. g \notin N /\ e \notin N
      BY DEF NewPapers
    <3>2. CASE g \in M /\ e \in M
      BY <3>2 DEF PapersSound, Filed
    <3>. QED  BY <2>1, <3>1, <3>2 DEF NewPapers
  <2>. QED  BY ONLY <2>4, <2>5, <2>6, <2>7 DEF Filed
<1>4. RefundsCovered(K)
  <2>. SUFFICES ASSUME NEW doc, NEW item, NEW price
                PROVE  Quantity(RefundedLines(K, doc, item, price))
                         <= Quantity(SoldLines(K, doc, item, price))
    BY DEF RefundsCovered
  <2>1. RefundedLines(K, doc, item, price) = RefundedLines(M, doc, item, price)
    BY <1>1 DEF RefundedLines, Of, NewPapers
  <2>2. CASE doc # h.doc
    <3>1. SoldLines(K, doc, item, price) = SoldLines(M, doc, item, price)
      BY <1>1, <2>2 DEF SoldLines, Of, NewPapers
    <3>. QED  BY <2>1, <3>1 DEF PapersSound, RefundsCovered
  <2>3. CASE doc = h.doc
    <3>1. RefundedLines(M, doc, item, price) = {}
      BY <2>3 DEF RefundedLines, Of, NewPapers, PapersSound, Filed, Has
    <3>2. Quantity({}) = 0
      BY SumOfEmpty DEF Quantity
    <3>3. /\ SoldLines(K, doc, item, price) \subseteq K
          /\ \A r \in SoldLines(K, doc, item, price) : r.kind \in {"invoice_lines", "refund_lines"}
      BY DEF SoldLines, Of
    <3>4. Quantity(SoldLines(K, doc, item, price)) \in Nat
      BY <1>2, <3>3, LineAmounts DEF Quantity
    <3>. QED  BY <2>1, <3>1, <3>2, <3>4
  <2>. QED  BY <2>2, <2>3
<1>. QED  BY <1>1, <1>2, <1>3, <1>4 DEF PapersSound

(* The lines of a refund ask for no more than is left to refund.           *)
LeftToRefund(M, h, N) ==
  \A r \in N : Quantity(AtPrice(N, r.data.item, r.data.price))
                 <= Refundable(M, h.data.invoice, r.data.item, r.data.price)

LEMMA RefundFiled ==
  ASSUME NEW M, PapersSound(M), NEW h, NEW N, NewPapers(M, h, N), h.kind = "refunds",
         Has(M, "invoices", h.data.invoice), LeftToRefund(M, h, N)
  PROVE  PapersSound(M \cup ({h} \cup N))
<1>1. PICK K : K = M \cup ({h} \cup N)
  OBVIOUS
<1>2. AddsUp(K)
  BY <1>1, NewAddsUp DEF PapersSound
<1>3. Filed(K)
  <2>1. \A r \in K : r \in M \/ r = h \/ r \in N
    BY <1>1
  <2>2. \A kind, doc : Has(M, kind, doc) => Has(K, kind, doc)
    BY <1>1 DEF Has
  <2>3. \A r \in N : Has(K, h.kind, r.doc)
    BY <1>1 DEF NewPapers, Has
  <2>4. \A r \in K : r.kind = "invoice_lines" => Has(K, "invoices", r.doc)
    BY <2>1, <2>2, <2>3 DEF PapersSound, Filed, NewPapers
  <2>5. \A r \in K : r.kind = "refund_lines" => Has(K, "refunds", r.doc)
    BY <2>1, <2>2, <2>3 DEF PapersSound, Filed, NewPapers
  <2>6. \A g \in K : g.kind = "refunds" => Has(K, "invoices", g.data.invoice)
    BY <2>1, <2>2 DEF PapersSound, Filed, NewPapers
  <2>7. \A g, e \in K :
          g.kind = e.kind /\ g.kind \in {"invoices", "refunds"} /\ g.doc = e.doc => g = e
    <3>. SUFFICES ASSUME NEW g \in K, NEW e \in K, g.kind = e.kind,
                         g.kind \in {"invoices", "refunds"}, g.doc = e.doc
                  PROVE  g = e
      OBVIOUS
    <3>1. g \notin N /\ e \notin N
      BY DEF NewPapers
    <3>2. CASE g \in M /\ e \in M
      BY <3>2 DEF PapersSound, Filed
    <3>. QED  BY <2>1, <3>1, <3>2 DEF NewPapers
  <2>. QED  BY ONLY <2>4, <2>5, <2>6, <2>7 DEF Filed
<1>4. RefundsCovered(K)
  <2>. SUFFICES ASSUME NEW doc, NEW item, NEW price
                PROVE  Quantity(RefundedLines(K, doc, item, price))
                         <= Quantity(SoldLines(K, doc, item, price))
    BY DEF RefundsCovered
  <2>1. SoldLines(K, doc, item, price) = SoldLines(M, doc, item, price)
    BY <1>1 DEF SoldLines, Of, NewPapers
  <2>2. Quantity(RefundedLines(M, doc, item, price)) <= Quantity(SoldLines(M, doc, item, price))
    BY DEF PapersSound, RefundsCovered
  <2>0. PICK Q : Q = AtPrice(N, item, price)
    OBVIOUS
  <2>3. Q = {l \in N : l.data.item = item /\ l.data.price = price}
    BY <2>0 DEF AtPrice
  <2>4. CASE doc # h.data.invoice \/ Q = {}
    <3>1. RefundedLines(K, doc, item, price) = RefundedLines(M, doc, item, price)
      BY <1>1, <2>3, <2>4 DEF RefundedLines, Of, NewPapers
    <3>. QED  BY <2>1, <2>2, <3>1
  <2>5. CASE doc = h.data.invoice /\ Q # {}
    <3>1. PICK A : A = RefundedLines(M, doc, item, price)
      OBVIOUS
    <3>2. A \cap Q = {} /\ RefundedLines(K, doc, item, price) = A \cup Q
      BY <1>1, <2>3, <2>5, <3>1 DEF RefundedLines, Of, NewPapers
    <3>3. /\ A \subseteq K /\ Q \subseteq K
          /\ \A r \in A \cup Q : r.kind \in {"invoice_lines", "refund_lines"}
      BY <1>1, <2>3, <3>1 DEF RefundedLines, Of, NewPapers
    <3>4. /\ IsFiniteSet(A) /\ \A r \in A : r.data["quantity"] \in Int
      <4>1. A \subseteq K /\ \A r \in A : r.kind \in {"invoice_lines", "refund_lines"}
        BY <3>3
      <4>2. IsFiniteSet(A) /\ \A r \in A : r.data.quantity \in Nat
        BY <1>2, <4>1, LineAmounts
      <4>. QED  BY <4>2
    <3>5. /\ IsFiniteSet(Q) /\ \A r \in Q : r.data["quantity"] \in Int
      <4>1. Q \subseteq K /\ \A r \in Q : r.kind \in {"invoice_lines", "refund_lines"}
        BY <3>3
      <4>2. IsFiniteSet(Q) /\ \A r \in Q : r.data.quantity \in Nat
        BY <1>2, <4>1, LineAmounts
      <4>. QED  BY <4>2
    <3>6. SumOf("quantity", A \cup Q) = SumOf("quantity", A) + SumOf("quantity", Q)
      BY <3>2, <3>4, <3>5, SumOfUnion DEF Integral
    <3>7. PICK a, q, s : /\ a = Quantity(A) /\ q = Quantity(Q)
                         /\ s = Quantity(SoldLines(M, doc, item, price))
      OBVIOUS
    <3>8. q <= s - a
      <4>1. PICK r \in Q : TRUE
        BY <2>5
      <4>2. r \in N /\ r.data.item = item /\ r.data.price = price
        BY <2>3
      <4>3. Quantity(Q) <= Refundable(M, doc, item, price)
        BY <2>0, <2>5, <4>2 DEF LeftToRefund
      <4>. QED  BY <3>1, <3>7, <4>3 DEF Refundable
    <3>9. a \in Nat /\ q \in Nat
      BY <1>2, <3>3, <3>7, LineAmounts DEF Quantity
    <3>10. s \in Nat
      <4>1. /\ SoldLines(M, doc, item, price) \subseteq M
            /\ \A r \in SoldLines(M, doc, item, price) : r.kind \in {"invoice_lines", "refund_lines"}
        BY DEF SoldLines, Of
      <4>. QED  BY <3>7, <4>1, LineAmounts DEF PapersSound, Quantity
    <3>11. Quantity(RefundedLines(K, doc, item, price)) = a + q
      BY <3>2, <3>6, <3>7 DEF Quantity
    <3>12. a + q <= s
      BY ONLY <3>8, <3>9, <3>10
    <3>. QED  BY <2>1, <3>7, <3>11, <3>12
  <2>. QED  BY <2>4, <2>5
<1>. QED  BY <1>1, <1>2, <1>3, <1>4 DEF PapersSound

-----------------------------------------------------------------------------
(* The documents written or still to be written, and the lines by which    *)
(* refunds are returned in the ledger.                                     *)

PapersOf(s, d) ==
  {r \in d \cup {s[i].rec : i \in {i \in DOMAIN s : s[i].do = "put"}} : r.kind \in Papers}

LEMMA PapersAre ==
  ASSUME NEW s, NEW d
  PROVE  \A r : r \in PapersOf(s, d) <=>
                  /\ r.kind \in Papers
                  /\ r \in d \/ \E x : In(x, s) /\ x.do = "put" /\ x.rec = r
BY DEF PapersOf, In

RefundIds == {c.doc : c \in {c \in Commands : c.op = "billing.create_refund"}}

OfRefund(M, doc, amount) ==
  \E h \in M : h.kind = "refunds" /\ h.doc = doc /\ h.data.subtotal = amount

(* A ledger line on account 4100 for a refund is the first of its journal, *)
(* and for the subtotal of the refund.                                     *)
ReturnedLine(r, M) ==
  r.kind = "journal_lines" /\ r.data.account = "4100" /\ r.doc \in RefundIds =>
    r.n = 1 /\ OfRefund(M, r.doc, r.data.debit)

ReturnedCall(m, M) ==
  m.op = "accounting.post_journal" /\ m.doc \in RefundIds =>
    \A i \in DOMAIN m.lines :
      m.lines[i].account = "4100" => i = 1 /\ OfRefund(M, m.doc, m.lines[i].debit)

ReturnedStep(x, M) ==
  /\ x.do = "put" => ReturnedLine(x.rec, M)
  /\ x.do = "call" => ReturnedCall(x.cmd, M)

(* The refunds on file are those that were asked for.                      *)
Asked(M) ==
  \A h \in M : h.kind = "refunds" =>
    \E c \in Commands : /\ c.op = "billing.create_refund"
                        /\ c.doc = h.doc /\ c.invoice = h.data.invoice

Returned(s, d, M) ==
  /\ PapersSound(M) /\ Asked(M)
  /\ \A r \in d : ReturnedLine(r, M)
  /\ \A x : In(x, s) => ReturnedStep(x, M)

(* The invariant: the documents on disk and those still to be written are  *)
(* sound, and what the ledger returns is what they say.                    *)
RefundInv ==
  /\ FairInv
  /\ \A q, r \in disk : Key(q) = Key(r) => q = r
  /\ Returned(todo, disk, PapersOf(todo, disk))

LEMMA MoreReturned ==
  ASSUME NEW M, NEW K, M \subseteq K
  PROVE  /\ \A r : ReturnedLine(r, M) => ReturnedLine(r, K)
         /\ \A x : ReturnedStep(x, M) => ReturnedStep(x, K)
<1>1. \A doc, amount : OfRefund(M, doc, amount) => OfRefund(K, doc, amount)
  BY DEF OfRefund
<1>. QED  BY <1>1 DEF ReturnedLine, ReturnedStep, ReturnedCall

(* The journal of a refund has one line on account 4100, the first.        *)
FirstReturns(s, amount) ==
  /\ IsSeq(s) /\ 1 \in DOMAIN s /\ s[1].debit = amount
  /\ \A i \in DOMAIN s : s[i].account = "4100" => i = 1

LEMMA FirstStill ==
  ASSUME NEW s, NEW amount, FirstReturns(s, amount), NEW t, IsSeq(t),
         \A x : In(x, t) => x.account # "4100"
  PROVE  FirstReturns(s \o t, amount)
<1>1. PICK u : u = s \o t
  OBVIOUS
<1>2. /\ IsSeq(s) /\ IsSeq(u)
      /\ Len(s) \in Nat /\ Len(t) \in Nat /\ DOMAIN s = 1..Len(s) /\ DOMAIN t = 1..Len(t)
      /\ DOMAIN u = 1..Len(s) + Len(t)
      /\ \A i \in DOMAIN s : u[i] = s[i]
      /\ \A i \in DOMAIN u : i \notin DOMAIN s => i - Len(s) \in DOMAIN t /\ u[i] = t[i - Len(s)]
  BY <1>1, Concatenation DEF FirstReturns
<1>3. 1 \in DOMAIN u /\ u[1].debit = amount
  BY <1>2 DEF FirstReturns
<1>4. ASSUME NEW i \in DOMAIN u, u[i].account = "4100"
      PROVE  i = 1
  <2>1. CASE i \in DOMAIN s
    BY <1>2, <1>4, <2>1 DEF FirstReturns
  <2>2. CASE i \notin DOMAIN s
    BY <1>2, <1>4, <2>2 DEF In
  <2>. QED  BY <2>1, <2>2
<1>. QED  BY <1>1, <1>2, <1>3, <1>4 DEF FirstReturns

LEMMA RefundReturns ==
  ASSUME NEW c, NEW g
  PROVE  FirstReturns(RefundJournal(c, g).lines, Subtotal(c.lines))
<1>1. PICK x, y : x = Subtotal(c.lines) /\ y = Tax(c.lines)
  OBVIOUS
<1>2. PICK r, s, t : /\ r = << Debit("4100", x), Credit("1000", x + y) >>
                     /\ s = If(y # 0, << Debit("2100", y) >>)
                     /\ t = If(g # 0, << Debit("1200", g), Credit("5000", g) >>)
  OBVIOUS
<1>3. RefundJournal(c, g).lines = (r \o s) \o t
  BY <1>1, <1>2 DEF RefundJournal, Journal
<1>4. \A a, z : Debit(a, z).account = a /\ Debit(a, z).debit = z /\ Credit(a, z).account = a
  BY DEF Debit, Credit
<1>5. FirstReturns(r, x)
  <2>1. PICK a, b : a = Debit("4100", x) /\ b = Credit("1000", x + y)
    OBVIOUS
  <2>2. r = << a, b >> /\ a.debit = x /\ b.account # "4100"
    BY <1>2, <1>4, <2>1
  <2>3. IsSeq(<< a, b >>)
    BY TwoSteps
  <2>4. DOMAIN << a, b >> = 1..2 /\ << a, b >>[1] = a /\ << a, b >>[2] = b
    OBVIOUS
  <2>. QED  BY <2>2, <2>3, <2>4 DEF FirstReturns
<1>6. IsSeq(s) /\ \A z : In(z, s) => z.account # "4100"
  <2>1. Debit("2100", y).account # "4100"
    BY <1>4
  <2>. QED  BY <1>2, <2>1, OneStep, NoSteps DEF If
<1>7. IsSeq(t) /\ \A z : In(z, t) => z.account # "4100"
  <2>1. Debit("1200", g).account # "4100" /\ Credit("5000", g).account # "4100"
    BY <1>4
  <2>. QED  BY <1>2, <2>1, TwoSteps, NoSteps DEF If
<1>8. FirstReturns(r \o s, x)
  BY <1>5, <1>6, FirstStill
<1>9. FirstReturns((r \o s) \o t, x)
  BY <1>7, <1>8, FirstStill
<1>. QED  BY <1>1, <1>3, <1>9

LEMMA RefundNamed ==
  ASSUME Orderly, NEW c \in Commands, c.doc \in RefundIds
  PROVE  c.op = "billing.create_refund"
<1>1. PICK e \in Commands : e.op = "billing.create_refund" /\ e.doc = c.doc
  BY DEF RefundIds
<1>2. Main(c) = Main(e)
  BY <1>1 DEF Orderly
<1>3. Main(e) = << "refunds", e.doc, 0 >>
  BY <1>1 DEF Main
<1>4. c.op \in Operations
  BY WorkflowsAssumption DEF Command
<1>5. /\ c.op = "inventory.register_item" => Main(c) = << "items", c.doc, 0 >>
      /\ c.op = "inventory.commit_movement" => Main(c) = << "stock_movements", c.doc, c.n >>
      /\ c.op = "accounting.post_journal" => Main(c) = << "journal_entries", c.doc, 0 >>
      /\ c.op = "accounting.close_period" => Main(c) = << "periods", c.doc, 0 >>
      /\ c.op = "billing.create_invoice" => Main(c) = << "invoices", c.doc, 0 >>
  BY DEF Main
<1>6. ASSUME NEW kind, NEW n, Main(c) = << kind, c.doc, n >>
      PROVE  kind = "refunds"
  BY <1>2, <1>3, <1>6
<1>. QED  BY <1>4, <1>5, <1>6 DEF Operations

(* What a run writes or calls returns what its own refund comes to.        *)
LEMMA PieceReturned ==
  ASSUME Orderly, NEW c \in Commands, NEW d, NEW n, NEW M,
         c.op = "billing.create_refund" => OfRefund(M, c.doc, Subtotal(c.lines)),
         NEW x, In(x, Piece(c, d, n))
  PROVE  ReturnedStep(x, M)
<1>1. Command(c)
  BY WorkflowsAssumption
<1>2. /\ x.do = "put" => x.rec.doc = c.doc
      /\ x.do = "call" => x.cmd.doc = c.doc
  BY <1>1, PieceNames DEF Named
<1>3. CASE c.op # "billing.create_refund"
  <2>1. c.doc \notin RefundIds
    BY <1>3, RefundNamed
  <2>. QED  BY <1>2, <2>1 DEF ReturnedStep, ReturnedLine, ReturnedCall
<1>4. CASE c.op = "billing.create_refund"
  <2>1. x.do = "put" => x.rec.kind # "journal_lines"
    BY <1>1, <1>4, PutIs DEF RefundPut, RefundLinePut, Put
  <2>2. ASSUME x.do = "call"
        PROVE  ReturnedCall(x.cmd, M)
    <3>1. CASE x = Call(RefundJournal(c, SumFunction(RefundCogs(c, d))))
      <4>1. PICK m : m = RefundJournal(c, SumFunction(RefundCogs(c, d)))
        OBVIOUS
      <4>2. x.cmd = m
        BY <3>1, <4>1 DEF Call
      <4>3. FirstReturns(m.lines, Subtotal(c.lines)) /\ m.doc = c.doc
        BY <1>2, <2>2, <4>1, <4>2, RefundReturns
      <4>. QED  BY <1>4, <4>2, <4>3 DEF ReturnedCall, FirstReturns
    <3>2. CASE \E i \in DOMAIN c.lines : x = Call(ReturnMovement(c, i, d))
      <4>1. PICK i \in DOMAIN c.lines : x = Call(ReturnMovement(c, i, d))
        BY <3>2
      <4>2. x.cmd.op = "inventory.commit_movement"
        BY <4>1, ReturnCalled
      <4>. QED  BY <4>2 DEF ReturnedCall
    <3>. QED  BY <1>1, <1>4, <2>2, <3>1, <3>2, CallIs
  <2>. QED  BY <2>1, <2>2 DEF ReturnedStep, ReturnedLine
<1>. QED  BY <1>3, <1>4

LEMMA CalledReturned ==
  ASSUME NEW m, SaneCall(m), NEW d, SaneDisk(d), Ready(m, d), NEW M, ReturnedCall(m, M),
         NEW c, c = Priced(m, d), NEW n, NEW x, In(x, Piece(c, d, n))
  PROVE  ReturnedStep(x, M) /\ (x.do = "put" => x.rec.kind \notin Papers)
<1>1. Command(c) /\ c.op = m.op /\ c.op \in {"accounting.post_journal", "inventory.commit_movement"}
  BY SanePriced
<1>2. CASE m.op = "accounting.post_journal"
  <2>1. c = m
    BY <1>2 DEF Priced
  <2>2. x.do # "call"
    BY <1>1, <1>2, CallIs
  <2>3. ASSUME x.do = "put"
        PROVE  ReturnedLine(x.rec, M) /\ x.rec.kind \notin Papers
    <3>1. CASE \E i \in DOMAIN c.lines : x = LinePut(c, i)
      <4>1. PICK i \in DOMAIN c.lines : x = LinePut(c, i)
        BY <3>1
      <4>2. /\ x.rec.kind = "journal_lines" /\ x.rec.n = i /\ x.rec.doc = m.doc
            /\ x.rec.data.account = m.lines[i].account /\ x.rec.data.debit = m.lines[i].debit
        BY <2>1, <4>1 DEF LinePut, Put
      <4>. QED  BY <1>2, <2>1, <4>1, <4>2 DEF ReturnedLine, ReturnedCall, Papers
    <3>2. CASE x.rec.kind \in {"journal_entries", "accounting.journal_posted",
                               "accounting.journal_posted.v1"}
      BY <3>2 DEF ReturnedLine, Papers
    <3>3. x = EntryPut(c) => x.rec.kind = "journal_entries"
      BY DEF EntryPut, Put
    <3>. QED  BY <1>1, <1>2, <2>3, <3>1, <3>2, <3>3, PutIs
  <2>. QED  BY <2>2, <2>3 DEF ReturnedStep
<1>3. CASE m.op = "inventory.commit_movement"
  <2>1. c.by # "use_case"
    <3>1. m.by # "use_case"
      BY <1>3 DEF Ready
    <3>2. Command(m)
      BY DEF SaneCall
    <3>3. c.by = m.by
      BY <1>3, <3>2 DEF Priced, Command, Fields
    <3>. QED  BY <3>1, <3>3
  <2>2. x.do # "call"
    BY <1>1, <1>3, <2>1, CallIs
  <2>3. x.do = "put" => x.rec.kind \in {"stock_movements", "inventory.stock_moved",
                                        "inventory.stock_moved.v1"}
    BY <1>1, <1>3, PutIs DEF MovePut, Put
  <2>. QED  BY <2>2, <2>3 DEF ReturnedStep, ReturnedLine, Papers
<1>. QED  BY <1>1, <1>2, <1>3

-----------------------------------------------------------------------------
(* The documents that the steps of a run write.                            *)

Sales == {"billing.create_invoice", "billing.create_refund"}

(* Documents and their lines are put by the run itself, not by what it     *)
(* calls.                                                                  *)
LEMMA PieceProvides ==
  ASSUME NEW c, NEW d, NEW n, Command(c), c.op \in Sales, NEW k \in Owed(c), k[1] \in Papers
  PROVE  Putting(Piece(c, d, n), k)
<1>. DEFINE p == Piece(c, d, n)
<1>1. PICK x : In(x, p) /\ Provides(x, k)
  <2>1. /\ IsSeq(p) /\ Len(Steps(c, d)) < Len(p) /\ Len(Steps(c, d)) \in Nat
        /\ \E i \in 1..Len(Steps(c, d)) : Provides(p[i], k)
    BY PieceFacts
  <2>2. DOMAIN p = 1..Len(p) /\ Len(p) \in Nat
    BY <2>1, StepsCounted
  <2>. HIDE DEF p
  <2>. QED  BY <2>1, <2>2 DEF In
<1>. HIDE DEF p
<1>2. ASSUME x.do = "call"
      PROVE  FALSE
  <2>1. k \in Owed(x.cmd)
    BY <1>1, <1>2 DEF Provides
  <2>2. \A j : Call(j).cmd = j
    BY DEF Call
  <2>3. /\ \A v : InvoiceJournal(c, v).op = "accounting.post_journal"
        /\ \A v : RefundJournal(c, v).op = "accounting.post_journal"
        /\ \A i : SaleMovement(c, i).op = "inventory.commit_movement"
        /\ \A i : ReturnMovement(c, i, d).op = "inventory.commit_movement"
    BY DEF InvoiceJournal, RefundJournal, Journal, SaleMovement, ReturnMovement, Movement
  <2>4. x.cmd.op \in {"accounting.post_journal", "inventory.commit_movement"}
    BY <1>1, <1>2, <2>2, <2>3, CallIs DEF p, Sales
  <2>5. CASE x.cmd.op = "accounting.post_journal"
    <3>1. k[1] \in {"journal_entries", "journal_lines", "accounting.journal_posted",
                    "accounting.journal_posted.v1"}
      BY <2>1, <2>5 DEF Owed
    <3>. QED  BY <3>1 DEF Papers
  <2>6. CASE x.cmd.op = "inventory.commit_movement"
    <3>1. k[1] \in {"stock_movements", "inventory.stock_moved", "inventory.stock_moved.v1"}
      BY <2>1, <2>6 DEF Owed
    <3>. QED  BY <3>1 DEF Papers
  <2>. QED  BY <2>4, <2>5, <2>6
<1>. QED  BY <1>1, <1>2 DEF Provides, Putting, p

(* The document that a sale or a refund writes, and its lines.             *)
HeaderPut(c) == IF c.op = "billing.create_invoice" THEN InvoicePut(c) ELSE RefundPut(c)

PaperLinePut(c, d, i) ==
  IF c.op = "billing.create_invoice" THEN InvoiceLinePut(c, d, i) ELSE RefundLinePut(c, d, i)

DocumentKind(c) == IF c.op = "billing.create_invoice" THEN "invoices" ELSE "refunds"
LineKind(c) == IF c.op = "billing.create_invoice" THEN "invoice_lines" ELSE "refund_lines"

LEMMA PutPapers ==
  ASSUME NEW c, NEW d, c.op \in Sales
  PROVE  /\ HeaderPut(c).do = "put"
         /\ HeaderPut(c).rec.kind = DocumentKind(c) /\ HeaderPut(c).rec.doc = c.doc
         /\ HeaderPut(c).rec.n = 0 /\ HeaderPut(c).rec.data.subtotal = Subtotal(c.lines)
         /\ c.op = "billing.create_refund" => HeaderPut(c).rec.data.invoice = c.invoice
         /\ \A i : LET r == PaperLinePut(c, d, i).rec IN
              /\ PaperLinePut(c, d, i).do = "put"
              /\ r.kind = LineKind(c) /\ r.doc = c.doc /\ r.n = i
              /\ r.data.item = c.lines[i].item
              /\ r.data.quantity = c.lines[i].quantity /\ r.data.price = c.lines[i].price
              /\ r.data.subtotal = c.lines[i].quantity * c.lines[i].price
BY DEF Sales, HeaderPut, PaperLinePut, DocumentKind, LineKind, InvoicePut, RefundPut,
     InvoiceLinePut, RefundLinePut, LineData, Put

LEMMA SalePapers ==
  ASSUME NEW c, NEW d, NEW n, Command(c), c.op \in Sales
  PROVE  \A r : (r.kind \in Papers /\ \E x : In(x, Piece(c, d, n)) /\ x.do = "put" /\ x.rec = r)
                  <=> \/ r = HeaderPut(c).rec
                      \/ \E i \in DOMAIN c.lines : r = PaperLinePut(c, d, i).rec
<1>1. ASSUME NEW x, In(x, Piece(c, d, n)), x.do = "put", x.rec.kind \in Papers
      PROVE  x = HeaderPut(c) \/ \E i \in DOMAIN c.lines : x = PaperLinePut(c, d, i)
  <2>1. CASE c.op = "billing.create_invoice"
    <3>1. \/ x = InvoicePut(c)
          \/ \E i \in DOMAIN c.lines : x = InvoiceLinePut(c, d, i)
          \/ x.rec.kind \in {"billing.invoice_created", "billing.sale_completed.v1"}
      BY <1>1, <2>1, PutIs
    <3>. QED  BY <1>1, <2>1, <3>1 DEF HeaderPut, PaperLinePut, Papers
  <2>2. CASE c.op = "billing.create_refund"
    <3>1. \/ x = RefundPut(c)
          \/ \E i \in DOMAIN c.lines : x = RefundLinePut(c, d, i)
          \/ x.rec.kind \in {"billing.refund_created", "billing.refund_completed.v1"}
      BY <1>1, <2>2, PutIs
    <3>. QED  BY <1>1, <2>2, <3>1 DEF HeaderPut, PaperLinePut, Papers
  <2>. QED  BY <2>1, <2>2 DEF Sales
<1>2. /\ <<DocumentKind(c), c.doc, 0>> \in Owed(c)
      /\ \A i \in DOMAIN c.lines : <<LineKind(c), c.doc, i>> \in Owed(c)
  <2>1. CASE c.op = "billing.create_invoice"
    BY <2>1 DEF Owed, DocumentKind, LineKind
  <2>2. CASE c.op = "billing.create_refund"
    BY <2>2 DEF Owed, DocumentKind, LineKind
  <2>. QED  BY <2>1, <2>2 DEF Sales
<1>3. DocumentKind(c) \in Papers /\ LineKind(c) \in Papers /\ DocumentKind(c) # LineKind(c)
  BY DEF DocumentKind, LineKind, Papers
<1>4. /\ HeaderPut(c).rec.kind = DocumentKind(c)
      /\ \A i : PaperLinePut(c, d, i).rec.kind = LineKind(c) /\ PaperLinePut(c, d, i).rec.n = i
  BY PutPapers
<1>5. In(HeaderPut(c), Piece(c, d, n)) /\ HeaderPut(c).do = "put"
  <2>1. PICK k : k = <<DocumentKind(c), c.doc, 0>>
    OBVIOUS
  <2>2. k \in Owed(c) /\ k[1] \in Papers
    BY <1>2, <1>3, <2>1
  <2>3. PICK x : In(x, Piece(c, d, n)) /\ x.do = "put" /\ Key(x.rec) = k
    BY <2>2, PieceProvides DEF Putting
  <2>4. x.rec.kind = DocumentKind(c)
    BY <2>1, <2>3 DEF Key
  <2>. QED  BY <1>1, <1>3, <1>4, <2>3, <2>4
<1>6. ASSUME NEW i \in DOMAIN c.lines
      PROVE  In(PaperLinePut(c, d, i), Piece(c, d, n)) /\ PaperLinePut(c, d, i).do = "put"
  <2>1. PICK k : k = <<LineKind(c), c.doc, i>>
    OBVIOUS
  <2>2. k \in Owed(c) /\ k[1] \in Papers
    BY <1>2, <1>3, <1>6, <2>1
  <2>3. PICK x : In(x, Piece(c, d, n)) /\ x.do = "put" /\ Key(x.rec) = k
    BY <2>2, PieceProvides DEF Putting
  <2>4. x.rec.kind = LineKind(c) /\ x.rec.n = i
    BY <2>1, <2>3 DEF Key
  <2>. QED  BY <1>1, <1>3, <1>4, <2>3, <2>4
<1>7. HeaderPut(c).rec.kind \in Papers /\ \A i : PaperLinePut(c, d, i).rec.kind \in Papers
  BY <1>3, <1>4
<1>. QED  BY <1>1, <1>5, <1>6, <1>7

LEMMA OtherPapers ==
  ASSUME NEW c, NEW d, NEW n, Command(c), c.op \notin Sales,
         NEW x, In(x, Piece(c, d, n)), x.do = "put"
  PROVE  x.rec.kind \notin Papers
<1>1. CASE c.op = "accounting.post_journal"
  BY <1>1, PutIs DEF EntryPut, LinePut, Put, Papers
<1>2. CASE c.op = "inventory.commit_movement"
  BY <1>2, PutIs DEF MovePut, Put, Papers
<1>3. CASE c.op \in {"inventory.register_item", "accounting.close_period"}
  BY <1>3, PutIs DEF CloseKinds, Papers
<1>. QED  BY <1>1, <1>2, <1>3 DEF Command, Operations, Sales

(* The papers on disk are all a run needs to know.                         *)
LEMMA PapersOnDisk ==
  ASSUME NEW d, NEW M, M = {r \in d : r.kind \in Papers}
  PROVE  /\ \A doc : Has(M, "invoices", doc) <=> Has(d, "invoices", doc)
         /\ \A doc, item, price : Refundable(M, doc, item, price) = Refundable(d, doc, item, price)
<1>1. \A kind \in Papers : Of(M, kind) = Of(d, kind)
  BY DEF Of
<1>2. /\ Of(M, "invoices") = Of(d, "invoices") /\ Of(M, "refunds") = Of(d, "refunds")
      /\ Of(M, "invoice_lines") = Of(d, "invoice_lines")
      /\ Of(M, "refund_lines") = Of(d, "refund_lines")
  BY <1>1 DEF Papers
<1>3. \A doc : Has(M, "invoices", doc) <=> Has(d, "invoices", doc)
  BY DEF Has, Papers
<1>4. \A doc, item, price :
        /\ SoldLines(M, doc, item, price) = SoldLines(d, doc, item, price)
        /\ RefundedLines(M, doc, item, price) = RefundedLines(d, doc, item, price)
  BY <1>2 DEF SoldLines, RefundedLines
<1>. QED  BY <1>3, <1>4 DEF Refundable

(* The document a run is about to write fits what is on file.              *)
DocumentLines(c, d) == {PaperLinePut(c, d, i).rec : i \in DOMAIN c.lines}

LEMMA SaleFiled ==
  ASSUME NEW c, Command(c), Numbers(c), c.op \in Sales,
         NEW d, NEW known, Admissible(c, d, known), \A r \in d : r.doc # c.doc,
         NEW M, M = {r \in d : r.kind \in Papers}, PapersSound(M),
         NEW N, N = DocumentLines(c, d)
  PROVE  PapersSound(M \cup ({HeaderPut(c).rec} \cup N))
<1>1. PICK h, L, D : /\ h = HeaderPut(c).rec /\ D = DOMAIN c.lines
                     /\ L = [i \in D |-> PaperLinePut(c, d, i).rec]
  OBVIOUS
<1>2. N = {L[i] : i \in DOMAIN c.lines} /\ \A i \in DOMAIN c.lines : L[i] = PaperLinePut(c, d, i).rec
  BY <1>1 DEF DocumentLines
<1>3. /\ h.kind = DocumentKind(c) /\ h.doc = c.doc /\ h.data.subtotal = Subtotal(c.lines)
      /\ c.op = "billing.create_refund" => h.data.invoice = c.invoice
      /\ \A i \in DOMAIN c.lines :
           /\ L[i].kind = LineKind(c) /\ L[i].doc = c.doc /\ L[i].n = i
           /\ L[i].data.item = c.lines[i].item
           /\ L[i].data.quantity = c.lines[i].quantity /\ L[i].data.price = c.lines[i].price
           /\ L[i].data.subtotal = c.lines[i].quantity * c.lines[i].price
  BY <1>1, <1>2, PutPapers
<1>4. /\ Len(c.lines) \in Nat /\ DOMAIN c.lines = 1..Len(c.lines)
      /\ \A i \in DOMAIN c.lines : c.lines[i].quantity \in Int /\ c.lines[i].price \in Int
  BY DEF Command, Fields, Numbers, Sales
<1>5. \A i \in DOMAIN c.lines : c.lines[i].quantity > 0 /\ c.lines[i].price >= 0
  BY DEF Admissible, InvoiceAdmissible, RefundAdmissible, Sales
<1>6. Lined(L, c.lines, LineKind(c), c.doc)
  BY <1>3, <1>4, <1>5 DEF Lined
<1>7. /\ IsFiniteSet(N)
      /\ \A r \in N : r.kind = LineKind(c) /\ r.doc = c.doc /\ SoundPaperLine(r)
      /\ SumOf("subtotal", N) = Subtotal(c.lines)
      /\ \A item, price : Quantity(AtPrice(N, item, price))
                            = Requested(c.lines, LinesAtPrice(c.lines, item, price))
  <2>1. PICK lines, kind, doc : lines = c.lines /\ kind = LineKind(c) /\ doc = c.doc
    OBVIOUS
  <2>2. Lined(L, lines, kind, doc) /\ N = {L[i] : i \in DOMAIN lines}
    BY <1>2, <1>6, <2>1
  <2>3. /\ IsFiniteSet(N)
        /\ \A r \in N : r.kind = kind /\ r.doc = doc /\ SoundPaperLine(r)
        /\ SumOf("subtotal", N) = Subtotal(lines)
        /\ \A item, price : Quantity(AtPrice(N, item, price))
                              = Requested(lines, LinesAtPrice(lines, item, price))
    BY ONLY <2>2, LinedSums
  <2>. QED  BY <2>1, <2>3
<1>8. NewPapers(M, h, N)
  <2>1. h.kind \in {"invoices", "refunds"}
        /\ LineKind(c) = (IF h.kind = "invoices" THEN "invoice_lines" ELSE "refund_lines")
    BY <1>3 DEF DocumentKind, LineKind
  <2>. QED  BY <1>3, <1>7, <2>1 DEF NewPapers
<1>9. CASE c.op = "billing.create_invoice"
  <2>1. h.kind = "invoices"
    BY <1>3, <1>9 DEF DocumentKind
  <2>. QED  BY <1>1, <1>8, <2>1, InvoiceFiled
<1>10. CASE c.op = "billing.create_refund"
  <2>1. h.kind = "refunds" /\ h.data.invoice = c.invoice
    BY <1>3, <1>10 DEF DocumentKind
  <2>2. /\ Has(d, "invoices", c.invoice)
        /\ \A i \in DOMAIN c.lines :
             Requested(c.lines, LinesAtPrice(c.lines, c.lines[i].item, c.lines[i].price))
               <= Refundable(d, c.invoice, c.lines[i].item, c.lines[i].price)
    BY <1>10 DEF Admissible, RefundAdmissible, Has, Of, LinesAtPrice
  <2>3. /\ \A doc : Has(M, "invoices", doc) <=> Has(d, "invoices", doc)
        /\ \A doc, item, price : Refundable(M, doc, item, price) = Refundable(d, doc, item, price)
    BY PapersOnDisk
  <2>4. ASSUME NEW r \in N
        PROVE  Quantity(AtPrice(N, r.data.item, r.data.price))
                 <= Refundable(M, h.data.invoice, r.data.item, r.data.price)
    <3>1. PICK i \in DOMAIN c.lines : r = L[i]
      BY <1>2
    <3>2. PICK item, price : /\ item = r.data.item /\ price = r.data.price
                             /\ item = c.lines[i].item /\ price = c.lines[i].price
      BY <1>3, <3>1
    <3>3. Quantity(AtPrice(N, item, price)) = Requested(c.lines, LinesAtPrice(c.lines, item, price))
      BY <1>7
    <3>4. Requested(c.lines, LinesAtPrice(c.lines, item, price))
            <= Refundable(d, c.invoice, item, price)
      BY <2>2, <3>2
    <3>5. Refundable(M, c.invoice, item, price) = Refundable(d, c.invoice, item, price)
      BY <2>3
    <3>. QED  BY <2>1, <3>2, <3>3, <3>4, <3>5
  <2>5. Has(M, "invoices", h.data.invoice) /\ LeftToRefund(M, h, N)
    BY <2>1, <2>2, <2>3, <2>4 DEF LeftToRefund
  <2>. QED  BY <1>1, <1>8, <2>1, <2>5, RefundFiled
<1>. QED  BY <1>9, <1>10 DEF Sales

LEMMA BeginReturned ==
  ASSUME RefundInv, Orderly, NEW c \in Commands, Begin(c)
  PROVE  Returned(todo', disk', PapersOf(todo', disk'))
<1>0. PICK n, p, M, K : /\ n = Len(wal) + 1 /\ p = Piece(c, disk, n)
                        /\ M = PapersOf(todo, disk) /\ K = PapersOf(todo', disk')
  OBVIOUS
<1>1. todo = << >> /\ disk' = disk /\ Enters(c, closed, << >>)
  BY BeginEnters DEF RefundInv, FairInv, StockInv, SaneInv, Begin
<1>2. /\ Admissible(c, disk, closed)
      /\ \A x : In(x, todo') <=> In(x, p)
  BY <1>0, <1>1, EnterIs, NoSteps
<1>3. Command(c) /\ Numbers(c)
  BY WorkflowsAssumption
<1>4. \A r \in disk : r.doc # c.doc
  BY NewDocument DEF RefundInv
<1>5. Returned(todo, disk, M)
  BY <1>0 DEF RefundInv
<1>6. M = {r \in disk : r.kind \in Papers}
  <2>1. \A r : r \in M <=> r.kind \in Papers /\ r \in disk
    BY <1>0, <1>1, PapersAre, NoSteps
  <2>2. \A r \in M : r \in disk
    BY <2>1
  <2>. QED  BY <2>1, <2>2
<1>7. \A r : r \in K <=> \/ r \in M
                         \/ r.kind \in Papers /\ \E x : In(x, p) /\ x.do = "put" /\ x.rec = r
  <2>1. \A r : r \in K <=> /\ r.kind \in Papers
                           /\ r \in disk \/ \E x : In(x, todo') /\ x.do = "put" /\ x.rec = r
    BY <1>0, <1>1, PapersAre
  <2>. QED  BY <1>2, <1>6, <2>1
<1>8. CASE c.op \in Sales
  <2>1. PICK h, N : h = HeaderPut(c).rec /\ N = DocumentLines(c, disk)
    OBVIOUS
  <2>2. \A r : (r.kind \in Papers /\ \E x : In(x, p) /\ x.do = "put" /\ x.rec = r)
                 <=> r = h \/ r \in N
    <3>1. \A r : (r.kind \in Papers /\ \E x : In(x, p) /\ x.do = "put" /\ x.rec = r)
                   <=> \/ r = HeaderPut(c).rec
                       \/ \E i \in DOMAIN c.lines : r = PaperLinePut(c, disk, i).rec
      BY <1>0, <1>3, <1>8, SalePapers
    <3>2. \A r : r \in N <=> \E i \in DOMAIN c.lines : r = PaperLinePut(c, disk, i).rec
      BY <2>1 DEF DocumentLines
    <3>. QED  BY <2>1, <3>1, <3>2
  <2>3. K = M \cup ({h} \cup N)
    <3>1. \A r : r \in K <=> r \in M \cup ({h} \cup N)
      BY <1>7, <2>2
    <3>. QED  BY <3>1
  <2>4. PapersSound(K)
    <3>1. PapersSound(M)
      BY <1>5 DEF Returned
    <3>2. PapersSound(M \cup ({HeaderPut(c).rec} \cup N))
      BY ONLY <1>2, <1>3, <1>4, <1>6, <1>8, <2>1, <3>1, SaleFiled
    <3>. QED  BY <2>1, <2>3, <3>2
  <2>5. /\ h.kind = DocumentKind(c) /\ h.doc = c.doc /\ h.data.subtotal = Subtotal(c.lines)
        /\ c.op = "billing.create_refund" => h.data.invoice = c.invoice
        /\ \A r \in N : r.kind = LineKind(c)
    BY <1>8, <2>1, PutPapers DEF DocumentLines
  <2>6. Asked(K)
    <3>. SUFFICES ASSUME NEW g \in K, g.kind = "refunds"
                  PROVE  \E e \in Commands : /\ e.op = "billing.create_refund"
                                             /\ e.doc = g.doc /\ e.invoice = g.data.invoice
      BY DEF Asked
    <3>1. CASE g \in M
      BY <1>5, <3>1 DEF Returned, Asked
    <3>2. CASE g \notin M
      <4>1. g = h
        BY <2>3, <2>5, <3>2 DEF LineKind
      <4>2. c.op = "billing.create_refund"
        BY <1>8, <2>5, <4>1 DEF DocumentKind, Sales
      <4>. QED  BY <2>5, <4>1, <4>2
    <3>. QED  BY <3>1, <3>2
  <2>7. c.op = "billing.create_refund" => OfRefund(K, c.doc, Subtotal(c.lines))
    <3>1. h \in K
      BY <2>3
    <3>2. c.op = "billing.create_refund" => h.kind = "refunds"
      BY <2>5 DEF DocumentKind
    <3>. QED  BY <2>5, <3>1, <3>2 DEF OfRefund
  <2>8. M \subseteq K
    BY <2>3
  <2>9. \A r \in disk : ReturnedLine(r, K)
    BY <1>5, <2>8, MoreReturned DEF Returned
  <2>10. \A x : In(x, todo') => ReturnedStep(x, K)
    BY <1>0, <1>2, <2>7, PieceReturned
  <2>. QED  BY <1>0, <1>1, <2>4, <2>6, <2>9, <2>10 DEF Returned
<1>9. CASE c.op \notin Sales
  <2>1. \A x : In(x, p) /\ x.do = "put" => x.rec.kind \notin Papers
    BY <1>0, <1>3, <1>9, OtherPapers
  <2>2. K = M
    <3>1. \A r : r \in K <=> r \in M
      BY <1>7, <2>1
    <3>2. \A r \in K : r \in M
      BY <3>1
    <3>3. \A r \in M : r \in K
      BY <3>1
    <3>. QED  BY <3>2, <3>3
  <2>3. \A x : In(x, todo') => ReturnedStep(x, K)
    <3>1. c.op # "billing.create_refund"
      BY <1>9 DEF Sales
    <3>. QED  BY <1>0, <1>2, <3>1, PieceReturned
  <2>. QED  BY <1>0, <1>1, <1>5, <2>2, <2>3 DEF Returned
<1>. QED  BY <1>8, <1>9

-----------------------------------------------------------------------------
(* Every step keeps it.                                                    *)

LEMMA SamePapers ==
  ASSUME NEW s, NEW u, NEW d, NEW e,
         \A r : r.kind \in Papers =>
           ((r \in d \/ \E x : In(x, s) /\ x.do = "put" /\ x.rec = r)
              <=> (r \in e \/ \E x : In(x, u) /\ x.do = "put" /\ x.rec = r))
  PROVE  PapersOf(u, e) = PapersOf(s, d)
<1>1. \A r : r \in PapersOf(s, d) <=>
               /\ r.kind \in Papers
               /\ r \in d \/ \E x : In(x, s) /\ x.do = "put" /\ x.rec = r
  BY PapersAre
<1>2. \A r : r \in PapersOf(u, e) <=>
               /\ r.kind \in Papers
               /\ r \in e \/ \E x : In(x, u) /\ x.do = "put" /\ x.rec = r
  BY PapersAre
<1>3. \A r : r \in PapersOf(u, e) <=> r \in PapersOf(s, d)
  BY <1>1, <1>2
<1>4. \A r \in PapersOf(u, e) : r \in PapersOf(s, d)
  BY <1>3
<1>5. \A r \in PapersOf(s, d) : r \in PapersOf(u, e)
  BY <1>3
<1>. QED  BY <1>4, <1>5

(* Replacing a call by the steps of what it calls.                         *)
LEMMA CallReturned ==
  ASSUME RefundInv, CallOperation
  PROVE  Returned(todo', disk', PapersOf(todo', disk'))
<1>0. PICK c, n, p, y, t, M : /\ y = Head(todo) /\ t = Tail(todo) /\ c = Priced(y.cmd, disk)
                              /\ n = Len(wal) + 1 /\ p = Piece(c, disk, n)
                              /\ M = PapersOf(todo, disk)
  OBVIOUS
<1>1. /\ SaneInv /\ SaneDisk(disk) /\ IsSeq(todo) /\ todo # << >> /\ y.do = "call"
      /\ disk' = disk /\ Enters(c, closed, t)
  BY <1>0, CallEnters, SealFacts DEF RefundInv, FairInv, SaneInv, CallOperation, Doing
<1>2. \A x : In(x, todo') <=> In(x, p) \/ In(x, t)
  BY <1>0, <1>1, EnterIs
<1>3. /\ In(y, todo) /\ (\A x : In(x, t) => In(x, todo))
      /\ \A x : In(x, todo) => x = y \/ In(x, t)
  BY <1>0, <1>1, HeadAndTail, HeadOrTail
<1>4. Returned(todo, disk, M)
  BY <1>0 DEF RefundInv
<1>5. SaneCall(y.cmd) /\ Ready(y.cmd, disk) /\ ReturnedCall(y.cmd, M)
  <2>1. ReturnedStep(y, M)
    BY <1>3, <1>4 DEF Returned
  <2>. QED  BY <1>1, <1>3, <2>1
            DEF SaneInv, Sane, RefundInv, FairInv, Clearing, InOrder, ReturnedStep
<1>6. \A x : In(x, p) => ReturnedStep(x, M) /\ (x.do = "put" => x.rec.kind \notin Papers)
  BY <1>0, <1>1, <1>5, CalledReturned
<1>7. PapersOf(todo', disk') = M
  <2>1. \A r : r.kind \in Papers =>
          ((r \in disk \/ \E x : In(x, todo) /\ x.do = "put" /\ x.rec = r)
             <=> (r \in disk' \/ \E x : In(x, todo') /\ x.do = "put" /\ x.rec = r))
    BY <1>1, <1>2, <1>3, <1>6
  <2>. QED  BY <1>0, <2>1, SamePapers
<1>8. \A x : In(x, todo') => ReturnedStep(x, M)
  BY <1>2, <1>3, <1>4, <1>6 DEF Returned
<1>. QED  BY <1>1, <1>4, <1>7, <1>8 DEF Returned

(* A record that is written leaves the papers what they are.               *)
LEMMA AppendReturned ==
  ASSUME RefundInv, AppendRecord
  PROVE  /\ \A q, r \in disk' : Key(q) = Key(r) => q = r
         /\ Returned(todo', disk', PapersOf(todo', disk'))
<1>0. PICK y, t, r, M : /\ y = Head(todo) /\ t = Tail(todo) /\ r = y.rec
                        /\ M = PapersOf(todo, disk)
  OBVIOUS
<1>1. CoreInv /\ IsSeq(todo)
  BY SealFacts DEF RefundInv, FairInv
<1>2. /\ todo # << >> /\ In(y, todo) /\ todo' = t /\ y.do = "put"
      /\ disk' = disk \cup {r}
      /\ \A x \in disk : Key(x) # Key(r)
      /\ \A x : In(x, t) => In(x, todo)
  BY <1>0, <1>1, GoOn
<1>3. \A x : In(x, todo) => x = y \/ In(x, t)
  BY <1>0, <1>1, <1>2, HeadOrTail
<1>4. Returned(todo, disk, M)
  BY <1>0 DEF RefundInv
<1>5. PapersOf(todo', disk') = M
  <2>1. \A q : q.kind \in Papers =>
          ((q \in disk \/ \E x : In(x, todo) /\ x.do = "put" /\ x.rec = q)
             <=> (q \in disk' \/ \E x : In(x, todo') /\ x.do = "put" /\ x.rec = q))
    BY <1>0, <1>2, <1>3
  <2>. QED  BY <1>0, <2>1, SamePapers
<1>6. \A x \in disk' : ReturnedLine(x, M)
  <2>1. ReturnedLine(r, M)
    BY <1>0, <1>2, <1>4 DEF Returned, ReturnedStep
  <2>. QED  BY <1>2, <1>4, <2>1 DEF Returned
<1>7. \A x : In(x, todo') => ReturnedStep(x, M)
  BY <1>2, <1>4 DEF Returned
<1>8. \A q, x \in disk' : Key(q) = Key(x) => q = x
  <2>1. \A q, x \in disk : Key(q) = Key(x) => q = x
    BY DEF RefundInv
  <2>. QED  BY <1>2, <2>1
<1>. QED  BY <1>4, <1>5, <1>6, <1>7, <1>8 DEF Returned

LEMMA CommitReturned ==
  ASSUME RefundInv, CommitTransaction
  PROVE  disk' = disk /\ Returned(todo', disk', PapersOf(todo', disk'))
<1>0. PICK y, t, M : y = Head(todo) /\ t = Tail(todo) /\ M = PapersOf(todo, disk)
  OBVIOUS
<1>1. CoreInv /\ IsSeq(todo)
  BY SealFacts DEF RefundInv, FairInv
<1>2. /\ todo # << >> /\ In(y, todo) /\ todo' = t /\ y.do = "commit" /\ disk' = disk
      /\ \A x : In(x, t) => In(x, todo)
  BY <1>0, <1>1, GoOn
<1>3. \A x : In(x, todo) => x = y \/ In(x, t)
  BY <1>0, <1>1, <1>2, HeadOrTail
<1>4. PapersOf(todo', disk') = M
  <2>1. \A q : q.kind \in Papers =>
          ((q \in disk \/ \E x : In(x, todo) /\ x.do = "put" /\ x.rec = q)
             <=> (q \in disk' \/ \E x : In(x, todo') /\ x.do = "put" /\ x.rec = q))
    BY <1>2, <1>3
  <2>. QED  BY <1>0, <2>1, SamePapers
<1>. QED  BY <1>0, <1>2, <1>4 DEF RefundInv, Returned

LEMMA NextRefunds ==
  ASSUME Orderly, IssuesLeaveCost
  PROVE  RefundInv /\ [Next]_vars => RefundInv'
<1>. SUFFICES ASSUME RefundInv, [Next]_vars PROVE RefundInv'
  OBVIOUS
<1>1. FairInv'
  BY NextFair DEF RefundInv
<1>2. /\ process # "cli" /\ (process = "none" => todo = << >>)
      /\ (todo = << >> => Pending = {})
  BY SealFacts, NoSteps DEF RefundInv, FairInv, Clearing
<1>3. CASE StartApplication \/ Stop \/ UNCHANGED vars
  <2>1. disk' = disk /\ todo' = todo
    BY <1>3 DEF StartApplication, Stop, vars
  <2>. QED  BY <1>1, <2>1 DEF RefundInv
<1>4. CASE \E c \in Commands : Begin(c)
  <2>1. disk' = disk
    BY <1>4 DEF Begin
  <2>. QED  BY <1>1, <1>4, <2>1, BeginReturned DEF RefundInv
<1>5. CASE AppendRecord
  BY <1>1, <1>5, AppendReturned DEF RefundInv
<1>6. CASE CallOperation
  <2>1. disk' = disk
    BY <1>6 DEF CallOperation
  <2>. QED  BY <1>1, <1>6, <2>1, CallReturned DEF RefundInv
<1>7. CASE CommitTransaction
  BY <1>1, <1>7, CommitReturned DEF RefundInv
<1>8. ~Refused
  BY NothingRefused DEF Orderly, RefundInv
<1>9. ~StoreFails /\ ~Crash
  BY DEF Orderly, StoreFails, Crash
<1>10. ~Recover /\ \A n \in Txns : /\ \A d \in Decisions : ~Reconcile(n, d)
                                   /\ \A c \in Corrections : ~Adjust(n, c)
  BY <1>2 DEF Recover, Reconcile, Adjust, AwaitsAdjustment
<1>. QED  BY <1>3, <1>4, <1>5, <1>6, <1>7, <1>8, <1>9, <1>10 DEF Next

LEMMA InitRefunds == Init => RefundInv
<1>. SUFFICES ASSUME Init PROVE RefundInv
  OBVIOUS
<1>1. disk = {} /\ todo = << >>
  BY DEF Init
<1>2. PICK M : M = PapersOf(todo, disk)
  OBVIOUS
<1>3. M = {}
  BY <1>1, <1>2, PapersAre, NoSteps
<1>4. AddsUp(M) /\ Filed(M)
  BY <1>3, FS_EmptySet DEF AddsUp, Filed
<1>5. RefundsCovered(M)
  <2>1. \A doc, item, price : /\ RefundedLines(M, doc, item, price) = {}
                              /\ SoldLines(M, doc, item, price) = {}
    BY <1>3 DEF RefundedLines, SoldLines, Of
  <2>2. Quantity({}) = 0
    BY SumOfEmpty DEF Quantity
  <2>. QED  BY <2>1, <2>2 DEF RefundsCovered
<1>6. Asked(M) /\ (\A r \in disk : ReturnedLine(r, M)) /\ \A x : In(x, todo) => ReturnedStep(x, M)
  BY <1>1, <1>3, NoSteps DEF Asked
<1>. QED  BY <1>1, <1>2, <1>4, <1>5, <1>6, InitFair DEF RefundInv, Returned, PapersSound

-----------------------------------------------------------------------------
(* Commands of one refund id are for one invoice.                          *)
OneInvoicePerRefund ==
  \A c, e \in Commands :
    c.op = "billing.create_refund" /\ e.op = "billing.create_refund" /\ c.doc = e.doc =>
      c.invoice = e.invoice

ReturnsOf(d, doc) ==
  {r \in Of(d, "journal_lines") :
     /\ r.data.account = "4100"
     /\ \E c \in Commands :
          c.op = "billing.create_refund" /\ c.invoice = doc /\ c.doc = r.doc}

LEMMA ReturnsWithin ==
  ASSUME RefundInv, OneInvoicePerRefund, NEW v \in disk, v.kind = "invoices"
  PROVE  SumOf("debit", ReturnsOf(disk, v.doc)) <= v.data.subtotal
<1>1. PICK M, H, R : /\ M = PapersOf(todo, disk) /\ H = RefundsOf(M, v.doc)
                     /\ R = ReturnsOf(disk, v.doc)
  OBVIOUS
<1>2. PapersSound(M) /\ Asked(M) /\ \A r \in disk : ReturnedLine(r, M)
  BY <1>1 DEF RefundInv, Returned
<1>3. v \in M
  BY <1>1, PapersAre DEF Papers
<1>4. /\ IsFiniteSet(H) /\ \A h \in H : h.data.subtotal \in Nat
      /\ SumOf("subtotal", H) <= v.data.subtotal
  BY <1>1, <1>2, <1>3, RefundsAtMost
<1>5. \A r \in R : /\ r \in disk /\ r.kind = "journal_lines" /\ r.n = 1
                   /\ \E h \in H : h.doc = r.doc /\ h.data.subtotal = r.data.debit
  <2>. SUFFICES ASSUME NEW r \in R
                PROVE  /\ r \in disk /\ r.kind = "journal_lines" /\ r.n = 1
                       /\ \E h \in H : h.doc = r.doc /\ h.data.subtotal = r.data.debit
    OBVIOUS
  <2>1. r \in disk /\ r.kind = "journal_lines" /\ r.data.account = "4100"
    BY <1>1 DEF ReturnsOf, Of
  <2>2. PICK c \in Commands : /\ c.op = "billing.create_refund" /\ c.invoice = v.doc
                              /\ c.doc = r.doc
    BY <1>1 DEF ReturnsOf
  <2>3. r.doc \in RefundIds
    BY <2>2 DEF RefundIds
  <2>4. r.n = 1 /\ OfRefund(M, r.doc, r.data.debit)
    BY <1>2, <2>1, <2>3 DEF ReturnedLine
  <2>5. PICK h \in M : /\ h.kind = "refunds" /\ h.doc = r.doc
                       /\ h.data.subtotal = r.data.debit
    BY <2>4 DEF OfRefund
  <2>6. PICK e \in Commands : /\ e.op = "billing.create_refund" /\ e.doc = h.doc
                              /\ e.invoice = h.data.invoice
    BY <1>2, <2>5 DEF Asked
  <2>7. h.data.invoice = v.doc
    BY <2>2, <2>5, <2>6 DEF OneInvoicePerRefund
  <2>8. h \in H
    BY <1>1, <2>5, <2>7 DEF RefundsOf, Of
  <2>. QED  BY <2>1, <2>4, <2>5, <2>8
<1>6. PICK phi : phi = [r \in R |-> CHOOSE h \in H : /\ h.doc = r.doc
                                                     /\ h.data.subtotal = r.data.debit]
  OBVIOUS
<1>7. \A r \in R : phi[r] \in H /\ phi[r].doc = r.doc /\ phi[r].data.subtotal = r.data.debit
  BY <1>5, <1>6
<1>8. PICK Q, f, g : /\ Q = {phi[r] : r \in R}
                     /\ f = [r \in R |-> r.data["debit"]]
                     /\ g = [h \in Q |-> h.data["subtotal"]]
  OBVIOUS
<1>9. IsFiniteSet(R)
  <2>1. IsFiniteSet(disk)
    BY SealFacts DEF RefundInv, FairInv, SaneInv, SaneDisk
  <2>2. R \subseteq disk
    BY <1>5
  <2>. QED  BY <2>1, <2>2, FS_Subset
<1>10. /\ \A r \in R : phi[r] \in Q
       /\ \A y \in Q : \E x \in R : y = phi[x]
       /\ \A x, y \in R : phi[x] = phi[y] => x = y
  <2>1. \A x, y \in R : phi[x] = phi[y] => Key(x) = Key(y)
    BY <1>5, <1>7 DEF Key
  <2>2. \A x, y \in disk : Key(x) = Key(y) => x = y
    BY DEF RefundInv
  <2>. QED  BY <1>5, <1>8, <2>1, <2>2
<1>11. \A x \in R : f[x] \in Int /\ g[phi[x]] = f[x]
  <2>1. \A x \in R : /\ f[x] = x.data.debit /\ g[phi[x]] = phi[x].data.subtotal
                     /\ phi[x].data.subtotal \in Nat
    BY <1>4, <1>7, <1>8, <1>10
  <2>. QED  BY <1>7, <2>1
<1>12. SumFunctionOnSet(g, Q) = SumFunctionOnSet(f, R)
  BY ONLY <1>9, <1>10, <1>11, SumImage
<1>13. Q \subseteq H /\ \A h \in H : h.data["subtotal"] \in Nat
  BY <1>4, <1>7, <1>8
<1>14. SumOf("subtotal", Q) <= SumOf("subtotal", H)
  BY ONLY <1>4, <1>13, SumOfPart
<1>15. SumOf("debit", R) = SumFunctionOnSet(f, R)
  BY <1>8, <1>9, SumOfOn
<1>16. SumOf("subtotal", Q) = SumFunctionOnSet(g, Q)
  <2>1. IsFiniteSet(Q)
    BY <1>4, <1>13, FS_Subset
  <2>. QED  BY <1>8, <2>1, SumOfOn
<1>17. SumOf("debit", R) = SumOf("subtotal", Q)
  BY ONLY <1>12, <1>15, <1>16
<1>18. SumOf("subtotal", Q) \in Nat /\ SumOf("subtotal", H) \in Nat
  <2>1. IsFiniteSet(Q) /\ \A h \in Q : h.data["subtotal"] \in Nat
    BY <1>4, <1>13, FS_Subset
  <2>2. SumOf("subtotal", Q) \in Nat
    BY ONLY <2>1, SumOfNatural
  <2>3. SumOf("subtotal", H) \in Nat
    BY ONLY <1>4, <1>13, SumOfNatural
  <2>. QED  BY <2>2, <2>3
<1>19. v.data.subtotal \in Int
  <2>1. SaneDisk(disk)
    BY SealFacts DEF RefundInv, FairInv, SaneInv
  <2>. QED  BY <2>1 DEF SaneDisk, SaneRecord
<1>. QED  BY <1>1, <1>4, <1>14, <1>17, <1>18, <1>19

(* What the ledger returns for the refunds of an invoice never exceeds     *)
(* what was invoiced, at any moment: create_refund checks the quantity of  *)
(* each item and price against what earlier refunds left, and posts the    *)
(* refund's journal before its header and lines.  Without faults, since a  *)
(* refund cut short between the two can be made again; and a refund id is  *)
(* for one invoice.                                                        *)
THEOREM RefundsStayWithin ==
  ASSUME Orderly, IssuesLeaveCost, OneInvoicePerRefund
  PROVE  Spec => []RefundsWithinInvoice
<1>1. Init => RefundInv
  BY InitRefunds
<1>2. RefundInv /\ [Next]_vars => RefundInv'
  BY NextRefunds
<1>3. RefundInv => RefundsWithinInvoice
  <2>. SUFFICES ASSUME RefundInv, NEW v \in disk, v.kind = "invoices"
                PROVE  SumOf("debit", ReturnsOf(disk, v.doc)) <= v.data.subtotal
    BY DEF RefundsWithinInvoice, ReturnsOf, Of
  <2>. QED  BY ReturnsWithin
<1>. QED  BY <1>1, <1>2, <1>3, PTL DEF Spec

-----------------------------------------------------------------------------
(* Income, and the tax report.                                             *)

LEMMA NotBelowZero ==
  ASSUME NEW x \in Int, x >= 0
  PROVE  Max({x, 0}) = x
<1>1. PICK m : m = Max({x, 0})
  OBVIOUS
<1>2. m \in {x, 0} /\ \A y \in {x, 0} : m >= y
  BY <1>1 DEF Max
<1>. QED  BY <1>1, <1>2

(* Expenses that stand on the debit side are reported as they are.         *)
LEMMA NetExpenseIs ==
  ASSUME NEW d, SaneDisk(d), \A r \in d : InRupees(r), NEW p,
         \A a \in Expense : DebitBalance(d, p, a) >= 0,
         NEW A, A \subseteq Expense, IsFiniteSet(A),
         NEW f, f = [a \in Revenue \cup Expense |-> DebitBalance(d, p, a)]
  PROVE  NetExpense(d, p, "INR", A) = SumFunctionOnSet(f, A)
<1>1. PICK P, g : /\ P = AccountsPosted(d, p, "INR")
                  /\ g = [a \in P \cap A |-> Max({LedgerReport(d, p, "INR")[a].balance, 0})]
  OBVIOUS
<1>2. \A a : /\ DebitBalance(d, p, a) \in Int
             /\ a \notin P => DebitBalance(d, p, a) = 0
  BY <1>1, BalanceIs
<1>3. \A a \in A : /\ f[a] = DebitBalance(d, p, a) /\ f[a] \in Int /\ f[a] >= 0
                   /\ a \notin P => f[a] = 0
  BY <1>2
<1>4. \A a \in P : LedgerReport(d, p, "INR")[a].balance
                     = IF a \in DebitNormal THEN DebitBalance(d, p, a) ELSE -DebitBalance(d, p, a)
  BY <1>1 DEF LedgerReport
<1>5. ASSUME NEW a \in P \cap A
      PROVE  g[a] = f[a]
  <2>1. a \in DebitNormal
    BY DEF DebitNormal
  <2>2. LedgerReport(d, p, "INR")[a].balance = f[a]
    BY <1>3, <1>4, <2>1
  <2>3. g[a] = Max({f[a], 0})
    BY <1>1, <2>2
  <2>4. f[a] \in Int /\ f[a] >= 0
    BY <1>3
  <2>. QED  BY <2>3, <2>4, NotBelowZero
<1>6. DOMAIN g = P \cap A
  BY <1>1
<1>7. SumFunction(g) = SumFunctionOnSet(f, A)
  <2>1. DOMAIN g \subseteq A
    BY <1>6
  <2>2. \A a \in A : f[a] \in Int /\ f[a] = IF a \in DOMAIN g THEN g[a] ELSE 0
    BY <1>3, <1>5, <1>6
  <2>. QED  BY <2>1, <2>2, SumPosted
<1>. QED  BY <1>1, <1>7 DEF NetExpense

LEMMA IncomeIs ==
  ASSUME NEW d, SaneDisk(d), \A r \in d : InRupees(r), NEW p,
         \A a \in Expense : DebitBalance(d, p, a) >= 0
  PROVE  ProfitAndLoss(d, p, "INR").netIncome
           = -SumFunction([a \in Revenue \cup Expense |-> DebitBalance(d, p, a)])
<1>1. PICK f : f = [a \in Revenue \cup Expense |-> DebitBalance(d, p, a)]
  OBVIOUS
<1>2. \A a : DebitBalance(d, p, a) \in Int
  BY BalanceIs
<1>3. /\ \A a \in Revenue \cup Expense : f[a] = DebitBalance(d, p, a) /\ f[a] \in Int
      /\ Revenue = {"4000", "4100"} /\ Expense = {"5000", "5100"}
  BY <1>1, <1>2 DEF Revenue, Expense
<1>4. PICK x, y, z, w : /\ x = f["4000"] /\ y = f["4100"] /\ z = f["5000"] /\ w = f["5100"]
                        /\ x \in Int /\ y \in Int /\ z \in Int /\ w \in Int
  BY <1>3
<1>5. IsFiniteSet(Revenue) /\ SumFunctionOnSet(f, Revenue) = x + y
  BY <1>3, <1>4, SumPair
<1>6. IsFiniteSet(Expense) /\ SumFunctionOnSet(f, Expense) = z + w
  BY <1>3, <1>4, SumPair
<1>7. NetRevenue(d, p, "INR") = -(x + y)
  BY <1>3, <1>4, NetRevenueIs
<1>8. NetExpense(d, p, "INR", Expense) = z + w
  BY <1>1, <1>6, NetExpenseIs
<1>9. NetExpense(d, p, "INR", {"5000"}) = z
  <2>1. IsFiniteSet({"5000"}) /\ {"5000"} \subseteq Expense
    BY <1>3, FS_Singleton
  <2>2. SumFunctionOnSet(f, {"5000"}) = f["5000"]
    BY <1>4, SumSingleton
  <2>. QED  BY <1>1, <1>4, <2>1, <2>2, NetExpenseIs
<1>10. SumFunction(f) = (x + y) + (z + w)
  <2>1. Revenue \cap Expense = {}
    BY <1>3
  <2>2. SumFunctionOnSet(f, Revenue \cup Expense)
          = SumFunctionOnSet(f, Revenue) + SumFunctionOnSet(f, Expense)
    BY <1>3, <1>5, <1>6, <2>1, SumUnion
  <2>3. SumFunction(f) = SumFunctionOnSet(f, Revenue \cup Expense)
    BY <1>1 DEF SumFunction
  <2>. QED  BY <1>5, <1>6, <2>2, <2>3
<1>11. ProfitAndLoss(d, p, "INR").netIncome = (-(x + y) - z) - ((z + w) - z)
  BY <1>7, <1>8, <1>9 DEF ProfitAndLoss
<1>12. (-(x + y) - z) - ((z + w) - z) = -((x + y) + (z + w))
  <2>1. x \in Int /\ y \in Int /\ z \in Int /\ w \in Int
    BY <1>4
  <2>. QED  BY ONLY <2>1
<1>. QED  BY <1>1, <1>10, <1>11, <1>12

LEMMA TaxIs ==
  ASSUME NEW d, SaneDisk(d), \A r \in d : InRupees(r), NEW p, Reconciles(d, p)
  PROVE  TaxReport(d, p, "INR").payable
           = TaxReport(d, p, "INR").collected - RefundReport(d, {p}, "INR").tax
<1>1. \A kind \in {"invoices", "refunds"} :
        {h \in Headers(d, kind, {p}) : h.data.currency = "INR"} = InPeriod(d, kind, p)
  BY DEF Headers, InPeriod, Of, InRupees
<1>2. /\ TaxReport(d, p, "INR").collected = Taxes(d, "invoices", p)
      /\ RefundReport(d, {p}, "INR").tax = Taxes(d, "refunds", p)
  BY <1>1 DEF TaxReport, InvoiceReport, RefundReport, Totals, Taxes
<1>3. Taxes(d, "invoices", p) - Taxes(d, "refunds", p) = -DebitBalance(d, p, "2100")
  BY DEF Reconciles
<1>4. /\ DebitBalance(d, p, "2100") \in Int
      /\ "2100" \notin AccountsPosted(d, p, "INR") => DebitBalance(d, p, "2100") = 0
  BY BalanceIs
<1>5. TaxReport(d, p, "INR").payable = -DebitBalance(d, p, "2100")
  <2>1. CASE "2100" \in AccountsPosted(d, p, "INR")
    <3>1. "2100" \notin DebitNormal
      BY DEF DebitNormal, Expense
    <3>. QED  BY <2>1, <3>1 DEF TaxReport, LedgerReport
  <2>2. CASE "2100" \notin AccountsPosted(d, p, "INR")
    BY <1>4, <2>2 DEF TaxReport
  <2>. QED  BY <2>1, <2>2
<1>. QED  BY <1>2, <1>3, <1>5

(* No expense account of a period is credited more than debited.           *)
ExpensesStand ==
  todo = << >> => \A p \in PeriodsInUse, a \in Expense : DebitBalance(disk, p, a) >= 0

(* Net income in the profit and loss report is revenue less expenses as    *)
(* the ledger has them, and the tax report is what was collected less what *)
(* was refunded.  get_profit_and_loss_report counts an expense account     *)
(* credited more than debited as zero, which a refund in a later period    *)
(* than its sale can bring about, so this is a theorem about behaviours in *)
(* which no period comes to that; the tax report needs no such condition.  *)
THEOREM IncomeReadFromLedger ==
  ASSUME Orderly, IssuesLeaveCost, DatedTogether, OneCurrency, LeaveChecked
  PROVE  Spec /\ []ExpensesStand => []IncomeFromLedger
<1>1. Init => BooksInv
  BY InitBooks
<1>2. BooksInv /\ [Next]_vars => BooksInv'
  BY NextBooks
<1>3. BooksInv /\ ExpensesStand => IncomeFromLedger
  <2>. SUFFICES ASSUME BooksInv, ExpensesStand, todo = << >>,
                       NEW p \in PeriodsInUse, NEW currency \in Currencies
                PROVE  /\ OneCurrencyPerAccount(disk, p)
                       /\ ProfitAndLoss(disk, p, currency).netIncome
                            = -SumFunction([a \in Revenue \cup Expense |-> DebitBalance(disk, p, a)])
                       /\ TaxReport(disk, p, currency).payable
                            = TaxReport(disk, p, currency).collected
                                - RefundReport(disk, {p}, currency).tax
    BY DEF IncomeFromLedger
  <2>1. currency = "INR"
    BY DEF BooksInv, Currencies, InRupees, Of
  <2>2. \A r \in disk : InRupees(r)
    BY DEF BooksInv
  <2>3. SaneDisk(disk) /\ \A k \in Checks : Total(AtRest(k, p, disk), disk) = 0
    BY EvenAtRest
  <2>4. OneCurrencyPerAccount(disk, p)
    BY <2>2 DEF InRupees, OneCurrencyPerAccount, InPeriod, Of
  <2>5. Reconciles(disk, p)
    BY <2>3, <2>4, LinksReconcile
  <2>6. \A a \in Expense : DebitBalance(disk, p, a) >= 0
    BY DEF ExpensesStand
  <2>. QED  BY <2>1, <2>2, <2>3, <2>4, <2>5, <2>6, IncomeIs, TaxIs
<1>. QED  BY <1>1, <1>2, <1>3, PTL DEF Spec

-----------------------------------------------------------------------------
(* A transaction is corrected once.  The journal of a correction names its *)
(* transaction, and from its header on nothing can keep the recovery       *)
(* command from recording that the transaction was corrected.              *)

LedgerParts == {"journal_lines", "accounting.journal_posted", "accounting.journal_posted.v1"}

(* What users ask for has neither the name nor the source document of a    *)
(* correction.                                                             *)
Outside(c) == c.doc \notin Nat /\ (c.op = "accounting.post_journal" => c.source \notin Nat)

Corrects(r) == r.kind = "journal_entries" /\ r.data.source \in Nat

EntryStep(x) == x.do = "put" /\ x.rec.kind = "journal_entries"

PostsOutside(x) ==
  /\ EntryStep(x) => ~Corrects(x.rec)
  /\ x.do = "call" => Outside(x.cmd)

(* Nothing of a journal goes before its header.                            *)
HeaderFirst(s, keys) ==
  \A i \in DOMAIN s : s[i].do = "put" /\ s[i].rec.kind \in LedgerParts =>
    Settled(<<"journal_entries", s[i].rec.doc, 0>>, i, s, keys)

JournalsHeaded == \A r \in disk : r.kind \in LedgerParts => <<"journal_entries", r.doc, 0>> \in Keys

(* No step left will be refused.                                           *)
Sure(s, d) ==
  /\ Apart(s) /\ Unclaimed(s, d)
  /\ \A x : In(x, s) /\ x.do = "put" => x.rec.kind \notin RejectedEvents

Resolved(n) == <<"reconciliation_records", n, 1>>

Resolves(n) == Sure(todo, disk) /\ Putting(todo, Resolved(n))

CorrectInv ==
  /\ RecoverInv
  /\ HeaderFirst(todo, Keys) /\ JournalsHeaded
  /\ \A r, q \in disk :
       Corrects(r) /\ Corrects(q) /\ r.data.source = q.data.source => r = q
  /\ \A r \in disk : Corrects(r) =>
       \/ Resolved(r.data.source) \in Keys
       \/ process = "cli" /\ Resolves(r.data.source)
  /\ process # "cli" => \A x : In(x, todo) => PostsOutside(x)
  /\ process = "cli" => \A i \in DOMAIN todo : EntryStep(todo[i]) =>
       /\ i = 1 /\ Resolves(todo[i].rec.data.source)
       /\ \A r \in disk : Corrects(r) => r.data.source # todo[i].rec.data.source

LEMMA PieceHeaderFirst ==
  ASSUME NEW c, NEW d, NEW n, Command(c)
  PROVE  HeaderFirst(Piece(c, d, n), {})
<1>. DEFINE p == Piece(c, d, n)
<1>. SUFFICES ASSUME NEW i \in DOMAIN p, p[i].do = "put", p[i].rec.kind \in LedgerParts
              PROVE  Settled(<<"journal_entries", p[i].rec.doc, 0>>, i, p, {})
  BY DEF HeaderFirst
<1>1. c.op = "accounting.post_journal" /\ p[i].rec.doc = c.doc
  <2>1. In(p[i], p)
    BY DEF In
  <2>2. PICK x : x = p[i]
    OBVIOUS
  <2>. HIDE DEF p
  <2>3. In(x, Piece(c, d, n)) /\ x.do = "put" /\ x.rec.kind \in LedgerParts
    BY <2>1, <2>2 DEF p
  <2>4. /\ MovePut(c, d).rec.kind = "stock_movements"
        /\ InvoicePut(c).rec.kind = "invoices" /\ RefundPut(c).rec.kind = "refunds"
        /\ \A j : /\ InvoiceLinePut(c, d, j).rec.kind = "invoice_lines"
                  /\ RefundLinePut(c, d, j).rec.kind = "refund_lines"
    BY DEF MovePut, InvoicePut, InvoiceLinePut, RefundPut, RefundLinePut, Put
  <2>5. x.rec.doc = c.doc /\ c.op = "accounting.post_journal"
    BY <2>3, <2>4, PutIs DEF LedgerParts, CloseKinds
  <2>. QED  BY <2>2, <2>5 DEF p
<1>2. DOMAIN p = 1..Len(p) /\ Len(p) \in Nat /\ p[1] = EntryPut(c)
  <2>1. PICK q, k : q = Piece(c, d, n) /\ k = Len(c.lines)
    OBVIOUS
  <2>2. DOMAIN q = 1..Len(q) /\ Len(q) \in Nat /\ q[1] = EntryPut(c)
    BY <1>1, <2>1, JournalAt
  <2>. QED  BY <2>1, <2>2
<1>. HIDE DEF p
<1>3. EntryPut(c).do = "put" /\ EntryPut(c).rec.kind = "journal_entries"
      /\ Key(EntryPut(c).rec) = <<"journal_entries", c.doc, 0>>
  BY DEF EntryPut, Put, Key
<1>4. i # 1
  BY <1>2, <1>3 DEF LedgerParts
<1>5. 1 \in 1..i-1
  BY <1>2, <1>4
<1>6. Provides(p[1], <<"journal_entries", c.doc, 0>>)
  BY <1>2, <1>3 DEF Provides
<1>. QED  BY <1>1, <1>5, <1>6 DEF Settled

LEMMA HeaderFirstTail ==
  ASSUME NEW s, NEW keys, NEW more, IsSeq(s), s # << >>, keys \subseteq more,
         \A k : Provides(Head(s), k) => k \in more, HeaderFirst(s, keys)
  PROVE  HeaderFirst(Tail(s), more)
<1>. DEFINE t == Tail(s)
<1>1. /\ Len(s) \in Nat /\ DOMAIN s = 1..Len(s) /\ DOMAIN t = 1..Len(s) - 1
      /\ \A i \in DOMAIN t : i + 1 \in DOMAIN s /\ t[i] = s[i + 1]
  BY TailFacts
<1>2. ASSUME NEW i \in DOMAIN t, NEW k, Settled(k, i + 1, s, keys)
      PROVE  Settled(k, i, t, more)
  <2>1. i \in 1..Len(s)
    BY <1>1
  <2>. QED  BY <1>2, <2>1, SettledTail
<1>. HIDE DEF t
<1>3. ASSUME NEW i \in DOMAIN t, t[i].do = "put", t[i].rec.kind \in LedgerParts
      PROVE  Settled(<<"journal_entries", t[i].rec.doc, 0>>, i, t, more)
  <2>1. i + 1 \in DOMAIN s /\ t[i] = s[i + 1]
    BY <1>1
  <2>2. Settled(<<"journal_entries", t[i].rec.doc, 0>>, i + 1, s, keys)
    BY <1>3, <2>1 DEF HeaderFirst
  <2>. QED  BY <1>2, <2>2
<1>. QED  BY <1>3 DEF HeaderFirst, t

LEMMA HeaderFirstEnter ==
  ASSUME NEW c, NEW d, NEW n, NEW rest, NEW keys, NEW more, Command(c), IsSeq(rest),
         HeaderFirst(rest, more), more \subseteq keys \cup Owed(c)
  PROVE  HeaderFirst(Piece(c, d, n) \o rest, keys)
<1>. DEFINE p == Piece(c, d, n)
            t == p \o rest
<1>1. /\ Len(p) \in Nat /\ DOMAIN p = 1..Len(p) /\ Len(rest) \in Nat
      /\ DOMAIN rest = 1..Len(rest) /\ DOMAIN t = 1..Len(p) + Len(rest)
      /\ \A i \in DOMAIN p : t[i] = p[i]
      /\ \A i \in DOMAIN t : i \notin DOMAIN p =>
           LET j == i - Len(p) IN j \in DOMAIN rest /\ t[i] = rest[j] /\ i = Len(p) + j
  BY PieceBefore
<1>2. HeaderFirst(p, {})
  BY PieceHeaderFirst
<1>3. ASSUME NEW i \in DOMAIN rest, NEW k, Settled(k, i, rest, more)
      PROVE  Settled(k, Len(p) + i, t, keys)
  <2>1. i \in 1..Len(rest) + 1
    BY <1>1
  <2>. QED  BY <1>3, <2>1, SettledBefore
<1>. HIDE DEF p
<1>4. ASSUME NEW i \in DOMAIN p, NEW k, Settled(k, i, p, {})
      PROVE  Settled(k, i, t, keys)
  <2>1. PICK j \in 1..i-1 : Provides(p[j], k)
    BY <1>4 DEF Settled
  <2>2. t[j] = p[j]
    BY <1>1, <2>1
  <2>. QED  BY <2>1, <2>2 DEF Settled
<1>. HIDE DEF t
<1>5. ASSUME NEW i \in DOMAIN t, t[i].do = "put", t[i].rec.kind \in LedgerParts
      PROVE  Settled(<<"journal_entries", t[i].rec.doc, 0>>, i, t, keys)
  <2>1. CASE i \in DOMAIN p
    <3>1. t[i] = p[i]
      BY <1>1, <2>1
    <3>2. Settled(<<"journal_entries", t[i].rec.doc, 0>>, i, p, {})
      BY <1>2, <1>5, <2>1, <3>1 DEF HeaderFirst
    <3>. QED  BY <1>4, <2>1, <3>2
  <2>2. CASE i \notin DOMAIN p
    <3>1. PICK j \in DOMAIN rest : t[i] = rest[j] /\ i = Len(p) + j
      BY <1>1, <1>5, <2>2
    <3>2. Settled(<<"journal_entries", t[i].rec.doc, 0>>, j, rest, more)
      BY <1>5, <3>1 DEF HeaderFirst
    <3>. QED  BY <1>3, <3>1, <3>2
  <2>. QED  BY <2>1, <2>2
<1>. QED  BY <1>5 DEF HeaderFirst, t, p

LEMMA OthersHeaderFirst ==
  ASSUME NEW s, NEW keys, \A x : In(x, s) /\ x.do = "put" => x.rec.kind \notin LedgerParts
  PROVE  HeaderFirst(s, keys)
BY DEF HeaderFirst, In

LEMMA PieceOutside ==
  ASSUME NEW c, NEW d, NEW n, Command(c), Outside(c), NEW x, In(x, Piece(c, d, n))
  PROVE  PostsOutside(x)
<1>1. ASSUME EntryStep(x) PROVE ~Corrects(x.rec)
  <2>1. x.do = "put" /\ x.rec.kind = "journal_entries"
    BY <1>1 DEF EntryStep
  <2>2. c.op = "accounting.post_journal" /\ x = EntryPut(c)
    BY <2>1, PutIs DEF MovePut, CloseKinds, InvoicePut, InvoiceLinePut, RefundPut,
       RefundLinePut, LinePut, Put
  <2>3. x.rec.data.source = c.source
    BY <2>2 DEF EntryPut, Put
  <2>. QED  BY <2>2, <2>3 DEF Corrects, Outside
<1>2. ASSUME x.do = "call" PROVE Outside(x.cmd)
  <2>1. \A j : Call(j).cmd = j
    BY DEF Call
  <2>2. c.doc \notin Nat
    BY DEF Outside
  <2>3. /\ \A v : Outside(MovementJournal(c, v))
        /\ \A v : Outside(InvoiceJournal(c, v))
        /\ \A v : Outside(RefundJournal(c, v))
    BY <2>2 DEF MovementJournal, InvoiceJournal, RefundJournal, Journal, Outside
  <2>4. \A i : Outside(SaleMovement(c, i)) /\ Outside(ReturnMovement(c, i, d))
    BY <2>2 DEF SaleMovement, ReturnMovement, Movement, Outside
  <2>5. \/ x = Call(MovementJournal(c, ValueDelta(c, d)))
        \/ x = Call(InvoiceJournal(c, SumFunction(InvoiceCogs(c, d))))
        \/ \E i \in DOMAIN c.lines : x = Call(SaleMovement(c, i))
        \/ x = Call(RefundJournal(c, SumFunction(RefundCogs(c, d))))
        \/ \E i \in DOMAIN c.lines : x = Call(ReturnMovement(c, i, d))
    BY <1>2, CallIs
  <2>. QED  BY <2>1, <2>3, <2>4, <2>5
<1>. QED  BY <1>1, <1>2 DEF PostsOutside

LEMMA PricedOutside ==
  ASSUME NEW c, NEW d, Command(c), Outside(c)
  PROVE  Outside(Priced(c, d))
<1>1. CASE c.op = "inventory.commit_movement" /\ c.by = "sale"
  <2>1. DOMAIN c = Fields("inventory.commit_movement")
    BY <1>1 DEF Command
  <2>2. Priced(c, d).op = c.op /\ Priced(c, d).doc = c.doc
    BY <1>1, <2>1 DEF Priced, Fields
  <2>. QED  BY <1>1, <2>2 DEF Outside
<1>2. CASE ~(c.op = "inventory.commit_movement" /\ c.by = "sale")
  BY <1>2 DEF Priced
<1>. QED  BY <1>1, <1>2

-----------------------------------------------------------------------------
(* Going on with the first step.                                           *)

LEMMA SureTail ==
  ASSUME NEW s, NEW d, NEW e, IsSeq(s), s # << >>, Sure(s, d),
         \/ e = d
         \/ Head(s).do = "put" /\ e = d \cup {Head(s).rec}
  PROVE  Sure(Tail(s), e)
<1>1. PICK y, t : y = Head(s) /\ t = Tail(s)
  OBVIOUS
<1>2. Apart(t) /\ \A x : In(x, t) => Clear(y, x)
  BY <1>1, TailApart DEF Sure
<1>3. \A x : In(x, t) => In(x, s)
  BY <1>1, HeadAndTail
<1>4. ASSUME y.do = "put", NEW x, In(x, t)
      PROVE  ~Claims(x, y.rec.kind, y.rec.doc, y.rec.n)
  <2>1. Claims(y, y.rec.kind, y.rec.doc, y.rec.n)
    BY <1>4 DEF Claims
  <2>. QED  BY <1>2, <1>4, <2>1 DEF Clear
<1>5. Unclaimed(t, e)
  BY <1>1, <1>3, <1>4 DEF Sure, Unclaimed
<1>. QED  BY <1>1, <1>2, <1>3, <1>5 DEF Sure

LEMMA ResolvesOn ==
  ASSUME CorrectInv, AppendRecord \/ CommitTransaction, process = "cli",
         NEW m, Resolves(m)
  PROVE  Resolved(m) \in Keys' \/ (process' = "cli" /\ Resolves(m)')
<1>0. PICK y, t : y = Head(todo) /\ t = Tail(todo)
  OBVIOUS
<1>1. /\ todo # << >> /\ IsSeq(todo) /\ IsSeq(t) /\ todo' = t
      /\ \/ y.do # "put" /\ disk' = disk
         \/ y.do = "put" /\ disk' = disk \cup {y.rec}
  BY <1>0, GoOn DEF CorrectInv, RecoverInv
<1>2. PICK x : In(x, todo) /\ x.do = "put" /\ Key(x.rec) = Resolved(m)
  BY DEF Resolves, Putting
<1>3. x = y \/ In(x, t)
  BY <1>0, <1>1, <1>2, HeadOrTail
<1>4. CASE x = y
  BY <1>1, <1>2, <1>4 DEF Keys
<1>5. CASE In(x, t)
  <2>1. t # << >>
    BY <1>5, NoSteps
  <2>2. process' = "cli"
    BY <1>0, <2>1 DEF AppendRecord, CommitTransaction, Leave
  <2>3. Sure(t, disk')
    BY <1>0, <1>1, SureTail DEF Resolves
  <2>. QED  BY <1>1, <1>2, <1>5, <2>2, <2>3 DEF Resolves, Putting
<1>. QED  BY <1>3, <1>4, <1>5

LEMMA LaterSteps ==
  ASSUME CorrectInv, AppendRecord \/ CommitTransaction
  PROVE  /\ process' # "cli" => \A x : In(x, todo') => PostsOutside(x)
         /\ process' = "cli" => \A i \in DOMAIN todo' : ~EntryStep(todo'[i])
<1>1. /\ todo # << >> /\ IsSeq(todo) /\ todo' = Tail(todo)
      /\ \A x : In(x, todo') => In(x, todo)
  BY GoOn DEF CorrectInv, RecoverInv
<1>2. process' = IF process = "cli" /\ todo' = << >> THEN "none" ELSE process
  BY DEF AppendRecord, CommitTransaction, Leave
<1>3. CASE process # "cli"
  BY <1>1, <1>2, <1>3 DEF CorrectInv
<1>4. CASE process = "cli"
  <2>1. PICK t : t = Tail(todo)
    OBVIOUS
  <2>2. /\ IsSeq(t) /\ \A i \in DOMAIN t : i + 1 \in DOMAIN todo /\ t[i] = todo[i + 1]
    BY <1>1, <2>1, TailFacts
  <2>3. DOMAIN t = 1..Len(t) /\ Len(t) \in Nat
    BY <2>2, StepsCounted
  <2>4. \A i \in DOMAIN t : i + 1 # 1
    BY <2>3
  <2>5. \A i \in DOMAIN t : ~EntryStep(t[i])
    BY <1>4, <2>2, <2>4 DEF CorrectInv
  <2>6. process' # "cli" => todo' = << >>
    BY <1>2, <1>4
  <2>. QED  BY <1>1, <2>1, <2>5, <2>6, NoSteps
<1>. QED  BY <1>3, <1>4

LEMMA AppendCorrects ==
  ASSUME CorrectInv, AppendRecord, RecoverInv'
  PROVE  CorrectInv'
<1>0. PICK y, t, r : y = Head(todo) /\ t = Tail(todo) /\ r = y.rec
  OBVIOUS
<1>1. /\ todo # << >> /\ IsSeq(todo) /\ In(y, todo) /\ IsSeq(t) /\ todo' = t
      /\ y.do = "put" /\ disk' = disk \cup {r}
  BY <1>0, GoOn DEF CorrectInv, RecoverInv
<1>2. Keys' = Keys \cup {Key(r)}
  BY <1>1 DEF Keys
<1>3. HeaderFirst(t, Keys')
  <2>1. \A k : Provides(y, k) => k \in Keys'
    BY <1>0, <1>1, <1>2 DEF Provides
  <2>. QED  BY <1>0, <1>1, <1>2, <2>1, HeaderFirstTail DEF CorrectInv
<1>4. 1 \in DOMAIN todo /\ todo[1] = y
  BY <1>0, <1>1, TailFacts
<1>5. JournalsHeaded'
  <2>1. \A k : Settled(k, 1, todo, Keys) => k \in Keys
    BY DEF Settled
  <2>2. r.kind \in LedgerParts => <<"journal_entries", r.doc, 0>> \in Keys
    BY <1>0, <1>1, <1>4, <2>1 DEF CorrectInv, HeaderFirst
  <2>. QED  BY <1>1, <1>2, <2>2 DEF CorrectInv, JournalsHeaded
<1>6. Corrects(r) => /\ process = "cli" /\ Resolves(r.data.source)
                     /\ \A q \in disk : Corrects(q) => q.data.source # r.data.source
  <2>. SUFFICES ASSUME Corrects(r)
                PROVE  /\ process = "cli" /\ Resolves(r.data.source)
                       /\ \A q \in disk : Corrects(q) => q.data.source # r.data.source
    OBVIOUS
  <2>1. EntryStep(todo[1]) /\ todo[1].rec = r
    BY <1>0, <1>1, <1>4 DEF EntryStep, Corrects
  <2>2. process = "cli"
    BY <1>0, <1>1, <1>4, <2>1 DEF CorrectInv, PostsOutside
  <2>. QED  BY <1>4, <2>1, <2>2 DEF CorrectInv
<1>7. \A p, q \in disk' :
        Corrects(p) /\ Corrects(q) /\ p.data.source = q.data.source => p = q
  BY <1>1, <1>6 DEF CorrectInv
<1>8. ASSUME NEW q \in disk', Corrects(q)
      PROVE  Resolved(q.data.source) \in Keys' \/ (process' = "cli" /\ Resolves(q.data.source)')
  <2>1. \/ Resolved(q.data.source) \in Keys
        \/ process = "cli" /\ Resolves(q.data.source)
    BY <1>1, <1>6, <1>8 DEF CorrectInv
  <2>2. CASE Resolved(q.data.source) \in Keys
    BY <1>2, <2>2
  <2>3. CASE process = "cli" /\ Resolves(q.data.source)
    <3>1. PICK m : m = q.data.source
      OBVIOUS
    <3>2. Resolved(m) \in Keys' \/ (process' = "cli" /\ Resolves(m)')
      BY <2>3, <3>1, ResolvesOn
    <3>. QED  BY <3>1, <3>2
  <2>. QED  BY <2>1, <2>2, <2>3
<1>. QED  BY <1>1, <1>3, <1>5, <1>7, <1>8, LaterSteps DEF CorrectInv

LEMMA CommitCorrects ==
  ASSUME CorrectInv, CommitTransaction, RecoverInv'
  PROVE  CorrectInv'
<1>0. PICK y, t : y = Head(todo) /\ t = Tail(todo)
  OBVIOUS
<1>1. /\ todo # << >> /\ IsSeq(todo) /\ IsSeq(t) /\ todo' = t
      /\ y.do = "commit" /\ disk' = disk
  BY <1>0, GoOn DEF CorrectInv, RecoverInv
<1>2. Keys' = Keys
  BY <1>1 DEF Keys
<1>3. HeaderFirst(t, Keys')
  <2>1. \A k : ~Provides(y, k)
    BY <1>1 DEF Provides
  <2>. QED  BY <1>0, <1>1, <1>2, <2>1, HeaderFirstTail DEF CorrectInv
<1>4. JournalsHeaded'
  BY <1>1, <1>2 DEF CorrectInv, JournalsHeaded
<1>5. ASSUME NEW q \in disk', Corrects(q)
      PROVE  Resolved(q.data.source) \in Keys' \/ (process' = "cli" /\ Resolves(q.data.source)')
  <2>1. \/ Resolved(q.data.source) \in Keys
        \/ process = "cli" /\ Resolves(q.data.source)
    BY <1>1, <1>5 DEF CorrectInv
  <2>2. CASE process = "cli" /\ Resolves(q.data.source)
    <3>1. PICK m : m = q.data.source
      OBVIOUS
    <3>2. Resolved(m) \in Keys' \/ (process' = "cli" /\ Resolves(m)')
      BY <2>2, <3>1, ResolvesOn
    <3>. QED  BY <3>1, <3>2
  <2>. QED  BY <1>2, <2>1, <2>2
<1>. QED  BY <1>1, <1>3, <1>4, <1>5, LaterSteps DEF CorrectInv

-----------------------------------------------------------------------------
(* Starting an operation of the application, or calling one.               *)

LEMMA EnterCorrects ==
  ASSUME CorrectInv, process # "cli", process' # "cli", UNCHANGED disk, RecoverInv',
         NEW c, NEW known, NEW rest, NEW more, Command(c), Outside(c),
         Enter(c, known, rest), IsSeq(rest),
         HeaderFirst(rest, more), more \subseteq Keys \cup Owed(c),
         \A x : In(x, rest) => PostsOutside(x)
  PROVE  CorrectInv'
<1>. DEFINE p == Piece(c, disk, Len(wal) + 1)
<1>1. todo' = p \o rest
  BY DEF Enter, Piece
<1>2. Keys' = Keys
  BY DEF Keys
<1>3. HeaderFirst(p \o rest, Keys)
  BY HeaderFirstEnter
<1>4. IsSeq(p) /\ \A x : In(x, p) => PostsOutside(x)
  BY PieceOutside, PieceUnrelated
<1>. HIDE DEF p
<1>5. \A x : In(x, p \o rest) => PostsOutside(x)
  BY <1>4, Members
<1>6. JournalsHeaded'
  BY <1>2 DEF CorrectInv, JournalsHeaded
<1>. QED  BY <1>1, <1>2, <1>3, <1>5, <1>6 DEF CorrectInv

LEMMA CallCorrects ==
  ASSUME CorrectInv, CallOperation, RecoverInv'
  PROVE  CorrectInv'
<1>1. PICK y, t, e, c : /\ y = Head(todo) /\ t = Tail(todo)
                        /\ e = y.cmd /\ c = Priced(e, disk)
  OBVIOUS
<1>2. /\ todo # << >> /\ y.do = "call" /\ Enter(c, closed, t) /\ UNCHANGED <<disk, process>>
  BY <1>1 DEF CallOperation, Doing
<1>3. IsSeq(todo) /\ IsSeq(t) /\ In(y, todo) /\ \A x : In(x, t) => In(x, todo)
  <2>1. IsSeq(todo)
    BY DEF CorrectInv, RecoverInv, CoreInv, Sound
  <2>. QED  BY <1>1, <1>2, <2>1, HeadAndTail
<1>4. process # "cli"
  BY <1>2, <1>3 DEF CorrectInv, RecoverInv, Recovering
<1>5. Command(e)
  BY <1>1, <1>2, <1>3 DEF CorrectInv, RecoverInv, CoreInv, Sound, Plain, Commits, In
<1>6. Outside(e)
  BY <1>1, <1>2, <1>3, <1>4 DEF CorrectInv, PostsOutside
<1>7. Command(c) /\ Outside(c) /\ Owed(c) = Owed(e)
  BY <1>1, <1>5, <1>6, PricedOwes, PricedOutside
<1>8. HeaderFirst(t, Keys \cup Owed(c))
  <2>1. \A k : Provides(y, k) => k \in Keys \cup Owed(c)
    BY <1>1, <1>2, <1>7 DEF Provides
  <2>2. PICK more : more = Keys \cup Owed(c)
    OBVIOUS
  <2>3. HeaderFirst(t, more)
    BY <1>1, <1>2, <1>3, <2>1, <2>2, HeaderFirstTail DEF CorrectInv
  <2>. QED  BY <2>2, <2>3
<1>9. \A x : In(x, t) => PostsOutside(x)
  BY <1>3, <1>4 DEF CorrectInv
<1>. QED  BY <1>2, <1>3, <1>4, <1>7, <1>8, <1>9, EnterCorrects

LEMMA BeginCorrects ==
  ASSUME CorrectInv, NEW c \in Commands, Outside(c), Begin(c), RecoverInv'
  PROVE  CorrectInv'
<1>1. /\ Enter(c, closed, << >>) /\ UNCHANGED disk /\ Command(c)
      /\ process # "cli" /\ process' # "cli"
  BY WorkflowsAssumption DEF Begin
<1>2. /\ IsSeq(<< >>) /\ \A x : In(x, << >>) => PostsOutside(x)
      /\ HeaderFirst(<< >>, {})
  BY NoSteps, OthersHeaderFirst
<1>. QED  BY <1>1, <1>2, EnterCorrects

(* A decision is recorded: every journal of a correction was resolved.     *)
LEMMA ReconcileCorrects ==
  ASSUME CorrectInv, NEW n, NEW d, Reconcile(n, d), RecoverInv'
  PROVE  CorrectInv'
<1>1. process = "none" /\ process' = "cli" /\ UNCHANGED disk
  BY DEF Reconcile
<1>2. Keys' = Keys
  BY <1>1 DEF Keys
<1>3. \A x : In(x, todo') /\ x.do = "put" =>
        x.rec.kind \notin LedgerParts /\ x.rec.kind # "journal_entries"
  <2>1. Commit(n).do = "commit"
    BY DEF Commit
  <2>. QED  BY <2>1, ReconcileIs DEF LedgerParts
<1>4. HeaderFirst(todo', Keys')
  BY <1>3, OthersHeaderFirst
<1>5. \A i \in DOMAIN todo' : ~EntryStep(todo'[i])
  BY <1>3 DEF EntryStep, In
<1>6. JournalsHeaded'
  BY <1>1, <1>2 DEF CorrectInv, JournalsHeaded
<1>. QED  BY <1>1, <1>2, <1>4, <1>5, <1>6 DEF CorrectInv

-----------------------------------------------------------------------------
(* A correction: nothing of its journal is there, and nothing of its       *)
(* resolution, so none of its steps will be refused.                       *)

LEMMA JournalAlone ==
  ASSUME NEW c, NEW d, NEW n, NEW p, p = Piece(c, d, n),
         Command(c), Numbers(c), c.op = "accounting.post_journal"
  PROVE  /\ IsSeq(p) /\ Apart(p) /\ Uses(p, LedgerFiles) /\ Stockless(p)
         /\ \A x : In(x, p) =>
              /\ x.do # "call"
              /\ x.do = "put" => x.rec.kind \in LedgerFiles /\ x.rec.doc = c.doc
<1>1. IsSeq(p) /\ Apart(p)
  BY PieceApart
<1>2. \A x : In(x, p) => x.do # "call"
  BY JournalPuts
<1>3. ASSUME NEW x, In(x, p), x.do = "put"
      PROVE  x.rec.kind \in LedgerFiles /\ x.rec.doc = c.doc
  <2>1. /\ EntryPut(c).rec.kind = "journal_entries"
        /\ \A i : LinePut(c, i).rec.kind = "journal_lines"
    BY DEF EntryPut, LinePut, Put
  <2>2. /\ x.rec.doc = c.doc
        /\ \/ x = EntryPut(c)
           \/ \E i \in DOMAIN c.lines : x = LinePut(c, i)
           \/ x.rec.kind \in {"accounting.journal_posted", "accounting.journal_posted.v1"}
    BY <1>3, PutIs
  <2>. QED  BY <2>1, <2>2 DEF LedgerFiles
<1>4. Uses(p, LedgerFiles)
  BY <1>2, <1>3 DEF Uses, Claims
<1>5. Stockless(p)
  BY <1>2, <1>3 DEF Stockless, Affects, LedgerFiles
<1>. QED  BY <1>1, <1>2, <1>3, <1>4, <1>5

LEMMA ResolutionAlone ==
  ASSUME NEW n, NEW r, r = Resolution(n)
  PROVE  /\ IsSeq(r) /\ Apart(r) /\ Uses(r, RecoveryKinds) /\ Stockless(r)
         /\ \A x : In(x, r) =>
              /\ x.do # "call"
              /\ x.do = "put" => /\ x.rec.kind \in RecoveryKinds
                                 /\ x.rec.doc = n /\ x.rec.n = 1
         /\ Putting(r, Resolved(n))
<1>. DEFINE a == Put("reconciliation_records", n, 1,
                     [decision |-> "requires_accounting_adjustment"])
            s == AuditAndEvent("recovery.accounting_adjustment_resolved",
                               "recovery.reconciliation_recorded.v1", n, 1)
            K == {"reconciliation_records", "recovery.accounting_adjustment_resolved",
                  "recovery.reconciliation_recorded.v1"}
            e == Commit(n)
<1>1. IsSeq(<< a >> \o s) /\ Apart(<< a >> \o s) /\ Uses(<< a >> \o s, K) /\ Stockless(<< a >> \o s)
  BY RecordsApart
<1>2. /\ r = (<< a >> \o s) \o << e >>
      /\ a.do = "put" /\ a.rec.doc = n /\ a.rec.n = 1 /\ a.rec.kind = "reconciliation_records"
      /\ Key(a.rec) = Resolved(n)
  BY DEF Resolution, Records, Put, Key, Resolved
<1>3. /\ IsSeq(s)
      /\ \A x : In(x, s) => x.do = "put" /\ x.rec.doc = n /\ x.rec.n = 1 /\ x.rec.kind \in K
  <2>1. \A x \in {Put("recovery.accounting_adjustment_resolved", n, 1, NoData),
                   Put("recovery.reconciliation_recorded.v1", n, 1, NoData)} :
           x.do = "put" /\ x.rec.doc = n /\ x.rec.n = 1 /\ x.rec.kind \in K
    BY DEF Put
  <2>. QED  BY <2>1, TwoSteps DEF AuditAndEvent
<1>4. e.do = "commit"
  BY DEF Commit
<1>5. /\ IsSeq(<< a >>) /\ \A x : In(x, << a >>) <=> x = a
      /\ IsSeq(<< e >>) /\ Apart(<< e >>) /\ \A x : In(x, << e >>) => x = e
  BY OneStep, OneApart
<1>6. Uses(<< e >>, {}) /\ Stockless(<< e >>)
  BY <1>4, <1>5 DEF Uses, Claims, Stockless, Affects
<1>. HIDE DEF a, s, e
<1>7. K \cap {} = {} /\ K \cup {} = K /\ K \subseteq RecoveryKinds
  BY DEF RecoveryKinds
<1>. HIDE DEF K
<1>8. IsSeq(r) /\ Apart(r) /\ Uses(r, K) /\ Stockless(r)
  <2>1. PICK u, v : u = << a >> \o s /\ v = << e >>
    OBVIOUS
  <2>2. IsSeq(u \o v) /\ Apart(u \o v) /\ Uses(u \o v, K \cup {}) /\ Stockless(u \o v)
    BY <1>1, <1>5, <1>6, <1>7, <2>1, KeepClear
  <2>. QED  BY <1>2, <1>7, <2>1, <2>2
<1>9. \A x : In(x, r) <=> x = a \/ In(x, s) \/ In(x, << e >>)
  <2>1. \A x : In(x, << a >> \o s) <=> In(x, << a >>) \/ In(x, s)
    BY <1>3, <1>5, Members
  <2>2. \A x : In(x, r) <=> In(x, << a >> \o s) \/ In(x, << e >>)
    BY <1>1, <1>2, <1>5, Members
  <2>. QED  BY <1>5, <2>1, <2>2
<1>10. Uses(r, RecoveryKinds)
  BY <1>7, <1>8 DEF Uses
<1>11. Putting(r, Resolved(n))
  BY <1>2, <1>9 DEF Putting
<1>12. "reconciliation_records" \in RecoveryKinds
  BY DEF RecoveryKinds
<1>. QED  BY <1>2, <1>3, <1>4, <1>5, <1>7, <1>8, <1>9, <1>10, <1>11, <1>12

LEMMA CorrectionIsSure ==
  ASSUME (RecoveryKinds \cup LedgerFiles) \cap RejectedEvents = {},
         CorrectInv, process # "cli", NEW n, AwaitsAdjustment(n),
         NEW c, Command(c), Numbers(c), c.op = "accounting.post_journal",
         NEW known, Admissible(c, disk, known),
         NEW p, NEW k, p = Piece(c, disk, k), NEW r, r = Resolution(n)
  PROVE  Sure(p \o r, disk) /\ Putting(p \o r, Resolved(n))
<1>1. /\ IsSeq(p) /\ Apart(p) /\ Uses(p, LedgerFiles) /\ Stockless(p)
      /\ \A x : In(x, p) =>
           /\ x.do # "call"
           /\ x.do = "put" => x.rec.kind \in LedgerFiles /\ x.rec.doc = c.doc
  BY JournalAlone
<1>2. /\ IsSeq(r) /\ Apart(r) /\ Uses(r, RecoveryKinds) /\ Stockless(r)
      /\ \A x : In(x, r) =>
           /\ x.do # "call"
           /\ x.do = "put" => /\ x.rec.kind \in RecoveryKinds
                              /\ x.rec.doc = n /\ x.rec.n = 1
      /\ Putting(r, Resolved(n))
  BY ResolutionAlone
<1>3. \A x : In(x, p \o r) <=> In(x, p) \/ In(x, r)
  BY <1>1, <1>2, Members
<1>4. Apart(p \o r)
  <2>1. LedgerFiles \cap RecoveryKinds = {}
    BY DEF LedgerFiles, RecoveryKinds
  <2>. QED  BY <1>1, <1>2, <2>1, KeepClear
<1>5. ASSUME NEW q \in disk, q.doc = c.doc, q.kind \in LedgerFiles
      PROVE  FALSE
  <2>1. ~Has(disk, "journal_entries", c.doc)
    BY DEF Admissible, JournalAdmissible
  <2>2. q.kind # "journal_entries"
    BY <1>5, <2>1 DEF Has
  <2>3. <<"journal_entries", c.doc, 0>> \in Keys
    BY <1>5, <2>2 DEF CorrectInv, JournalsHeaded, LedgerFiles, LedgerParts
  <2>. QED  BY <2>1, <2>3 DEF Keys, Key, Has
<1>6. ASSUME NEW q \in disk, q.doc = n, q.kind \in RecoveryKinds
      PROVE  q.n # 1
  <2>1. Answered(n, "requires_accounting_adjustment")
    BY AwaitingIsAnswered DEF CorrectInv
  <2>. QED  BY <1>6, <2>1 DEF Answered, Touches
<1>7. Unclaimed(p \o r, disk)
  BY <1>1, <1>2, <1>3, <1>5, <1>6 DEF Unclaimed, Claims
<1>8. \A x : In(x, p \o r) /\ x.do = "put" => x.rec.kind \notin RejectedEvents
  BY <1>1, <1>2, <1>3
<1>9. Putting(p \o r, Resolved(n))
  BY <1>2, <1>3 DEF Putting
<1>. QED  BY <1>4, <1>7, <1>8, <1>9 DEF Sure

LEMMA AdjustCorrects ==
  ASSUME (RecoveryKinds \cup LedgerFiles) \cap RejectedEvents = {},
         CorrectInv, NEW n, NEW q \in Corrections, Adjust(n, q), RecoverInv'
  PROVE  CorrectInv'
<1>1. PICK c, p, k, r : /\ c = [q EXCEPT !.source = n] /\ k = Len(wal) + 1
                        /\ p = Piece(c, disk, k) /\ r = Resolution(n)
  OBVIOUS
<1>2. /\ process # "cli" /\ process' = "cli" /\ UNCHANGED disk
      /\ AwaitsAdjustment(n) /\ Admissible(c, disk, ClosedPeriods(disk))
      /\ todo' = p \o r
  BY <1>1 DEF Adjust, Enter, Piece, Resolution, Records
<1>3. Command(c) /\ Numbers(c) /\ c.op = "accounting.post_journal" /\ c.source = n
  <2>1. Command(c) /\ Numbers(c) /\ c.op = "accounting.post_journal"
    BY <1>1, SaneCorrection
  <2>2. DOMAIN q = Fields("accounting.post_journal")
    BY WorkflowsAssumption DEF Command
  <2>. QED  BY <1>1, <2>1, <2>2 DEF Fields
<1>4. Sure(p \o r, disk) /\ Putting(p \o r, Resolved(n))
  BY <1>1, <1>2, <1>3, CorrectionIsSure
<1>5. /\ IsSeq(r)
      /\ \A x : In(x, r) /\ x.do = "put" => x.rec.kind \in RecoveryKinds
  BY <1>1, ResolutionAlone
<1>6. Keys' = Keys
  BY <1>2 DEF Keys
<1>7. HeaderFirst(p \o r, Keys)
  <2>1. HeaderFirst(r, {})
    BY <1>5, OthersHeaderFirst DEF RecoveryKinds, LedgerParts
  <2>. QED  BY <1>1, <1>3, <1>5, <2>1, HeaderFirstEnter
<1>8. \A m \in disk : Corrects(m) => Resolved(m.data.source) \in Keys
  BY <1>2 DEF CorrectInv
<1>9. Resolved(n) \notin Keys
  <2>1. Answered(n, "requires_accounting_adjustment")
    BY <1>2, AwaitingIsAnswered DEF CorrectInv
  <2>2. \A m \in disk : Touches(m, n) => m.n = 0
    BY <2>1 DEF Answered
  <2>3. \A m \in disk : Key(m) # Resolved(n)
    BY <2>2 DEF Key, Resolved, Touches, RecoveryKinds
  <2>. QED  BY <2>3 DEF Keys
<1>10. ASSUME NEW i \in DOMAIN (p \o r), EntryStep((p \o r)[i])
       PROVE  i = 1 /\ (p \o r)[i].rec.data.source = n
  <2>1. PICK u : u = p \o r
    OBVIOUS
  <2>2. PICK j : j = Len(c.lines)
    OBVIOUS
  <2>3. /\ IsSeq(p) /\ j \in Nat /\ DOMAIN c.lines = 1..j
        /\ Len(p) \in Nat /\ DOMAIN p = 1..Len(p) /\ j + 1 <= Len(p) /\ p[1] = EntryPut(c)
        /\ \A l \in 1..j : p[l + 1] = LinePut(c, l)
        /\ \A l \in DOMAIN p : l > j + 1 => ~KindIn(p[l], JournalKinds)
    <3>1. p = Piece(c, disk, k) /\ Command(c) /\ c.op = "accounting.post_journal"
      BY <1>1, <1>3
    <3>. QED  BY <2>2, <3>1, JournalAt
  <2>4. /\ \A l \in DOMAIN p : u[l] = p[l]
        /\ \A l \in DOMAIN u :
             l \notin DOMAIN p => l - Len(p) \in DOMAIN r /\ u[l] = r[l - Len(p)]
    BY <1>5, <2>1, <2>3, Joins
  <2>5. EntryPut(c).rec.data.source = n
    BY <1>3 DEF EntryPut, Put
  <2>6. \A l : ~EntryStep(LinePut(c, l))
    BY DEF EntryStep, LinePut, Put
  <2>7. CASE i \notin DOMAIN p
    <3>1. In(u[i], r)
      BY <1>10, <2>1, <2>4, <2>7 DEF In
    <3>. QED  BY <1>5, <1>10, <2>1, <3>1 DEF EntryStep, RecoveryKinds
  <2>8. CASE i \in DOMAIN p
    <3>1. EntryStep(p[i])
      BY <1>10, <2>1, <2>4, <2>8
    <3>2. ~(i > j + 1)
      BY <2>3, <2>8, <3>1 DEF EntryStep, KindIn, JournalKinds
    <3>3. i # 1 => i - 1 \in 1..j /\ (i - 1) + 1 = i
      BY <2>3, <2>8, <3>2
    <3>4. i = 1
      BY <2>3, <2>6, <3>1, <3>3
    <3>. QED  BY <2>1, <2>3, <2>4, <2>5, <2>8, <3>4
  <2>. QED  BY <2>7, <2>8
<1>11. ASSUME NEW i \in DOMAIN todo', EntryStep(todo'[i])
       PROVE  /\ i = 1 /\ Resolves(todo[i].rec.data.source)'
              /\ \A m \in disk' : Corrects(m) => m.data.source # todo'[i].rec.data.source
  <2>1. i = 1 /\ todo'[i].rec.data.source = n
    BY <1>2, <1>10, <1>11
  <2>2. Sure(todo', disk') /\ Putting(todo', Resolved(n))
    BY <1>2, <1>4
  <2>3. \A m \in disk' : Corrects(m) => m.data.source # n
    BY <1>2, <1>8, <1>9
  <2>. QED  BY <2>1, <2>2, <2>3 DEF Resolves
<1>12. JournalsHeaded'
  BY <1>2, <1>6 DEF CorrectInv, JournalsHeaded
<1>13. HeaderFirst(todo', Keys')
  BY <1>2, <1>6, <1>7
<1>. QED  BY <1>2, <1>6, <1>8, <1>11, <1>12, <1>13 DEF CorrectInv

(* A run that ends early was not the recovery command, or its journal      *)
(* corrects nothing yet.                                                   *)
LEMMA SureGoesOn ==
  ASSUME CorrectInv, process = "cli", Refused, NEW m, Resolves(m)
  PROVE  FALSE
<1>1. PICK y : y = Head(todo)
  OBVIOUS
<1>2. todo # << >> /\ In(y, todo)
  <2>1. todo # << >> /\ IsSeq(todo)
    BY DEF Refused, Abandon, CorrectInv, RecoverInv, CoreInv, Sound
  <2>. QED  BY <1>1, <2>1, HeadAndTail
<1>3. y.do # "call"
  BY <1>2 DEF CorrectInv, RecoverInv, Recovering
<1>4. y.do = "put" /\ ~Appendable(y.rec)
  BY <1>1, <1>3 DEF Refused, Doing
<1>5. y.rec.kind \notin RejectedEvents
  BY <1>2, <1>4 DEF Resolves, Sure
<1>6. PICK r \in disk : Key(r) = Key(y.rec)
  BY <1>4, <1>5 DEF Appendable
<1>7. Claims(y, r.kind, r.doc, r.n)
  BY <1>4, <1>6 DEF Key, Claims
<1>. QED  BY <1>2, <1>7 DEF Resolves, Sure, Unclaimed

LEMMA NextCorrects ==
  ASSUME (RecoveryKinds \cup LedgerFiles) \cap RejectedEvents = {},
         \A c \in Commands : Outside(c),
         CorrectInv, [Next /\ Uninterrupted]_vars
  PROVE  CorrectInv'
<1>1. RecoverInv'
  <2>1. RecoveryKinds \cap RejectedEvents = {}
    OBVIOUS
  <2>. QED  BY <2>1, NextRecover DEF CorrectInv
<1>2. CASE \/ StartApplication \/ Stop \/ Recover \/ UNCHANGED vars
           \/ Refused \/ StoreFails \/ Crash
  <2>1. UNCHANGED disk /\ (process' = "cli" => process = "cli" /\ todo' = todo)
        /\ (process = "cli" => Refused \/ (todo' = todo /\ process' = process))
        /\ (todo' = todo \/ todo' = << >>)
    <3>1. CASE StartApplication \/ Stop \/ Recover \/ UNCHANGED vars
      BY <3>1 DEF StartApplication, Stop, Recover, vars
    <3>2. CASE Refused
      BY <3>2 DEF Refused, Abandon
    <3>3. CASE StoreFails \/ Crash
      <4>1. faults' = faults + 1 /\ faults \in Nat
        BY <3>3, WorkflowsAssumption DEF StoreFails, Crash, CorrectInv, RecoverInv, CoreInv, TypeOK
      <4>2. process # "cli"
        BY <4>1 DEF Uninterrupted, vars
      <4>. QED  BY <3>3, <4>2 DEF StoreFails, Crash, Abandon
    <3>. QED  BY <1>2, <3>1, <3>2, <3>3
  <2>2. Keys' = Keys
    BY <2>1 DEF Keys
  <2>3. HeaderFirst(todo', Keys') /\ JournalsHeaded'
    <3>1. HeaderFirst(<< >>, Keys)
      BY NoSteps, OthersHeaderFirst
    <3>. QED  BY <2>1, <2>2, <3>1 DEF CorrectInv, JournalsHeaded
  <2>4. ASSUME NEW r \in disk, Corrects(r), Resolved(r.data.source) \notin Keys
        PROVE  process' = "cli" /\ Resolves(r.data.source)'
    <3>1. process = "cli" /\ Resolves(r.data.source)
      BY <2>4 DEF CorrectInv
    <3>2. ~Refused
      <4>1. PICK m : m = r.data.source
        OBVIOUS
      <4>. QED  BY <3>1, <4>1, SureGoesOn
    <3>. QED  BY <2>1, <3>1, <3>2 DEF Resolves
  <2>5. process' # "cli" => \A x : In(x, todo') => PostsOutside(x)
    <3>1. CASE todo' = << >>
      BY <3>1, NoSteps
    <3>2. CASE todo' = todo /\ process # "cli"
      BY <3>2 DEF CorrectInv
    <3>3. CASE todo' = todo /\ process = "cli"
      <4>1. process' # "cli" => Refused
        BY <2>1, <3>3
      <4>2. Refused => todo' = << >>
        BY DEF Refused, Abandon
      <4>. QED  BY <4>1, <4>2, NoSteps
    <3>. QED  BY <2>1, <3>1, <3>2, <3>3
  <2>6. process' = "cli" => \A i \in DOMAIN todo' : EntryStep(todo'[i]) =>
          /\ i = 1 /\ Resolves(todo[i].rec.data.source)'
          /\ \A r \in disk' : Corrects(r) => r.data.source # todo'[i].rec.data.source
    BY <2>1 DEF CorrectInv, Resolves
  <2>. QED  BY <1>1, <2>1, <2>2, <2>3, <2>4, <2>5, <2>6 DEF CorrectInv
<1>3. CASE \E c \in Commands : Begin(c)
  BY <1>1, <1>3, BeginCorrects
<1>4. CASE \E n \in Txns, d \in Decisions : Reconcile(n, d)
  BY <1>1, <1>4, ReconcileCorrects
<1>5. CASE \E n \in Txns, q \in Corrections : Adjust(n, q)
  BY <1>1, <1>5, AdjustCorrects
<1>6. CASE AppendRecord
  BY <1>1, <1>6, AppendCorrects
<1>7. CASE CallOperation
  BY <1>1, <1>7, CallCorrects
<1>8. CASE CommitTransaction
  BY <1>1, <1>8, CommitCorrects
<1>. QED  BY <1>2, <1>3, <1>4, <1>5, <1>6, <1>7, <1>8 DEF Next

(* As long as the recovery command itself is not interrupted, a            *)
(* transaction is corrected by one journal at most, however often the      *)
(* application failed and whatever it was asked to post.                   *)
THEOREM CorrectedOnce ==
  ASSUME (RecoveryKinds \cup LedgerFiles) \cap RejectedEvents = {},
         \A c \in Commands : Outside(c)
  PROVE  RecoverySpec => []OneCorrectionPerTransaction
<1>1. Init => CorrectInv
  <2>. SUFFICES ASSUME Init PROVE CorrectInv
    OBVIOUS
  <2>1. Pending = {}
    BY DEF Init, Pending, Txns
  <2>2. RecoverInv
    BY <2>1, InitCore, NoSteps DEF Init, RecoverInv
  <2>. QED  BY <2>2, NoSteps, OthersHeaderFirst DEF Init, CorrectInv, JournalsHeaded
<1>2. CorrectInv /\ [Next /\ Uninterrupted]_vars => CorrectInv'
  BY NextCorrects
<1>3. CorrectInv => OneCorrectionPerTransaction
  <2>. SUFFICES ASSUME CorrectInv, NEW n \in Txns
                PROVE  Cardinality({r \in Of(disk, "journal_entries") : r.data.source = n}) <= 1
    BY DEF OneCorrectionPerTransaction
  <2>. DEFINE S == {r \in Of(disk, "journal_entries") : r.data.source = n}
  <2>1. n \in Nat
    BY LogFacts DEF CorrectInv, RecoverInv, CoreInv, Txns
  <2>2. \A r, q \in S : r = q
    BY <2>1 DEF CorrectInv, Corrects, Of
  <2>. HIDE DEF S
  <2>3. CASE S = {}
    BY <2>3, FS_EmptySet DEF S
  <2>4. CASE S # {}
    <3>1. PICK r : S = {r}
      BY <2>2, <2>4
    <3>2. Cardinality(S) = 1
      BY <3>1, FS_Singleton
    <3>. QED  BY <3>2 DEF S
  <2>. QED  BY <2>3, <2>4
<1>. QED  BY <1>1, <1>2, <1>3, PTL DEF RecoverySpec
=============================================================================
