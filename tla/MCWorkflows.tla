----------------------------- MODULE MCWorkflows -----------------------------
(***************************************************************************)
(* Workflows on small command sets: one document of each kind, or two      *)
(* where a property is about two of them.                                  *)
(***************************************************************************)
EXTENDS Workflows

CONSTANTS i1, i2, m1, m2, m3, v1, v2, r1, r2, j1, k1, k2, p1, p2

ItemOf(i, unit) ==
  [op |-> "inventory.register_item", doc |-> i, unit |-> unit, active |-> TRUE]

Item(i) == ItemOf(i, "retail")

Inactive(i) == [Item(i) EXCEPT !.active = FALSE]

Move(m, i, quantity, cost, p) == Movement(m, 0, i, quantity, cost, p, "use_case")

Sold(i, quantity, price) == [item |-> i, quantity |-> quantity, price |-> price]

Returned(i, quantity, price) ==
  [item |-> i, quantity |-> quantity, price |-> price, restock |-> TRUE]

Kept(i, quantity, price) ==
  [item |-> i, quantity |-> quantity, price |-> price, restock |-> FALSE]

Sale(v, p, q, lines) ==
  [op |-> "billing.create_invoice", doc |-> v, period |-> p, movePeriod |-> q,
   currency |-> "INR", lines |-> lines]

Refund(r, v, p, q, lines) ==
  [op |-> "billing.create_refund", doc |-> r, invoice |-> v, period |-> p,
   movePeriod |-> q, currency |-> "INR", lines |-> lines]

Close(p) == [op |-> "accounting.close_period", doc |-> p]

Transfer(j, p) == Journal(j, p, j, "INR", << Debit("1000", 7), Credit("3000", 7) >>)

(* Buying, selling, refunding in part and in full, closing: no faults.  An *)
(* item may be registered as inactive and is then of no use.               *)
Trading ==
  {Item(i1), Inactive(i1), ItemOf(i2, "wholesale"),
   Move(m1, i1, 3, 4, p1), Move(m2, i2, 1, 2, p1), Move(m3, i1, 1, 5, p1),
   Sale(v1, p1, p1, << Sold(i1, 2, 10), Sold(i2, 1, 6) >>),
   Sale(v2, p1, p1, << Sold(i1, 2, 10) >>),
   Refund(r1, v1, p1, p1, << Returned(i1, 1, 10) >>),
   Refund(r2, v1, p1, p1, << Kept(i1, 2, 10), Returned(i2, 1, 6) >>),
   Close(p1)}

(* Issuing goods at a cost that was given, above what they are worth.      *)
DearIssue == {Item(i1), Move(m1, i1, 2, 4, p1), Move(m2, i1, -1, 9, p1)}

(* One sale from stock.                                                    *)
OneSale ==
  {Item(i1), Move(m1, i1, 2, 4, p1), Sale(v1, p1, p1, << Sold(i1, 1, 10) >>)}

(* A sale and two ways to refund it.                                       *)
TwoRefunds ==
  OneSale \cup {Refund(r1, v1, p1, p1, << Returned(i1, 1, 10) >>),
                Refund(r2, v1, p1, p1, << Returned(i1, 1, 10) >>)}

(* A sale refunded in the next period.                                     *)
RefundLater == OneSale \cup {Refund(r1, v1, p2, p2, << Returned(i1, 1, 10) >>)}

(* An invoice line that costs nothing.                                     *)
FreeSale ==
  {Item(i1), Move(m1, i1, 2, 4, p1), Sale(v1, p1, p1, << Sold(i1, 1, 0) >>)}

(* A sale in another currency than the one stock was bought in.            *)
ForeignSale ==
  {Item(i1), Move(m1, i1, 2, 4, p1),
   [Sale(v1, p1, p1, << Sold(i1, 1, 10) >>) EXCEPT !.currency = "USD"]}

(* Two lines of the same item, whose average cost is not a whole number.   *)
SplitSale ==
  {Item(i1), Move(m1, i1, 3, 2, p1), Move(m2, i1, 1, 4, p1),
   Sale(v1, p1, p1, << Sold(i1, 3, 10), Sold(i1, 1, 10) >>)}

(* Writing to a period and closing it.                                     *)
Closing == {Transfer(j1, p1), Item(i1), Move(m1, i1, 2, 4, p1), Close(p1)}

(* A sale accounted in one period with a timestamp in another.             *)
LateSale ==
  {Item(i1), Move(m1, i1, 2, 4, p1), Close(p1),
   Sale(v1, p2, p1, << Sold(i1, 1, 10) >>)}

(* A transfer and a purchase to interrupt.                                 *)
Interrupted == {Transfer(j1, p1), Item(i1), Move(m1, i1, 2, 4, p1)}

JustTransfer == {Transfer(j1, p1)}

TwoCorrections == {Transfer(k1, p1), Transfer(k2, p1)}
=============================================================================
