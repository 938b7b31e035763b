----------------------------- MODULE InvoiceTax -----------------------------
(***************************************************************************)
(* The tax on a rider's invoice: administrators keep rules with a window   *)
(* of time (invoices/invoice-config.service.ts), issuing an invoice looks  *)
(* for the one in force (invoices/invoice-issuance.service.ts) and reckons *)
(* in paise (invoices/invoice-tax.math.ts).  An administrator's call reads *)
(* the rule and the others, then saves a whole row.  Which booking gets an *)
(* invoice and its number is in InvoiceJobs; names, addresses, logos and   *)
(* audit rows are left out.                                                *)
(***************************************************************************)
EXTENDS Integers, FiniteSets

CONSTANTS Admins, Ids,
          Types,    \* INVOICE_ELIGIBLE_RIDE_TYPES
          Rows,     \* what administrators enter: status, types, rate in basis points,
                    \* mode, place of supply, window up to the first moment after it
          States,   \* where the issuing entity may be
          Fares,    \* what was paid, in rupees
          LastMoment

VARIABLES rule,    \* id -> its row, or NoRule
          editing, \* admin -> the row that is about to be saved
          issuer,  \* the state of the issuing entity, or "none"
          clock,
          invoice  \* the last one issued, or NoInvoice

vars == <<rule, editing, issuer, clock, invoice>>

NoRule == [status |-> "NONE"]

NoInvoice == [total |-> -1]

BasisPoints == 10000

Init ==
  /\ rule = [i \in Ids |-> NoRule] /\ editing = [a \in Admins |-> <<>>]
  /\ issuer = "none" /\ clock = 1 /\ invoice = NoInvoice

-----------------------------------------------------------------------------
\* Administrators.

Overlaps(row, other) ==
  /\ row.types \cap other.types # {}
  /\ row.window[1] < other.window[2] /\ other.window[1] < row.window[2]

\* No other active rule is in the way of an active one.
AssertNoOverlap(i, row) ==
  row.status = "ACTIVE" =>
    \A j \in Ids \ {i} : rule[j].status = "ACTIVE" => ~Overlaps(row, rule[j])

Edit(a, i, row) ==
  /\ editing[a] = <<>> /\ row.window[1] < row.window[2] /\ AssertNoOverlap(i, row)
  /\ editing' = [editing EXCEPT ![a] = <<i, row>>]
  /\ UNCHANGED <<rule, issuer, clock, invoice>>

\* A new rule gets an id nobody works on.
CreateTaxConfig(a, i, row) ==
  /\ rule[i] = NoRule
  /\ i \notin {editing[b][1] : b \in {c \in Admins : editing[c] # <<>>}}
  /\ Edit(a, i, row)

\* A change of one field of a rule.
UpdateTaxConfig(a, i, row) ==
  /\ rule[i] # NoRule
  /\ Cardinality({f \in DOMAIN row : row[f] # rule[i][f]}) = 1
  /\ Edit(a, i, row)

SaveTaxConfig(a) ==
  /\ editing[a] # <<>>
  /\ rule' = [rule EXCEPT ![editing[a][1]] = editing[a][2]]
  /\ editing' = [editing EXCEPT ![a] = <<>>]
  /\ UNCHANGED <<issuer, clock, invoice>>

\* The GSTIN's first digits are the state's, checked before they are saved.
UpsertIssuer(state) ==
  /\ issuer # state /\ issuer' = state
  /\ UNCHANGED <<rule, editing, clock, invoice>>

Tick ==
  /\ clock < LastMoment /\ clock' = clock + 1
  /\ UNCHANGED <<rule, editing, issuer, invoice>>

-----------------------------------------------------------------------------
\* Amounts.

RoundPaiseHalfUp(numerator, denominator) ==
  (2 * numerator + denominator) \div (2 * denominator)

\* Mutant: the tax of an inclusive price is taken from the whole price.
TaxOnTop(paid, rate) == paid - RoundPaiseHalfUp(paid * rate, BasisPoints)

\* What of an inclusive price is not tax.
TaxableValue(paid, rate) == RoundPaiseHalfUp(paid * BasisPoints, BasisPoints + rate)

Amounts(taxable, tax, total, split, place) ==
  [taxable |-> taxable, tax |-> tax, total |-> total, place |-> place,
   cgst |-> IF split = "IGST" THEN 0 ELSE tax \div 2,
   sgst |-> IF split = "IGST" THEN 0 ELSE tax - tax \div 2,
   igst |-> IF split = "IGST" THEN tax ELSE 0]

\* Issuing knows no state of the recipient, so that only rules for the state of
\* the issuer can be applied.
CanResolveGstSplit(row) == row.place = "ISSUER_STATE"

CalculateInvoiceTax(paid, row) ==
  IF row.mode = "TAX_INCLUSIVE"
  THEN Amounts(TaxableValue(paid, row.rate), paid - TaxableValue(paid, row.rate), paid,
               "CGST_SGST", issuer)
  ELSE Amounts(paid, RoundPaiseHalfUp(paid * row.rate, BasisPoints),
               paid + RoundPaiseHalfUp(paid * row.rate, BasisPoints), "CGST_SGST", issuer)

UntaxedInvoiceResult(paid) == Amounts(paid, 0, paid, "CGST_SGST", issuer)

-----------------------------------------------------------------------------
\* Issuing.

FindActiveTaxConfig(type) ==
  {i \in Ids : /\ rule[i].status = "ACTIVE" /\ type \in rule[i].types
               /\ rule[i].window[1] <= clock /\ clock < rule[i].window[2]}

\* An invoice keeps the rule as it is; more than one is ambiguous and no
\* invoice is issued.
IssueForJob(type, fare) ==
  LET Issued(amounts, row) ==
        [fare |-> 100 * fare, total |-> amounts.total, amounts |-> amounts, snapshot |-> row]
  IN /\ issuer # "none"
     /\ \/ FindActiveTaxConfig(type) = {}
           /\ invoice' = Issued(UntaxedInvoiceResult(100 * fare), NoRule)
        \/ \E i \in Ids :
             /\ FindActiveTaxConfig(type) = {i} /\ CanResolveGstSplit(rule[i])
             /\ invoice' = Issued(CalculateInvoiceTax(100 * fare, rule[i]), rule[i])
     /\ UNCHANGED <<rule, editing, issuer, clock>>

Next ==
  \/ \E a \in Admins, i \in Ids :
       \/ \E row \in Rows : CreateTaxConfig(a, i, row) \/ UpdateTaxConfig(a, i, row)
  \/ \E a \in Admins : SaveTaxConfig(a)
  \/ \E state \in States : UpsertIssuer(state)
  \/ Tick
  \/ \E type \in Types, fare \in Fares : IssueForJob(type, fare)

Spec == Init /\ [][Next]_vars

-----------------------------------------------------------------------------
\* dto/invoice-admin.dto.ts: rates are whole numbers and not negative, windows lie
\* on the clock; fares are whole rupees.
Parameters ==
  /\ IsFiniteSet(Admins) /\ Fares \subseteq Nat
  /\ \A row \in Rows : row.rate \in Nat /\ row.window \in Int \X Int

\* An invoice adds up: the shares to the tax, tax and value to the total; who
\* agreed on a price with tax pays just that; and the tax is that of the rule,
\* rounded to the nearest paisa.
AddsUp(amounts) ==
  /\ amounts.cgst + amounts.sgst + amounts.igst = amounts.tax
  /\ amounts.taxable + amounts.tax = amounts.total /\ amounts.tax >= 0
  /\ amounts.sgst - amounts.cgst \in {0, 1}

InvoiceFitsRule ==
  invoice # NoInvoice =>
    /\ AddsUp(invoice.amounts)
    /\ IF invoice.snapshot = NoRule
       THEN invoice.amounts.tax = 0 /\ invoice.total = invoice.fare
       ELSE LET exact == invoice.amounts.taxable * invoice.snapshot.rate
                paise == invoice.amounts.tax * BasisPoints
            IN /\ invoice.snapshot.mode = "TAX_INCLUSIVE" =>
                    /\ invoice.total = invoice.fare
                    /\ 2 * (paise - exact) \in -(BasisPoints + invoice.snapshot.rate)
                                               .. BasisPoints + invoice.snapshot.rate
               /\ invoice.snapshot.mode = "TAX_EXCLUSIVE" =>
                    /\ invoice.amounts.taxable = invoice.fare
                    /\ 2 * (paise - exact) \in -BasisPoints .. BasisPoints

\* While one administrator edits at a time, no two rules are in force at once.
OneRuleInForce ==
  Cardinality(Admins) = 1 => \A type \in Types : Cardinality(FindActiveTaxConfig(type)) <= 1

=============================================================================
