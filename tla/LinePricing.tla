----------------------------- MODULE LinePricing -----------------------------
(***************************************************************************)
(* What CalculationService, PanelQuantityCalculator and PanelPriceCalculator *)
(* make of one line: which lines are refused, how many sheets are needed and *)
(* what they cost.  Lengths are decimetres, areas hundredths of a square     *)
(* metre, prices whole CNY for a square metre, rates tenths, and amounts of  *)
(* USD hundredths, as toDecimalPlaces(2) leaves them.                        *)
(***************************************************************************)
EXTENDS Integers

\* An item: its panel type, size, thickness, the area that is required (0 when
\* nothing is entered), its color, whether a custom type is described, whether
\* the supplier makes the quality, and a price the head entered (0 for none).
NoSize == [width |-> 0, height |-> 0]

PanelArea(size) == size.width * size.height

CeilDiv(n, d) == (n + d - 1) \div d
RoundHalfUp(n, d) == (2 * n + d) \div (2 * d)

-----------------------------------------------------------------------------
\* Faulty variant: there is always one more sheet than whole ones.
FullSheets(area, size) == (area \div PanelArea(size)) + 1

\* PanelQuantityCalculator.calculate.
SheetsFor(area, size) == CeilDiv(area, PanelArea(size))

WastePercent(area, size) ==
  LET actual == SheetsFor(area, size) * PanelArea(size)
  IN  RoundHalfUp((actual - area) * 10000, actual)

\* sheetsCountFromSize, which an automatic request counts with.
SheetsFromSize(area, size) ==
  IF area <= 0 \/ size.width <= 0 \/ size.height <= 0 THEN 0
  ELSE CeilDiv(area, PanelArea(size))

-----------------------------------------------------------------------------
Incomplete(item) ==
  \/ item.type = "none"
  \/ item.size = NoSize
  \/ item.thickness = "none"
  \/ item.area = 0

\* resolveLineGeometry, for a line that has a supplier and a lead's application.
\* A custom type fits every application, and without an application
\* any quality any supplier.
Refused(item, application) ==
  \/ Incomplete(item)
  \/ item.type = "unknown"
  \/ /\ item.type # "custom" /\ application # "none"
     /\ item.type # application \/ ~ item.mapped
  \/ item.color \in {"other supplier", "unknown"}
  \/ item.thickness = "invalid"
  \/ item.type = "custom" /\ ~ item.described

\* deriveCalculationItems: what is not entered comes from the qualification of
\* the lead; supplier and quality are those of the commercial decision.
Filled(item, qualification) ==
  [item EXCEPT !.type      = IF @ = "none" THEN qualification.type ELSE @,
               !.size      = IF @ = NoSize THEN qualification.size ELSE @,
               !.thickness = IF @ = "none" THEN qualification.thickness ELSE @,
               !.area      = IF @ = 0 THEN qualification.area ELSE @]

Geometry(item) ==
  [sheets |-> SheetsFor(item.area, item.size), waste |-> WastePercent(item.area, item.size)]

\* snapshotManagerItem: a line of a request is not priced, and need not be
\* complete when its request is a draft or with the head.
Snapshot(item) ==
  [sheets |-> IF Incomplete(item) THEN 0 ELSE SheetsFor(item.area, item.size), total |-> 0]

-----------------------------------------------------------------------------
Coefficient == 2

\* assertManualPurchasePriceAccess.
PriceEnteredBy(item, head) == item.price > 0 => head

\* resolveSupplierPricePerM2Cny.
SupplierPrice(item, table) == IF item.price > 0 THEN item.price ELSE table

\* PanelPriceCalculator.calculate: everything is rounded from what is exact.
Price(item, sheets, table, rate) ==
  LET exact == SupplierPrice(item, table) * rate * Coefficient   \* tenths for a m2
  IN  [perM2    |-> exact * 10,
       perSheet |-> RoundHalfUp(exact * PanelArea(item.size), 10),
       total    |-> RoundHalfUp(exact * PanelArea(item.size) * sheets, 10)]

\* calculateItem and priceGeometry: the line is priced for the sheets of its own
\* geometry.
PriceGeometry(item, table, rate) == Price(item, Geometry(item).sheets, table, rate)

-----------------------------------------------------------------------------
\* priceCalculationRequestGroups: the lines of a request that no quote takes.
\* There is no application but the one of the line's own type, which a supplier
\* must make in that quality.
RefusedInQuote(item) ==
  \/ Incomplete(item)
  \/ item.type = "unknown"
  \/ item.type # "custom" /\ ~ item.mapped
  \/ item.color \in {"other supplier", "unknown"}
  \/ item.thickness = "invalid"
  \/ item.type = "custom" /\ ~ item.described

\* snapshotQuoteItems: the sheets as they were counted; the prices are to come.
QuoteLine(item) == [Snapshot(item) EXCEPT !.total = 0]

\* calculateQuotePurchasePrices: the sheets of that row, at the price entered for
\* it or the one of the table.
QuotePrice(item, table, rate) == Price(item, QuoteLine(item).sheets, table, rate)
=============================================================================
