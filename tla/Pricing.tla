------------------------------- MODULE Pricing -------------------------------
(***************************************************************************)
(* What an order costs (src/common/pricing.ts), and the one row of         *)
(* PricingConfig, which staff change while finds are being priced          *)
(* (src/ops-console/ops-console.service.ts).                               *)
(*                                                                         *)
(* Costs and rates are in kobo, weights in grams, percentages in           *)
(* hundredths of a percent, results in whole naira.  Arithmetic is exact:  *)
(* what floating point adds to it is left out.                             *)
(***************************************************************************)
EXTENDS Integers

CONSTANTS Callers,  \* handlers that may be in flight at once
          Configs,  \* settings that staff may enter
          Wares,    \* what is priced: cost and weight per unit, and a quantity
          Nothing   \* no row, no limit, no answer

Fees == {"agentFee", "misc", "profit"}

\* UpdatePricingConfigDto lets negative fees pass; the module has none.
FeeRules == [mode : {"fixed", "percent"}, value : Nat,
             min : Nat \cup {Nothing}, max : Nat \cup {Nothing}]

ASSUME PricingAssumption ==
  /\ Nothing \notin Nat /\ Nothing \notin Configs
  /\ Configs \subseteq [shippingRatePerKg : Nat, fee : [Fees -> FeeRules]]
  /\ Wares \subseteq [cost : Nat, grams : Nat, quantity : Nat \ {0}]

VARIABLES row,   \* the PricingConfig row "default"
          entry  \* entry[c]: the handler c is running

pricingVars == <<row, entry>>

-----------------------------------------------------------------------------
(* pricing.ts.                                                             *)

\* Math.round of a/b: halves go up.
Rounded(a, b) == IF 2 * (a % b) >= b THEN a \div b + 1 ELSE a \div b

Least(a, b)    == IF a <= b THEN a ELSE b
Greatest(a, b) == IF a >= b THEN a ELSE b

AtLeast(amount, min) == IF min = Nothing THEN amount ELSE Greatest(amount, Rounded(min, 100))

\* Slip: what is too much falls back to what there was before.
AtMostOrNone(amount, max) ==
  IF max = Nothing THEN amount ELSE IF amount > Rounded(max, 100) THEN 0 ELSE amount

AtMost(amount, max) == IF max = Nothing THEN amount ELSE Least(amount, Rounded(max, 100))

\* The maximum is applied last: it holds even if the minimum exceeds it.
ApplyFee(base, rule) ==
  AtMost(AtLeast(IF rule.mode = "percent" THEN Rounded(base * rule.value, 10000)
                                          ELSE Rounded(rule.value, 100),
                 rule.min),
         rule.max)

\* toFixed(2) of the kilograms, times a rate per kilogram.
Freight(ware, rate) == Rounded(Rounded(ware.grams * ware.quantity, 10) * rate, 10000)

\* calculateLandingPrice: what a find costs.
SupplierCost(ware)       == Rounded(ware.cost * ware.quantity, 100)
LandingFee(ware, config) == LET base == SupplierCost(ware) IN
  ApplyFee(base, config.fee["agentFee"]) + ApplyFee(base, config.fee["misc"])
    + ApplyFee(base, config.fee["profit"])
LandingTotal(ware, config) ==
  SupplierCost(ware) + Freight(ware, config.shippingRatePerKg) + LandingFee(ware, config)
UnitPrice(ware, config) == Rounded(LandingTotal(ware, config), ware.quantity)

\* calculateServiceFee: 15,000 plus 8 %, from 25,000 to 350,000.
ServiceFee(productCost) ==
  Rounded(Least(Greatest(1500000 + 8 * productCost, 2500000), 35000000), 100)

\* calculateQuoteBreakdown: what a product from the store costs.
BreakdownTotal(ware) ==
  LET productCost == Rounded(ware.cost * ware.quantity, 100)
  IN productCost + Freight(ware, 450000) + ServiceFee(productCost)

-----------------------------------------------------------------------------
(* The row.                                                                *)

DefaultRule(mode, value, min, max) ==
  [mode |-> mode, value |-> value, min |-> min, max |-> max]
DefaultRow ==
  [shippingRatePerKg |-> 450000,
   fee |-> [f \in Fees |->
     CASE f = "agentFee" -> DefaultRule("percent", 500, 200000, 5000000)
       [] f = "misc"     -> DefaultRule("fixed", 500000, Nothing, Nothing)
       [] f = "profit"   -> DefaultRule("percent", 800, 2500000, 35000000)]]

Settings == Configs \cup {DefaultRow}

\* config is what the handler is to write; one that only reads has none.
NoEntry == [stage |-> "idle", config |-> Nothing]
Entries == [stage : {"idle", "create", "write"}, config : Configs \cup {Nothing}]

PricingTypeOK ==
  /\ row \in Settings \cup {Nothing}
  /\ entry \in [Callers -> Entries]

PricingInit ==
  /\ row \in {Nothing, DefaultRow}
  /\ entry = [c \in Callers |-> NoEntry]

\* Who shows the settings, or prices a find with them, creates the row if
\* there is none, and otherwise changes nothing.
GetLandingConfig(c) ==
  /\ entry[c] = NoEntry
  /\ row = Nothing
  /\ entry' = [entry EXCEPT ![c] = [stage |-> "create", config |-> Nothing]]
  /\ UNCHANGED row

UpdatePricingConfig(c, config) ==
  /\ entry[c] = NoEntry
  /\ entry' = [entry EXCEPT ![c] = [stage  |-> IF row = Nothing THEN "create" ELSE "write",
                                   config |-> config]]
  /\ UNCHANGED row

\* What a handler does next once it has the row.
Proceed(c) ==
  entry' = [entry EXCEPT ![c] = IF @.config = Nothing THEN NoEntry
                                ELSE [@ EXCEPT !.stage = "write"]]

\* Slip: upsert.
EnsureAnyway(c) ==
  /\ entry[c].stage = "create"
  /\ row' = DefaultRow
  /\ Proceed(c)

\* ensurePricingConfig: the id is fixed, so the second of two creations fails.
EnsurePricingConfig(c) ==
  /\ entry[c].stage = "create"
  /\ \/ row = Nothing /\ row' = DefaultRow /\ Proceed(c)
     \/ row # Nothing /\ entry' = [entry EXCEPT ![c] = NoEntry] /\ UNCHANGED row

WriteRow(c) ==
  /\ entry[c].stage = "write"
  /\ row' = entry[c].config
  /\ entry' = [entry EXCEPT ![c] = NoEntry]

\* The process dies.
EntryDies(c) ==
  /\ entry[c] # NoEntry
  /\ entry' = [entry EXCEPT ![c] = NoEntry]
  /\ UNCHANGED row

PricingNext ==
  \E c \in Callers :
    \/ GetLandingConfig(c)
    \/ \E config \in Configs : UpdatePricingConfig(c, config)
    \/ EnsurePricingConfig(c) \/ WriteRow(c) \/ EntryDies(c)

PricingSpec == PricingInit /\ [][PricingNext]_pricingVars

-----------------------------------------------------------------------------
(* Whatever settings staff enter, a minimum above its maximum included, as *)
(* long as no fee is negative: a find that costs more to buy never lands   *)
(* at a lower total or unit price, nor does a product from the store       *)
(* (applyFee, calculateServiceFee).                                        *)
DearerWaresCostMore ==
  row # Nothing => \A a, b \in Wares :
    a.grams = b.grams /\ a.quantity = b.quantity /\ a.cost <= b.cost =>
      /\ LandingTotal(a, row) <= LandingTotal(b, row)
      /\ UnitPrice(a, row) <= UnitPrice(b, row)
      /\ BreakdownTotal(a) <= BreakdownTotal(b)

(* The first use of the row creates it: settings that staff entered are    *)
(* never put back to the default by a handler that had found no row        *)
(* (ensurePricingConfig).                                                  *)
SettingsSurvive ==
  [][(row \in Configs) => (row' \in Configs)]_pricingVars
=============================================================================
