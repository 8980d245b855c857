\* Everything two exchanges may list and orders may trade in four currencies.
CONSTANTS
  USD = USD  CHF = CHF  BTC = BTC  ETH = ETH  bad = bad
  Fiats = {USD, CHF}
  Tradable <- MCTradable
  Malformed = {bad}
  Listable <- MCListable
SPECIFICATION Spec
CHECK_DEADLOCK FALSE
INVARIANTS ConvertibleOrReported OnlyListedMarkets
