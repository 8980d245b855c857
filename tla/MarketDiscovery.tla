--------------------------- MODULE MarketDiscovery ---------------------------
(***************************************************************************)
(* Finding the markets whose prices are needed so that every order amount  *)
(* can be converted to BTC and to each fiat currency                       *)
(* (PriceService.findTickerSymbolToMarkets).  It gives way twice: after    *)
(* reading the traded markets from the orders, and while the markets of    *)
(* the exchanges are loaded; the rest is one computation over sets.        *)
(*                                                                         *)
(* A market is a pair <<base, quote>> of ticker symbols.                   *)
(***************************************************************************)
EXTENDS FiniteSets

CONSTANTS
  Fiats,        \* FiatCurrency
  USD, BTC,
  Tradable,     \* markets the orders may be of
  Malformed,    \* those whose symbol does not split at one "/" into two parts
  Listable      \* markets an exchange may list

ASSUME SymbolsAssumption == USD \in Fiats /\ BTC \notin Fiats

Exchanges == {"BINANCE", "BITSTAMP"}

VARIABLES
  orders,    \* the symbols in table order
  listed,    \* what each exchange lists (external)
  phase,
  quotes,    \* the quote ticker symbols detected
  found      \* what is returned

vars == <<orders, listed, phase, quotes, found>>

base(m)  == m[1]
quote(m) == m[2]

-----------------------------------------------------------------------------
(* The computation *)

\* Amounts in BTC need no conversion to it, and are skipped altogether.
Processed == quotes \ {BTC}

\* _findQuoteToBtcMarket, an iteration of its loop.
BtcListing(m) ==
  IF m \in listed["BITSTAMP"] THEN "BITSTAMP"
  ELSE IF m \in listed["BINANCE"] THEN "BINANCE" ELSE "none"

\* validBinanceBtcMarket and validBitstampBtcMarket: q/BTC if it is listed, or
\* else BTC/q.
ValidBtcMarket(q, x) ==
  {m \in {<<q, BTC>>, <<BTC, q>>} :
     /\ BtcListing(m) = x
     /\ m # <<q, BTC>> => BtcListing(<<q, BTC>>) = "none"}

\* What findTickerSymbolToMarkets makes of them.
BtcMarkets ==
  [BINANCE  |-> UNION {ValidBtcMarket(q, "BINANCE") : q \in Processed},
   BITSTAMP |-> UNION {ValidBtcMarket(q, "BITSTAMP") : q \in
                         {q \in Processed : ValidBtcMarket(q, "BINANCE") = {}}}]
UnsupportedBtc ==
  {q \in Processed : \A x \in Exchanges : ValidBtcMarket(q, x) = {}}

\* _findQuoteToFiatMarket, an iteration of its loop over the fiat currencies.
ToFiat == {m \in Processed \X Fiats : base(m) # quote(m)}
FiatMarket(m) ==
  IF base(m) \in Fiats THEN "FIAT"
  ELSE IF m \in listed["BITSTAMP"] THEN "BITSTAMP"
  ELSE IF m \in listed["BINANCE"] THEN "BINANCE" ELSE "UNSUPPORTED"
Unsupported == {m \in ToFiat : FiatMarket(m) = "UNSUPPORTED"}

\* _findQuoteToFiatMarketUsingUSDProxy: the links of a chain.
FirstLink(m) == <<base(m), USD>>
LastLink(m)  == <<USD, quote(m)>>
Links(m) == {FirstLink(m), LastLink(m)}

\* Mutant: Binance is preferred.
ProxySwapped(link) ==
  IF base(link) \in Fiats /\ quote(link) \in Fiats THEN "FIAT"
  ELSE IF link \in listed["BINANCE"] THEN "BINANCE"
  ELSE IF link \in listed["BITSTAMP"] THEN "BITSTAMP" ELSE "FAILED"

\* An iteration of its loop over them.
Proxy(link) ==
  IF base(link) \in Fiats /\ quote(link) \in Fiats THEN "FIAT"
  ELSE IF link \in listed["BITSTAMP"] THEN "BITSTAMP"
  ELSE IF link \in listed["BINANCE"] THEN "BINANCE" ELSE "FAILED"

Failed == {m \in Unsupported : \E link \in Links(m) : Proxy(link) = "FAILED"}
\* Mutant: every unsupported market gets a chain.
ChainedAll == Unsupported
Chained == Unsupported \ Failed

\* What the two searches find for x: an exchange, or the rates of fiat.
Searched(x) ==
  {m \in ToFiat : FiatMarket(m) = x}
    \cup {link \in UNION {Links(m) : m \in Unsupported} : Proxy(link) = x}

\* unsupportedBtcMarkets is a list with `true' for every market that is missing.
Result ==
  [tickerSymbolCryptoMarkets |-> [x \in Exchanges |-> BtcMarkets[x] \cup Searched(x)],
   tickerSymbolFiatMarkets   |-> Searched("FIAT"),
   unsupportedBtcMarkets     |-> Cardinality(UnsupportedBtc),
   chains                    |-> Chained,
   failedMarkets             |-> Failed]

-----------------------------------------------------------------------------
(* Its steps *)

Init ==
  /\ orders \in SUBSET Tradable
  /\ listed \in [Exchanges -> SUBSET Listable]
  /\ phase = "start"
  /\ quotes = {}
  /\ found = {}

\* _detectTradedQuoteTickerSymbols
DetectQuotes ==
  /\ phase = "start"
  /\ orders \cap Malformed = {}
  /\ quotes' = {quote(m) : m \in orders}
  /\ phase' = "detected"
  /\ UNCHANGED <<orders, listed, found>>

FindMarkets ==
  /\ phase = "detected"
  /\ found' = {Result}
  /\ phase' = "done"
  /\ UNCHANGED <<orders, listed, quotes>>

\* getTickerSymbols throws on the symbol of any user's order.
SplitFails ==
  /\ phase = "start"
  /\ orders \cap Malformed # {}
  /\ phase' = "failed"
  /\ UNCHANGED <<orders, listed, quotes, found>>

\* The database or one of the exchanges does not answer.
CallFails ==
  /\ phase \in {"start", "detected"}
  /\ phase' = "failed"
  /\ UNCHANGED <<orders, listed, quotes, found>>

\* An order is saved while the markets are being found.
AddOrder(m) ==
  /\ m \notin orders
  /\ orders' = orders \cup {m}
  /\ UNCHANGED <<listed, phase, quotes, found>>

Next ==
  \/ DetectQuotes
  \/ SplitFails
  \/ FindMarkets
  \/ CallFails
  \/ \E m \in Tradable : AddOrder(m)

Spec == Init /\ [][Next]_vars

-----------------------------------------------------------------------------
(* Properties *)

Fetched(r) == r.tickerSymbolFiatMarkets
                \cup UNION {r.tickerSymbolCryptoMarkets[x] : x \in Exchanges}

\* How an amount in q becomes one in f: not at all, through the market of the
\* two, or through a chain.
Convertible(r, q, f) ==
  q = f \/ <<q, f>> \in Fetched(r) \/ <<q, f>> \in r.chains

\* Every traded quote but BTC can be converted to every fiat currency with the
\* prices to be fetched or is reported as one that cannot, and never both; the
\* prices of both links of a chain are fetched; and the quotes that cannot be
\* converted to BTC are counted.
ConvertibleOrReported ==
  \A r \in found :
    /\ \A q \in Processed, f \in Fiats :
         Convertible(r, q, f) # (<<q, f>> \in r.failedMarkets)
    /\ \A m \in r.chains : {FirstLink(m), LastLink(m)} \subseteq Fetched(r)
    /\ r.unsupportedBtcMarkets =
         Cardinality({q \in Processed :
                        {<<q, BTC>>, <<BTC, q>>} \cap Fetched(r) = {}})

\* Prices of crypto are fetched from one exchange, and from one that lists the
\* market, although three searches choose exchanges, each by itself, and meet in
\* the markets with USD: a market that is listed is found again as a link of the
\* chains of those that are not (price.service.ts 177-183, 229-235, 292-296,
\* 478-505, 520-526).
OnlyListedMarkets ==
  \A r \in found :
    /\ \A x \in Exchanges : r.tickerSymbolCryptoMarkets[x] \subseteq listed[x]
    /\ r.tickerSymbolCryptoMarkets["BINANCE"]
         \cap r.tickerSymbolCryptoMarkets["BITSTAMP"] = {}
=============================================================================
