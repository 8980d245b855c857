------------------------ MODULE MarketDiscoveryProofs ------------------------
(***************************************************************************)
(* Theorems about MarketDiscovery for every set of currencies and markets, *)
(* whatever the orders trade and the exchanges list.                       *)
(***************************************************************************)
EXTENDS MarketDiscovery, TLAPS

\* What is returned is the result for the quotes that were detected, and
\* neither they nor the lists of the exchanges change any more.
FoundInv == found \subseteq {Result} /\ (phase # "done" => found = {})

LEMMA FoundCorrect == Spec => []FoundInv
<1>1. Init => FoundInv
  BY DEF Init, FoundInv
<1>2. ASSUME FoundInv, [Next]_vars
      PROVE  FoundInv'
  <2>1. CASE DetectQuotes
    BY <1>2, <2>1 DEF FoundInv, DetectQuotes
  <2>2. ASSUME UNCHANGED <<listed, quotes>>
        PROVE  Result' = Result
    BY <2>2 DEF Result, Searched, BtcMarkets, UnsupportedBtc, ValidBtcMarket,
       BtcListing, Processed, ToFiat, FiatMarket, Unsupported, Proxy, Failed,
       Chained
  <2>3. CASE FindMarkets
    BY <2>2, <2>3 DEF FoundInv, FindMarkets
  <2>4. ASSUME UNCHANGED <<listed, quotes, found>>,
               phase' # "done" => phase # "done"
        PROVE  FoundInv'
    BY <1>2, <2>2, <2>4 DEF FoundInv
  <2> QED
    BY <1>2, <2>1, <2>3, <2>4
    DEF Next, vars, SplitFails, CallFails, AddOrder
<1> QED
  BY <1>1, <1>2, PTL DEF Spec

\* What is fetched is what the three searches find.
LEMMA FetchedMarkets ==
  /\ Fetched(Result) = Searched("FIAT") \cup Searched("BINANCE")
                         \cup Searched("BITSTAMP")
                         \cup BtcMarkets["BINANCE"] \cup BtcMarkets["BITSTAMP"]
  /\ Result.chains = Chained /\ Result.failedMarkets = Failed
<1>1. \A x \in Exchanges :
        Result.tickerSymbolCryptoMarkets[x] = BtcMarkets[x] \cup Searched(x)
  BY DEF Result
<1>2. UNION {Result.tickerSymbolCryptoMarkets[x] : x \in Exchanges}
        = Searched("BINANCE") \cup Searched("BITSTAMP")
            \cup BtcMarkets["BINANCE"] \cup BtcMarkets["BITSTAMP"]
  BY <1>1 DEF Exchanges
<1>3. Result.tickerSymbolFiatMarkets = Searched("FIAT")
  BY DEF Result
<1> QED
  BY <1>2, <1>3 DEF Fetched, Result

\* A market of a fiat currency is searched for as such, any other one as a
\* market of crypto with a fiat currency, and there is none of BTC among them.
LEMMA SearchedAre ==
  ASSUME NEW x \in Exchanges \cup {"FIAT"}, NEW m \in Searched(x)
  PROVE  /\ m[2] \in Fiats /\ m[1] # BTC
         /\ m[1] \in Fiats <=> x = "FIAT"
<1>1. CASE m \in ToFiat /\ FiatMarket(m) = x
  BY <1>1, SymbolsAssumption DEF ToFiat, FiatMarket, Processed, base, Exchanges
<1>2. CASE \E n \in Unsupported : m \in Links(n) /\ Proxy(m) = x
  <2>1. PICK n \in Unsupported : m \in Links(n) /\ Proxy(m) = x
    BY <1>2
  <2>2. n[1] \in Processed /\ n[1] \notin Fiats /\ n[2] \in Fiats
    BY DEF Unsupported, ToFiat, FiatMarket, base
  <2>3. CASE m = FirstLink(n)
    BY <2>1, <2>2, <2>3, SymbolsAssumption
    DEF FirstLink, Proxy, Processed, base, quote, Exchanges
  <2>4. CASE m = LastLink(n)
    BY <2>1, <2>2, <2>4, SymbolsAssumption
    DEF LastLink, Proxy, base, quote, Exchanges
  <2> QED
    BY <2>1, <2>3, <2>4 DEF Links
<1> QED
  BY <1>1, <1>2 DEF Searched

\* A market with BTC is a valid one of some quote.
LEMMA BtcMarketsAre ==
  ASSUME NEW x \in Exchanges, NEW m \in BtcMarkets[x]
  PROVE  \E q \in Processed : m \in ValidBtcMarket(q, x)
BY DEF BtcMarkets, Exchanges

\* A quote is convertible to a fiat currency or reported, and never both.
LEMMA ConvertibleResult ==
  ASSUME NEW q \in Processed, NEW f \in Fiats
  PROVE  Convertible(Result, q, f) # (<<q, f>> \in Result.failedMarkets)
<1> DEFINE m == <<q, f>>
<1>1. /\ Convertible(Result, q, f) <=>
           q = f \/ m \in Fetched(Result) \/ m \in Chained
      /\ Result.failedMarkets = Failed
  BY FetchedMarkets DEF Convertible
<1>2. CASE q = f
  BY <1>1, <1>2 DEF Failed, Unsupported, ToFiat, base, quote
<1>3. CASE q # f
  <2>1. m \in ToFiat
    BY <1>3 DEF ToFiat, base, quote
  <2>2. CASE FiatMarket(m) # "UNSUPPORTED"
    <3>1. FiatMarket(m) \in {"FIAT", "BITSTAMP", "BINANCE"}
      BY <2>2 DEF FiatMarket
    <3>2. m \in Fetched(Result)
      BY <2>1, <3>1, FetchedMarkets DEF Searched
    <3>3. m \notin Failed
      BY <2>2 DEF Failed, Unsupported
    <3> QED
      BY <1>1, <3>2, <3>3
  <2>3. CASE FiatMarket(m) = "UNSUPPORTED"
    <3>1. m \in Unsupported
      BY <2>1, <2>3 DEF Unsupported
    <3>2. /\ q \notin Fiats
          /\ m \notin listed["BITSTAMP"] /\ m \notin listed["BINANCE"]
      BY <2>3 DEF FiatMarket, base
    <3>3. CASE m \in Fetched(Result)
      <4>1. ASSUME NEW x \in Exchanges, m \in BtcMarkets[x]
            PROVE  FALSE
        <5>1. PICK p \in Processed : m \in ValidBtcMarket(p, x)
          BY <4>1, BtcMarketsAre
        <5>2. m = <<p, BTC>> \/ m = <<BTC, p>>
          BY <5>1 DEF ValidBtcMarket
        <5> QED
          BY <5>2, SymbolsAssumption DEF Processed
      <4>2. ASSUME NEW x \in Exchanges \cup {"FIAT"}, m \in Searched(x)
            PROVE  m \notin Failed
        <5>1. x \in Exchanges
          BY <3>2, <4>2, SearchedAre
        <5>2. FiatMarket(m) # x
          BY <2>3, <5>1 DEF Exchanges
        <5>3. PICK n \in Unsupported : m \in Links(n) /\ Proxy(m) = x
          BY <4>2, <5>2 DEF Searched
        <5>4. FALSE
          BY <3>2, <5>1, <5>3 DEF Proxy, base, quote, Exchanges
        <5> QED
          BY <5>4
      <4>3. m \notin Failed
        BY <3>3, <4>1, <4>2, FetchedMarkets DEF Exchanges
      <4> QED
        BY <1>1, <3>3, <4>3
    <3>4. CASE m \notin Fetched(Result)
      BY <1>1, <1>3, <3>1, <3>4 DEF Chained
    <3> QED
      BY <3>3, <3>4
  <2> QED
    BY <2>2, <2>3
<1> QED
  BY <1>2, <1>3

\* The prices of both links of a chain are fetched.
LEMMA ChainsFetched ==
  \A m \in Result.chains : {FirstLink(m), LastLink(m)} \subseteq Fetched(Result)
<1>1. ASSUME NEW m \in Chained
      PROVE  FirstLink(m) \in Fetched(Result) /\ LastLink(m) \in Fetched(Result)
  <2>1. m \in Unsupported /\ \A link \in Links(m) : Proxy(link) # "FAILED"
    BY DEF Chained, Failed
  <2>2. ASSUME NEW link \in Links(m)
        PROVE  link \in Fetched(Result)
    <3>1. Proxy(link) \in {"FIAT", "BITSTAMP", "BINANCE"}
      BY <2>1 DEF Proxy
    <3>2. link \in Searched(Proxy(link))
      BY <2>1 DEF Searched
    <3> QED
      BY <3>1, <3>2, FetchedMarkets
  <2> QED
    BY <2>2 DEF Links
<1> QED
  BY <1>1, FetchedMarkets

\* The quotes counted as missing are those of which no market with BTC is
\* fetched, whichever way round.
LEMMA MissingCounted ==
  Result.unsupportedBtcMarkets =
    Cardinality({q \in Processed :
                   {<<q, BTC>>, <<BTC, q>>} \cap Fetched(Result) = {}})
<1>1. ASSUME NEW q \in Processed
      PROVE  q \in UnsupportedBtc <=>
               {<<q, BTC>>, <<BTC, q>>} \cap Fetched(Result) = {}
  <2>1. ASSUME NEW x \in Exchanges \cup {"FIAT"}
        PROVE  <<q, BTC>> \notin Searched(x) /\ <<BTC, q>> \notin Searched(x)
    BY SearchedAre, SymbolsAssumption
  <2>2. CASE q \in UnsupportedBtc
    <3>1. \A x \in Exchanges : ValidBtcMarket(q, x) = {}
      BY <2>2 DEF UnsupportedBtc
    <3>2. BtcListing(<<q, BTC>>) = "none" /\ BtcListing(<<BTC, q>>) = "none"
      <4>1. BtcListing(<<q, BTC>>) = "none"
        BY <3>1 DEF ValidBtcMarket, BtcListing, Exchanges
      <4> QED
        BY <3>1, <4>1 DEF ValidBtcMarket, BtcListing, Exchanges
    <3>3. ASSUME NEW x \in Exchanges, NEW m \in BtcMarkets[x]
          PROVE  BtcListing(m) # "none"
      BY BtcMarketsAre DEF ValidBtcMarket, Exchanges
    <3> QED
      BY <2>1, <2>2, <3>2, <3>3, FetchedMarkets DEF Exchanges
  <2>3. CASE q \notin UnsupportedBtc
    <3>1. PICK x \in Exchanges :
            /\ ValidBtcMarket(q, x) # {}
            /\ ValidBtcMarket(q, "BINANCE") # {} => x = "BINANCE"
      BY <2>3 DEF UnsupportedBtc, Exchanges
    <3>2. ValidBtcMarket(q, x) \in SUBSET BtcMarkets[x]
      BY <3>1 DEF BtcMarkets, Exchanges
    <3>3. ValidBtcMarket(q, x) \in SUBSET {<<q, BTC>>, <<BTC, q>>}
      BY DEF ValidBtcMarket
    <3> QED
      BY <2>3, <3>1, <3>2, <3>3, FetchedMarkets DEF Exchanges
  <2> QED
    BY <2>2, <2>3
<1>2. UnsupportedBtc
        = {q \in Processed :
             {<<q, BTC>>, <<BTC, q>>} \cap Fetched(Result) = {}}
  BY <1>1 DEF UnsupportedBtc
<1> QED
  BY <1>2 DEF Result

\* Every traded quote but BTC can be converted to every fiat currency or is
\* reported, never both (PriceService.findTickerSymbolToMarkets).
THEOREM EveryQuoteAccountedFor == Spec => []ConvertibleOrReported
<1>1. FoundInv => ConvertibleOrReported
  <2> SUFFICES ASSUME FoundInv, NEW r \in found
               PROVE  /\ \A q \in Processed, f \in Fiats :
                           Convertible(r, q, f) # (<<q, f>> \in r.failedMarkets)
                      /\ \A m \in r.chains :
                           {FirstLink(m), LastLink(m)} \subseteq Fetched(r)
                      /\ r.unsupportedBtcMarkets =
                           Cardinality({q \in Processed :
                             {<<q, BTC>>, <<BTC, q>>} \cap Fetched(r) = {}})
    BY DEF ConvertibleOrReported
  <2>1. r = Result
    BY DEF FoundInv
  <2> HIDE DEF Result
  <2> QED
    BY <2>1, ConvertibleResult, ChainsFetched, MissingCounted
<1> QED
  BY <1>1, FoundCorrect, PTL

\* Each search by itself takes Bitstamp where Bitstamp lists the market.
LEMMA SearchesPreferBitstamp ==
  ASSUME NEW m
  PROVE  /\ m \in BtcMarkets["BITSTAMP"] \cup Searched("BITSTAMP") =>
              m \in listed["BITSTAMP"]
         /\ m \in BtcMarkets["BINANCE"] \cup Searched("BINANCE") =>
              m \in listed["BINANCE"] /\ m \notin listed["BITSTAMP"]
<1>1. ASSUME NEW x \in Exchanges, m \in BtcMarkets[x]
      PROVE  BtcListing(m) = x
  BY <1>1, BtcMarketsAre DEF ValidBtcMarket
<1>2. ASSUME NEW x \in Exchanges, m \in Searched(x)
      PROVE  FiatMarket(m) = x \/ Proxy(m) = x
  BY <1>2 DEF Searched
<1>3. /\ BtcListing(m) = "BITSTAMP" => m \in listed["BITSTAMP"]
      /\ BtcListing(m) = "BINANCE" =>
           m \in listed["BINANCE"] /\ m \notin listed["BITSTAMP"]
  BY DEF BtcListing
<1>4. /\ FiatMarket(m) = "BITSTAMP" => m \in listed["BITSTAMP"]
      /\ FiatMarket(m) = "BINANCE" =>
           m \in listed["BINANCE"] /\ m \notin listed["BITSTAMP"]
  BY DEF FiatMarket
<1>5. /\ Proxy(m) = "BITSTAMP" => m \in listed["BITSTAMP"]
      /\ Proxy(m) = "BINANCE" =>
           m \in listed["BINANCE"] /\ m \notin listed["BITSTAMP"]
  BY DEF Proxy
<1> QED
  BY <1>1, <1>2, <1>3, <1>4, <1>5 DEF Exchanges

\* Prices of crypto are fetched from one exchange, and one that lists them: the
\* three searches choose by themselves, but agree.
THEOREM SourcesListTheirMarkets == Spec => []OnlyListedMarkets
<1>1. \A x \in Exchanges :
        Result.tickerSymbolCryptoMarkets[x] = BtcMarkets[x] \cup Searched(x)
  BY DEF Result
<1>2. FoundInv => OnlyListedMarkets
  BY <1>1, SearchesPreferBitstamp DEF FoundInv, OnlyListedMarkets, Exchanges
<1> QED
  BY <1>2, FoundCorrect, PTL
==============================================================================
