-------------------------- MODULE MCMarketDiscovery --------------------------
(* Instances of MarketDiscovery for TLC: two fiat currencies, BTC, and one    *)
(* more crypto currency traded against each other; one malformed symbol.      *)
EXTENDS MarketDiscovery, TLC

CONSTANTS CHF, ETH, bad

MCTradable == {<<ETH, USD>>, <<BTC, CHF>>, <<BTC, ETH>>, <<ETH, BTC>>,
               bad}

MCListable == {<<ETH, USD>>, <<ETH, CHF>>, <<ETH, BTC>>, <<BTC, ETH>>,
               <<BTC, USD>>, <<BTC, CHF>>}
=============================================================================
