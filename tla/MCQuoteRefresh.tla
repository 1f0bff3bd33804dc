--------------------------- MODULE MCQuoteRefresh ---------------------------
(* Small instances of QuoteRefresh.                                        *)
EXTENDS QuoteRefresh, TLC

=============================================================================
