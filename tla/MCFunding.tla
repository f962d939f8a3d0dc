------------------------------ MODULE MCFunding ------------------------------
(***************************************************************************)
(* An instance of FundingHistory: events of three times, two of them       *)
(* simultaneous and one of these revised, with pages of two events.        *)
(***************************************************************************)
EXTENDS FundingHistory, TLC

CONSTANTS btc, eth, low, high, none

MCSymbols == {btc, eth}
MCKeys == {<<1, "Regular">>, <<2, "Regular">>, <<2, "Special">>, <<3, "Regular">>}
MCRates == {low, high}
MCRatesOf ==
  btc :> (<<1, "Regular">> :> <<low>> @@ <<2, "Regular">> :> <<low, high>>
          @@ <<2, "Special">> :> <<low>> @@ <<3, "Regular">> :> <<low>>)
  @@ eth :> [k \in MCKeys |-> IF k = <<2, "Regular">> THEN <<low>> ELSE <<>>]
MCRanges == {<<1, 2>>, <<2, 3>>}
MCRequests == {<<btc>>, <<btc, eth>>}
=============================================================================
