---------------------------- MODULE MCTradeProposals ----------------------------
(* TradeProposals on a small instance; see TradeProposals.cfg. *)
EXTENDS TradeProposals

=============================================================================
