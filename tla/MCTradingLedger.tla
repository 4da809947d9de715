-------------------------- MODULE MCTradingLedger ---------------------------
(***************************************************************************)
(* Two paper traces and a ledger smoke, over three minutes.                *)
(***************************************************************************)
EXTENDS TradingLedger

CONSTANTS p1, p2, l1

MCClose == <<1, 2, 1>>
=============================================================================
