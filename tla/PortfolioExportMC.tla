------------------------- MODULE PortfolioExportMC -------------------------
(* Instances of PortfolioExport for TLC. *)
EXTENDS PortfolioExport, TLC

CONSTANTS e1, e2, c1, d1
TwoExports == {e1, e2}

\* The IDs of exports are in the order of their creation.
InOrderOfID == row[e2] # "none" => row[e1] # "none"
=============================================================================
