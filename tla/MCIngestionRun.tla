--------------------------- MODULE MCIngestionRun ---------------------------
(***************************************************************************)
(* An instance of IngestionRun for TLC: the catalog, and two boards of one *)
(* source.                                                                 *)
(***************************************************************************)
EXTENDS IngestionRun, TLC

CONSTANTS l1, l2

LaneSymmetry == Permutations(Lanes)

CatalogAndBoards == <<"board_catalog", "leaderboard", "leaderboard">>
=============================================================================
