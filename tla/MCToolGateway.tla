--------------------------- MODULE MCToolGateway ---------------------------
(* Two requests at once, on a catalog of one tool that is rebuilt.          *)
EXTENDS ToolGateway, TLC

CONSTANTS json2yaml

MCOrder == <<json2yaml>>

CallSymmetry == Permutations(Calls)
=============================================================================
