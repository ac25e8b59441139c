--------------------------- MODULE MCToolRuntime ---------------------------
(* A tool run on the empty text, on one it converts, and on two it rejects, *)
(* the second with a message longer than the buffer left by the first.      *)
EXTENDS ToolRuntime, TLC

CONSTANTS empty, document, typo, longTypo

MCInputs == {empty, document, typo, longTypo}

MCInputLength ==
    empty :> 0 @@ document :> 5 @@ typo :> 6 @@ longTypo :> 12

MCOutputLength ==
    empty :> 0 @@ document :> 9 @@ typo :> 0 @@ longTypo :> 0

MCErrorLength ==
    empty :> 1 @@ document :> 1 @@ typo :> 10 @@ longTypo :> 15
=============================================================================
