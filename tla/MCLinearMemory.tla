--------------------------- MODULE MCLinearMemory ---------------------------
(* An address space of 12 bytes, of which 10 are heap: texts of up to two    *)
(* bytes come to lie below, across and above the middle and at the end.      *)
EXTENDS LinearMemory

MCInputs == {<<>>, <<1, 2>>}
MCOutputs == {<<>>, <<2>>, <<1, 2>>}
MCMessages == {<<2, 1>>}
=============================================================================
