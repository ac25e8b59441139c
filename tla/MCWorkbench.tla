---------------------------- MODULE MCWorkbench ----------------------------
(* A workbench of two tools, run in development mode (two mounts).         *)
EXTENDS Workbench

CONSTANTS json2yaml, jsonMinify, aText

MCTools == {json2yaml, jsonMinify}

\* No tool, one tool, and both in the order the backend sorts them.
MCCatalogs == {<<>>, <<json2yaml>>, <<jsonMinify, json2yaml>>}

MCInputs == {EmptyText, aText}
=============================================================================
