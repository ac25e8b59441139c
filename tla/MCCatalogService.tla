-------------------------- MODULE MCCatalogService --------------------------
(* Two tools, a build and a rebuild, and one call at a time against them:   *)
(* calls share nothing but the store, which they do not write.              *)
EXTENDS CatalogService

CONSTANTS json2yaml, jsonMinify, call1

MCTools == {json2yaml, jsonMinify}
MCToolOrder == <<json2yaml, jsonMinify>>
MCDirOrder == <<jsonMinify, json2yaml>>
MCCalls == {call1}
=============================================================================
