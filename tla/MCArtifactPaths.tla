-------------------------- MODULE MCArtifactPaths --------------------------
(* Two tools, whose directories may hold a file under a dotted name.        *)
EXTENDS ArtifactPaths

MCTools == {"json2yaml", "yaml2json"}
MCDottedNames == {"..old"}
MCNames == MCTools \cup MCDottedNames \cup {"module.wasm"}
=============================================================================
