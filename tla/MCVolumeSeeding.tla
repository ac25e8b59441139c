-------------------------- MODULE MCVolumeSeeding --------------------------
(* Two tools, the committed artifacts, one build beside two                  *)
(* docker compose up, the second over what the first left in the volume.    *)
EXTENDS VolumeSeeding

CONSTANTS json2yaml, jsonMinify

MCTools == {json2yaml, jsonMinify}
MCToolOrder == <<json2yaml, jsonMinify>>
=============================================================================
