---------------------------- MODULE MCNanoEnroll ----------------------------
(* Instance of the enrolment for TLC: two manifests, a signature of five    *)
(* bytes read as a header, a body of two bytes, a type code and a node.     *)
EXTENDS NanoEnroll

MCManifests    == {1, 2}
MCParts        == <<1, 2, 1, 1>>
MCCheckedParts == {1, 3}
=============================================================================
