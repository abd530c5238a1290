--------------------------- MODULE MCVideoLibrary ---------------------------
(* Two directories beside each other that may each have another in them.     *)
EXTENDS VideoLibrary

CONSTANTS m, n, sub

MCLabels == {m, n, sub}
MCPaths  == {<<m>>, <<m, sub>>, <<n>>, <<n, sub>>}
MCStarts == {{<<m>>, <<m, sub>>}, {<<m>>, <<n>>}}
=============================================================================
