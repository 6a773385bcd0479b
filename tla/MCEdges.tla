------------------------------- MODULE MCEdges -------------------------------
EXTENDS Edges

MCMatches == ("all" :> {1, 2}) @@ ("some" :> {2})
MCByWord == ("" :> {1, 2}) @@ ("w" :> {1})

MCManaged == ("u" :> {"p", "q"}) @@ ("v" :> {"q"})
MCMonthOf == ("d" :> "m") @@ ("e" :> "n")
MCMaxZoom == ("front" :> 2) @@ ("back" :> 1)
MCTermMatches == ("" :> {"p", "q", "r"}) @@ ("q" :> {"q"})
MCSiteOf == (1 :> "p") @@ (2 :> "q") @@ (3 :> "p")
MCYardOf == ("x" :> "p") @@ ("y" :> "q")
MCDayOf == (1 :> 1) @@ (2 :> 1) @@ (3 :> 2)
=============================================================================
