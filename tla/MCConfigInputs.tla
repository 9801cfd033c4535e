-------------------------- MODULE MCConfigInputs ----------------------------
\* What loading is checked with: trees of files that include one another.
EXTENDS Integers, Sequences, TLC

CONSTANTS Fields, Zero, Garbled

-----------------------------------------------------------------------------
\* ConfigLoad: a configuration with up to two packs, of which one is in a
\* directory below, and a plugin; packs that include one another, themselves
\* or the configuration, and a pack that does not parse.
Here(name) == <<<<>>, name>>
Below(name) == <<<<"sub">>, name>>
YamlFile(packs, plugins, own) == [packs |-> packs, plugins |-> plugins, own |-> own]
SetsAll(content, leaves) == [leaf \in leaves |-> content]

MCTrees ==
  {(Here("cleanr.yaml") :> YamlFile(packs, plugin[1], own))
     @@ (Here("p") :> p) @@ (Below("p") :> below) @@ (Below("q") :> q)
     @@ (Here("plug") :> YamlFile(plugin[2], <<>>, <<>>)) :
     packs \in {<<>>, <<Here("p")>>, <<Below("p")>>, <<Below("p"), Here("p")>>, <<Here("p"), Below("p")>>},
     plugin \in {<<<<>>, <<>>>>, <<<<Here("plug")>>, <<Below("p")>>>>,
                 <<<<Here("plug")>>, <<Below("q"), Here("p")>>>>},
     own \in {"sparse" :> Zero, ("filled" :> Zero) @@ ("kept" :> "main")},
     p \in {YamlFile(l, <<>>, SetsAll("root p", Fields)) :
              l \in {<<>>, <<Here("p")>>, <<Below("p")>>, <<Here("cleanr.yaml")>>}},
     below \in {YamlFile(l, <<>>, SetsAll("sub p", s)) :
                  l \in {<<>>, <<Here("p")>>, <<Here("q")>>}, s \in {{"kept"}, {"sparse", "filled"}}},
     q \in {Garbled} \cup {YamlFile(l, <<>>, SetsAll("sub q", Fields)) : l \in {<<>>, <<Here("p")>>}}}

MCFileEdits == {Garbled, YamlFile(<<>>, <<>>, SetsAll("edited", Fields))}

=============================================================================
