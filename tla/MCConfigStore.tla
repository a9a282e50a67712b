--------------------------- MODULE MCConfigStore ----------------------------
(***************************************************************************)
(* ConfigStore on small instances: two containers of one image with a      *)
(* process each, and configurations that name the image, a container by    *)
(* its ID or by its name, PIDs at every level, and nothing.                *)
(***************************************************************************)
EXTENDS ConfigStore

MCContOf  == [p \in Pids |-> IF p = 1 THEN "k1" ELSE "k2"]
MCCmdOf   == [p \in Pids |-> IF p = 2 THEN "b" ELSE "a"]
MCNameOf  == [k \in Containers |-> IF k = "k1" THEN "web" ELSE "db"]
MCImageOf == [k \in Containers |-> "im"]

APid(c, s)      == [cmd |-> c, set |-> s]
ACont(i, s, ps) == [id |-> i, set |-> s, pids |-> ps]
AnImg(s, ps, cs) == [id |-> "im", set |-> s, pids |-> ps, conts |-> cs]
File(is, cs, ps) == [images |-> is, conts |-> cs, pids |-> ps]

Empty   == File(<< >>, << >>, << >>)
ByName  == File(<< >>, <<ACont("web", "W", <<APid("a", "Wa")>>), ACont("db", None, << >>)>>, << >>)
ById    == File(<< >>, <<ACont("k1", "K", <<APid("a", None), APid("b", "Kb")>>)>>, << >>)
ByImage == File(<<AnImg("I", <<APid("b", "Ib")>>, << >>)>>, << >>, << >>)
Nested  == File(<<AnImg("I", <<APid("a", "Ia")>>, <<ACont("web", None, <<APid("b", "Wb")>>)>>)>>,
                << >>, << >>)
Twice   == File(<< >>, <<ACont("k1", "K", << >>), ACont("web", None, <<APid("a", None)>>)>>, << >>)
Astray  == File(<<[AnImg("I", <<APid("a", "Ia")>>, <<ACont("web", None, << >>)>>) EXCEPT !.id = "other"]>>,
                << >>, << >>)
Owned   == File(<<AnImg("I", << >>, <<ACont("web", "W", << >>), ACont("k2", "K", << >>)>>)>>, << >>, << >>)
Loose   == File(<< >>, <<ACont("k2", "K", << >>)>>, <<APid("a", "La"), APid("b", None)>>)

MCInputs == {Empty, ByName, ById, ByImage, Nested, Twice, Astray, Owned, Loose}
=============================================================================
