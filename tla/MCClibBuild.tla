----------------------------- MODULE MCClibBuild -----------------------------
EXTENDS ClibBuild, TLC

CONSTANTS a, b, c, d

Uses(w, x, y, z) == (a :> w) @@ (b :> x) @@ (c :> y) @@ (d :> z)
World(deps, missing, manifest) == [deps |-> deps, missing |-> missing, manifest |-> manifest]

\* a diamond, a wide list, a chain with a cycle; a lost manifest; both manifest names
MCWorlds ==
  {World(Uses({b, c}, {d}, {d}, {}), {}, Uses(1, 1, 2, 1)),
   World(Uses({b, c, d}, {}, {}, {}), {}, Uses(1, 1, 2, 0)),
   World(Uses({b}, {c}, {a}, {}), {}, Uses(2, 1, 1, 1)),
   World(Uses({b, c}, {d}, {}, {}), {c}, Uses(1, 1, 1, 1)),
   World(Uses({b}, {c, d}, {}, {}), {d}, Uses(0, 1, 1, 1))}
MCDevelopment == Uses({}, {}, {d}, {})
MCCommandLines == {<<a>>, <<c, b>>, <<Flag, a, c>>, <<Flag>>}
=============================================================================
