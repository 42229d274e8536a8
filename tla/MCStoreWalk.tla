----------------------------- MODULE MCStoreWalk -----------------------------
(* Model values and the instances on which TLC checks StoreWalk.           *)
EXTENDS StoreWalk

CONSTANTS p, q, pkg1, mpkg, x, y, d, e

MCPackages == {p, q}
MCNames == {pkg1, mpkg, x, y, d, e}
MCArchiveNames == {mpkg}

\* A manifest, a nested directory with a file of its own and one whose name
\* is used twice, and an old archive that must not be copied.
Nested == [dirs  |-> {<<>>, <<d>>},
           files |-> {<<pkg1>>, <<y>>, <<mpkg>>, <<d, x>>, <<d, y>>}]

\* Directories in directories; with MaxDepth = 2 all of it can be copied,
\* with MaxDepth = 1 the copy is refused half-way.
Deep == [dirs  |-> {<<>>, <<d>>, <<d, e>>},
         files |-> {<<pkg1>>, <<d, e, x>>}]

\* Nothing but a manifest, and not even that.
Flat == [dirs |-> {<<>>}, files |-> {<<pkg1>>}]
Bare == [dirs |-> {<<>>}, files |-> {<<x>>}]

MCSources == {Nested, Deep, Flat, Bare}
MCNestedOnly == {Nested}

MCAllCommands == {"present", "rebuild", "remove", "list"}
MCNoRebuild == {"present", "remove", "list"}
MCEverything == {"copy", "pack", "delete", "crash"}
MCNoFaults == {}
=============================================================================
