------------------------------ MODULE DlrArchive ------------------------------
(***************************************************************************)
(* What a package archive is to the `dlr` client (dlr_tar.c, dlr_mpkg.c,   *)
(* dlr_pkg.c and the names of dlr_client.c).                               *)
(*                                                                         *)
(* A tar is the sequence of its blocks, an .mpkg the sequence of its table *)
(* entries, each with what decides its treatment; `announced` is what the  *)
(* server says it is.  A path is the sequence of its components, with ""   *)
(* after a trailing slash and before a leading one, and a manifest the     *)
(* sequence of its lines.                                                  *)
(***************************************************************************)
EXTENDS Integers, Sequences, SequencesExt

CONSTANT None

Drives == {"0:"}

\* dlr_tar_name_is_safe: nothing absolute, on a drive, or above.
NameIsSafe(name) ==
    /\ name # <<>> /\ Head(name) # ""
    /\ \A i \in DOMAIN name : name[i] \notin Drives \cup {".."}

WithoutSlash(name) == IF Last(name) = "" THEN Front(name) ELSE name

\* What a block or an entry calls of the sink.
Call(kind, name, data) == [kind |-> kind, name |-> name, data |-> data]

Take(st, b, name) ==
    CASE name = <<>> -> st
      [] name # <<>> /\ ~NameIsSafe(name) -> [st EXCEPT !.ok = FALSE]
      [] b.kind = "dir" \/ (b.kind = "file" /\ Last(name) = "") ->
            [st EXCEPT !.calls = Append(@, Call("dir", WithoutSlash(name), None))]
      [] b.kind = "file" /\ Last(name) # "" ->
            [st EXCEPT !.calls = Append(@, Call("file", name, b.data))]
      [] OTHER -> st

Start == [calls |-> <<>>, ok |-> TRUE, over |-> FALSE, zeros |-> 0, long |-> None]

\* One block of dlr_tar_extract_mem.  A long name waits for the next entry,
\* of whatever kind; "bad" is a checksum or a size that cannot be.
TarBlock(st, b) ==
    CASE ~st.ok \/ st.over -> st
      [] st.ok /\ ~st.over /\ b.kind = "zero" ->
            [st EXCEPT !.zeros = @ + 1, !.over = (st.zeros = 1)]
      [] st.ok /\ ~st.over /\ b.kind = "bad" -> [st EXCEPT !.ok = FALSE]
      [] st.ok /\ ~st.over /\ b.kind = "long" -> [st EXCEPT !.zeros = 0, !.long = b.name]
      [] OTHER -> Take([st EXCEPT !.zeros = 0, !.long = None], b,
                       IF st.long = None THEN b.name ELSE st.long)

\* One entry of dlr_mpkg_extract_mem; "bad" is a payload outside of the
\* archive, an unknown method, or one that does not decode to its size.
MpkgEntry(st, e) ==
    CASE ~st.ok -> st
      [] st.ok /\ e.kind = "bad" /\ e.name # <<>> -> [st EXCEPT !.ok = FALSE]
      [] OTHER -> Take(st, [e EXCEPT !.kind = IF @ = "bad" THEN "other" ELSE @], e.name)

\* The calls of a whole extraction, and whether it came to the end.  The
\* magic of an .mpkg is believed whatever was announced; without it, what
\* was announced as one is refused.
Extract(a) ==
    CASE a.format = "mpkg" -> FoldLeft(MpkgEntry, Start, a.items)
      [] a.format # "mpkg" /\ a.announced = "mpkg" -> [Start EXCEPT !.ok = FALSE]
      [] OTHER -> FoldLeft(TarBlock, Start, a.items)

-----------------------------------------------------------------------------
(* The manifest.                                                           *)

NoPackage == [name |-> None, copy |-> {}, target |-> None, run |-> None,
              arch |-> None, os |-> {}]

\* dlr_pkg_parse: keys count in their section only, the last one wins.
ManifestLine(st, l) ==
    IF "section" \in DOMAIN l THEN [st EXCEPT !.section = l.section]
    ELSE CASE st.section = "info" /\ l.key \in {"name", "arch", "os"} ->
                [st EXCEPT !.pkg[l.key] = l.value]
           [] st.section = "install.minimalos" /\ l.key \in {"copy", "target", "run"} ->
                [st EXCEPT !.pkg[l.key] = l.value]
           [] OTHER -> st

Parse(lines) == FoldLeft(ManifestLine, [section |-> None, pkg |-> NoPackage], lines).pkg

\* dlr_pkg_runs_here.
RunsHere(pkg) ==
    /\ pkg.arch \in {None, "any", "x86_64", "amd64", "x64"}
    /\ pkg.os = {} \/ pkg.os \cap {"any", "minimalos"} # {}

\* Bug: only what the manifest calls the package is a wrapper.
CanonicalByManifest(name, requested, pkg) ==
    LET n == IF Len(name) > 1 /\ name[1] = "." THEN Tail(name) ELSE name
    IN IF Len(n) > 1 /\ n[1] = pkg.name THEN Tail(n) ELSE n

\* canonical_rel: "./" and the name of the package are wrappers.
Canonical(name, requested, pkg) ==
    LET n == IF Len(name) > 1 /\ name[1] = "." THEN Tail(name) ELSE name
    IN IF Len(n) > 1 /\ n[1] \in {requested, pkg.name} THEN Tail(n) ELSE n

Manifests == {"m.pkg", "n.pkg", "o.pkg"}
IsManifest(name) == Last(name) \in Manifests

\* The first pass: the first manifest that has a name.
ManifestOf(calls) ==
    LET Named(i) == /\ calls[i].kind = "file" /\ IsManifest(calls[i].name)
                    /\ Parse(calls[i].data).name # None
        found == {i \in DOMAIN calls : Named(i) /\ \A j \in 1..(i - 1) : ~Named(j)}
    IN IF found = {} THEN NoPackage ELSE Parse(calls[CHOOSE i \in found : TRUE].data)

\* Whether the second pass installs a file, by the path it gets.
Wanted(c, requested, pkg) ==
    LET rel == Canonical(c.name, requested, pkg)
    IN /\ c.kind = "file" /\ ~IsManifest(rel)
       /\ pkg.copy = {} \/ rel \in pkg.copy

InstallDir == <<"0:", "programs">>
TargetOf(pkg) == IF pkg.target = None THEN InstallDir ELSE pkg.target

\* Where the second pass puts it.
PathOf(c, requested, pkg) == TargetOf(pkg) \o Canonical(c.name, requested, pkg)

\* run_after_install: on a drive, or in the directory installed into.
RunPath(pkg) == IF pkg.run[1] \in Drives THEN pkg.run ELSE TargetOf(pkg) \o pkg.run
=============================================================================
