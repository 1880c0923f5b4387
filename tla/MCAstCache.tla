------------------------------- MODULE MCAstCache ------------------------------
(***************************************************************************)
(* A small project for AstCache: a document with an entity and its         *)
(* architecture, a package with its body in one file, and a file of two    *)
(* packages, one of which needs the first package, which needs it in turn. *)
(***************************************************************************)
EXTENDS AstCache

CONSTANTS top, pkg, two, absent

Unit(kind, name, needs) == [kind |-> kind, name |-> name, needs |-> needs]

Entity == Unit("entity", "e", <<"p">>)

Architecture == Unit("architecture", "rtl", <<"e", "r">>)

Package == Unit("package", "p", <<"q">>)

Body == Unit("body", "p", <<"q">>)

Q == Unit("package", "q", <<"p">>)

R == Unit("package", "r", <<>>)

MCFiles == {top, pkg, two}

MCNames == {"e", "rtl", "p", "q", "r"}

MCContents ==
  (top :> {<<Entity, Architecture>>, absent}) @@
  (pkg :> {<<Package, Body>>, <<>>}) @@
  (two :> {<<Q, R>>, <<Q>>})

MCInitially ==
  (top :> <<Entity, Architecture>>) @@
  (pkg :> <<Package, Body>>) @@
  (two :> <<Q, R>>)
================================================================================
