------------------------------ MODULE MCTarFS ------------------------------
(* Instances of TarFS for TLC. *)
EXTENDS TarFS

\* A file next to a directory, a path in it and one whose directories are
\* two levels deep.
MCPaths == {<<"a">>, <<"b">>, <<"a", "b">>, <<"a", "b", "a">>}

\* The names "tar cf test.tar ." writes.
MCDotPaths == {<<".">>, <<".", "a">>}
=============================================================================
