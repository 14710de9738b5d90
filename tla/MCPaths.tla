------------------------------ MODULE MCPaths ------------------------------
(* Small instances of Paths and DocPages for TLC. *)
EXTENDS DocPages

MCSegments == {"", ".", "..", "a", "b", "srv", "docs"}
MCNames == SeqOf({"", ".", "..", "a", "b"}, 3) \ {<<>>}
MCProjects == {<<"a">>, <<"..">>, <<".">>, <<"a", "b">>}
MCVersions == {<<"a">>, <<"b">>, <<"..">>, <<"">>}
MCDocsHome == <<"srv", "docs">>
MCDocFiles == {<<"a">>, <<"b", "a">>, <<"b", "b">>}
MCOtherFiles == {<<"a">>, <<"srv", "a">>}

\* Relative links that end in a file name, and one that leaves the documentation and
\* comes back.
MCHrefs ==
    {n \in MCNames : n[1] # "" /\ Last(n) \notin {"", ".", ".."}}
        \cup {<<"..", "docs", "a">>}
=============================================================================
