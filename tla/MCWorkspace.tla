----------------------------- MODULE MCWorkspace -----------------------------
(* Two departments, in one turn or two; a workspace in the working         *)
(* directory, the working directory itself or one elsewhere; a link within *)
(* it and one out of it.                                                   *)
EXTENDS Workspace, TLC

CONSTANTS d1, d2, x, y

Symmetry == Permutations({d1, d2})

MCCwd == <<"home", "app">>
Here == Append(MCCwd, "workspace")
There == <<"data">>
MCRoots == {Here, There, MCCwd}
MCFolders == {r \o <<"sub">> : r \in MCRoots} \cup {<<"etc">>}
MCLinks ==
    [at \in {r \o <<"in">> : r \in MCRoots} \cup {There \o <<"out">>} |->
        IF Last(at) = "in" THEN Front(at) \o <<"sub">> ELSE <<"etc">>]
Relative(names) == [absolute |-> FALSE, names |-> names]
Absolute(names) == [absolute |-> TRUE, names |-> names]
MCPaths ==
    {Relative(<<"a">>), Absolute(Here \o <<"a">>),
     Relative(<<"workspace", "in", "b">>), Relative(<<"out", "a">>)}
MCTexts == {<<y>>, <<x, x>>}
=============================================================================
