------------------------------ MODULE MCRoster ------------------------------
(* Two directories whose files may claim each other's name, one name that  *)
(* is also a remote agent's.                                               *)
EXTENDS Roster

CONSTANTS general, writer, helper, blank, c1, c2

MCDirs == <<general, writer>>

Declares(name, department) ==
    [name |-> name, department |-> department, valid |-> TRUE]

MCSymmetry == Permutations(Call)

MCHeader == {Declares(general, blank), Declares(writer, blank),
            Declares(blank, general), Declares(helper, blank),
            [name |-> blank, department |-> blank, valid |-> FALSE]}
=============================================================================
