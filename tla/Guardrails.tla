----------------------------- MODULE Guardrails ------------------------------
(***************************************************************************)
(* Which file a path given to a file tool means (guardrails.py), and what  *)
(* keeps it in its place.  A location is the sequence of names from the    *)
(* root of the file system; a path is what a caller writes: absolute or    *)
(* not, with ".." where it likes.  Links come and go: every operator is    *)
(* told which there are.                                                   *)
(***************************************************************************)
EXTENDS Naturals, Sequences, SequencesExt

CONSTANTS
    Cwd,        \* the location of the working directory
    Links,      \* the symbolic links at first: a function from locations to
                \* real locations
    Folders     \* locations, besides those above a root, that are directories

Up == ".."

\* No file is the root of the file system: it stands for a refusal.
Denied == <<>>

Follow(links, at) == IF at \in DOMAIN links THEN links[at] ELSE at

\* Path.resolve: links are followed where they stand, before a ".." after them
Resolve(links, location) ==
    LET real[n \in 0 .. Len(location)] ==
            IF n = 0 THEN <<>>
            ELSE IF location[n] # Up THEN Follow(links, Append(real[n - 1], location[n]))
            ELSE IF real[n - 1] = <<>> THEN <<>>
            ELSE Front(real[n - 1])
    IN  real[Len(location)]

\* Nothing on the way to it is a link or a "..": what os.getcwd and Path.resolve
\* return.
Real(links, at) ==
    \A n \in DOMAIN at : at[n] # Up /\ SubSeq(at, 1, n) \notin DOMAIN links

\* No link leads over another one: a chain would end elsewhere once a link of it
\* is gone.
ASSUME GuardrailsAssumption ==
    /\ Cwd \in Seq(STRING) /\ Real(Links, Cwd)
    /\ Links \in [DOMAIN Links -> Seq(STRING)]
    /\ \A at \in DOMAIN Links : Real(Links, Links[at])

\* The links that are left of them
Remaining(left) == [at \in left |-> Links[at]]

\* os.path.normpath: a ".." takes the name before it, whatever that is
Normalized(path) ==
    FoldLeft(LAMBDA names, name :
                IF name # Up THEN Append(names, name)
                ELSE IF names # <<>> /\ Last(names) # Up THEN Front(names)
                ELSE IF path.absolute THEN names
                ELSE Append(names, Up),
             <<>>, path.names)

\* Path.cwd() / path
Joined(path) == IF path.absolute THEN path.names ELSE Cwd \o path.names

StartsWith(path, name) ==
    ~path.absolute /\ path.names # <<>> /\ Head(path.names) = name

\* Mutated form of CheckedFile: only the text of the path is looked at.
CheckedText(links, target, root) ==
    IF IsPrefix(root, target) /\ target \notin Folders /\ target # root
    THEN target ELSE Denied

\* _checked_file: every component from the root on must resolve to a place
\* under the root, and the target must not be a directory.
CheckedFile(links, target, root) ==
    IF /\ IsPrefix(root, target)
       /\ \A n \in Len(root) .. Len(target) :
             IsPrefix(root, Resolve(links, SubSeq(target, 1, n)))
       /\ Resolve(links, target) \notin Folders /\ ~IsPrefix(Resolve(links, target), root)
    THEN Resolve(links, target)
    ELSE Denied

\* validate_and_normalize_path, as write_file and edit_file call it.  A path
\* that leads out of the workspace keeps its last name, inside.
WritePath(links, path, root) ==
    LET clean == Normalized(path)
        leaves == path.absolute \/ (clean # <<>> /\ Head(clean) = Up)
        inside == IF clean = <<>> THEN root ELSE Append(root, Last(clean))
    IN  CheckedFile(links,
                    IF StartsWith(path, "workspace") THEN root \o Tail(path.names)
                    ELSE IF IsPrefix(root, Joined(path)) THEN Joined(path)
                    ELSE IF leaves THEN inside
                    ELSE root \o path.names,
                    root)

\* validate_read_path
ReadPath(links, path, root) ==
    IF StartsWith(path, "workspace")
    THEN CheckedFile(links, root \o Tail(path.names), root)
    ELSE IF IsPrefix(root, Joined(path)) THEN CheckedFile(links, Joined(path), root)
    ELSE IF StartsWith(path, "skills")
    THEN CheckedFile(links, Joined(path), Append(Cwd, "skills"))
    ELSE IF /\ ~path.absolute /\ path.names = <<"AGENTS.md">>
            /\ Resolve(links, Joined(path)) = Joined(path)
    THEN CheckedFile(links, Joined(path), Cwd)
    ELSE Denied

\* _display_path: what a tool calls the file in its reply
Displayed(location) ==
    IF IsPrefix(Cwd, location)
    THEN [absolute |-> FALSE, names |-> SubSeq(location, Len(Cwd) + 1, Len(location))]
    ELSE [absolute |-> TRUE, names |-> location]
=============================================================================
