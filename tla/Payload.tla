------------------------------- MODULE Payload -------------------------------
(***************************************************************************)
(* What becomes of the arguments of a call of an MCP tool: validation.py   *)
(* turns the server's JSON Schema into a pydantic model, the dispatch      *)
(* checks the model's payload and prunes it, and the tool checks again     *)
(* what is left before it is sent.                                         *)
(*                                                                         *)
(* A payload is a function from the keys the model gave to kinds of        *)
(* values; a nested object is a payload of its own, checked and pruned in  *)
(* the same way.                                                           *)
(***************************************************************************)
EXTENDS Naturals, Sequences

CONSTANT Field   \* keys a payload may have

\* Kinds of values: a string, a string that reads as a number, an integer, a
\* list, null.
Value == {"text", "numeral", "integer", "list", "null"}

\* Types a property may declare; "other" is any name _python_type does not
\* know.
Type == {"string", "integer", "array", "null", "other"}

\* A property: the types it declares, one or a union in the server's order.
Property == [types : Seq(Type) \ {<<>>}, required : BOOLEAN]

\* pydantic, external: it takes a numeral for an integer and converts it.
Admits(type, value) ==
    CASE type = "string"  -> value \in {"text", "numeral"}
      [] type = "integer" -> value \in {"integer", "numeral"}
      [] type = "array"   -> value = "list"
      [] type = "null"    -> value = "null"
      [] OTHER            -> TRUE

Converted(type, value) ==
    IF type = "integer" /\ value = "numeral" THEN "integer" ELSE value

\* _field_annotation: of a union, the first member that is known, null too.
Annotation(property) ==
    LET known == {i \in DOMAIN property.types : property.types[i] # "other"}
    IN  IF known = {} THEN "other"
        ELSE property.types[CHOOSE i \in known : \A j \in known : i <= j]

\* The model: no unknown key, every required field, each of its type; an
\* optional field may be null.
Fits(schema, args) ==
    /\ DOMAIN args \subseteq DOMAIN schema
    /\ \A f \in DOMAIN schema :
           IF f \in DOMAIN args
           THEN \/ Admits(Annotation(schema[f]), args[f])
                \/ ~schema[f].required /\ args[f] = "null"
           ELSE ~schema[f].required

\* Mutated form of Pruned: the defaults of omitted fields stay.
PrunedNot(schema, args) ==
    [f \in DOMAIN schema |->
        IF f \in DOMAIN args THEN Converted(Annotation(schema[f]), args[f])
        ELSE "null"]

\* prune_unset: what the model holds, without nulls.
Pruned(schema, args) ==
    [f \in {g \in DOMAIN args : args[g] # "null"} |->
        Converted(Annotation(schema[f]), args[f])]

\* validate_args, in the dispatch and again, raw, in MCPTool.run.
Outcome(schema, args) ==
    IF ~Fits(schema, args) THEN "refused by dispatch"
    ELSE IF ~Fits(schema, Pruned(schema, args)) THEN "refused by tool"
    ELSE "sent"

\* What the server receives of a payload that was sent: parsing fills in the
\* defaults, _run prunes them again.
Received(schema, args) == Pruned(schema, Pruned(schema, args))

-----------------------------------------------------------------------------
\* JSON Schema's own reading of one value.
Is(type, value) ==
    \/ type = "other"
    \/ type = "string"  /\ value \in {"text", "numeral"}
    \/ type = "integer" /\ value = "integer"
    \/ type = "array"   /\ value = "list"
    \/ type = "null"    /\ value = "null"

\* A payload the server's schema allows.
Conforms(schema, args) ==
    /\ DOMAIN args \subseteq DOMAIN schema
    /\ \A f \in DOMAIN schema :
           IF f \in DOMAIN args
           THEN \E i \in DOMAIN schema[f].types : Is(schema[f].types[i], args[f])
           ELSE ~schema[f].required

\* No unions, and no null where a value is required.
Plain(schema, args) ==
    \A f \in DOMAIN schema :
        /\ Len(schema[f].types) = 1
        /\ f \in DOMAIN args /\ args[f] = "null" => ~schema[f].required

\* Of a call that is sent, the server receives every argument the model gave
\* and none it did not give, nulls excepted, each as it was given or, for an
\* integer, as the number it spells.  Where unions and required nulls are not
\* involved, every payload the schema allows is sent.
PayloadKept(schema, args) ==
    /\ Outcome(schema, args) = "sent" =>
           LET received == Received(schema, args)
           IN  /\ DOMAIN received = {f \in DOMAIN args : args[f] # "null"}
               /\ DOMAIN received \subseteq DOMAIN schema
               /\ \A f \in DOMAIN received :
                      \/ received[f] = args[f]
                      \/ args[f] = "numeral" /\ received[f] = "integer"
    /\ Plain(schema, args) /\ Conforms(schema, args) =>
           Outcome(schema, args) = "sent"
=============================================================================
