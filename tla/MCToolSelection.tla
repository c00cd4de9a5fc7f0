--------------------------- MODULE MCToolSelection ---------------------------
(* One built-in tool, a server's namespace of two, one file tool; payloads *)
(* of up to two fields.                                                    *)
EXTENDS ToolSelection

CONSTANTS read_file, hr_find, hr_list, text_stats, ghost, id, note

MCOrder == <<hr_find, hr_list, read_file, text_stats>>
MCClaims == {{hr_find, hr_list}}
MCProperties ==
    [types : {<<"string">>, <<"integer">>, <<"array">>, <<"other">>,
              <<"string", "null">>, <<"null", "string">>, <<"other", "integer">>},
     required : BOOLEAN]
=============================================================================
