------------------------------- MODULE MCJson -------------------------------
(* Instances of Json for TLC.                                              *)
EXTENDS Json

\* Two names; lookups find them in either case.
MCNames == {<<107>>, <<75, 113>>}

\* A letter, every kind of character that is escaped, a blank, a slash, a byte of a
\* multi-byte character.
MCTexts == {<<97, QUOTE, BACKSLASH, LF, TAB, BS, 1, SPACE, SLASH, 229>>}

MCNumbers == {<<Micro>>, <<4 * Micro, 60100000>>}

Leaf(type, value, text, name) ==
    [type |-> type, value |-> value, text |-> text, name |-> name, kids |-> <<>>]
Group(type, kids) ==
    [type |-> type, value |-> 0, text |-> NoText, name |-> NoText, kids |-> kids]

\* { "a" : -2.5e1, "b":"\n\u0041\u00e9\u0800\ud834\udd1e" }
MCObject ==
    [text |-> <<SPACE, LBRACE, LF, QUOTE, 97, QUOTE, SPACE, COLON, MINUS, 50, DOT, 53, 101, 49, COMMA,
                TAB, QUOTE, 98, QUOTE, COLON, QUOTE, BACKSLASH, 110,
                BACKSLASH, 117, 48, 48, 52, 49, BACKSLASH, 117, 48, 48, 69, 57,
                BACKSLASH, 117, 48, 56, 48, 48,
                BACKSLASH, 117, 100, 56, 51, 52, BACKSLASH, 117, 100, 100, 49, 101,
                QUOTE, SPACE, RBRACE>>,
     tree |-> Group("Object",
                <<Leaf("Number", -25 * Micro, NoText, <<97>>),
                  Leaf("String", 0, <<LF, 65, 195, 169, 224, 160, 128, 240, 157, 132, 158>>, <<98>>)>>)]

\* [ true , false,null ,{}, [ ] ]
MCArray ==
    [text |-> <<LBRACKET, SPACE>> \o t_true \o <<SPACE, COMMA, SPACE>> \o t_false \o <<COMMA>>
                \o t_null \o <<SPACE, COMMA, LBRACE, RBRACE, COMMA, LBRACKET, SPACE, RBRACKET, RBRACKET>>,
     tree |-> Group("Array", <<Leaf("True", 0, NoText, NoText), Leaf("False", 0, NoText, NoText),
                               Leaf("NULL", 0, NoText, NoText), Group("Object", <<>>),
                               Group("Array", <<>>)>>)]

MCInputs == {MCObject, MCArray}
=============================================================================
