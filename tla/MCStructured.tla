--------------------------- MODULE MCStructured ---------------------------
(* Schemas of every kind, with vocabularies of single characters and of    *)
(* tokens that span several.                                               *)
EXTENDS Structured

MCEos == <<"eos">>

Request(schema, vocab, max) ==
    [schema |-> schema, vocab |-> vocab, max |-> max, marker |-> <<>>, close |-> FALSE]

Single(chars) == {<<c>> : c \in chars}

Ab == ObjectOf(<<<<(<<"a">>), Typed("integer")>>, <<(<<"a", "b">>), Typed("boolean")>>>>,
               {<<"a">>}, "absent")
Open == ObjectOf(<<<<(<<"a">>), Typed("null")>>>>, {}, "true")
Colour == ChoiceOf({<<Quote, "a", "b", Quote>>, <<Quote, "a", "a", Quote>>, <<"n", "ull">>, <<"1">>})
Accented == ChoiceOf({<<Quote, "a", "e'", Quote>>, <<Quote, "a", "b", Quote>>, <<Quote, "b", "e'", Quote>>})
Think == <<"<", ">">>

MCRequests ==
    {Request(Ab, Single({"{", "}", Quote, "a", "b", ":", ",", "1", "t", "rue"})
                 \cup {<<"{", Quote, "a">>, <<Quote, ":">>, <<",", Quote>>, <<"1", "}">>}, 8),
     Request(Open, Single({"{", "}", Quote, "a", "b", ":", ",", "n", "ull", Escape})
                 \cup {<<"{", Quote>>, <<Quote, ":">>, <<",", Quote, "a">>}, 6),
     Request(ArrayOf(Typed("number")), Single({"[", "]", ",", "0", "1", "-", ".", "e", "+", " "}), 6),
     Request(Typed("absent"), Single({"[", "]", "{", "}", Quote, ":", ",", "0", "n", "ull", "nl"}), 6),
     Request(ArrayOf(Colour), Single({"[", "]", ",", "1", "n", "ull", Quote, "a", "b"}), 7),
     Request(ArrayOf(Accented), Single({"[", "]", ",", Quote, "a", "b", "e'"}), 7),
     Request(Accented, Single({Quote, "a", "b", "e'", "U+C3", "U+A9"}), 6),
     Request(ObjectOf(<<<<(<<"a">>), ArrayOf(Typed("integer"))>>>>, {<<"a">>}, "absent"),
             Single({"[", "]", "}", ",", "1", ":"}) \cup {<<"{", Quote, "a", Quote>>, <<"]", "}">>}, 8),
     Request(Typed("string"), Single({Quote, "a", Escape, "u", "n", "nl"}), 7),
     Request(Typed("unsupported"), {}, 4)}
    \cup {[schema |-> Ab, max |-> max, marker |-> Think, close |-> close,
           vocab |-> Single({"a", "{", "}", Quote, ":", "1", " "}) \cup {<<"{", Quote, "a", Quote, ":">>}
                     \cup (IF close THEN {Think} ELSE {<<"<">>, <<">", " ">>, <<">", "{">>, <<">", "a">>})] :
             max \in {4, 5}, close \in BOOLEAN}

(* An enum value with an accent, and the characters its bytes are taken    *)
(* for.                                                                    *)
MCAccents == {Request(Accented, Single({Quote, "a", "b", "e'", "U+C3", "U+A9"}), 6)}
(* A list of numbers, and nothing else.                                    *)
MCNumbers == {Request(ArrayOf(Typed("integer")), Single({"[", "]", ",", "0", "1"}), 6)}
(* A string inside an object.                                              *)
MCStrings == {Request(ObjectOf(<<<<(<<"a">>), Typed("string")>>>>, {}, "absent"),
                      {<<"{", Quote, "a", Quote, ":">>} \cup Single({Quote, "b", "}"}), 6)}
============================================================================
