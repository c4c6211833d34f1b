---------------------------- MODULE MCTextPath ----------------------------
(* Instances of TextPath: what the detokenizer can be fed, each stop       *)
(* condition, and both output formats.                                     *)
EXTENDS TextPath

MCEos == <<"eos">>

ThinkOpen == <<"<think", ">">>
ThinkClose == <<"</think", ">">>
ToolStart == <<"<tool", ">">>
ToolEnd == <<"</tool", ">">>

(* LFM2: the prompt opens the reasoning block, calls are Python.           *)
Lfm == [think_open |-> <<>>, think_close |-> ThinkClose, tool_start |-> ToolStart,
        tool_end |-> ToolEnd, syntax |-> "python"]
(* Qwen: the model opens its own reasoning block, calls are JSON.          *)
Qwen == [think_open |-> ThinkOpen, think_close |-> ThinkClose, tool_start |-> ToolStart,
         tool_end |-> ToolEnd, syntax |-> "json"]

Plain == {<<"a">>, <<" ", "b">>, <<"e1">>, <<"e2">>}

Request(vocab, stop, include, format, calls, max) ==
    [vocab |-> vocab, stop |-> stop, include |-> include, format |-> format,
     calls |-> calls, max |-> max]

Call(name, args) == [name |-> name, args |-> args]

CallLists ==
    {<<Call(<<"f">>, <<>>)>>,
     <<Call(<<"f">>, <<"k">> :> <<"string", <<"a", ")", "'", "nl", "\\">>>>)>>,
     <<Call(<<"f">>, (<<"k">> :> <<"number", <<"1">>>>) @@ (<<"l">> :> <<"null", <<"None">>>>)),
       Call(<<"g", "f">>, (<<"k">> :> <<"json", <<"{f:obj}">>>>) @@ (<<"l">> :> <<"json", <<"[1]">>>>))>>}

MCRequests ==
    {Request(Plain \cup {<<>>, <<"e1", "e2", "a">>}, {}, FALSE, NoFormat, {}, 5)}
    \cup {Request(Plain \cup {<<"b", "a">>}, stop, include, NoFormat, {}, 5) :
            stop \in {{<<"a", "b">>, <<"b", "a", "a">>}, {<<"e'", "a">>, <<"b">>}},
            include \in BOOLEAN}
    \cup {Request({<<"a">>, <<"nl">>, <<"e1">>, <<"e2">>, ThinkClose, ToolStart, ToolEnd},
                  {}, FALSE, Lfm, {}, 5),
          Request({<<"a">>, <<"nl", "a">>, ThinkOpen, ThinkClose, ToolStart, ToolEnd,
                   <<"{f:str}">>, <<"{noname}">>}, {}, FALSE, Qwen, {}, 5),
          Request({<<" ">>, <<"[", "f", "(">>, ThinkClose, ToolStart, ToolEnd}
                    \cup {Render(c) : c \in CallLists}, {}, FALSE, Lfm, CallLists, 5)}

(* Requests with a stop string, to models that think and call tools: what  *)
(* is held back for it cuts the deltas inside markers and calls.           *)
MCStopped ==
    {Request({<<"a">>, <<"nl">>, ThinkClose, ToolStart}, {<<"nl", "nl">>}, FALSE, Lfm, {}, 5)}
    \cup {Request({<<"a">>, ThinkOpen, ThinkClose, ToolStart, ToolEnd, <<"{f:str}">>},
                  {<<"a", "a", "a">>}, include, Qwen, {}, 5) : include \in BOOLEAN}

(* A closing marker the model writes in two tokens.                        *)
MCSplit == {Request({<<"a">>, <<"nl">>, ThinkClose, <<"</think">>, <<">">>}, {}, FALSE, Lfm, {}, 5)}

MCAllRequests == MCRequests \cup MCStopped \cup MCSplit
============================================================================
