---------------------------- MODULE MCParamData ----------------------------
(* Instances of ParamData: encoded forms of up to three pairs, strings that *)
(* are none, and a few single parameters.                                   *)
EXTENDS ParamData

Pair(name, value) == [name |-> name, value |-> value]

Form(list) == [form |-> TRUE, pairs |-> list, text |-> EncodePairs(list)]
Broken(chars) == [form |-> FALSE, pairs |-> <<>>, text |-> chars]

MCInputs ==
    {Form(<<Pair(<<"a">>, value)>>) : value \in {<<>>, <<"n">>, <<"H", "a">>}}
    \cup {Form(<<Pair(<<"n", "a", "a">>, <<" ">>), Pair(<<"a">>, <<"H">>)>>),
          Form(<<Pair(<<"a">>, <<"a">>), Pair(<<"n">>, <<>>), Pair(<<"a", "n">>, <<"=">>)>>)}
    \cup {Broken(<<"a">>), Broken(<<"a", "=", "n", "&">>), Broken(<<"a", "=", "%", "n">>),
          Broken(<<"a", "=", "a", "&", "n", "=", "%", "n", "&">>)}
MCNames == {<<"a">>}
MCValues == {<<>>, <<"n", "a">>}
=============================================================================
