------------------------------- MODULE MCStream -------------------------------
(* Streams of up to three frames over a rule that rewrites "ab" to "x".    *)
EXTENDS Stream, TLC

AB        == <<[pattern |-> <<"a", "b">>, replacement |-> <<"x">>]>>
MCPrefix  == <<"p">>
MCSuffix  == <<"s">>
LineFeeds == <<NL, NL>>
Proxied   == <<CR, NL, CR, NL>>
Spacious  == <<NL, NL, NL, NL>>
MCBreaks  == {LineFeeds, Proxied, Spacious}

Contents  == {<<>>, <<"a">>, <<"b">>, <<"a", "b">>, <<"a", "a", "b">>}
Said(c)   == [content |-> c, finish |-> FALSE, usage |-> FALSE]
Finished  == [content |-> <<>>, finish |-> TRUE, usage |-> TRUE]
MCScripts == {<<Said(c), Said(d), Finished>> : c \in Contents, d \in Contents}
=============================================================================
