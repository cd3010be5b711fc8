---------------------------- MODULE MCTopicTree ----------------------------
(* A small instance of TopicTree for TLC. *)
EXTENDS TopicTree

MCFilters == {<<"a">>, <<"a", "b">>, <<"", "a">>, <<"+">>, <<"+", "b">>, <<"a", "+">>,
              <<"#">>, <<"a", "#">>, <<"#", "a">>, <<"+", "b", "a">>}

MCGraft(filter, data, mirror) == [filter |-> filter, data |-> data, mirror |-> mirror]
MCGrafts == {MCGraft(<<"+">>, <<"b">> :> "x", FALSE),
             MCGraft(<<"a", "+">>, <<"a">> :> "y", TRUE),
             MCGraft(<<"a", "+">>, <<>>, TRUE),
             MCGraft(<<"+", "a">>, <<"">> :> "y", FALSE),  \* makes the topic /a
             MCGraft(<<"+", "b">>, <<"a">> :> "x" @@ <<"b">> :> "y", TRUE)}
=============================================================================
