----------------------------- MODULE MCDispatch -----------------------------
(* The environment of a broker with up to two routes, each variable valid, *)
(* missing, clashing with another or plainly wrong.                        *)
EXTENDS Dispatch

\* Every combination of a family, a unit and an idle timeout for the default backend.
MCDefaults ==
  [fam : {"ollama", "openai"}, url : {"d"}, unit : {"", "u"}, idle : {0, 1}]
  \cup [fam : {"other"}, url : {"bad"}, unit : {"u"}, idle : {-1}]

\* For a route every combination of the variables other variables depend on,
Sound ==
  [models : {<<"m1">>}, fam : {"ollama", "openai"}, url : {"d", "a", "b"},
   unit : {"", "u", "v"}, idle : {0, 1}, lane : {"", "batch"}]
  \cup [models : {<<"m2">>}, fam : {"ollama", "openai"}, url : {"d", "b"},
        unit : {"", "u", "v"}, idle : {0, 1}, lane : {""}]

\* and one of each variable that is wrong by itself.
Wrong ==
  LET g == [models |-> <<"m1">>, fam |-> "openai", url |-> "a", unit |-> "v", idle |-> 1,
            lane |-> ""]
  IN  {[g EXCEPT !.models = <<"m1", "m1">>], [g EXCEPT !.models = <<"m1", "">>],
       [g EXCEPT !.fam = "other"], [g EXCEPT !.url = "bad"], [g EXCEPT !.idle = -1],
       [g EXCEPT !.lane = "other"]}

\* A group with two models.
Both == [models |-> <<"m1", "m2">>, fam |-> "openai", url |-> "a", unit |-> "v", idle |-> 1,
         lane |-> "interactive"]

MCGroups == Sound \cup Wrong \cup {Both}

=============================================================================
