------------------------------ MODULE MCNames ------------------------------
(***************************************************************************)
(* Instances of Names for TLC: every host name of up to four labels.       *)
(***************************************************************************)
EXTENDS Names

SomeLabels == {"cz", "www", "a", "a_b", "", "*"}
Spelt == {<<"a", "cz">>, <<"www", "a", "cz">>, <<"a_b", "a", "cz", "">>, <<"a_b", "cz">>,
          <<"www", "cz">>, <<"www", "www", "cz">>, <<"">>}
AllHosts == UNION {[1..n -> SomeLabels] : n \in 1..4}
=============================================================================
