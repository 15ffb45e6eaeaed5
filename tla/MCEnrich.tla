------------------------------ MODULE MCEnrich ------------------------------
(***************************************************************************)
(* Instances of Enrich for TLC: three domains that share the contact A;    *)
(* contacts without a handle, without a link, and with several roles; and  *)
(* an answer for A that calls itself B.                                    *)
(***************************************************************************)
EXTENDS Enrich

E(roles, handle, link) == [roles |-> roles, handle |-> handle, link |-> link]

Detail == [link \in {"a", "b", "c", "d"} |-> IF link \in {"a", "b"} THEN "B" ELSE "C"]

Shared ==
    <<<<E({"registrar", "technical"}, "R", "r"), E({"registrant"}, "A", "a")>>,
      <<E({"registrar"}, "S", NoLink), E({"registrant", "administrative"}, "A", "a"),
        E({"technical"}, "B", "b")>>,
      <<>>>>

Nameless ==
    <<<<E({"technical"}, NoHandle, "c"), E({}, "C", "c")>>,
      <<E({"administrative"}, NoHandle, "d"), E({"technical"}, "D", NoLink)>>,
      <<E({"registrant"}, "D", "d"), E({"registrant"}, "C", "c")>>>>

MCWorlds == {[domains |-> domains, detail |-> Detail] : domains \in {Shared, Nameless, <<>>}}
=============================================================================
