---------------------------- MODULE MCCdcSource ----------------------------
(* An instance of CdcSource for TLC: a database in a group of two servers,   *)
(* configured on the first; one that lives on the first server outside the   *)
(* group and is replicated otherwise; one on a server of its own that may    *)
(* stay down.  Their connectors write to topics of one site.                 *)
EXTENDS CdcSource

CONSTANTS s1, s2, s3, g, d1, d2, d3, c1, c2

TwoMembers   == [x \in {g} |-> {s1, s2}]
FirstInGroup == [d \in Db |-> IF d = d1 THEN g ELSE None]
Homes        == [d \in Db |-> IF d = d2 THEN s3 ELSE s1]
Jobs         == {<<s1, d1>>, <<s2, d1>>, <<s3, d2>>}

Configs == [c \in {c1, c2} |->
  [db |-> IF c = c1 THEN d1 ELSE d2, prefix |-> <<"site">>, history |-> <<"history">>,
   path |-> <<"site", IF c = c1 THEN "d1" ELSE "d2", "dbo">>, tables |-> {"orders"}]]
Old == {<<"site", "d1", "dbo", "users">>}
=============================================================================
