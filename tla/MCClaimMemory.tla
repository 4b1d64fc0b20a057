---------------------------- MODULE MCClaimMemory ----------------------------
(***************************************************************************)
(* Two claims, a page fetched twice, a second page with two passages that  *)
(* is later mirrored by the first, and the publication that all may have   *)
(* taken their value from.                                                 *)
(***************************************************************************)
EXTENDS ClaimMemory

MCClaims == {1, 2}
MCRule ==
    <<[kinds |-> {"source_assertion"}, support |-> 2, groups |-> 2, grade |-> 2,
       scoped |-> TRUE, dated |-> FALSE, relation |-> None],
      [kinds |-> {"source_assertion", "experiment_run"}, support |-> 2, groups |-> 1, grade |-> 3,
       scoped |-> FALSE, dated |-> TRUE, relation |-> "reproducibility"]>>

MCSources == {"page1", "page2", "page1later", "origin"}
MCSource ==
    [page1 |-> [uri |-> "A", domain |-> "a", content |-> "x", at |-> 1],
     page2 |-> [uri |-> "B", domain |-> "b", content |-> "y", at |-> 2],
     page1later |-> [uri |-> "A", domain |-> "a", content |-> "z", at |-> 2],
     origin |-> [uri |-> "C", domain |-> "c", content |-> None, at |-> 1]]

MCManifests == {"m1", "m2"}
MCManifest ==
    [m1 |-> [protocol |-> "p", implementation |-> "i", dataset |-> None, run |-> "r1"],
     m2 |-> [protocol |-> "p", implementation |-> "i", dataset |-> None, run |-> "r2"]]

Said(s) == [id |-> s, kind |-> "source_assertion", source |-> s, env |-> None]
Ran(m) == [id |-> m, kind |-> "experiment_run", source |-> None, env |-> m]
Passage == [Said("page2") EXCEPT !.id = "page2below"]
Mirror == [Said("page2") EXCEPT !.source = "page1later"]
MCObs == {Said("page1"), Passage, Said("page2"), Mirror, Said("page1later"), Ran("m1"), Ran("m2")}

Undated == [day |-> 0, relative |-> FALSE, domains |-> {}]
Dated == [day |-> 2, relative |-> FALSE, domains |-> {"a", "b"}]
Today == [day |-> 0, relative |-> TRUE, domains |-> {}]

Op(k, byRef, asof, to) ==
    [claim |-> k, byRef |-> byRef, asof |-> asof,
     deps |-> {[to |-> d, kind |-> "evidential"] : d \in to}]
Link(k, o, relation, parent) ==
    [claim |-> k, obs |-> o, relation |-> relation,
     attr |-> IF parent = None THEN NoAttr ELSE [parent |-> parent, method |-> "earlier"]]

MCBatches ==
    {[day |-> 1, question |-> Undated, ops |-> <<Op(1, FALSE, 1, {})>>,
      links |-> <<Link(1, Said("page1"), "supports", "page1"), Link(1, Said("page2"), "supports", None),
                  Link(1, Passage, "supports", None)>>],
     [day |-> 1, question |-> Today, ops |-> <<Op(2, FALSE, 0, {1})>>,
      links |-> <<Link(2, Ran("m1"), "supports", None), Link(2, Ran("m2"), "supports", None),
                  Link(2, Said("page2"), "supports", "origin")>>],
     [day |-> 2, question |-> Dated, ops |-> <<Op(1, TRUE, 0, {2})>>,
      links |-> <<Link(1, Said("page1later"), "supports", "origin"),
                  Link(1, Said("page1"), "counters", None)>>],
     [day |-> 2, question |-> Undated, ops |-> <<Op(1, FALSE, 2, {}), Op(2, TRUE, 1, {1}), Op(1, TRUE, 1, {2})>>,
      links |-> <<Link(2, Said("page1later"), "counters", None),
                  Link(1, Mirror, "supports", "page2")>>]}

MCValueAbsent == {<<1, "page2">>, <<2, "page2">>}
MCPointers == {<<"page1", "origin">>, <<"origin", "page1later">>}
MCAttributions == {<<1, "page2", "origin">>, <<2, "page2", None>>}
=============================================================================
