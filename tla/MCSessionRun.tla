---------------------------- MODULE MCSessionRun ----------------------------
(* A small node: a seeded question that names two sources of one host, and *)
(* a rephrasing of it that the operator or a session may add.              *)
EXTENDS SessionRun

CONSTANTS q1, q2, sA, sB, m1, k1, k2

MCPriority == q1 :> 0 @@ q2 :> 1
MCRephrase == q1 :> {q2} @@ q2 :> {q1}
MCNamed == q1 :> {sA, sB} @@ q2 :> {sA}

CallTo(tool) == [tool |-> tool, valid |-> TRUE, url |-> FALSE, copies |-> FALSE,
               source |-> "none", host |-> "none", stems |-> {"none"}, actors |-> 0,
               message |-> "none"]
MCCall ==
    <<[CallTo("research.fetch") EXCEPT !.url = TRUE, !.source = sA, !.host = "h"],
     [CallTo("research.fetch") EXCEPT !.url = TRUE, !.source = sB, !.host = "h"],
     [CallTo("web.search") EXCEPT !.stems = {"rate"}, !.actors = 3],
     [CallTo("web.search") EXCEPT !.stems = {"price"}, !.actors = 3],
     CallTo("question.create"),
     [CallTo("message.reply") EXCEPT !.message = m1],
     [CallTo("python.execute") EXCEPT !.copies = TRUE]>>

Claim(target) == [target |-> target, twin |-> "none", faults |-> {}, links |-> {"good"}]
MCProposal ==
    LET P(cs) == [claims |-> cs, whole |-> FALSE, defect |-> FALSE, relied |-> {}, questions |-> 0]
    IN  <<P({Claim("new")}),
         [P({Claim("new"), [Claim("new") EXCEPT !.links = {"blind"}]}) EXCEPT !.questions = 1],
         P({[Claim("new") EXCEPT !.twin = k1, !.faults = {"as_of"}]}),
         P({[Claim(k1) EXCEPT !.faults = {"rules"}], [Claim(k2) EXCEPT !.links = {"undated"}]}),
         P({[Claim("new") EXCEPT !.faults = {"search"}], [Claim(k1) EXCEPT !.faults = {"anchor"}]}),
         [P({[Claim("new") EXCEPT !.links = {"blind"}]}) EXCEPT !.relied = {k1}],
         [P({[Claim("new") EXCEPT !.faults = {"period"}]}) EXCEPT !.relied = {k2}],
         [P({}) EXCEPT !.defect = TRUE],
         [P({}) EXCEPT !.relied = {k1, k2}],
         [P({Claim("new")}) EXCEPT !.whole = TRUE, !.relied = {k1}]>>
=============================================================================
