CONSTANTS
    q1 = q1  q2 = q2  sA = sA  sB = sB  m1 = m1  k1 = k1  k2 = k2
    Questions = {q1, q2}
    Seeded = {q1}
    Priority <- MCPriority
    Rephrase <- MCRephrase
    NoProgressLimit = 1
    Selector = "fifo"
    Named <- MCNamed
    Calls = {1, 2, 3, 4, 5, 6, 7}
    Call <- MCCall
    Tools = {"research.fetch", "web.search", "question.create", "message.reply", "python.execute"}
    Network = TRUE
    MaxSteps = 3
    MaxNewClaims = 2
    MaxEvidence = 3
    MaxNewQuestions = 1
    Messages = {m1}
    Proposals = {1, 2, 3, 4, 5, 6, 7, 8, 9, 10}
    Proposal <- MCProposal
    MaxSessions = 2
    Pack = {k1, k2}
    ReliedLimit = 1
    RecordGates = TRUE
SPECIFICATION Spec
INVARIANTS RunTypeOK VerifiedHasClaim SuccessIsCovered OneResearchPerQuestion
PROPERTY SessionProgress
CHECK_DEADLOCK FALSE
