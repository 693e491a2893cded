SPECIFICATION MCSpec
CONSTANTS
    Calls <- Names
    Envelope <- Envelopes
    Agents = {"ana", "bob"}
    AddressOf <- TwoAgents
    Rules <- AcmeOnly
    Formats <- Socratic
    MaxAnswers <- OneAnswer
    MaxFaults = 1
    Restarts = 1
    Workloads <- Together
CHECK_DEADLOCK FALSE
INVARIANTS AnswersFollowQuestions AnswersFitTheQuestion DeliveredWithinPolicy InvalidationHolds
PROPERTIES CallsEnd
