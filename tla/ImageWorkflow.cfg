\* An image and a notice share the topic; an invoke has four attempts.
SPECIFICATION FairSpec
CONSTANTS
    i1 = i1
    n1 = n1
    Images <- MCImages
    Notices <- MCNotices
    MaxAttempts = 4
INVARIANTS AnsweredIsNotified OneIdUnlessUnanswered
PROPERTY EveryRequestAnswered
