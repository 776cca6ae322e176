SPECIFICATION Spec
CONSTANTS
    Forms <- Payloads
    Request <- Requests
    Envelope <- Challenges
    Context <- Calls
    Ttl = 2
    MaxTtl = 2
INVARIANTS
    PaidForOffered
    ChargedCanVerify
    PaysWhatWasRouted
CHECK_DEADLOCK FALSE
