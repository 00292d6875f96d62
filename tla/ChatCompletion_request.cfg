\* One request, streamed or not, with a client that may disconnect.
SPECIFICATION FairSpec
CONSTANTS
    primary = primary
    secondary = secondary
    Primary = primary
    Secondary = secondary
    Codes <- MCCodes
    Requests <- MCRequests
    Prompt = 2
    MaxOutput = 4
    Weights = {1, 2}
    MaxEvents = 3
INVARIANTS
    RequestCounted
    ErrorsAreHonest
    NoUnpaidWork
    CompleteIsPaid
PROPERTIES
    ImplementsOneAnswer
    RequestEnds
    StreamSettled
