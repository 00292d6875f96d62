\* Any consumer: it asks, waits, is cancelled or forgets the stream.
SPECIFICATION RouterFairSpec
CONSTANTS
    primary = primary
    secondary = secondary
    Primary = primary
    Secondary = secondary
    Codes <- MCCodes
    Weights = {1, 2}
    MaxEvents = 3
INVARIANTS
    RouterTypeOK
    AtMostOneUpstream
    FailoverJustified
    CountKept
    OutcomeTruthful
PROPERTIES
    FirstTokenDeadline
    UpstreamReleased
