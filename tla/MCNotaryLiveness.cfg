CONSTANTS
    SessionId = {r1, r2}
    None = None
    MaxSessions = 1
    utah = utah
    portal = portal
    unknown = unknown
    votesearch = votesearch
    elsewhere = elsewhere
    empty = empty
    partial = partial
    full = full
    narrow = narrow
    wide = wide
    status = status
    everything = everything
    TemplateId <- MCTemplateId
    Registered <- MCRegistered
    Hostname <- MCHostname
    TargetHost <- MCTargetHost
    AllowedHosts <- MCAllowedHosts
    Body <- MCBody
    NotFoundBody <- MCNotFoundBody
    Disclosure <- MCDisclosure
    DefaultDisclosure <- MCDefaultDisclosure
    Extraction <- MCExtraction
    ExtractFields <- MCExtractFields
SPECIFICATION FairSpec
PROPERTIES
    EveryRequestEnds
    OnlyUnmarkedLinger
CHECK_DEADLOCK FALSE
