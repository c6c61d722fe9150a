CONSTANTS
    None = None
    Body <- MCBody
    Parsed <- MCParsed
    Path <- MCPath
    FieldName <- MCFieldName
    FieldList <- MCFieldList
    Disclosure <- MCDisclosure
    TemplateId <- MCTemplateId
    Template <- MCTemplate
    PublicKey = {n1, n2, short}
    ValidKey = {n1, n2}
    Notary = {n1, n2}
    Lifetime = 1
    MaxTime = 2
    MaxIssued = 2
SPECIFICATION PipelineSpec
INVARIANT DisclosureIntegrity
CHECK_DEADLOCK FALSE
