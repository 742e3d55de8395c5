SPECIFICATION Spec
CONSTANTS
    d1 = d1
    d2 = d2
    MaxGen = 5
    Metadata <- MCMetadata
    MetadataInit <- MCMetadataInit
INVARIANTS TypeOK AckedIsDurable TargetIsSpare
PROPERTIES RecordNeverLost ImplementsStore
