CONSTANTS
    q1 = q1
    q2 = q2
    product = product
    variant = variant
    k1 = k1
    k2 = k2
    d1 = d1
    plain = plain
    Requests <- MCRequests
    Rows <- MCRows
    OldRows <- MCOldRows
    FieldsOf <- MCFieldsOf
    CustomKeys <- MCCustomKeys
    DoorKeys <- MCDoorKeys
    PlainKeys <- MCPlainKeys
    NoRow = NoRow
    Nothing = Nothing
    Elsewhere = Elsewhere
    BodyFields <- MCBodyFields
    PlainFile = PlainFile
SPECIFICATION Spec
INVARIANTS
    LinkResolves
    VersionShowsUpload
    ImportReuses
PROPERTIES
    AnsweredUnlessHeld
\* Once every request is answered and every row and file is gone nothing is left.
CHECK_DEADLOCK FALSE
