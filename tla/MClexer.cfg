CONSTANT Texts <- MCTexts
SPECIFICATION Spec
INVARIANTS TypeOK Tiled Spelled CommentsClosed LeavesByString
PROPERTY Termination
