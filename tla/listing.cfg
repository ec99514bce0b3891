CONSTANTS
  MaxLines = 5
  MaxEdits = 2
  EditLines = 3
  Texts = {"blank", "comment_semi", "comment_close", "code", "semi", "open", "close", "close_open", "open_close"}
  Sources <- MCSources
SPECIFICATION Spec
INVARIANTS
  TypeOK
  ExcerptIsDeclaration
  ReadsAgree
CHECK_DEADLOCK FALSE
