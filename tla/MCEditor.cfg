CONSTANTS
  Types = {"choice", "human"}
  Names = {"choice", "human", "ask", "ghost"}
  Blank = Blank
  Fields = {"Choices", "Actions", "Timeout", "Prompt", "Stream"}
  Schema <- MCSchema
  FieldType <- MCFieldType
  Texts = {"", "text"}
  Numbers = {0, 1, Half}
  Fractions = {Half}
  Json = {"null", "unreadable"}
  Refused <- MCRefused
  Conditions = {"", "good", "bad"}
  BadConditions = {"bad"}
  Extras = {"", "extra"}
  Garbled = Garbled
  NoForm = NoForm
  MaxItems = 1
  Imports <- MCImports
  MaxRequests = 2
  MaxWork = 4
  MaxSelected = 2
SPECIFICATION Spec
INVARIANTS TypeOK OneStart EdgeIdsUnique AtMostTwins NoErrorsMeansSound SelectionFromCanvas TextIsConfig
PROPERTIES NoNewDangling FocusFindsFault ImportExport
