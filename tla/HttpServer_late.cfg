CONSTANTS
  Requests = {q1, q2}
  NoRequest = NoRequest
  Main = Main
  MaxParts = 1
  maxUploadFiles = 1
  MaxSaves = 1
SPECIFICATION HttpSpec
PROPERTIES RegistrationRaises
CHECK_DEADLOCK FALSE
