SPECIFICATION RelaySpec
CONSTANTS
  TCP_WND = 2
  TCP_SND_BUF = 3
  RecvBufSize = 2
  MaxBytes = 4
  AuthInfo = {"none", "password"}
  PasswordSize = 1
INVARIANTS ClientSafe NothingLost HandshakeSafe SidesAgree
PROPERTIES ClosedIsFreed AcceptedIsAnswered
CHECK_DEADLOCK FALSE
