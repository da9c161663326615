SPECIFICATION Spec
CONSTANTS
  r1 = r1
  r2 = r2
  u1 = u1
  u2 = u2
  shell = shell
  patch = patch
  Runs <- TwoRuns
  Users <- TwoUsers
  Tools = {shell, patch}
  MaxCalls = 3
  StoreMayFail = TRUE
SYMMETRY Symmetric
CONSTRAINT OneOrTwoRuns
INVARIANTS StartedWithConsent DeniedNeverStarts AnswersAgree NothingLeftBehind
PROPERTIES AnswersFinal ImplementsConsent
CHECK_DEADLOCK FALSE
