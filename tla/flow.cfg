SPECIFICATION FairSpec
CONSTANTS
  Run = {r1, r2}
  r1 = r1
  r2 = r2
  Door <- DoorOf
  Root <- Forked
  Sub <- Plain
  MaxEdits <- Edits
  None = None
CHECK_DEADLOCK FALSE
INVARIANTS TypeOK FailureWins AnswerTrue RunsItsRelease
PROPERTIES EndsOnce Answered
