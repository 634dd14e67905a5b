CONSTANTS
  Null = Null
  Calls = {1, 2}
  Jobs <- MCJobs
  RedirectTo <- Redirection
SPECIFICATION FairSpec
INVARIANTS Undisturbed LeavesNothing FramesAnswerTheirOwn DecisionReached
PROPERTIES CallSettles
CHECK_DEADLOCK FALSE
