SPECIFICATION Spec
CONSTANTS
  Attrs = {epoch, weights}
  MaxAttempt = 3
  MaxSaves = 3
  MaxTrouble = 2
INVARIANTS
  AnswersAreTrue
  ResumesFromTheLastOrLater
