\* What the code does not keep: each line below is violated by itself.
SPECIFICATION MCSpec
CONSTANTS
  r1 = r1  y1 = y1  y2 = y2
  Readers = {r1}
  Limit = 2
  Costs = {1, 2}
  MaxWire = 2
  Unseen = Unseen  NoTotal = NoTotal  Nothing = Nothing
  Syncs = {y1, y2}
  Names = {"m1", "m2"}
  Reports <- TwoScopes
  MaxRows = 3
  NoMachine = NoMachine  Unnamed = Unnamed
  Shares <- AllShares
  q1 = q1  q2 = q2  q3 = q3
  Requests = {q1, q2}
  Subjects <- Broad
  Pack <- ResearchPack
  Override <- OneStep
  MaxTurns = 2
  MaxDrives = 1
  Unset = Unset  NoRequest = NoRequest
SYMMETRY MCSymmetry
INVARIANTS
  GrantStaysInItsDrive  \* a grant of one drive of the user is used in the next
  AcceptedForThisRequest  \* the app-server numbers its requests anew
  PolicyIsForExperts  \* a turn of the user goes on while the expert drives
  QuestionsWithinLimit  \* two questions of a turn side by side
  StopIsOfItsTurn  \* the stop of one turn is taken by another
  AnswerIsTaken  \* an answer before the handler waits, or after it has stopped
  OneRowPerName  \* two reports create a machine of one name
  RecordedIsNotRejected  \* a report is recorded and its sender told no
  UsageIsNeverMoreThanSpent  \* the total of a thread is forgotten
CHECK_DEADLOCK FALSE
