SPECIFICATION Spec
CONSTANTS
  Changes = {a, b}
  MaxCommits = 2
  MaxOps = 5
PROPERTY WorkIsKept
PROPERTY AnswerIsTrue
