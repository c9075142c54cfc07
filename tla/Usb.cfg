SPECIFICATION MCSpec
CONSTANT MaxIssues = 4
INVARIANTS OrphanExplained StaleAnswerExplained NobodyForgotten WorkUseExplained WhatIsLeft
PROPERTIES CommandEnds
\* The disconnected and the crashed driver do nothing more.
CHECK_DEADLOCK FALSE
