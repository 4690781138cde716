SPECIFICATION Spec
CONSTANT MaxTurns = 3
INVARIANTS AnswersComeBack
CHECK_DEADLOCK FALSE
