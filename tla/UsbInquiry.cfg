SPECIFICATION Spec
CONSTANT MaxIssues = 1
INVARIANT InquiryCompletes
CHECK_DEADLOCK FALSE
