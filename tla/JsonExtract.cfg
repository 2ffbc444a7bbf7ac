\* Objects of up to two strings and two levels, whole and truncated, amid prose, in one
\* string or in chunks, with every meaning.
SPECIFICATION ExtractSpec
CONSTANT Answers <- MCAnswers
INVARIANTS
    ExtractsExactlyTheObject
    OutcomeIsOfTheFirstAssessment
CHECK_DEADLOCK FALSE
