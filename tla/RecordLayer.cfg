SPECIFICATION Spec
CONSTANTS
    SeqMax = 4
    NoFrame = NoFrame
    BadKey = BadKey
INVARIANTS
    NonceNeverReused
    ExactlyOnceInOrder
    AnswersMatch
    RatchetInStep
PROPERTIES
    SequencesNeverWrap
