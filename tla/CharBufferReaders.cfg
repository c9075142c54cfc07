\* One writer, two readers: the readers' stores meet each other and the writer.
SPECIFICATION Spec
CONSTANTS
    Size = 3
    Slack = 0
    Chars = {a}
    NUL = NUL
    Writers = {w1}
    Readers = {r1, r2}
    Unknown = Unknown
SYMMETRY ProcessSymmetry
INVARIANTS MessageKept CleanReadExact
