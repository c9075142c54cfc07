\* Two writers whose copies interleave byte by byte, and a reader that reads to
\* the end of the file meanwhile.
SPECIFICATION FairSpec
CONSTANTS
    Size = 2
    Slack = 2
    Chars = {a}
    NUL = NUL
    Writers = {w1, w2}
    Readers = {r1}
    Unknown = Unknown
INVARIANTS TailTerminated
PROPERTIES OverrunOnlyInWindow ReadToEofEnds
