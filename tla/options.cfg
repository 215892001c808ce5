\* Every list of up to three options, every end of the area, and offsets
\* that do not fit the frame.
SPECIFICATION FairSpec
CONSTANT Segment <- AnySegment
INVARIANTS TypeOK StaysInArea ReadsWhatWasWritten
PROPERTY ParseEnds
\* a call that has returned does nothing more
CHECK_DEADLOCK FALSE
