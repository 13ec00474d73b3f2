SPECIFICATION Spec
CONSTANT MaxChildren = 2
INVARIANTS TypeOK SegmentsAreThePackage ResultIsTheEuiccs
PROPERTY StopsAtTheEnd
CHECK_DEADLOCK FALSE
