\* Any number of strobes, at any time.
SPECIFICATION Spec
INVARIANTS StrobeHolds NoEdgeLeftOver
PROPERTY EventuallyReleased
