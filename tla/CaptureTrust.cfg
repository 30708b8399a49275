SPECIFICATION Spec
CONSTANTS
    b1 = b1  b2 = b2
    Buffers <- MCTwoBuffers
    None = None
    MaxEvents = 2
SYMMETRY MCSymmetry
INVARIANTS TypeOK LayoutNoticed TrustDue
PROPERTIES SampledClean PreviewClean
