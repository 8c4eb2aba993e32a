SPECIFICATION HSpec
CONSTANT TimeoutFrames = 4
INVARIANTS TypeOK RawByChoice
PROPERTIES BootstrapEnds ImplementsGate
