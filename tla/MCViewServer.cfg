SPECIFICATION Spec
CONSTANTS
    s1 = s1
    s2 = s2
    Shapes = {s1, s2}
    NoShape = NoShape
    Modes = {FALSE, TRUE}
INVARIANTS
    TypeOK
    NoShapeRace
    ShapePresent
    NoLostWakeup
PROPERTIES
    DeliveredOnReturn
    CallReturns
    ExitStops
    ImplementsService
    EagerChangeIsDrawn
