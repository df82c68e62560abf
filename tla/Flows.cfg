SPECIFICATION FlowsSpec
CONSTANTS
  Step <- SourceSteps
  None = None
INVARIANTS SurfacesBelongToSteps CurrentStepGoesOn
PROPERTIES FlowsSettle
