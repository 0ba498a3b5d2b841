SPECIFICATION Spec
CONSTANT MaxFrames = 4
INVARIANT NoneForgotten
PROPERTY TelemetryResumes
