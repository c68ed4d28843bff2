CONSTANTS
    N = 2
    MaxFd = 7
    MaxPictures = 3
    ModelW = 8
    ModelH = 8
    Geometries <- MCGeometries
    Detections <- MCDetections
    FPSImage <- MCFPSImage
SPECIFICATION Spec
INVARIANTS
    DescriptorsAccounted
    FitsBuffer
    AllGivenBack
    LabelsInside
CHECK_DEADLOCK FALSE
