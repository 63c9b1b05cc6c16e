SPECIFICATION PoseSpec
CONSTANTS
    Photos <- MCPhotos
    Steps = 8
    YawMax = 262
INVARIANT TurnedIsRejected
CHECK_DEADLOCK FALSE
