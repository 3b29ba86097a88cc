SPECIFICATION Spec

INVARIANT
    VoiceQueueOpens

CHECK_DEADLOCK FALSE
