\* One message, two packets, m_refCount being what the memory held before.
CONSTANTS
  Msgs = {m1}
  NoMsg = NoMsg
  MaxPackets = 2
  InitRefs = {0, 1}
  MayStop = FALSE
SPECIFICATION FairSpec
PROPERTY ReleasedIsDeleted
CHECK_DEADLOCK FALSE
