SPECIFICATION ColumnsSpec
CONSTANTS
  a = a
  b = b
  k1 = k1
  k2 = k2
  small = small
  large = large
  largeToo = largeToo
  other = other
  NoRow = NoRow
  NoGeometry = NoGeometry
  NoRef = NoRef
  NoTime = NoTime
  Keys <- MCKeys
  Attributes <- MCAttributes
  Geometries <- MCGeometries
  Large <- MCLarge
  Shape <- MCShape
  Sources <- MCSources
  MaxTxid = 2
  MaxAttempts = 2
PROPERTIES
  PastIsKept
