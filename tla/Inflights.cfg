SPECIFICATION Spec
CONSTANTS
  Size = 5
  MaxIndex = 10
PROPERTIES RefinesQueue
