SPECIFICATION Spec
CONSTANTS
  thread1 = thread1
  thread2 = thread2
  x = x
  y = y
  z = z
  Threads = {thread1, thread2}
  States = {x, y, z}
  MaxLives = 5
  None = None
INVARIANTS
  OnePlace
PROPERTIES
  LivesAreSeparate
