\* Two threads, and the two commands of one motion.
CONSTANTS
  Threads = {t1, t2}
  MaxPosts = 2
SPECIFICATION Spec
INVARIANT OneWriteAtATime
