CONSTANTS
  Api = {t1, t2}
  Nobody = nobody
  MaxSeq = 3
  MaxId = 2
  MaxDeaths = 1
SYMMETRY SameThreads
SPECIFICATION Spec
INVARIANTS OwnReply EventAlive TableClean SessionOutlivesThread
