CONSTANTS
  Api = {t1}
  Nobody = nobody
  MaxSeq = 2
  MaxId = 3
  MaxDeaths = 1
SPECIFICATION FairSpec
PROPERTIES CallsReturn Reconnects
