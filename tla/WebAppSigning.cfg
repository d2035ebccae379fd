SPECIFICATION Spec
CONSTANTS
  t1 = t1  t2 = t2  p1 = p1  p2 = p2
  Txs = {t1, t2}
  ContextTakers = {t1, t2}
  Posts = {p1, p2}
  NoTx = NoTx
  MaxFaults = 1
SYMMETRY Symmetry
INVARIANTS TypeOK UnsignedStaysCancelled SubmittedOnce OfferedNotSubmitted
           CallbackFollows RebuiltKeysGo
