---------------------- MODULE MCNotificationDelivery -----------------------
EXTENDS NotificationDelivery, TLC

CONSTANTS e1, e2, e3, w1, w2, h1, h2, u1, u2

EventSymmetry  == Permutations(Events)
LeaseSymmetry  == Permutations(Events) \cup Permutations(Workers)
UpdateSymmetry == Permutations(Updates)
=============================================================================
