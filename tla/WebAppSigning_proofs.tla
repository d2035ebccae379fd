------------------------ MODULE WebAppSigning_proofs ------------------------
(***************************************************************************)
(* The safety of WebAppSigning for any number of transactions, requests    *)
(* and faults.                                                             *)
(***************************************************************************)
EXTENDS WebAppSigning, FiniteSetTheorems, TLAPS

\* The types but for the bounds on queue and submitted, and which await names a
\* transaction.
TypeInv ==
  /\ tx \in [Txs -> Keys]
  /\ queue \in [Txs -> Nat] /\ submitted \in [Txs -> Nat]
  /\ flow \subseteq Marks
  /\ hpc \in {"idle", "cleardata", "publish"} /\ draft \in Txs \cup {NoTx}
  /\ ppc \in [Posts -> {"new", "checked", "written", "done"}]
  /\ ptx \in [Posts -> Txs \cup {NoTx}]
  /\ wpc \in Working \cup {"idle"} /\ wtx \in Txs \cup {NoTx} /\ full \in BOOLEAN
  /\ purpose \in [Txs -> Purposes \cup {"none"}]
  /\ reset \subseteq Txs /\ overlap \subseteq Txs /\ cancelled \subseteq Txs
  /\ unsigned \subseteq Txs /\ rebuilt \subseteq Txs
  /\ accepted \subseteq Txs /\ called \subseteq Txs /\ ran \subseteq Txs
  /\ failed \subseteq Txs /\ faults \in 0..MaxFaults
  /\ wpc = "idle" <=> wtx = NoTx
  /\ hpc = "publish" <=> draft # NoTx
  /\ \A p \in Posts : ppc[p] = "new" <=> ptx[p] = NoTx

\* The worker has the message of t and has not submitted t yet.
Deciding == {"route", "login", "offer", "submit"}

Held(t) == IF wtx = t /\ wpc \in Deciding THEN 1 ELSE 0

\* The requests for t that have pushed their message, or failed.
Through(t) == {p \in Posts : ptx[p] = t /\ ppc[p] = "done"}

\* Every message and every submission comes from a request of its own.
CountInv ==
  \A t \in Txs : queue[t] + submitted[t] + Held(t) <= Cardinality(Through(t))

\* No signature of t has been written.
Written(t) == {p \in Posts : ptx[p] = t /\ ppc[p] = "written"}

Fresh(t) == queue[t] = 0 /\ submitted[t] = 0 /\ wtx # t /\ Written(t) = {}

Untouched(t) == tx[t] = "absent" /\ Fresh(t) /\ Checked(t) = {}

\* A key is pending once, and before any signature is written.
FreshInv ==
  \A t \in Txs :
    /\ purpose[t] = "none" => draft # t /\ Untouched(t)
    /\ draft = t => Untouched(t)
    /\ tx[t] = "pending" => draft # t /\ Fresh(t)
    /\ t \in unsigned => purpose[t] # "none" /\ draft # t /\ Untouched(t)

\* Without an overlap one request passes the check, and its signature is at one
\* place on the way to the worker.
OnceInv ==
  \A t \in Txs \ overlap :
    /\ \A p, r \in Checked(t) \cup Written(t) : p = r
    /\ Checked(t) \cup Written(t) # {} => queue[t] = 0 /\ submitted[t] = 0 /\ Held(t) = 0
    /\ queue[t] + submitted[t] + Held(t) <= 1

\* The mark of a transaction whose use is up to the user stays in the FSM data
\* until a clear_state(), so that Route() does not choose to submit it.
UseInv ==
  \A t \in Txs :
    purpose[t] = "tools" /\ t \notin reset =>
      /\ "tools" \in flow
      /\ submitted[t] = 0
      /\ wtx = t => wpc # "submit"

\* A hash without the published fields was rebuilt.
RebuiltInv ==
  /\ \A t \in Txs : tx[t] = "rebuilt" => t \in rebuilt
  /\ wtx # NoTx /\ ~full => wtx \in rebuilt

\* Every step keeps the types.
LEMMA TypeStep == TypeInv /\ [Next]_vars => TypeInv'
<1>. SUFFICES ASSUME TypeInv, [Next]_vars PROVE TypeInv'
  OBVIOUS
<1>. USE SigningAssumption DEF TypeInv, Keys, Marks, Purposes, Working, Published,
   keyVars, handlerVars, postVars, workerVars, historyVars, outcomeVars, faultVars
<1>1. CASE Command
  BY <1>1 DEF Command, ClearKeys
<1>2. CASE CommandReset
  BY <1>2 DEF CommandReset, ClearData
<1>3. CASE Publish
  BY <1>3 DEF Publish
<1>4. ASSUME NEW t \in Txs, Cancel(t) PROVE TypeInv'
  BY <1>4 DEF Cancel
<1>5. ASSUME NEW t \in Txs, Expire(t) PROVE TypeInv'
  BY <1>5 DEF Expire
<1>6. ASSUME NEW t \in Txs, NEW f \in Purposes, Prepare(t, f) PROVE TypeInv'
  BY <1>6 DEF Prepare, Requested, Pasted
<1>7. ASSUME NEW p \in Posts, NEW t \in Txs, CheckPending(p, t) PROVE TypeInv'
  BY <1>7 DEF CheckPending, CanSign
<1>8. ASSUME NEW p \in Posts, StoreSignature(p) PROVE TypeInv'
  BY <1>8 DEF StoreSignature
<1>9. ASSUME NEW p \in Posts, Push(p) PROVE TypeInv'
  BY <1>9 DEF Push
<1>10. ASSUME NEW p \in Posts, PostFails(p) PROVE TypeInv'
  BY <1>10 DEF PostFails, Fault
<1>11. ASSUME NEW t \in Txs, Receive(t) PROVE TypeInv'
  <2>1. CASE tx[t] \in {"signed", "rebuilt"}
    BY <1>11, <2>1 DEF Receive
  <2>2. CASE tx[t] \notin {"signed", "rebuilt"}
    BY <1>11, <2>2 DEF Receive
  <2>. QED  BY <2>1, <2>2
<1>12. CASE Route
  BY <1>12 DEF Route, Proceed
<1>13. CASE Login
  BY <1>13 DEF Login, Proceed
<1>14. CASE Offer
  BY <1>14 DEF Offer, Proceed
<1>15. CASE Submit
  BY <1>15 DEF Submit, Proceed
<1>16. CASE CallBack
  BY <1>16 DEF CallBack, Proceed, CallWithoutContext
<1>17. CASE WorkerClearKeys
  BY <1>17 DEF WorkerClearKeys, Proceed, ClearKeys
<1>18. CASE WorkerClearData
  BY <1>18 DEF WorkerClearData, Proceed, ClearData
<1>19. CASE DeleteKey
  BY <1>19 DEF DeleteKey, Rest
<1>20. CASE WorkerFails
  <2>1. wtx \in Txs
    BY <1>20 DEF WorkerFails
  <2>2. failed' \subseteq Txs /\ faults' \in 0..MaxFaults
    BY <1>20, <2>1 DEF WorkerFails, Fault
  <2>. QED  BY <1>20, <2>2 DEF WorkerFails, Rest
<1>21. CASE UNCHANGED vars
  BY <1>21 DEF vars
<1>. HIDE DEF TypeInv
<1>. QED  BY <1>1, <1>2, <1>3, <1>4, <1>5, <1>6, <1>7, <1>8, <1>9, <1>10, <1>11,
   <1>12, <1>13, <1>14, <1>15, <1>16, <1>17, <1>18, <1>19, <1>20, <1>21 DEF Next,
   WorkerStep

\* Only StoreSignature() of a key that is gone makes a hash without the published fields.
LEMMA RebuiltStep == TypeInv /\ RebuiltInv /\ [Next]_vars => RebuiltInv'
<1>. SUFFICES ASSUME TypeInv, RebuiltInv, [Next]_vars PROVE RebuiltInv'
  OBVIOUS
<1>. USE SigningAssumption DEF TypeInv, RebuiltInv, Keys, Working, keyVars,
   handlerVars, postVars, workerVars, historyVars, outcomeVars, faultVars
<1>1. CASE Command
  BY <1>1 DEF Command, ClearKeys
<1>2. CASE CommandReset
  BY <1>2 DEF CommandReset, ClearData
<1>3. CASE Publish
  BY <1>3 DEF Publish
<1>4. ASSUME NEW t \in Txs, Cancel(t) PROVE RebuiltInv'
  BY <1>4 DEF Cancel
<1>5. ASSUME NEW t \in Txs, Expire(t) PROVE RebuiltInv'
  BY <1>5 DEF Expire
<1>6. ASSUME NEW t \in Txs, NEW f \in Purposes, Prepare(t, f) PROVE RebuiltInv'
  BY <1>6 DEF Prepare, Requested, Pasted
<1>7. ASSUME NEW p \in Posts, NEW t \in Txs, CheckPending(p, t) PROVE RebuiltInv'
  BY <1>7 DEF CheckPending, CanSign
<1>8. ASSUME NEW p \in Posts, StoreSignature(p) PROVE RebuiltInv'
  BY <1>8 DEF StoreSignature
<1>9. ASSUME NEW p \in Posts, Push(p) PROVE RebuiltInv'
  BY <1>9 DEF Push
<1>10. ASSUME NEW p \in Posts, PostFails(p) PROVE RebuiltInv'
  BY <1>10 DEF PostFails, Fault
<1>11. ASSUME NEW t \in Txs, Receive(t) PROVE RebuiltInv'
  BY <1>11 DEF Receive
<1>12. CASE Route
  BY <1>12 DEF Route, Proceed
<1>13. CASE Login
  BY <1>13 DEF Login, Proceed
<1>14. CASE Offer
  BY <1>14 DEF Offer, Proceed
<1>15. CASE Submit
  BY <1>15 DEF Submit, Proceed
<1>16. CASE CallBack
  BY <1>16 DEF CallBack, Proceed, CallWithoutContext
<1>17. CASE WorkerClearKeys
  BY <1>17 DEF WorkerClearKeys, Proceed, ClearKeys
<1>18. CASE WorkerClearData
  BY <1>18 DEF WorkerClearData, Proceed, ClearData
<1>19. CASE DeleteKey
  BY <1>19 DEF DeleteKey, Rest
<1>20. CASE WorkerFails
  BY <1>20 DEF WorkerFails, Fault, Rest
<1>21. CASE UNCHANGED vars
  BY <1>21 DEF vars
<1>. HIDE DEF TypeInv, RebuiltInv
<1>. QED  BY <1>1, <1>2, <1>3, <1>4, <1>5, <1>6, <1>7, <1>8, <1>9, <1>10, <1>11,
   <1>12, <1>13, <1>14, <1>15, <1>16, <1>17, <1>18, <1>19, <1>20, <1>21 DEF Next,
   WorkerStep

\* Only clear_state() empties the FSM data, and it notes every published transaction.
LEMMA UseStep == TypeInv /\ FreshInv /\ UseInv /\ [Next]_vars => UseInv'
<1>. SUFFICES ASSUME TypeInv, FreshInv, UseInv, [Next]_vars PROVE UseInv'
  OBVIOUS
<1>. USE SigningAssumption DEF TypeInv, FreshInv, UseInv, Fresh, Untouched, Marks,
   Purposes, Working, Published, keyVars, handlerVars, postVars, workerVars,
   historyVars, outcomeVars, faultVars
<1>1. CASE Command
  BY <1>1 DEF Command, ClearKeys
<1>2. CASE CommandReset
  BY <1>2 DEF CommandReset, ClearData
<1>3. CASE Publish
  BY <1>3 DEF Publish
<1>4. ASSUME NEW t \in Txs, Cancel(t) PROVE UseInv'
  BY <1>4 DEF Cancel
<1>5. ASSUME NEW t \in Txs, Expire(t) PROVE UseInv'
  BY <1>5 DEF Expire
<1>6. ASSUME NEW t \in Txs, NEW f \in Purposes, Prepare(t, f) PROVE UseInv'
  BY <1>6 DEF Prepare, Requested, Pasted
<1>7. ASSUME NEW p \in Posts, NEW t \in Txs, CheckPending(p, t) PROVE UseInv'
  BY <1>7 DEF CheckPending, CanSign
<1>8. ASSUME NEW p \in Posts, StoreSignature(p) PROVE UseInv'
  BY <1>8 DEF StoreSignature
<1>9. ASSUME NEW p \in Posts, Push(p) PROVE UseInv'
  BY <1>9 DEF Push
<1>10. ASSUME NEW p \in Posts, PostFails(p) PROVE UseInv'
  BY <1>10 DEF PostFails, Fault
<1>11. ASSUME NEW t \in Txs, Receive(t) PROVE UseInv'
  BY <1>11 DEF Receive
<1>12. CASE Route
  BY <1>12 DEF Route, Proceed
<1>13. CASE Login
  BY <1>13 DEF Login, Proceed
<1>14. CASE Offer
  BY <1>14 DEF Offer, Proceed
<1>15. CASE Submit
  BY <1>15 DEF Submit, Proceed
<1>16. CASE CallBack
  BY <1>16 DEF CallBack, Proceed, CallWithoutContext
<1>17. CASE WorkerClearKeys
  BY <1>17 DEF WorkerClearKeys, Proceed, ClearKeys
<1>18. CASE WorkerClearData
  BY <1>18 DEF WorkerClearData, Proceed, ClearData
<1>19. CASE DeleteKey
  BY <1>19 DEF DeleteKey, Rest
<1>20. CASE WorkerFails
  BY <1>20 DEF WorkerFails, Fault, Rest
<1>21. CASE UNCHANGED vars
  BY <1>21 DEF vars
<1>. HIDE DEF TypeInv, FreshInv, UseInv
<1>. QED  BY <1>1, <1>2, <1>3, <1>4, <1>5, <1>6, <1>7, <1>8, <1>9, <1>10, <1>11,
   <1>12, <1>13, <1>14, <1>15, <1>16, <1>17, <1>18, <1>19, <1>20, <1>21 DEF Next,
   WorkerStep

\* Publication is the only way to the pending status, and happens once.
LEMMA FreshStep == TypeInv /\ FreshInv /\ [Next]_vars => FreshInv'
<1>. SUFFICES ASSUME TypeInv, FreshInv, [Next]_vars PROVE FreshInv'
  OBVIOUS
<1>. USE SigningAssumption DEF TypeInv, FreshInv, Fresh, Untouched, Written, Checked,
   Keys, Purposes, Working, keyVars, handlerVars, postVars, workerVars, historyVars,
   outcomeVars, faultVars
<1>1. CASE Command
  BY <1>1 DEF Command, ClearKeys
<1>2. CASE CommandReset
  BY <1>2 DEF CommandReset, ClearData
<1>3. CASE Publish
  BY <1>3 DEF Publish
<1>4. ASSUME NEW t \in Txs, Cancel(t) PROVE FreshInv'
  BY <1>4 DEF Cancel
<1>5. ASSUME NEW t \in Txs, Expire(t) PROVE FreshInv'
  BY <1>5 DEF Expire
<1>6. ASSUME NEW t \in Txs, NEW f \in Purposes, Prepare(t, f) PROVE FreshInv'
  BY <1>6 DEF Prepare, Requested, Pasted
<1>7. ASSUME NEW p \in Posts, NEW t \in Txs, CheckPending(p, t) PROVE FreshInv'
  BY <1>7 DEF CheckPending, CanSign
<1>8. ASSUME NEW p \in Posts, StoreSignature(p) PROVE FreshInv'
  BY <1>8 DEF StoreSignature
<1>9. ASSUME NEW p \in Posts, Push(p) PROVE FreshInv'
  BY <1>9 DEF Push
<1>10. ASSUME NEW p \in Posts, PostFails(p) PROVE FreshInv'
  BY <1>10 DEF PostFails, Fault
<1>11. ASSUME NEW t \in Txs, Receive(t) PROVE FreshInv'
  BY <1>11 DEF Receive
<1>12. CASE Route
  BY <1>12 DEF Route, Proceed
<1>13. CASE Login
  BY <1>13 DEF Login, Proceed
<1>14. CASE Offer
  BY <1>14 DEF Offer, Proceed
<1>15. CASE Submit
  BY <1>15 DEF Submit, Proceed
<1>16. CASE CallBack
  BY <1>16 DEF CallBack, Proceed, CallWithoutContext
<1>17. CASE WorkerClearKeys
  BY <1>17 DEF WorkerClearKeys, Proceed, ClearKeys
<1>18. CASE WorkerClearData
  BY <1>18 DEF WorkerClearData, Proceed, ClearData
<1>19. CASE DeleteKey
  BY <1>19 DEF DeleteKey, Rest
<1>20. CASE WorkerFails
  BY <1>20 DEF WorkerFails, Fault, Rest
<1>21. CASE UNCHANGED vars
  BY <1>21 DEF vars
<1>. HIDE DEF TypeInv, FreshInv
<1>. QED  BY <1>1, <1>2, <1>3, <1>4, <1>5, <1>6, <1>7, <1>8, <1>9, <1>10, <1>11,
   <1>12, <1>13, <1>14, <1>15, <1>16, <1>17, <1>18, <1>19, <1>20, <1>21 DEF Next,
   WorkerStep

\* A second request that passes the check sees the first one between its check and its
\* write, or a key that is not pending any more.
LEMMA OnceStep == TypeInv /\ FreshInv /\ OnceInv /\ [Next]_vars => OnceInv'
<1>. SUFFICES ASSUME TypeInv, FreshInv, OnceInv, [Next]_vars PROVE OnceInv'
  OBVIOUS
<1>. USE SigningAssumption DEF TypeInv, FreshInv, OnceInv, Fresh, Untouched, Written,
   Checked, Keys, Working, Held, Deciding, keyVars, handlerVars, postVars, workerVars,
   historyVars, outcomeVars, faultVars
<1>1. CASE Command
  BY <1>1 DEF Command, ClearKeys
<1>2. CASE CommandReset
  BY <1>2 DEF CommandReset, ClearData
<1>3. CASE Publish
  BY <1>3 DEF Publish
<1>4. ASSUME NEW t \in Txs, Cancel(t) PROVE OnceInv'
  BY <1>4 DEF Cancel
<1>5. ASSUME NEW t \in Txs, Expire(t) PROVE OnceInv'
  BY <1>5 DEF Expire
<1>6. ASSUME NEW t \in Txs, NEW f \in Purposes, Prepare(t, f) PROVE OnceInv'
  BY <1>6 DEF Prepare, Requested, Pasted
<1>7. ASSUME NEW p \in Posts, NEW t \in Txs, CheckPending(p, t) PROVE OnceInv'
  BY <1>7 DEF CheckPending, CanSign
<1>8. ASSUME NEW p \in Posts, StoreSignature(p) PROVE OnceInv'
  BY <1>8 DEF StoreSignature
<1>9. ASSUME NEW p \in Posts, Push(p) PROVE OnceInv'
  <2>1. p \in Written(ptx[p])
    BY <1>9 DEF Push
  <2>2. ASSUME NEW u \in Txs \ overlap, u # ptx[p]
        PROVE  Checked(u)' = Checked(u) /\ Written(u)' = Written(u) /\ queue'[u] = queue[u]
    BY <1>9, <2>2 DEF Push
  <2>3. ASSUME NEW u \in Txs \ overlap, u = ptx[p]
        PROVE  Checked(u)' = {} /\ Written(u)' = {} /\ queue'[u] = 1
    BY <1>9, <2>1, <2>3 DEF Push
  <2>. QED  BY <1>9, <2>2, <2>3 DEF Push
<1>10. ASSUME NEW p \in Posts, PostFails(p) PROVE OnceInv'
  BY <1>10 DEF PostFails, Fault
<1>11. ASSUME NEW t \in Txs, Receive(t) PROVE OnceInv'
  BY <1>11 DEF Receive
<1>12. CASE Route
  BY <1>12 DEF Route, Proceed
<1>13. CASE Login
  BY <1>13 DEF Login, Proceed
<1>14. CASE Offer
  BY <1>14 DEF Offer, Proceed
<1>15. CASE Submit
  BY <1>15 DEF Submit, Proceed
<1>16. CASE CallBack
  BY <1>16 DEF CallBack, Proceed, CallWithoutContext
<1>17. CASE WorkerClearKeys
  BY <1>17 DEF WorkerClearKeys, Proceed, ClearKeys
<1>18. CASE WorkerClearData
  BY <1>18 DEF WorkerClearData, Proceed, ClearData
<1>19. CASE DeleteKey
  BY <1>19 DEF DeleteKey, Rest
<1>20. CASE WorkerFails
  BY <1>20 DEF WorkerFails, Fault, Rest
<1>21. CASE UNCHANGED vars
  BY <1>21 DEF vars
<1>. HIDE DEF TypeInv, FreshInv, OnceInv
<1>. QED  BY <1>1, <1>2, <1>3, <1>4, <1>5, <1>6, <1>7, <1>8, <1>9, <1>10, <1>11,
   <1>12, <1>13, <1>14, <1>15, <1>16, <1>17, <1>18, <1>19, <1>20, <1>21 DEF Next,
   WorkerStep

\* One more element, one more in the count.
LEMMA AddOne ==
  ASSUME NEW S, IsFiniteSet(S), NEW x, x \notin S
  PROVE  Cardinality(S \cup {x}) = Cardinality(S) + 1
BY FS_AddElement

\* The requests that got through are as many as there are requests, at most.
LEMMA ThroughFinite ==
  ASSUME NEW t \in Txs
  PROVE  /\ IsFiniteSet(Through(t)) /\ Cardinality(Through(t)) \in Nat
         /\ Cardinality(Through(t)) <= Cardinality(Posts) /\ Cardinality(Posts) \in Nat
BY SigningAssumption, FS_Subset, FS_CardinalityType DEF Through

\* A message is pushed by a request that gets through and leaves the list for the
\* worker, which submits it once.
LEMMA CountStep == TypeInv /\ CountInv /\ [Next]_vars => CountInv'
<1>. SUFFICES ASSUME TypeInv, CountInv, [Next]_vars PROVE CountInv'
  OBVIOUS
<1>. USE SigningAssumption DEF TypeInv, CountInv, Keys, Working, keyVars, handlerVars,
   postVars, workerVars, historyVars, outcomeVars, faultVars
<1>1. CASE Command
  BY <1>1, ThroughFinite DEF Command, ClearKeys, Held, Deciding, Through
<1>2. CASE CommandReset
  BY <1>2, ThroughFinite DEF CommandReset, ClearData, Held, Deciding, Through
<1>3. CASE Publish
  BY <1>3, ThroughFinite DEF Publish, Held, Deciding, Through
<1>4. ASSUME NEW t \in Txs, Cancel(t) PROVE CountInv'
  BY <1>4, ThroughFinite DEF Cancel, Held, Deciding, Through
<1>5. ASSUME NEW t \in Txs, Expire(t) PROVE CountInv'
  BY <1>5, ThroughFinite DEF Expire, Held, Deciding, Through
<1>6. ASSUME NEW t \in Txs, NEW f \in Purposes, Prepare(t, f) PROVE CountInv'
  BY <1>6, ThroughFinite DEF Prepare, Requested, Pasted, Held, Deciding, Through
<1>7. ASSUME NEW p \in Posts, NEW t \in Txs, CheckPending(p, t) PROVE CountInv'
  BY <1>7, ThroughFinite DEF CheckPending, CanSign, Held, Deciding, Through
<1>8. ASSUME NEW p \in Posts, StoreSignature(p) PROVE CountInv'
  BY <1>8, ThroughFinite DEF StoreSignature, Held, Deciding, Through
<1>9. ASSUME NEW p \in Posts, Push(p) PROVE CountInv'
  <2>1. \A u \in Txs : u # ptx[p] => Through(u)' = Through(u)
    BY <1>9 DEF Push, Through
  <2>2. Through(ptx[p])' = Through(ptx[p]) \cup {p} /\ p \notin Through(ptx[p])
    BY <1>9 DEF Push, Through
  <2>3. \A u \in Txs : Held(u)' = Held(u)
    BY <1>9 DEF Push, Held
  <2>4. ptx[p] \in Txs /\ IsFiniteSet(Through(ptx[p]))
    BY <1>9, ThroughFinite DEF Push
  <2>5. Cardinality(Through(ptx[p])') = Cardinality(Through(ptx[p])) + 1
    BY <2>2, <2>4, AddOne
  <2>6. \A u \in Txs : Held(u) \in Nat /\ Cardinality(Through(u)) \in Nat
    BY ThroughFinite, FS_CardinalityType DEF Held
  <2>. QED  BY <1>9, <2>1, <2>3, <2>4, <2>5, <2>6 DEF Push
<1>10. ASSUME NEW p \in Posts, PostFails(p) PROVE CountInv'
  <2>1. \A u \in Txs : u # ptx[p] => Through(u)' = Through(u)
    BY <1>10 DEF PostFails, Fault, Through
  <2>2. Through(ptx[p])' = Through(ptx[p]) \cup {p} /\ p \notin Through(ptx[p])
    BY <1>10 DEF PostFails, Fault, Through
  <2>3. \A u \in Txs : Held(u)' = Held(u)
    BY <1>10 DEF PostFails, Fault, Held
  <2>4. ptx[p] \in Txs /\ IsFiniteSet(Through(ptx[p]))
    BY <1>10, ThroughFinite DEF PostFails, Fault
  <2>5. Cardinality(Through(ptx[p])') = Cardinality(Through(ptx[p])) + 1
    BY <2>2, <2>4, AddOne
  <2>6. \A u \in Txs : Held(u) \in Nat /\ Cardinality(Through(u)) \in Nat
    BY ThroughFinite, FS_CardinalityType DEF Held
  <2>. QED  BY <1>10, <2>1, <2>3, <2>4, <2>5, <2>6 DEF PostFails, Fault
<1>11. ASSUME NEW t \in Txs, Receive(t) PROVE CountInv'
  <2>1. \A u \in Txs : Through(u)' = Through(u)
    BY <1>11 DEF Receive, Through
  <2>. QED  BY <1>11, <2>1, ThroughFinite DEF Receive, Held, Deciding
<1>12. CASE Route
  <2>1. \A u \in Txs : Through(u)' = Through(u)
    BY <1>12 DEF Route, Proceed, Through
  <2>. QED  BY <1>12, <2>1, ThroughFinite DEF Route, Proceed, Held, Deciding
<1>13. CASE Login
  <2>1. \A u \in Txs : Through(u)' = Through(u)
    BY <1>13 DEF Login, Proceed, Through
  <2>. QED  BY <1>13, <2>1, ThroughFinite DEF Login, Proceed, Held, Deciding
<1>14. CASE Offer
  <2>1. \A u \in Txs : Through(u)' = Through(u)
    BY <1>14 DEF Offer, Proceed, Through
  <2>. QED  BY <1>14, <2>1, ThroughFinite DEF Offer, Proceed, Held, Deciding
<1>15. CASE Submit
  <2>1. \A u \in Txs : Through(u)' = Through(u)
    BY <1>15 DEF Submit, Proceed, Through
  <2>. QED  BY <1>15, <2>1, ThroughFinite DEF Submit, Proceed, Held, Deciding
<1>16. CASE CallBack
  <2>1. \A u \in Txs : Through(u)' = Through(u)
    BY <1>16 DEF CallBack, Proceed, CallWithoutContext, Through
  <2>. QED  BY <1>16, <2>1, ThroughFinite DEF CallBack, Proceed, CallWithoutContext,
       Held, Deciding
<1>17. CASE WorkerClearKeys
  BY <1>17, ThroughFinite DEF WorkerClearKeys, Proceed, ClearKeys, Held, Deciding, Through
<1>18. CASE WorkerClearData
  BY <1>18, ThroughFinite DEF WorkerClearData, Proceed, ClearData, Held, Deciding, Through
<1>19. CASE DeleteKey
  BY <1>19, ThroughFinite DEF DeleteKey, Rest, Held, Deciding, Through
<1>20. CASE WorkerFails
  <2>1. \A u \in Txs : Through(u)' = Through(u)
    BY <1>20 DEF WorkerFails, Fault, Rest, Through
  <2>. QED  BY <1>20, <2>1, ThroughFinite DEF WorkerFails, Fault, Rest, Held, Deciding
<1>21. CASE UNCHANGED vars
  BY <1>21, ThroughFinite DEF vars, Held, Through
<1>. HIDE DEF TypeInv, CountInv
<1>. QED  BY <1>1, <1>2, <1>3, <1>4, <1>5, <1>6, <1>7, <1>8, <1>9, <1>10, <1>11,
   <1>12, <1>13, <1>14, <1>15, <1>16, <1>17, <1>18, <1>19, <1>20, <1>21 DEF Next,
   WorkerStep

\* An accepted transaction is the worker's next call, unless the hash has no fields.
LEMMA CallbackStep ==
  TypeInv /\ RebuiltInv /\ CallbackFollows /\ [Next]_vars => CallbackFollows'
<1>. SUFFICES ASSUME TypeInv, RebuiltInv, CallbackFollows, [Next]_vars PROVE CallbackFollows'
  OBVIOUS
<1>. USE SigningAssumption DEF TypeInv, RebuiltInv, CallbackFollows, Working, keyVars,
   handlerVars, postVars, workerVars, historyVars, outcomeVars, faultVars
<1>1. CASE Command
  BY <1>1 DEF Command, ClearKeys
<1>2. CASE CommandReset
  BY <1>2 DEF CommandReset, ClearData
<1>3. CASE Publish
  BY <1>3 DEF Publish
<1>4. ASSUME NEW t \in Txs, Cancel(t) PROVE CallbackFollows'
  BY <1>4 DEF Cancel
<1>5. ASSUME NEW t \in Txs, Expire(t) PROVE CallbackFollows'
  BY <1>5 DEF Expire
<1>6. ASSUME NEW t \in Txs, NEW f \in Purposes, Prepare(t, f) PROVE CallbackFollows'
  BY <1>6 DEF Prepare, Requested, Pasted
<1>7. ASSUME NEW p \in Posts, NEW t \in Txs, CheckPending(p, t) PROVE CallbackFollows'
  BY <1>7 DEF CheckPending, CanSign
<1>8. ASSUME NEW p \in Posts, StoreSignature(p) PROVE CallbackFollows'
  BY <1>8 DEF StoreSignature
<1>9. ASSUME NEW p \in Posts, Push(p) PROVE CallbackFollows'
  BY <1>9 DEF Push
<1>10. ASSUME NEW p \in Posts, PostFails(p) PROVE CallbackFollows'
  BY <1>10 DEF PostFails, Fault
<1>11. ASSUME NEW t \in Txs, Receive(t) PROVE CallbackFollows'
  BY <1>11 DEF Receive
<1>12. CASE Route
  BY <1>12 DEF Route, Proceed
<1>13. CASE Login
  BY <1>13 DEF Login, Proceed
<1>14. CASE Offer
  BY <1>14 DEF Offer, Proceed
<1>15. CASE Submit
  BY <1>15 DEF Submit, Proceed
<1>16. CASE CallBack
  BY <1>16 DEF CallBack, Proceed, CallWithoutContext
<1>17. CASE WorkerClearKeys
  BY <1>17 DEF WorkerClearKeys, Proceed, ClearKeys
<1>18. CASE WorkerClearData
  BY <1>18 DEF WorkerClearData, Proceed, ClearData
<1>19. CASE DeleteKey
  BY <1>19 DEF DeleteKey, Rest
<1>20. CASE WorkerFails
  BY <1>20 DEF WorkerFails, Fault, Rest
<1>21. CASE UNCHANGED vars
  BY <1>21 DEF vars
<1>. HIDE DEF TypeInv, RebuiltInv
<1>. QED  BY <1>1, <1>2, <1>3, <1>4, <1>5, <1>6, <1>7, <1>8, <1>9, <1>10, <1>11,
   <1>12, <1>13, <1>14, <1>15, <1>16, <1>17, <1>18, <1>19, <1>20, <1>21 DEF Next,
   WorkerStep

\* The key that a request wrote passes from the request to its message, from there to
\* the worker, which deletes it.
LEMMA RebuiltKeysStep == TypeInv /\ RebuiltKeysGo /\ [Next]_vars => RebuiltKeysGo'
<1>. SUFFICES ASSUME TypeInv, RebuiltKeysGo, [Next]_vars PROVE RebuiltKeysGo'
  OBVIOUS
<1>. USE SigningAssumption DEF TypeInv, RebuiltKeysGo, Keys, Working, keyVars,
   handlerVars, postVars, workerVars, historyVars, outcomeVars, faultVars
<1>1. CASE Command
  BY <1>1 DEF Command, ClearKeys
<1>2. CASE CommandReset
  BY <1>2 DEF CommandReset, ClearData
<1>3. CASE Publish
  BY <1>3 DEF Publish
<1>4. ASSUME NEW t \in Txs, Cancel(t) PROVE RebuiltKeysGo'
  BY <1>4 DEF Cancel
<1>5. ASSUME NEW t \in Txs, Expire(t) PROVE RebuiltKeysGo'
  BY <1>5 DEF Expire
<1>6. ASSUME NEW t \in Txs, NEW f \in Purposes, Prepare(t, f) PROVE RebuiltKeysGo'
  BY <1>6 DEF Prepare, Requested, Pasted
<1>7. ASSUME NEW p \in Posts, NEW t \in Txs, CheckPending(p, t) PROVE RebuiltKeysGo'
  BY <1>7 DEF CheckPending, CanSign
<1>8. ASSUME NEW p \in Posts, StoreSignature(p) PROVE RebuiltKeysGo'
  BY <1>8 DEF StoreSignature
<1>9. ASSUME NEW p \in Posts, Push(p) PROVE RebuiltKeysGo'
  BY <1>9 DEF Push
<1>10. ASSUME NEW p \in Posts, PostFails(p) PROVE RebuiltKeysGo'
  BY <1>10 DEF PostFails, Fault
<1>11. ASSUME NEW t \in Txs, Receive(t) PROVE RebuiltKeysGo'
  BY <1>11 DEF Receive
<1>12. CASE Route
  BY <1>12 DEF Route, Proceed
<1>13. CASE Login
  BY <1>13 DEF Login, Proceed
<1>14. CASE Offer
  BY <1>14 DEF Offer, Proceed
<1>15. CASE Submit
  BY <1>15 DEF Submit, Proceed
<1>16. CASE CallBack
  BY <1>16 DEF CallBack, Proceed, CallWithoutContext
<1>17. CASE WorkerClearKeys
  BY <1>17 DEF WorkerClearKeys, Proceed, ClearKeys
<1>18. CASE WorkerClearData
  BY <1>18 DEF WorkerClearData, Proceed, ClearData
<1>19. CASE DeleteKey
  BY <1>19 DEF DeleteKey, Rest
<1>20. CASE WorkerFails
  BY <1>20 DEF WorkerFails, Fault, Rest
<1>21. CASE UNCHANGED vars
  BY <1>21 DEF vars
<1>. HIDE DEF TypeInv
<1>. QED  BY <1>1, <1>2, <1>3, <1>4, <1>5, <1>6, <1>7, <1>8, <1>9, <1>10, <1>11,
   <1>12, <1>13, <1>14, <1>15, <1>16, <1>17, <1>18, <1>19, <1>20, <1>21 DEF Next,
   WorkerStep

-----------------------------------------------------------------------------
\* Everything that the theorems below rest on.
SigningInv ==
  /\ TypeInv /\ CountInv /\ FreshInv /\ OnceInv /\ UseInv /\ RebuiltInv
  /\ CallbackFollows /\ RebuiltKeysGo

\* The invariants hold of an empty Redis and idle processes.
LEMMA SigningInit == Init => SigningInv
<1>. SUFFICES ASSUME Init PROVE SigningInv
  OBVIOUS
<1>. USE SigningAssumption DEF Init
<1>1. TypeInv
  <2>1. faults \in 0..MaxFaults
    OBVIOUS
  <2>2. full \in BOOLEAN
    OBVIOUS
  <2>3. tx \in [Txs -> Keys] /\ queue \in [Txs -> Nat] /\ submitted \in [Txs -> Nat]
    BY DEF Keys
  <2>4. /\ ppc \in [Posts -> {"new", "checked", "written", "done"}]
        /\ ptx \in [Posts -> Txs \cup {NoTx}]
        /\ purpose \in [Txs -> Purposes \cup {"none"}]
        /\ \A p \in Posts : ppc[p] = "new" <=> ptx[p] = NoTx
    OBVIOUS
  <2>. QED  BY <2>1, <2>2, <2>3, <2>4 DEF TypeInv, Working
<1>2. CountInv
  BY ThroughFinite DEF CountInv, Held
<1>3. FreshInv
  BY DEF FreshInv, Untouched, Fresh, Written, Checked
<1>4. OnceInv
  BY DEF OnceInv, Written, Checked, Held
<1>5. UseInv /\ RebuiltInv /\ CallbackFollows /\ RebuiltKeysGo
  BY DEF UseInv, RebuiltInv, CallbackFollows, RebuiltKeysGo
<1>. QED  BY <1>1, <1>2, <1>3, <1>4, <1>5 DEF SigningInv

\* Each part of the invariant is preserved by itself or with the parts before it.
LEMMA SigningStep == SigningInv /\ [Next]_vars => SigningInv'
BY TypeStep, CountStep, FreshStep, OnceStep, UseStep, RebuiltStep, CallbackStep,
   RebuiltKeysStep DEF SigningInv

\* The inductive invariant of the signing protocol.
THEOREM SigningInvariant == Spec => []SigningInv
BY SigningInit, SigningStep, PTL DEF Spec

\* The variables have their types; in particular neither the messages in tx_signed nor
\* the submissions of a transaction outnumber the requests that were made.
THEOREM TypeCorrect == Spec => []TypeOK
<1>1. SigningInv => TypeOK
  <2>. SUFFICES ASSUME SigningInv PROVE TypeOK
    OBVIOUS
  <2>1. \A t \in Txs : /\ queue[t] \in 0..Cardinality(Posts)
                       /\ submitted[t] \in 0..Cardinality(Posts)
    BY ThroughFinite DEF SigningInv, TypeInv, CountInv, Held
  <2>. QED  BY <2>1 DEF SigningInv, TypeInv, TypeOK
<1>. QED  BY <1>1, SigningInvariant, PTL

\* A transaction cancelled before its signature arrived is never submitted: the check
\* of POST /sign, the worker and a repeated publication respect the deleted key.
THEOREM CancellationIsFinal == Spec => []UnsignedStaysCancelled
<1>1. SigningInv => UnsignedStaysCancelled
  BY DEF SigningInv, TypeInv, FreshInv, Untouched, Fresh, UnsignedStaysCancelled
<1>. QED  BY <1>1, SigningInvariant, PTL

\* The worker submits a transaction twice only if two requests passed the check of
\* POST /sign together.
THEOREM OneSubmission == Spec => []SubmittedOnce
<1>1. SigningInv => SubmittedOnce
  BY DEF SigningInv, TypeInv, OnceInv, Held, SubmittedOnce
<1>. QED  BY <1>1, SigningInvariant, PTL

\* The worker leaves the submission of a sign-only transaction to the user unless a
\* clear_state() removed the FSM data that Route() reads.
THEOREM UserDecidesUse == Spec => []OfferedNotSubmitted
<1>1. SigningInv => OfferedNotSubmitted
  BY DEF SigningInv, TypeInv, UseInv, OfferedNotSubmitted
<1>. QED  BY <1>1, SigningInvariant, PTL

\* After an accepted payment fsm_after_send() is called, in the absence of a failure
\* and of a key that was rebuilt.
THEOREM CallbackAfterPayment == Spec => []CallbackFollows
BY SigningInvariant, PTL DEF SigningInv

\* A key without a TTL does not outlive the request, the message and the worker that
\* handle it, in the absence of a failure.
THEOREM RebuiltKeysAreDeleted == Spec => []RebuiltKeysGo
BY SigningInvariant, PTL DEF SigningInv

=============================================================================
