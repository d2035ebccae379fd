---------------------------- MODULE WebAppSigning ----------------------------
(***************************************************************************)
(* Signing in the Web App, for one user whose wallet has no key on the     *)
(* server (pin_type 10): a handler publishes a pending transaction in      *)
(* Redis, the browser posts the signature to the web application, which    *)
(* queues it, and the signing worker of the bot submits it, offers it or   *)
(* hands it to the SEP-10 login.  Commands, the cancel button and the TTL  *)
(* interfere at every await.                                               *)
(*                                                                         *)
(* What the worker does is decided by the FSM data of the user when it     *)
(* looks, and not by anything stored with the transaction.                 *)
(***************************************************************************)
EXTENDS Naturals, FiniteSets

CONSTANTS
  Txs,           \* transaction ids; an id is drawn at random and never reused
  ContextTakers, \* those whose fsm_after_send() requires app_context
  Posts,         \* bound: requests to sign, each made at most once
  NoTx,          \* no transaction
  MaxFaults      \* bound on exceptions and restarts

ASSUME SigningAssumption ==
  /\ ContextTakers \subseteq Txs
  /\ IsFiniteSet(Posts)
  /\ NoTx \notin Txs
  /\ MaxFaults \in Nat

VARIABLES
  tx,        \* the hash tx:<id> of each transaction
  queue,     \* tx_signed: how many messages name each transaction
  flow,      \* the FSM data that decide how a signature is used
  hpc,       \* the await of the handler of the user's updates
  draft,     \* the transaction it is about to publish
  ppc, ptx,  \* the await of each request, and its transaction
  wpc, wtx,  \* the await of the signing worker, and its transaction
  full,      \* did the hash the worker fetched hold the published fields?
  purpose,   \* history: the flow that published each transaction
  reset,     \* history: a clear_state() emptied the FSM data of its flow
  overlap,   \* history: two requests for it passed the check together
  cancelled, \* history: the user was told that it is cancelled
  unsigned,  \* history: it was cancelled before any request passed the check
  rebuilt,   \* history: it was signed after its key had been deleted
  submitted, \* history: how often the worker submitted it
  accepted,  \* history: the network confirmed it to the worker
  called,    \* history: the worker called its fsm_after_send()
  ran,       \* history: ... and that ran
  failed,    \* history: a request or the worker failed on it
  faults     \* history: faults so far

keyVars     == <<tx, queue>>
handlerVars == <<hpc, draft>>
postVars    == <<ppc, ptx>>
workerVars  == <<wpc, wtx, full>>
outcomeVars == <<submitted, accepted, called, ran>>
faultVars   == <<failed, faults>>
historyVars == <<purpose, reset, overlap, cancelled, unsigned, rebuilt,
                 outcomeVars, faultVars>>
vars == <<keyVars, flow, handlerVars, postVars, workerVars, historyVars>>

\* request_signature() asks to "send" a transaction or for a "login" (SEP-10);
\* cmd_check_xdr() takes an envelope the user pasted, or one whose use is up to
\* the user ("tools": from sign_tools, or with a callback_url).
Purposes == {"send", "login", "paste", "tools"}

\* "tools": tools, callback_url or wallet_connect is set.  "login":
\* signing_purpose is sep10_auth.
Marks == {"tools", "login"}

\* "rebuilt": HSET wrote status and signature to a key that was gone.  Such a
\* hash has no TTL and none of the fields of the publication.
Keys == {"absent", "pending", "signed", "rebuilt"}

Working == {"route", "login", "offer", "submit", "callback",
            "clearkeys", "cleardata", "delete"}

TypeOK ==
  /\ tx \in [Txs -> Keys]
  /\ queue \in [Txs -> 0..Cardinality(Posts)]
  /\ flow \subseteq Marks
  /\ hpc \in {"idle", "cleardata", "publish"}
  /\ draft \in Txs \cup {NoTx}
  /\ ppc \in [Posts -> {"new", "checked", "written", "done"}]
  /\ ptx \in [Posts -> Txs \cup {NoTx}]
  /\ wpc \in Working \cup {"idle"}
  /\ wtx \in Txs \cup {NoTx}
  /\ full \in BOOLEAN
  /\ purpose \in [Txs -> Purposes \cup {"none"}]
  /\ reset \subseteq Txs /\ overlap \subseteq Txs /\ cancelled \subseteq Txs
  /\ unsigned \subseteq Txs /\ rebuilt \subseteq Txs
  /\ submitted \in [Txs -> 0..Cardinality(Posts)]
  /\ accepted \subseteq Txs /\ called \subseteq Txs /\ ran \subseteq Txs
  /\ failed \subseteq Txs
  /\ faults \in 0..MaxFaults

Init ==
  /\ tx = [t \in Txs |-> "absent"]
  /\ queue = [t \in Txs |-> 0]
  /\ flow = {}
  /\ hpc = "idle" /\ draft = NoTx
  /\ ppc = [p \in Posts |-> "new"] /\ ptx = [p \in Posts |-> NoTx]
  /\ wpc = "idle" /\ wtx = NoTx /\ full = FALSE
  /\ purpose = [t \in Txs |-> "none"]
  /\ reset = {} /\ overlap = {} /\ cancelled = {} /\ unsigned = {} /\ rebuilt = {}
  /\ submitted = [t \in Txs |-> 0]
  /\ accepted = {} /\ called = {} /\ ran = {} /\ failed = {} /\ faults = 0

Published == {t \in Txs : purpose[t] # "none"}

Checked(t) == {p \in Posts : ptx[p] = t /\ ppc[p] = "checked"}

Fault(t) ==
  /\ faults < MaxFaults
  /\ faults' = faults + 1
  /\ failed' = failed \cup {t}

-----------------------------------------------------------------------------
(* clear_state() *)

\* clear_pending_tx() scans for the keys of the user and deletes what it finds ...
ClearKeys == tx' = [t \in Txs |-> "absent"]

\* ... and set_data() keeps the profile fields only.
ClearData ==
  /\ flow' = {}
  /\ reset' = reset \cup Published

-----------------------------------------------------------------------------
(* The handlers of the user's updates *)

\* Most commands begin with clear_state().
Command ==
  /\ hpc = "idle"
  /\ ClearKeys
  /\ hpc' = "cleardata"
  /\ UNCHANGED <<queue, flow, draft, postVars, workerVars, historyVars>>

CommandReset ==
  /\ hpc = "cleardata"
  /\ ClearData
  /\ hpc' = "idle"
  /\ UNCHANGED <<keyVars, draft, postVars, workerVars, purpose, overlap,
                 cancelled, unsigned, rebuilt, outcomeVars, faultVars>>

\* update_data() merges: request_signature() sets the purpose and leaves the
\* other marks ...
Requested(f) == (flow \ {"login"}) \cup ({f} \cap {"login"})

\* ... and cmd_check_xdr() and process_remote_uri() only add theirs.
Pasted(f) == flow \cup ({f} \cap {"tools"})

\* A conversation, with or without a clear_state() at its start, stores in the
\* FSM data what is to be signed and why.
Prepare(t, f) ==
  /\ hpc = "idle"
  /\ purpose[t] = "none"
  /\ flow' = IF f \in {"send", "login"} THEN Requested(f) ELSE Pasted(f)
  /\ purpose' = [purpose EXCEPT ![t] = f]
  /\ draft' = t
  /\ hpc' = "publish"
  /\ UNCHANGED <<keyVars, postVars, workerVars, reset, overlap, cancelled,
                 unsigned, rebuilt, outcomeVars, faultVars>>

\* Mutant: the FSM data are dropped together with the FSM state.
PublishAndForget ==
  /\ hpc = "publish"
  /\ tx' = [tx EXCEPT ![draft] = "pending"]
  /\ flow' = {}
  /\ draft' = NoTx
  /\ hpc' = "idle"
  /\ UNCHANGED <<queue, postVars, workerVars, historyVars>>

\* cmd_ask_pin() publishes the transaction, then resets the FSM state but not
\* its data.  It publishes nothing if the data were cleared before it read them.
Publish ==
  /\ hpc = "publish"
  /\ \/ tx' = [tx EXCEPT ![draft] = "pending"]
     \/ draft \in reset /\ UNCHANGED tx
  /\ draft' = NoTx
  /\ hpc' = "idle"
  /\ UNCHANGED <<queue, flow, postVars, workerVars, historyVars>>

\* The cancel button under the message.
Cancel(t) ==
  /\ tx[t] # "absent"
  /\ tx' = [tx EXCEPT ![t] = "absent"]
  /\ cancelled' = cancelled \cup {t}
  /\ unsigned' = IF tx[t] = "pending" /\ Checked(t) = {}
                 THEN unsigned \cup {t} ELSE unsigned
  /\ UNCHANGED <<queue, flow, handlerVars, postVars, workerVars, purpose, reset,
                 overlap, rebuilt, outcomeVars, faultVars>>

\* The TTL of ten minutes, which HSET keeps and a rebuilt key never had.
Expire(t) ==
  /\ tx[t] \in {"pending", "signed"}
  /\ tx' = [tx EXCEPT ![t] = "absent"]
  /\ UNCHANGED <<queue, flow, handlerVars, postVars, workerVars, historyVars>>

-----------------------------------------------------------------------------
(* POST /api/tx/{tx_id}/sign *)

\* Mutant: any status will do.
AnyStatus(t) == tx[t] # "absent"

\* Mutant: only a transaction that was signed is refused.
NotSigned(t) == tx[t] \notin {"signed", "rebuilt"}

CanSign(t) == tx[t] = "pending"

\* A request that is refused changes nothing.
CheckPending(p, t) ==
  /\ ppc[p] = "new"
  /\ CanSign(t)
  /\ ppc' = [ppc EXCEPT ![p] = "checked"]
  /\ ptx' = [ptx EXCEPT ![p] = t]
  /\ overlap' = IF Checked(t) # {} THEN overlap \cup {t} ELSE overlap
  /\ UNCHANGED <<keyVars, flow, handlerVars, workerVars, purpose, reset, cancelled,
                 unsigned, rebuilt, outcomeVars, faultVars>>

\* HSET creates the key if it is gone.
StoreSignature(p) ==
  /\ ppc[p] = "checked"
  /\ ppc' = [ppc EXCEPT ![p] = "written"]
  /\ LET t == ptx[p]
         gone == tx[t] \in {"absent", "rebuilt"}
     IN  /\ tx' = [tx EXCEPT ![t] = IF gone THEN "rebuilt" ELSE "signed"]
         /\ rebuilt' = IF gone THEN rebuilt \cup {t} ELSE rebuilt
  /\ UNCHANGED <<queue, flow, handlerVars, ptx, workerVars, purpose, reset,
                 overlap, cancelled, unsigned, outcomeVars, faultVars>>

\* Mutant: the message is pushed again after a slow answer.
PushTwice(p) ==
  /\ ppc[p] = "written"
  /\ ppc' = [ppc EXCEPT ![p] = "done"]
  /\ queue' = [queue EXCEPT ![ptx[p]] = @ + 2]
  /\ UNCHANGED <<tx, flow, handlerVars, ptx, workerVars, historyVars>>

Push(p) ==
  /\ ppc[p] = "written"
  /\ ppc' = [ppc EXCEPT ![p] = "done"]
  /\ queue' = [queue EXCEPT ![ptx[p]] = @ + 1]
  /\ UNCHANGED <<tx, flow, handlerVars, ptx, workerVars, historyVars>>

\* The web application stops, or Redis fails it.
PostFails(p) ==
  /\ ppc[p] \in {"checked", "written"}
  /\ Fault(ptx[p])
  /\ ppc' = [ppc EXCEPT ![p] = "done"]
  /\ UNCHANGED <<keyVars, flow, handlerVars, ptx, workerVars, purpose, reset,
                 overlap, cancelled, unsigned, rebuilt, outcomeVars>>

-----------------------------------------------------------------------------
(* The signing worker: one message at a time *)

Proceed(stage) == wpc' = stage /\ UNCHANGED <<wtx, full>>

Rest == wpc' = "idle" /\ wtx' = NoTx /\ full' = FALSE

\* The message is gone from the list when its hash is fetched.  A hash that is
\* missing, or has no signature, ends the handler.
Receive(t) ==
  /\ wpc = "idle"
  /\ queue[t] > 0
  /\ queue' = [queue EXCEPT ![t] = @ - 1]
  /\ IF tx[t] \in {"signed", "rebuilt"}
     THEN wpc' = "route" /\ wtx' = t /\ full' = (tx[t] = "signed")
     ELSE UNCHANGED workerVars
  /\ UNCHANGED <<tx, flow, handlerVars, postVars, historyVars>>

\* The FSM data of this moment choose the branch.
Route ==
  /\ wpc = "route"
  /\ Proceed(CASE "login" \in flow -> "login"
               [] "tools" \in flow -> "offer"
               [] OTHER            -> "submit")
  /\ UNCHANGED <<keyVars, flow, handlerVars, postVars, historyVars>>

\* fsm_func() exchanges the signed challenge for a token.
Login ==
  /\ wpc = "login"
  /\ Proceed("clearkeys")
  /\ UNCHANGED <<keyVars, flow, handlerVars, postVars, historyVars>>

\* The Send and SendTools buttons; the FSM data stay for them.
Offer ==
  /\ wpc = "offer"
  /\ Proceed("delete")
  /\ UNCHANGED <<keyVars, flow, handlerVars, postVars, historyVars>>

\* submit_signed_xdr() reports a refusal of the network, and any exception.
Submit ==
  /\ wpc = "submit"
  /\ submitted' = [submitted EXCEPT ![wtx] = @ + 1]
  /\ \/ /\ accepted' = accepted \cup {wtx}
        /\ Proceed(IF full THEN "callback" ELSE "clearkeys")
     \/ /\ UNCHANGED accepted
        /\ Proceed("clearkeys")
  /\ UNCHANGED <<keyVars, flow, handlerVars, postVars, purpose, reset, overlap,
                 cancelled, unsigned, rebuilt, called, ran, faultVars>>

\* The worker passes no app_context; the TypeError is logged like any other.
CallWithoutContext(t) ==
  /\ called' = called \cup {t}
  /\ ran' = IF t \in ContextTakers THEN ran ELSE ran \cup {t}

\* Mutant: the callback is read from Redis after the submission.
CallBackFromRedis ==
  /\ wpc = "callback"
  /\ IF tx[wtx] = "signed" THEN CallWithoutContext(wtx) ELSE UNCHANGED <<called, ran>>
  /\ Proceed("clearkeys")
  /\ UNCHANGED <<keyVars, flow, handlerVars, postVars, purpose, reset, overlap,
                 cancelled, unsigned, rebuilt, submitted, accepted, faultVars>>

\* fsm_after_send(), kept with the transaction, is called after a success.  (A
\* transaction published without one has nothing to lose here.)
CallBack ==
  /\ wpc = "callback"
  /\ CallWithoutContext(wtx)
  /\ Proceed("clearkeys")
  /\ UNCHANGED <<keyVars, flow, handlerVars, postVars, purpose, reset, overlap,
                 cancelled, unsigned, rebuilt, submitted, accepted, faultVars>>

WorkerClearKeys ==
  /\ wpc = "clearkeys"
  /\ ClearKeys
  /\ Proceed("cleardata")
  /\ UNCHANGED <<queue, flow, handlerVars, postVars, historyVars>>

WorkerClearData ==
  /\ wpc = "cleardata"
  /\ ClearData
  /\ Proceed("delete")
  /\ UNCHANGED <<keyVars, handlerVars, postVars, purpose, overlap, cancelled,
                 unsigned, rebuilt, outcomeVars, faultVars>>

\* Mutant: the key is left to its TTL.
LeaveKey ==
  /\ wpc = "delete"
  /\ Rest
  /\ UNCHANGED <<keyVars, flow, handlerVars, postVars, historyVars>>

DeleteKey ==
  /\ wpc = "delete"
  /\ tx' = [tx EXCEPT ![wtx] = "absent"]
  /\ Rest
  /\ UNCHANGED <<queue, flow, handlerVars, postVars, historyVars>>

\* An exception is logged and the message is lost, as in a restart.
WorkerFails ==
  /\ wpc \in Working
  /\ Fault(wtx)
  /\ Rest
  /\ UNCHANGED <<keyVars, flow, handlerVars, postVars, purpose, reset, overlap,
                 cancelled, unsigned, rebuilt, outcomeVars>>

-----------------------------------------------------------------------------
WorkerStep ==
  \/ (\E t \in Txs : Receive(t)) \/ Route \/ Login \/ Offer \/ Submit \/ CallBack
  \/ WorkerClearKeys \/ WorkerClearData \/ DeleteKey \/ WorkerFails

Next ==
  \/ Command \/ CommandReset \/ Publish
  \/ \E t \in Txs : Cancel(t) \/ Expire(t) \/ \E f \in Purposes : Prepare(t, f)
  \/ \E p \in Posts : \/ \E t \in Txs : CheckPending(p, t)
                      \/ StoreSignature(p) \/ Push(p) \/ PostFails(p)
  \/ WorkerStep

Spec == Init /\ [][Next]_vars

-----------------------------------------------------------------------------
\* A transaction that was cancelled before its signature arrived is never
\* submitted: the check of POST /sign sees that the key is gone.
UnsignedStaysCancelled == \A t \in unsigned : submitted[t] = 0

\* One signature, one submission: a repeated POST, the queue and the worker do
\* not submit a transaction twice unless two requests passed the check together.
SubmittedOnce == \A t \in Txs : submitted[t] > 1 => t \in overlap

\* A transaction whose use is up to the user is not submitted by the worker,
\* unless a clear_state() wiped the FSM data that say so.
OfferedNotSubmitted ==
  \A t \in Txs : purpose[t] = "tools" /\ submitted[t] > 0 => t \in reset

\* After a payment its fsm_after_send() is called, even when the key disappears
\* while the worker submits; a rebuilt key and a failure of the worker lose it.
CallbackFollows ==
  \A t \in accepted :
    t \in called \cup rebuilt \cup failed \/ (wtx = t /\ wpc = "callback")

\* A key without a TTL always has somebody left who will delete it: the request
\* that wrote it, its message or the worker; unless one of them failed.
RebuiltKeysGo ==
  \A t \in Txs :
    tx[t] = "rebuilt" =>
      \/ \E p \in Posts : ptx[p] = t /\ ppc[p] = "written"
      \/ queue[t] > 0 \/ wtx = t \/ t \in failed

\* A callback that the worker calls does its work.
CallbackRuns == called \subseteq ran

\* "Signing cancelled", the answer to the cancel button, means that the
\* transaction is not sent.
CancelMeansUnsent == \A t \in cancelled : submitted[t] = 0

=============================================================================
