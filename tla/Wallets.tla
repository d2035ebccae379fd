-------------------------------- MODULE Wallets --------------------------------
(***************************************************************************)
(* The wallets of one user: they are created, imported, made the default   *)
(* one, protected, bought and deleted.  A button acts on the default       *)
(* wallet of the moment.  The creation of a wallet and the payment for one *)
(* take long; the user goes on meanwhile, and both end with what the FSM   *)
(* data or the conversation asked for.                                     *)
(***************************************************************************)
EXTENDS Naturals, FiniteSets, TLC

CONSTANTS
  Handlers,   \* coroutines that create or pay for a wallet
  None,
  MaxFree,    \* free wallets of a user
  MaxWallets, \* bound: wallets, the deleted ones too
  MaxCauses,  \* bound: kinds of exception from the properties in one behaviour
  MaxFaults   \* bound: restarts

ASSUME WalletsAssumption ==
  /\ None \notin Handlers
  /\ {MaxFree, MaxWallets, MaxCauses, MaxFaults} \subseteq Nat /\ 0 \notin {MaxFree, MaxWallets}

VARIABLES
  wallets,  \* rows of the database
  default,  \* default_wallet; 0 without one
  lock,     \* the owner of new_wallet_lock
  at,       \* where each handler is
  source,   \* the wallet whose payment a handler submits
  fsm,      \* FSM state; "unset" and "pay" are PinState.sign and sign_and_send
  data,     \* FSM data: fsm_after_send is cmd_after_buy; buy: the wallet whose payment is in
            \* the data; idx of the list
  screen,   \* the last message, by its buttons
  paid,     \* history: wallets whose price was paid
  bought,   \* history: wallets that cmd_after_buy() made the user's own
  causes,   \* history: what happened in the middle of something else
  faults

rows == <<wallets, default>>
talk == <<fsm, data, screen>>
past == <<paid, bought, causes, faults>>
vars == <<rows, lock, at, source, talk, past>>

Ids == 1..MaxWallets

\* A wallet has use_pin 0, 1 (which stands for 2, a password, too) or 10, read only; lock is
\* how the key is encrypted: with the id of the user, with a PIN or password, or not at all.
Row(kind, pin, key) == [kind |-> kind, pin |-> pin, lock |-> key]

NoWallet == Row("absent", 0, "none")

Deleted == Row("deleted", 0, "none")

NoData == [after |-> FALSE, buy |-> 0, idx |-> 0]

\* A handler that creates a free wallet: it waits for new_wallet_lock or has counted (create),
\* submits the account, and ends.
Creating == {"key_wait", "key_create", "key_submit", "key_end", "ton_create"}

PasswordStates == {"set_pin", "set_pin2", "password", "password2"}

Init ==
  /\ wallets = [w \in Ids |-> IF w = 1 THEN Row("free", 0, "id") ELSE NoWallet]
  /\ default = 1 /\ lock = None
  /\ at = [h \in Handlers |-> "idle"] /\ source = [h \in Handlers |-> 0]
  /\ fsm = "none" /\ data = NoData /\ screen = "menu"
  /\ paid = {} /\ bought = {} /\ causes = {} /\ faults = 0

-----------------------------------------------------------------------------
Active == {w \in Ids : wallets[w].kind \notin {"absent", "deleted"}}

Free == {w \in Ids : wallets[w].kind = "free"}

Default == IF default = 0 THEN NoWallet ELSE wallets[default]

\* A handler goes on.
Go(h, from, to) == at[h] = from /\ at' = [at EXCEPT ![h] = to]

Show(kind) == screen' = kind

Say(kind) == Show(kind) /\ UNCHANGED <<fsm, data>>

Because(c, holds) ==
  /\ causes' = causes \cup IF holds THEN {c} ELSE {}
  /\ Cardinality(causes') <= MaxCauses

Write(w, row) == wallets' = [wallets EXCEPT ![w] = row]

\* AddWallet.execute(): the new wallet becomes the default one.
Add(kind, pin, key) ==
  \E w \in Ids :
    /\ wallets[w] = NoWallet /\ \A v \in 1..(w - 1) : wallets[v] # NoWallet
    /\ Write(w, Row(kind, pin, key))
    /\ default' = w

\* Someone is in the middle of something that is meant for the default wallet of before.
Midway ==
  \/ fsm \in PasswordStates \cup {"unset"} \/ screen = "choose"
  \/ \E h \in Handlers : at[h] \in {"submit", "after"}

\* ChangeWalletPassword.execute() with the id of the user as old PIN: without effect when
\* the key of the default wallet is not encrypted with it.
Protect(pin) ==
  IF default # 0 /\ Default.lock = "id"
  THEN Write(default, Row(Default.kind, pin, IF pin = 0 THEN "id" ELSE "secret"))
  ELSE UNCHANGED wallets

\* cmd_after_buy() writes to the default wallet whatever wallet was paid for.
Unfree ==
  IF default # 0
  THEN /\ Write(default, Row("own", 0, Default.lock))
       /\ bought' = bought \cup {default}
  ELSE UNCHANGED <<wallets, bought>>

-----------------------------------------------------------------------------
(* Menus *)

\* Mutant: what follows a payment outlives the conversation.
ClearKeeping == data' = [NoData EXCEPT !.after = data.after] /\ fsm' = "none"

\* clear_state()
Clear == data' = NoData /\ fsm' = "none"

\* /start, "Return" and all that ends in cmd_show_balance().
Return ==
  /\ Clear /\ Show("menu")
  /\ UNCHANGED <<rows, lock, at, source, past>>

Settings ==
  /\ screen = "menu" /\ Say("settings")
  /\ UNCHANGED <<rows, lock, at, source, past>>

\* cmd_change_wallet(); the command clears the state before.
ChangeWallet ==
  /\ \/ screen = "menu" /\ UNCHANGED <<fsm, data>>
     \/ Clear
  /\ Show("list")
  /\ UNCHANGED <<rows, lock, at, source, past>>

SetActive(w) ==
  /\ screen = "list" /\ w \in Active
  /\ default' = w /\ Because("switched", w # default /\ Midway)
  /\ UNCHANGED <<wallets, lock, at, source, talk, paid, bought, faults>>

AskDelete(w) ==
  /\ screen = "list" /\ w \in Active
  /\ data' = [data EXCEPT !.idx = w] /\ Show("delete")
  /\ UNCHANGED <<rows, lock, at, source, fsm, past>>

\* After the default wallet there is none.  (idx stays in the data, and is not read again.)
YesDelete ==
  /\ screen = "delete" /\ data.idx # 0
  /\ Write(data.idx, Deleted)
  /\ default' = IF default = data.idx THEN 0 ELSE default
  /\ data' = [data EXCEPT !.idx = 0] /\ Show("list")
  /\ UNCHANGED <<lock, at, source, fsm, past>>

AddNew ==
  /\ screen = "list" /\ Say("add")
  /\ UNCHANGED <<rows, lock, at, source, past>>

-----------------------------------------------------------------------------
(* Free wallets *)

Few == Cardinality(Free) < MaxFree

\* cq_add_new_key(): "Please wait", or nothing yet.
AddKey(h) ==
  /\ screen = "add" /\ Few
  /\ Go(h, "idle", "key_wait")
  /\ screen' \in {"add", "info"}
  /\ UNCHANGED <<rows, lock, source, fsm, data, past>>

\* Mutant: the lock is not waited for.
LockKeyAtOnce(h) ==
  /\ Few /\ Go(h, "key_wait", "key_create") /\ lock' = h
  /\ UNCHANGED <<rows, source, talk, past>>

\* With the lock the free wallets are counted again.
LockKey(h) ==
  /\ lock = None
  /\ \/ /\ Few /\ Go(h, "key_wait", "key_create") /\ lock' = h
        /\ Because("raced", \E g \in Handlers : at[g] = "ton_create")
     \/ /\ ~Few /\ Go(h, "key_wait", "idle") /\ UNCHANGED <<lock, causes>>
  /\ UNCHANGED <<rows, source, talk, paid, bought, faults>>

\* The row is committed before the account exists.
CreateKey(h) ==
  /\ Go(h, "key_create", "key_submit")
  /\ Add("free", 0, "id") /\ Because("switched", Midway)
  /\ Say("info")
  /\ UNCHANGED <<lock, source, paid, bought, faults>>

\* The account and its trust lines; a failure leaves the row.
SubmitKey(h) ==
  /\ \/ Go(h, "key_submit", "key_end") /\ Say("info")
     \/ Go(h, "key_submit", "idle") /\ UNCHANGED talk
  /\ lock' = None
  /\ UNCHANGED <<rows, source, past>>

\* What the FSM data of the moment say is called.
EndKey(h) ==
  /\ Go(h, "key_end", "idle")
  /\ IF data.after THEN Unfree ELSE UNCHANGED <<wallets, bought>>
  /\ UNCHANGED <<default, lock, source, talk, paid, causes, faults>>

\* cq_add_ton() counts too, without the lock ...
AddTon(h) ==
  /\ screen = "add" /\ Few
  /\ Go(h, "idle", "ton_create")
  /\ Because("raced", \E g \in Handlers : at[g] \in {"key_create", "ton_create"})
  /\ UNCHANGED <<rows, lock, source, talk, paid, bought, faults>>

\* ... and then creates.
CreateTon(h) ==
  /\ Go(h, "ton_create", "idle")
  /\ Add("free", 0, "id") /\ Because("switched", Midway)
  /\ Say("info")
  /\ UNCHANGED <<lock, source, paid, bought, faults>>

-----------------------------------------------------------------------------
(* The user's own wallets *)

HaveKey ==
  /\ screen = "add" /\ fsm' = "private" /\ Show("ask")
  /\ UNCHANGED <<rows, lock, at, source, data, past>>

ReadOnly ==
  /\ screen = "add" /\ fsm' = "public" /\ Show("ask")
  /\ UNCHANGED <<rows, lock, at, source, data, past>>

\* The wallet has use_pin = 1 and the id of the user as PIN until one is chosen.
SendingPrivate ==
  /\ fsm = "private"
  /\ Add("own", 1, "id")
  /\ fsm' = "none" /\ Show("choose")
  /\ Because("switched", \E h \in Handlers : at[h] \in {"submit", "after"})
  /\ UNCHANGED <<lock, at, source, data, paid, bought, faults>>

SendingPublic ==
  /\ fsm = "public"
  /\ Add("own", 10, "none")
  /\ Clear /\ Show("menu")
  /\ Because("switched", \E h \in Handlers : at[h] \in {"submit", "after"})
  /\ UNCHANGED <<lock, at, source, paid, bought, faults>>

\* Mutant: a free wallet may be protected.
SetPasswordOfAny ==
  /\ screen = "settings" /\ default # 0 /\ Default.pin = 0
  /\ Say("choose")
  /\ UNCHANGED <<rows, lock, at, source, past>>

SetPassword ==
  /\ screen = "settings" /\ Default.kind = "own" /\ Default.pin = 0
  /\ Say("choose")
  /\ UNCHANGED <<rows, lock, at, source, past>>

ChoosePin ==
  /\ screen = "choose"
  /\ \/ fsm' = "set_pin" /\ Show("pad")
     \/ fsm' = "password" /\ Show("ask")
  /\ UNCHANGED <<rows, lock, at, source, data, past>>

NoPassword ==
  /\ screen = "choose"
  /\ Protect(0) /\ Clear /\ Show("menu")
  /\ UNCHANGED <<default, lock, at, source, past>>

\* The PIN is entered with buttons, the password as a text, and each once more.
Enter ==
  /\ \/ fsm = "set_pin" /\ screen = "pad" /\ fsm' = "set_pin2" /\ UNCHANGED screen
     \/ fsm = "password" /\ fsm' = "password2" /\ Show("ask")
  /\ UNCHANGED <<rows, lock, at, source, data, past>>

Again ==
  /\ \/ fsm = "set_pin2" /\ screen = "pad"
     \/ fsm = "password2"
  /\ \/ /\ fsm' = IF fsm = "set_pin2" THEN "set_pin" ELSE "password"
        /\ screen' = IF fsm = "set_pin2" THEN "pad" ELSE "ask"
        /\ UNCHANGED <<wallets, data>>
     \/ Protect(1) /\ Clear /\ Show("menu")
  /\ UNCHANGED <<default, lock, at, source, past>>

RemovePassword ==
  /\ screen = "settings" /\ Default.pin = 1
  /\ fsm' = "unset" /\ Show("pad")
  /\ UNCHANGED <<rows, lock, at, source, data, past>>

\* remove_password(): the user may know the PIN of the default wallet, or not.
Unset ==
  /\ fsm = "unset"
  /\ \/ /\ default # 0 /\ Default.lock # "none"
        /\ Write(default, Row(Default.kind, 0, "id"))
     \/ UNCHANGED wallets
  /\ fsm' = "none" /\ Show("info")
  /\ UNCHANGED <<default, lock, at, source, data, past>>

-----------------------------------------------------------------------------
(* A free wallet is bought *)

\* cmd_buy_private_key(): cmd_after_buy is stored before the money is looked at.
BuyAddress ==
  /\ screen = "settings" /\ Default.kind = "free"
  /\ \/ data' = [data EXCEPT !.after = TRUE] /\ UNCHANGED screen
     \/ data' = [data EXCEPT !.after = TRUE, !.buy = default] /\ Show("confirm")
  /\ Because("crossed", \E h \in Handlers : at[h] \in Creating)
  /\ UNCHANGED <<rows, lock, at, source, fsm, paid, bought, faults>>

Yes ==
  /\ screen = "confirm"
  /\ fsm' = "pay" /\ Show("pad")
  /\ UNCHANGED <<rows, lock, at, source, data, past>>

\* sign_xdr() signs with the key of the default wallet; with another one than the payment
\* is from, it is refused.
Sign(h) ==
  /\ fsm = "pay"
  /\ \/ /\ default = data.buy /\ Go(h, "idle", "submit")
        /\ source' = [source EXCEPT ![h] = data.buy]
        /\ Because("twice", data.buy \in paid \cup {source[g] : g \in Handlers})
     \/ UNCHANGED <<at, source, causes>>
  /\ fsm' = "none" /\ Show("info")
  /\ UNCHANGED <<rows, lock, data, paid, bought, faults>>

Submit(h) ==
  /\ \/ Go(h, "submit", "after") /\ paid' = paid \cup {source[h]} /\ UNCHANGED source
     \/ Go(h, "submit", "idle") /\ source' = [source EXCEPT ![h] = 0] /\ UNCHANGED paid
  /\ Say("info")
  /\ UNCHANGED <<rows, lock, bought, causes, faults>>

AfterBuy(h) ==
  /\ Go(h, "after", "idle") /\ source' = [source EXCEPT ![h] = 0]
  /\ Unfree
  /\ UNCHANGED <<default, lock, talk, paid, causes, faults>>

\* The process ends; the data and the rows stay.
Restart ==
  /\ \E h \in Handlers : at[h] # "idle"
  /\ faults < MaxFaults /\ faults' = faults + 1
  /\ lock' = None /\ at' = [h \in Handlers |-> "idle"] /\ source' = [h \in Handlers |-> 0]
  /\ UNCHANGED <<rows, talk, paid, bought, causes>>

Next ==
  \/ Return \/ Settings \/ ChangeWallet \/ YesDelete \/ AddNew
  \/ \E w \in Ids : SetActive(w) \/ AskDelete(w)
  \/ HaveKey \/ ReadOnly \/ SendingPrivate \/ SendingPublic
  \/ SetPassword \/ ChoosePin \/ NoPassword \/ Enter \/ Again \/ RemovePassword \/ Unset
  \/ BuyAddress \/ Yes \/ Restart
  \/ \E h \in Handlers :
       \/ AddKey(h) \/ LockKey(h) \/ CreateKey(h) \/ SubmitKey(h) \/ EndKey(h)
       \/ AddTon(h) \/ CreateTon(h)
       \/ Sign(h) \/ Submit(h) \/ AfterBuy(h)

Spec == Init /\ [][Next]_vars

-----------------------------------------------------------------------------
\* "So the max total free wallets is 3" (core/use_cases/wallet/add_wallet.py), however many
\* creations are waiting, unless one of a TON wallet, which takes no lock, comes between
\* the count and the creation of another.
FreeLimit == "raced" \in causes \/ Cardinality(Free) <= MaxFree

\* A wallet becomes the user's own when its price was paid, unless another one became the
\* default wallet during the payment, or the button "Buy" was pressed during a creation.
BoughtIsPaid == causes \cap {"switched", "crossed"} # {} \/ bought \subseteq paid

\* use_pin tells how the key is encrypted, and a free wallet has no PIN; otherwise the bot
\* asks for none and the key stays closed.  The exceptions are those of BoughtIsPaid, and a
\* wallet that is paid for twice, whose new PIN the second payment ignores.
LockIsKnown ==
  \/ causes \cap {"switched", "crossed", "twice"} # {}
  \/ \A w \in Active :
       /\ wallets[w].pin = 0 => wallets[w].lock = "id"
       /\ wallets[w].kind = "free" => wallets[w].pin = 0

=============================================================================
