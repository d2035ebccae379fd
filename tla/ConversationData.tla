-------------------------- MODULE ConversationData --------------------------
(***************************************************************************)
(* What the conversations of the bot share: the FSM state and the FSM data *)
(* of the user, and the last message, whose buttons are the only ones that *)
(* CheckOldButtonCallbackMiddleware lets through.  A text goes to the      *)
(* handler of the FSM state, whatever the last message asks for.  The      *)
(* handlers are atomic here; SigningConversation has the interleavings of  *)
(* the signing itself.                                                     *)
(***************************************************************************)
EXTENDS FiniteSets, TLC

CONSTANTS
  Assets,     \* assets of the wallet, each with a code of its own
  Addresses,  \* addresses of other users
  Orders,     \* offers of the user on the exchange
  None        \* a key that the data do not have

ASSUME DataAssumption == None \notin Assets \cup Addresses \cup Orders

VARIABLES
  fsm,     \* FSM state
  data,    \* FSM data
  screen,  \* the last message: its kind (which gives its buttons), what it tells or asks for
  given,   \* history: the address that the user gave last
  chosen,  \* history: the order that the user chose, and whether to delete it
  mixed    \* history: a QR code or an address came while the data of another conversation
           \* were there

vars == <<fsm, data, screen, given, chosen, mixed>>

\* What a transaction does, and what a message tells of it or asks about: op is the
\* operation, obj an address, an order or the key of a data entry.
Deed(op, send, receive, obj, flags) ==
  [op |-> op, send |-> send, receive |-> receive, obj |-> obj, flags |-> flags]

Nothing == Deed("none", None, None, None, {})

\* known: send_balance_address; stars: the address whose stars mtlap_stars are; memo: the
\* address it was given for; issuer: send_asset_issuer, when it was typed; back:
\* flow_back_amount_msg; func: fsm_func; after: fsm_after_send; requests, transfer: what
\* the SEP-10 challenge is signed for.  Amounts are left out.
NoData ==
  [send |-> None, receive |-> None, to |-> None, known |-> None, stars |-> None, memo |-> None,
   qr |-> None, federal |-> FALSE, cancel |-> FALSE, activate |-> FALSE, offer |-> None,
   delete |-> FALSE, address |-> None, issuer |-> None, usdt |-> None, msg |-> Nothing,
   back |-> Nothing, xdr |-> Nothing, pending |-> Nothing, func |-> "none", after |-> "none",
   requests |-> Nothing, transfer |-> Nothing]

NoChoice == [offer |-> None, delete |-> FALSE]

Screen(kind, deed) == [kind |-> kind, deed |-> deed]

Menu == Screen("menu", Nothing)

\* A message with no button but "Return", or with none, that asks for nothing.
Info == Screen("info", Nothing)

\* The states in which a text is an answer; a message that asks for it has its name.
TextStates ==
  {"sending_for", "sending_sum", "sending_memo", "swap_sum", "swap_receive_sum", "selling_sum",
   "selling_receive_sum", "editing_amount", "editing_price", "send_donate_sum",
   "delegate_for", "delegate_for_a", "delegate_for_c", "recommend_for", "donate_address",
   "donate_name", "donate_persent", "bim_address", "bim_name", "sending_code",
   "sending_issuer", "sending_new", "sending_usdt_address", "sending_usdt_sum",
   "sending_btc_sum_in", "sending_stars_sum_in", "send_default_address"}

PinStates == {"sign", "sign_and_send"}

\* The first router whose handler fits takes a text, a command too: in these states the
\* commands of trade.py, send.py and swap.py are answers.
BeforeTools ==
  {"send_donate_sum", "send_default_address", "sending_code", "sending_issuer", "sending_new"}
  \cup PinStates

BeforeTrade ==
  BeforeTools \cup {"delegate_for", "donate_address", "donate_name", "donate_persent",
                   "bim_address", "bim_name"}

BeforeSend ==
  BeforeTrade \cup {"selling_sum", "selling_receive_sum", "editing_amount", "editing_price"}

BeforeSwap == BeforeSend \cup {"sending_for", "sending_sum", "sending_memo"}

\* Messages with the button "Yes" (get_kb_yesno_send_xdr()).
Confirms == {"confirm", "send_confirm", "activate", "swap_confirm", "donate_confirm"}

Confirming == screen.kind \in Confirms

Init ==
  /\ fsm = "none" /\ data = NoData /\ screen = Menu
  /\ given = None /\ chosen = NoChoice /\ mixed = FALSE

-----------------------------------------------------------------------------
Show(kind, deed) == screen' = Screen(kind, deed)

\* An answer, an error or a prompt that changes neither data nor state.
Tell(kind, deed) == Show(kind, deed) /\ UNCHANGED <<fsm, data, given, chosen, mixed>>

\* A prompt that is kept in the data; without one no message can be sent.
ShowKept(kind, kept) == IF kept # Nothing THEN Show(kind, kept) ELSE UNCHANGED screen

\* A prompt for a text: its kind is the name of the state whose handler takes the text.
Ask(state, deed) ==
  /\ Show(state, deed) /\ fsm' = state
  /\ UNCHANGED <<data, given, chosen, mixed>>

\* clear_state() removes all but the user's own settings, and the state.
NewHistory == given' = None /\ chosen' = NoChoice /\ mixed' = FALSE

Clear(state) == data' = NoData /\ fsm' = state /\ NewHistory

\* "Return", /start, and every command that begins with clear_state().
Return == Clear("none") /\ screen' = Menu

\* A button is one of the last message.
Pressed(kinds) == screen.kind \in kinds

\* Mutant: the request of an earlier confirmation is kept.
ConfirmFirst(kind, state, deed, d) ==
  /\ data' = [d EXCEPT !.xdr = deed, !.pending = IF @ = Nothing THEN deed ELSE @]
  /\ Show(kind, deed) /\ fsm' = state

\* A transaction is built: the request of its signature is stored, and then the message
\* with the button "Yes" is shown.
Confirm(kind, state, deed, d) ==
  /\ data' = [d EXCEPT !.xdr = deed, !.pending = deed]
  /\ Show(kind, deed) /\ fsm' = state

\* _clear_confirmation_signing_data()
ForgetSignature(d) == [d EXCEPT !.xdr = Nothing, !.pending = Nothing]

\* /about changes neither state nor data.
About == Tell("info", Nothing)

\* The text of the PIN prompt is kept too, unless there is one.
PinPrompt == Deed("pin", None, None, None, {})

AskPin(d) == [d EXCEPT !.msg = IF @ = Nothing THEN PinPrompt ELSE @]

\* What follows the transaction of a payment: cmd_after_buy() and its like.
After(op) == IF op \in {"buy", "donate", "usdt"} THEN op ELSE "none"

\* Mutant: fsm_func and fsm_after_send stay.
RequestKeeping(d, deed) ==
  AskPin([d EXCEPT !.xdr = deed, !.pending = Nothing, !.msg = Nothing])

\* request_signature() resets what the conversation before may have left.
Request(d, deed) ==
  AskPin([d EXCEPT !.xdr = deed, !.pending = Nothing, !.msg = Nothing, !.func = "none",
                   !.after = After(deed.op)])

\* cmd_yes_send(): the stored request, else the transaction in the data.
ToSign == IF data.pending # Nothing THEN data.pending ELSE data.xdr

Yes ==
  /\ Confirming
  /\ fsm # "send_donate_sum"
  /\ data' = IF data.pending # Nothing THEN Request(data, data.pending) ELSE AskPin(data)
  /\ fsm' = "sign_and_send" /\ Show("pin", screen.deed)
  /\ UNCHANGED <<given, chosen, mixed>>

\* What the PIN does.
Instead == CASE data.func = "requests" -> data.requests
             [] data.func = "transfer" -> data.transfer
             [] OTHER                  -> Deed(data.func, None, None, None, {})

\* sign_xdr(): the function in the data is called, or the transaction is signed and
\* submitted, and then what follows it is called; all of it stays in the data.
Sign ==
  /\ screen.kind = "pin"
  /\ fsm' = "none"
  /\ \/ data.func = "none" /\ screen' = Info
     \/ data.func = "none" /\ data.after = "usdt" /\ Show("usdt_check", Nothing)
     \/ data.func = "key" /\ Show("key", Nothing)
     \/ data.func \in {"unset", "requests", "transfer"} /\ screen' = Info
     \/ data.func = "requests" /\ Show("asset", Deed("sep", data.requests.send, None, None, {}))
  /\ UNCHANGED <<data, given, chosen, mixed>>

\* The message with the private key is deleted; cmd_show_balance() calls clear_state().
DeleteReturn == Pressed({"key"}) /\ Return

=============================================================================
