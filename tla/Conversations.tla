---------------------------- MODULE Conversations ----------------------------
(***************************************************************************)
(* The conversations of one user, one after another and one in the middle  *)
(* of another: a command, a photo or a button of the last message comes at *)
(* any time.                                                               *)
(***************************************************************************)
EXTENDS SendConversation, SwapConversation, TradeConversation, ToolsConversation,
        WalletConversation

Next ==
  \/ Return \/ About \/ Yes \/ Sign \/ DeleteReturn
  \/ SendNext \/ SwapNext \/ TradeNext \/ ToolsNext \/ WalletNext

AmountStates ==
  {"sending_sum", "swap_sum", "swap_receive_sum", "selling_sum", "selling_receive_sum",
   "editing_amount", "editing_price"}

Spec == Init /\ [][Next]_vars

\* "Yes" signs what the message above it tells, or nothing, unless a QR code was read in
\* the middle of another conversation.
ConfirmedIsSigned == Confirming /\ ~mixed => ToSign \in {screen.deed, Nothing}

\* The answer to a prompt for an amount is used for the assets and the order that the
\* prompt names, after "Back" and another choice too: the prompts are kept in the data and
\* shown again.
PromptIsCurrent ==
  screen.kind \in AmountStates /\ ~mixed =>
    LET d == screen.deed
    IN  /\ d.op # "none"
        /\ d.send \in {None, data.send} /\ d.receive \in {None, data.receive}
        /\ d.obj \in {None, data.offer}

\* The PIN does what it was asked for: it signs the confirmed transaction, which is
\* followed by what belongs to it, or calls the function of the last request;
\* fsm_func and fsm_after_send do not outlive the conversation that set them.
PinDoesAsTold ==
  screen.kind = "pin" /\ ~mixed =>
    IF data.func # "none" THEN Instead = screen.deed
    ELSE /\ data.xdr \in {screen.deed, Nothing}
         /\ data.after = After(screen.deed.op)

\* A text goes to the handler of the state that the last message asks for, unless the
\* address of a QR code could not be used; the donation tool asks for the address once
\* more when it waits for the name or for the percentage.
QuestionFits ==
  screen.kind \in TextStates /\ data.qr = None =>
    fsm = screen.kind \/ fsm \in {"donate_name", "donate_persent"}

\* A new order changes none of the user's orders, and no order is deleted but the one
\* that the user chose to delete: edit_offer_id and delete_order do not outlive the
\* conversation that set them.
OrderAsChosen ==
  Confirming /\ screen.deed.op = "trade" /\ ~mixed =>
    /\ ToSign.obj = chosen.offer
    /\ "delete" \in ToSign.flags <=> chosen.delete

\* A payment goes to the address that the user gave last, or to that of a QR code; its
\* memo was given with or for that address, and the account that was looked up, whose
\* stars are shown, is that address too.
RecipientAsGiven ==
  screen.kind = "send_confirm" =>
    /\ screen.deed.obj \in {given, data.qr}
    /\ ~mixed => /\ screen.deed.flags \subseteq {"cancel", screen.deed.obj}
                /\ data.stars \in {None, screen.deed.obj}

=============================================================================
