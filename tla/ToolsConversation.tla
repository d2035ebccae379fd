------------------------- MODULE ToolsConversation -------------------------
(***************************************************************************)
(* "MTL Tools" and "MTLAP Tools": transactions that write or delete an     *)
(* entry of the account's data (delegates, recommendations, donations from *)
(* dividends, basic-income members), and the donation to the bot.          *)
(***************************************************************************)
EXTENDS ConversationData

Tools == {"mtl_delegate", "mtla_a_delegate", "mtla_c_delegate", "recommend", "mtl_donate", "bod"}

\* The state that takes the address of an entry.
AddressState ==
  [mtl_delegate |-> "delegate_for", mtla_a_delegate |-> "delegate_for_a",
   mtla_c_delegate |-> "delegate_for_c", recommend |-> "recommend_for",
   mtl_donate |-> "donate_address", bod |-> "bim_address"]

Tool(t) == Deed("tool", None, None, t, {})

SetData(t, x) == Deed("set", None, x, t, {})

DeleteData(t) == Deed("delete", None, None, t, {})

OnTool(t) == Pressed({"tool"}) /\ screen.deed = Tool(t)

MTLTools == Pressed({"menu"}) /\ Tell("mtl_tools", Nothing)

MTLAPTools == Pressed({"menu"}) /\ Tell("mtlap_tools", Nothing)

\* The entries of the tool; an account that is not active gives an error.
OpenTool(kind, t) ==
  /\ Pressed({kind})
  /\ Tell("tool", Tool(t)) \/ Tell("info", Nothing)

ToolsDelegate  == OpenTool("mtl_tools", "mtl_delegate")
ToolsDonate    == OpenTool("mtl_tools", "mtl_donate")
ToolsBIM       == OpenTool("mtl_tools", "bod")
ToolsDelegateA == OpenTool("mtlap_tools", "mtla_a_delegate")
ToolsDelegateC == OpenTool("mtlap_tools", "mtla_c_delegate")

\* Without free XLM there is only a pop-up.
AskAddress(t) == OnTool(t) /\ Ask(AddressState[t], Nothing)

AddDelegate  == AskAddress("mtl_delegate")
AddDelegateA == AskAddress("mtla_a_delegate")
AddDelegateC == AskAddress("mtla_c_delegate")
AddDonate    == AskAddress("mtl_donate")
AddBIM       == AskAddress("bod")

\* A recommendation has no menu of its own.
ToolsRecommend == Pressed({"mtlap_tools"}) /\ Ask("recommend_for", Nothing)

ConfirmEntry(deed) ==
  /\ Confirm("confirm", fsm, deed, data)
  /\ UNCHANGED <<given, chosen, mixed>>

\* An account that exists, or the question again.
SetEntry(t, x) ==
  /\ fsm = AddressState[t]
  /\ ConfirmEntry(SetData(t, x)) \/ Tell(AddressState[t], Nothing)

DelegateFor(x)  == SetEntry("mtl_delegate", x)
DelegateForA(x) == SetEntry("mtla_a_delegate", x)
DelegateForC(x) == SetEntry("mtla_c_delegate", x)

\* Without free XLM an error that asks for nothing.
RecommendFor(x) == SetEntry("recommend", x) \/ (fsm = "recommend_for" /\ Tell("info", Nothing))

DeleteEntry(t) == OnTool(t) /\ ConfirmEntry(DeleteData(t))

DelDelegate  == DeleteEntry("mtl_delegate")
DelDelegateA == DeleteEntry("mtla_a_delegate")
DelDelegateC == DeleteEntry("mtla_c_delegate")
DeleteDonate == DeleteEntry("mtl_donate")
DeleteBIM    == DeleteEntry("bod")

-----------------------------------------------------------------------------
(* Entries with a name *)

\* The address goes to the data, and the name is asked for.
KeepAddress(t, x, state) ==
  /\ fsm = AddressState[t]
  /\ \/ /\ data' = [data EXCEPT !.address = x]
        /\ Show(state, Nothing) /\ fsm' = state
     \/ Show(AddressState[t], Nothing) /\ UNCHANGED <<fsm, data>>
  /\ UNCHANGED <<given, chosen, mixed>>

DonateAddress(x) == KeepAddress("mtl_donate", x, "donate_name")
BIMAddress(x)    == KeepAddress("bod", x, "bim_name")

\* A message without text, and then a percentage of zero, ask for the address again, in the
\* state of the name or of the percentage.
DonateName ==
  /\ fsm = "donate_name"
  /\ Ask("donate_persent", Nothing) \/ Tell("donate_address", Nothing)

DonatePercent ==
  /\ fsm = "donate_persent"
  /\ ConfirmEntry(SetData("mtl_donate", data.address)) \/ Tell("donate_address", Nothing)

BIMName ==
  /\ fsm = "bim_name"
  /\ ConfirmEntry(SetData("bod", data.address)) \/ Tell("bim_name", Nothing)

-----------------------------------------------------------------------------
(* The donation to the bot *)

\* The menu of the settings, and /donate.
AskDonation(d) ==
  /\ data' = [d EXCEPT !.msg = Deed("donate", None, None, None, {})]
  /\ Show("send_donate_sum", Nothing) /\ fsm' = "send_donate_sum"

Donate == Pressed({"settings"}) /\ AskDonation(data) /\ UNCHANGED <<given, chosen, mixed>>

CmdDonate == AskDonation(NoData) /\ NewHistory

\* get_donate_sum() stores no request, and leaves the state; a bad sum shows the prompt.
DonateSum ==
  /\ fsm = "send_donate_sum"
  /\ LET deed == Deed("donate", None, None, None, {})
     IN  \/ /\ data' = [data EXCEPT !.xdr = deed, !.after = After("donate")]
            /\ Show("donate_confirm", deed)
            /\ UNCHANGED <<fsm, given, chosen, mixed>>
         \/ Tell("send_donate_sum", Nothing)
         \/ Tell("info", Nothing)

\* cb_donate_sum() takes every button of the state, "Yes" too, for an amount.
DonateButton ==
  /\ fsm = "send_donate_sum" /\ Confirming
  /\ Tell("send_donate_sum", Nothing)

ToolsNext ==
  \/ MTLTools \/ MTLAPTools \/ ToolsDelegate \/ ToolsDonate \/ ToolsBIM \/ ToolsDelegateA
  \/ ToolsDelegateC \/ AddDelegate \/ AddDelegateA \/ AddDelegateC \/ AddDonate \/ AddBIM
  \/ ToolsRecommend \/ DelDelegate \/ DelDelegateA \/ DelDelegateC \/ DeleteDonate \/ DeleteBIM
  \/ DonateName \/ DonatePercent \/ BIMName \/ Donate \/ CmdDonate \/ DonateSum \/ DonateButton
  \/ \E x \in Addresses : \/ DelegateFor(x) \/ DelegateForA(x) \/ DelegateForC(x)
                          \/ RecommendFor(x) \/ DonateAddress(x) \/ BIMAddress(x)

=============================================================================
