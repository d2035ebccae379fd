---------------------- MODULE SigningConversation_proofs ----------------------
(***************************************************************************)
(* For any sets of transactions, confirmations and faults: the key signs   *)
(* only what the user saw, and a dApp receives its own transaction, with a *)
(* PIN and with a password; and with a PIN, only what the user asked for   *)
(* is submitted, and its follow-up is called once, or twice if two         *)
(* confirmations read the FSM state before either reset it.                *)
(***************************************************************************)
EXTENDS SigningConversation, TLAPS

Awaits == {"new", "read", "mode", "reset", "sign", "submit", "call", "show", "end", "done"}

TypeInv ==
  /\ data \in Data /\ screen \in Screens
  /\ ppc \in [Presses -> Awaits] /\ loc \in [Presses -> Locals]
  /\ seen \in [Presses -> TxOrNone] /\ sent \in [Sends -> TxOrNone]
  /\ cpc \in [Checks -> {"new", "check", "ask", "wait", "late", "answered"}]
  /\ spc \in [Sends -> {"new", "submit", "refuse", "answer", "done"}]
  /\ calls \in [Payments -> Nat] /\ answer \in [Requests -> TxOrNone]

-----------------------------------------------------------------------------
\* What the PIN in the data stands for was on the screen, and so was what each sign_xdr()
\* read with it, or it is one of two transactions that came into the same data.
SeenInv ==
  /\ screen.kind = "pin" => screen.tx = data.xdr \/ {screen.tx, data.xdr} \subseteq crossed
  /\ fsm = "talk" => ~data.pin
  /\ \A p \in Pressing : seen[p] \in approved
  /\ data.pin => Pressing # {} /\ data.xdr \in approved \cup crossed
  /\ \A p \in Presses : loc[p].pin => loc[p].xdr \in approved \cup crossed
  /\ signed \subseteq approved \cup crossed

-----------------------------------------------------------------------------
LEMMA EntersCrosses ==
  ASSUME NEW t, NEW others, Enters(t, others)
  PROVE  \A x \in others : x = t \/ {x, t} \subseteq crossed'
BY DEF Enters

LEMMA ScreenUnderway ==
  ASSUME NEW pressing, screen.kind = "pin"
  PROVE  screen.tx \in Underway(pressing) /\ data.xdr \in Underway(pressing)
BY DEF Underway, Menu, Info, Screen

LEMMA SeenUnderway ==
  ASSUME NEW pressing, NEW p \in pressing, data.pin
  PROVE  seen[p] \in Underway(pressing)
BY DEF Underway

-----------------------------------------------------------------------------
\* Every step keeps the types.
LEMMA TypeStep == TypeInv /\ [Next]_vars => TypeInv'
<1>. SUFFICES ASSUME TypeInv, [Next]_vars PROVE TypeInv'
  OBVIOUS
<1>. USE DEF TypeInv, Data, Locals, Tells, Screens, Screen, Awaits, TxOrNone, Txs, Checks, Menu, Info,
     talkVars, pressVars, sendVars, netVars
<1>1. CASE Return
  BY <1>1 DEF Return, NoData
<1>2. CASE Talk
  BY <1>2 DEF Talk, NoData
<1>3. CASE Yes
  BY <1>3 DEF Yes, AskPin
<1>4. CASE PasteHere
  BY <1>4 DEF PasteHere
<1>5. ASSUME NEW t \in Payments, Prepare(t) PROVE TypeInv'
  BY <1>5 DEF Prepare
<1>6. ASSUME NEW t \in Pasted, Paste(t) PROVE TypeInv'
  BY <1>6 DEF Paste, To, To
<1>7. ASSUME NEW r \in Requests, Arrive(r) PROVE TypeInv'
  BY <1>7 DEF Arrive, To, Enters
<1>8. ASSUME NEW r \in Requests, TimeOut(r) PROVE TypeInv'
  BY <1>8 DEF TimeOut, To, To
<1>9. ASSUME NEW c \in Checks, Check(c) PROVE TypeInv'
  BY <1>9 DEF Check, To, Enters
<1>10. ASSUME NEW c \in Checks, Ask(c) PROVE TypeInv'
  BY <1>10 DEF Ask, To, AskPin, Enters
<1>11. ASSUME NEW c \in Checks, CheckFails(c) PROVE TypeInv'
  BY <1>11 DEF CheckFails, To, To
<1>12. ASSUME NEW p \in Presses, NEW right \in BOOLEAN, Enter(p, right) PROVE TypeInv'
  BY <1>12 DEF Enter, Goto
<1>13. ASSUME NEW p \in Presses, ReadData(p) PROVE TypeInv'
  BY <1>13 DEF ReadData, Goto
<1>14. ASSUME NEW p \in Presses, ReadState(p) PROVE TypeInv'
  BY <1>14 DEF ReadState, Goto
<1>15. ASSUME NEW p \in Presses, Reset(p) PROVE TypeInv'
  BY <1>15 DEF Reset, Goto
<1>16. ASSUME NEW p \in Presses, Sign(p) PROVE TypeInv'
  <2>1. ppc' \in [Presses -> Awaits] /\ data' \in {data, [data EXCEPT !.xdr = loc[p].xdr]}
    BY <1>16 DEF Sign, Goto
  <2>2. loc[p].xdr \in TxOrNone
    OBVIOUS
  <2>3. screen' \in Screens
    BY <1>16 DEF Sign
  <2>4. data' \in Data
    BY <2>1, <2>2
  <2>5. UNCHANGED <<cpc, loc, seen, spc, sent, calls, answer>>
    BY <1>16 DEF Sign
  <2>. QED
    BY <2>1, <2>3, <2>4, <2>5
<1>17. ASSUME NEW p \in Presses, Submit(p) PROVE TypeInv'
  BY <1>17 DEF Submit, Goto, Accept, Refuse, Lose
<1>18. ASSUME NEW p \in Presses, Call(p) PROVE TypeInv'
  <2>1. \A n \in Nat : n + 1 \in Nat
    OBVIOUS
  <2>2. calls' \in [Payments -> Nat]
    BY <1>18, <2>1 DEF Call
  <2>. QED
    BY <1>18, <2>2 DEF Call, Goto
<1>19. ASSUME NEW p \in Presses, Show(p) PROVE TypeInv'
  BY <1>19 DEF Show, Goto
<1>20. ASSUME NEW p \in Presses, End(p) PROVE TypeInv'
  BY <1>20 DEF End, Goto, NoLocals
<1>21. ASSUME NEW s \in Sends, SendTr(s) PROVE TypeInv'
  BY <1>21 DEF SendTr, Press, Envelope
<1>22. ASSUME NEW s \in Sends, ReSend(s) PROVE TypeInv'
  BY <1>22 DEF ReSend, Press, Envelope
<1>23. ASSUME NEW s \in Sends, SendTools(s) PROVE TypeInv'
  BY <1>23 DEF SendTools, Press
<1>24. ASSUME NEW s \in Sends, SubmitSent(s) PROVE TypeInv'
  BY <1>24 DEF SubmitSent, Accept, Lose, Pressed
<1>25. ASSUME NEW s \in Sends, Answer(s) PROVE TypeInv'
  BY <1>25 DEF Answer, Pressed
<1>26. CASE UNCHANGED vars
  BY <1>26 DEF vars
<1>. HIDE DEF TypeInv
<1>. QED
  BY <1>1, <1>2, <1>3, <1>4, <1>5, <1>6, <1>7, <1>8, <1>9, <1>10, <1>11, <1>12, <1>13, <1>14,
     <1>15, <1>16, <1>17, <1>18, <1>19, <1>20, <1>21, <1>22, <1>23, <1>24, <1>25, <1>26 DEF Next

\* Every step keeps SeenInv.
LEMMA SeenStep == TypeInv /\ SeenInv /\ [Next]_vars => SeenInv'
<1>. SUFFICES ASSUME TypeInv, SeenInv, [Next]_vars PROVE SeenInv'
  OBVIOUS
<1>. USE DEF SeenInv, Pressing, Screen, Menu, Info, talkVars, pressVars, sendVars, netVars
<1>1. CASE Return
  BY <1>1 DEF TypeInv, Awaits, Return, NoData
<1>2. CASE Talk
  BY <1>2 DEF TypeInv, Awaits, Talk, NoData
<1>3. CASE Yes
  BY <1>3 DEF TypeInv, Awaits, Yes, AskPin
<1>4. CASE PasteHere
  BY <1>4 DEF TypeInv, Awaits, PasteHere
<1>5. ASSUME NEW t \in Payments, Prepare(t) PROVE SeenInv'
  BY <1>5 DEF TypeInv, Awaits, Prepare
<1>6. ASSUME NEW t \in Pasted, Paste(t) PROVE SeenInv'
  BY <1>6 DEF TypeInv, Awaits, Paste
<1>7. ASSUME NEW r \in Requests, Arrive(r) PROVE SeenInv'
  <2>1. data'.xdr = data.xdr /\ data'.pin = data.pin
    BY <1>7 DEF Arrive, Data, TypeInv
  <2>2. crossed \subseteq crossed'
    BY <1>7 DEF Arrive, Enters
  <2>. QED
    BY <1>7, <2>1, <2>2 DEF Arrive
<1>8. ASSUME NEW r \in Requests, TimeOut(r) PROVE SeenInv'
  BY <1>8 DEF TypeInv, Awaits, TimeOut
<1>9. ASSUME NEW c \in Checks, Check(c) PROVE SeenInv'
  <2>1. data'.xdr = c /\ data'.pin = data.pin /\ crossed \subseteq crossed'
    BY <1>9 DEF Check, Enters, Data, TypeInv
  <2>2. \A x \in Underway(Pressing) : x = c \/ {x, c} \subseteq crossed'
    BY <1>9, EntersCrosses DEF Check
  <2>3. screen.kind = "pin" => screen.tx = c \/ {screen.tx, c} \subseteq crossed'
    BY <2>2, ScreenUnderway
  <2>4. data.pin => c \in approved \cup crossed'
    <3>1. ASSUME data.pin, NEW q \in Pressing PROVE seen[q] = c \/ c \in crossed'
      BY <2>2, <3>1, SeenUnderway
    <3>. QED
      BY <3>1
  <2>. QED
    BY <1>9, <2>1, <2>3, <2>4 DEF Check
<1>10. ASSUME NEW c \in Checks, Ask(c) PROVE SeenInv'
  BY <1>10 DEF TypeInv, Awaits, Ask, AskPin, Enters
<1>11. ASSUME NEW c \in Checks, CheckFails(c) PROVE SeenInv'
  BY <1>11 DEF TypeInv, Awaits, CheckFails
<1>12. ASSUME NEW p \in Presses, NEW right \in BOOLEAN, Enter(p, right) PROVE SeenInv'
  BY <1>12 DEF TypeInv, Awaits, Enter, Goto, Tells
<1>13. ASSUME NEW p \in Presses, ReadData(p) PROVE SeenInv'
  BY <1>13 DEF TypeInv, Awaits, ReadData, Goto
<1>14. ASSUME NEW p \in Presses, ReadState(p) PROVE SeenInv'
  BY <1>14 DEF TypeInv, Awaits, ReadState, Goto
<1>15. ASSUME NEW p \in Presses, Reset(p) PROVE SeenInv'
  BY <1>15 DEF TypeInv, Awaits, Reset, Goto
<1>16. ASSUME NEW p \in Presses, Sign(p) PROVE SeenInv'
  <2>1. CASE loc[p].pin
    <3>1. crossed \subseteq crossed' /\ loc' = loc /\ approved' = approved /\ seen' = seen
      BY <1>16 DEF Sign, Enters
    <3>2. Pressing' = Pressing
      BY <1>16 DEF Sign, Goto, Awaits, TypeInv
    <3>3. loc[p].xdr \in approved \cup crossed
      BY <2>1
    <3>4. CASE data' = data /\ signed' = signed /\ screen' = Info /\ fsm' = fsm
      BY <3>1, <3>2, <3>4
    <3>5. CASE /\ data' = [data EXCEPT !.xdr = loc[p].xdr] /\ signed' = signed \cup {loc[p].xdr}
               /\ Enters(loc[p].xdr, Underway(Pressing \ {p}))
               /\ screen' \in {screen, Info} /\ fsm' = "none"
      <4>1. data'.xdr = loc[p].xdr /\ data'.pin = data.pin
        BY <3>5 DEF Data, TypeInv
      <4>2. screen.kind = "pin" =>
              screen.tx = loc[p].xdr \/ {screen.tx, loc[p].xdr} \subseteq crossed'
        BY <3>5, EntersCrosses, ScreenUnderway
      <4>. QED
        BY <3>1, <3>2, <3>3, <3>5, <4>1, <4>2
    <3>. QED
      BY <1>16, <3>4, <3>5 DEF Sign
  <2>2. CASE ~loc[p].pin
    BY <1>16, <2>2 DEF Sign, Goto, Awaits, TypeInv
  <2>. QED
    BY <2>1, <2>2
<1>17. ASSUME NEW p \in Presses, Submit(p) PROVE SeenInv'
  BY <1>17 DEF TypeInv, Awaits, Submit, Goto, Accept, Refuse, Lose
<1>18. ASSUME NEW p \in Presses, Call(p) PROVE SeenInv'
  BY <1>18 DEF TypeInv, Awaits, Call, Goto
<1>19. ASSUME NEW p \in Presses, Show(p) PROVE SeenInv'
  BY <1>19 DEF TypeInv, Awaits, Show, Goto
<1>20. ASSUME NEW p \in Presses, End(p) PROVE SeenInv'
  BY <1>20 DEF TypeInv, Awaits, End, Goto, NoLocals
<1>21. ASSUME NEW s \in Sends, SendTr(s) PROVE SeenInv'
  BY <1>21 DEF TypeInv, Awaits, SendTr, Press
<1>22. ASSUME NEW s \in Sends, ReSend(s) PROVE SeenInv'
  BY <1>22 DEF TypeInv, Awaits, ReSend, Press
<1>23. ASSUME NEW s \in Sends, SendTools(s) PROVE SeenInv'
  BY <1>23 DEF TypeInv, Awaits, SendTools, Press
<1>24. ASSUME NEW s \in Sends, SubmitSent(s) PROVE SeenInv'
  BY <1>24 DEF TypeInv, Awaits, SubmitSent, Accept, Lose, Pressed
<1>25. ASSUME NEW s \in Sends, Answer(s) PROVE SeenInv'
  BY <1>25 DEF TypeInv, Awaits, Answer, Pressed
<1>26. CASE UNCHANGED vars
  BY <1>26 DEF TypeInv, Awaits, vars
<1>. HIDE DEF SeenInv
<1>. QED
  BY <1>1, <1>2, <1>3, <1>4, <1>5, <1>6, <1>7, <1>8, <1>9, <1>10, <1>11, <1>12, <1>13, <1>14,
     <1>15, <1>16, <1>17, <1>18, <1>19, <1>20, <1>21, <1>22, <1>23, <1>24, <1>25, <1>26 DEF Next

-----------------------------------------------------------------------------
LEMMA InitInv == Init => TypeInv /\ SeenInv
<1>. SUFFICES ASSUME Init PROVE TypeInv /\ SeenInv
  OBVIOUS
<1>1. TypeInv
  BY DEF Init, TypeInv, Data, NoData, Screens, Menu, Screen, Awaits, Locals, NoLocals, TxOrNone
<1>2. SeenInv
  BY DEF Init, SeenInv, NoData, NoLocals, Menu, Screen, Pressing
<1>. QED
  BY <1>1, <1>2

\* sign_xdr() signs nothing but what was on the screen when a PIN or password was given,
\* however many confirmations, pasted transactions and requests of dApps interleave with
\* clear_state() and new conversations, unless two transactions came into the same FSM data.
THEOREM SignedWasSeenHolds == Spec => []SignedWasSeen
<1>1. SeenInv => SignedWasSeen
  BY DEF SeenInv, SignedWasSeen
<1>2. TypeInv /\ SeenInv /\ [Next]_vars => (TypeInv /\ SeenInv)'
  BY TypeStep, SeenStep
<1>. QED
  BY <1>1, <1>2, InitInv, PTL DEF Spec

-----------------------------------------------------------------------------
(***************************************************************************)
(* What the other properties rest on.  A transaction that cmd_check_xdr()  *)
(* has not stored yet is nowhere; what a handler carries past sign_xdr()   *)
(* was signed with the PIN.                                                *)
(***************************************************************************)
FreshInv ==
  \A c \in Checks : cpc[c] \in {"new", "check"} =>
    /\ screen.tx # c /\ data.xdr # c
    /\ \A p \in Presses : seen[p] # c /\ loc[p].xdr # c
    /\ \A s \in Sends : sent[s] # c

CarriedInv ==
  /\ signed \subseteq Txs
  /\ \A p \in Presses :
       /\ ppc[p] \in {"submit", "show", "call"} => loc[p].pin /\ loc[p].xdr # NoTx
       /\ ppc[p] \in {"submit", "call"} =>
            loc[p].mode = "sign_and_send" /\ loc[p].xdr \in signed
       /\ ppc[p] = "call" => loc[p].after # NoTx
       /\ loc[p].pin => ppc[p] \in {"mode", "reset", "sign", "submit", "show", "call", "end"}

\* Every step keeps FreshInv.
LEMMA FreshStep == TypeInv /\ FreshInv /\ [Next]_vars => FreshInv'
<1>. SUFFICES ASSUME TypeInv, FreshInv, [Next]_vars
             PROVE  FreshInv'
  OBVIOUS
<1>. USE DEF FreshInv, TypeInv, Screen, Menu, Info, talkVars, pressVars, sendVars, netVars
<1>0. NoTx \notin Checks /\ Payments \cap Checks = {} /\ Pasted \subseteq Checks /\ Requests \subseteq Checks
  BY ConversationAssumption DEF Checks
<1>1. CASE Return
  BY <1>0, <1>1 DEF Return, NoData
<1>2. CASE Talk
  BY <1>0, <1>2 DEF Talk, NoData
<1>3. CASE Yes
  BY <1>0, <1>3 DEF Yes, AskPin, Data
<1>4. CASE PasteHere
  BY <1>0, <1>4 DEF PasteHere
<1>5. ASSUME NEW t \in Payments, Prepare(t) PROVE FreshInv'
  BY <1>0, <1>5 DEF Prepare, Data
<1>6. ASSUME NEW t \in Pasted, Paste(t) PROVE FreshInv'
  BY <1>0, <1>6 DEF Paste, To
<1>7. ASSUME NEW r \in Requests, Arrive(r) PROVE FreshInv'
  BY <1>0, <1>7 DEF Arrive, To, Enters
<1>8. ASSUME NEW r \in Requests, TimeOut(r) PROVE FreshInv'
  BY <1>0, <1>8 DEF TimeOut, To
<1>9. ASSUME NEW c \in Checks, Check(c) PROVE FreshInv'
  BY <1>0, <1>9 DEF Check, To, Enters
<1>10. ASSUME NEW c \in Checks, Ask(c) PROVE FreshInv'
  BY <1>0, <1>10 DEF Ask, To, AskPin, Enters
<1>11. ASSUME NEW c \in Checks, CheckFails(c) PROVE FreshInv'
  BY <1>0, <1>11 DEF CheckFails, To, Fault
<1>12. ASSUME NEW p \in Presses, NEW right \in BOOLEAN, Enter(p, right) PROVE FreshInv'
  BY <1>0, <1>12 DEF Enter, Goto
<1>13. ASSUME NEW p \in Presses, ReadData(p) PROVE FreshInv'
  BY <1>0, <1>13 DEF ReadData, Goto
<1>14. ASSUME NEW p \in Presses, ReadState(p) PROVE FreshInv'
  BY <1>0, <1>14 DEF ReadState, Goto
<1>15. ASSUME NEW p \in Presses, Reset(p) PROVE FreshInv'
  BY <1>0, <1>15 DEF Reset, Goto
<1>16. ASSUME NEW p \in Presses, Sign(p) PROVE FreshInv'
  <2>1. /\ data'.xdr \in {data.xdr, loc[p].xdr} /\ screen' \in {screen, Info}
        /\ UNCHANGED <<cpc, loc, seen, sent>>
    BY <1>16 DEF Sign, Data
  <2>2. Info.tx = NoTx
    OBVIOUS
  <2>. QED
    BY <1>0, <2>1, <2>2
<1>17. ASSUME NEW p \in Presses, Submit(p) PROVE FreshInv'
  BY <1>0, <1>17 DEF Submit, Goto, Accept, Refuse, Lose, Fault
<1>18. ASSUME NEW p \in Presses, Call(p) PROVE FreshInv'
  BY <1>0, <1>18 DEF Call, Goto
<1>19. ASSUME NEW p \in Presses, Show(p) PROVE FreshInv'
  BY <1>0, <1>19 DEF Show, Goto
<1>20. ASSUME NEW p \in Presses, End(p) PROVE FreshInv'
  BY <1>0, <1>20 DEF End, Goto, NoLocals
<1>21. ASSUME NEW s \in Sends, SendTr(s) PROVE FreshInv'
  BY <1>0, <1>21 DEF SendTr, Press, Envelope
<1>22. ASSUME NEW s \in Sends, ReSend(s) PROVE FreshInv'
  BY <1>0, <1>22 DEF ReSend, Press, Envelope
<1>23. ASSUME NEW s \in Sends, SendTools(s) PROVE FreshInv'
  BY <1>0, <1>23 DEF SendTools, Press
<1>24. ASSUME NEW s \in Sends, SubmitSent(s) PROVE FreshInv'
  BY <1>0, <1>24 DEF SubmitSent, Accept, Lose, Fault, Pressed
<1>25. ASSUME NEW s \in Sends, Answer(s) PROVE FreshInv'
  BY <1>0, <1>25 DEF Answer, Pressed, Lose, Fault
<1>26. CASE UNCHANGED vars
  BY <1>0, <1>26 DEF vars
<1>. HIDE DEF FreshInv, TypeInv
<1>. QED
  BY <1>1, <1>2, <1>3, <1>4, <1>5, <1>6, <1>7, <1>8, <1>9, <1>10, <1>11, <1>12, <1>13, <1>14,
     <1>15, <1>16, <1>17, <1>18, <1>19, <1>20, <1>21, <1>22, <1>23, <1>24, <1>25, <1>26 DEF Next

\* Every step keeps CarriedInv.
LEMMA CarriedStep == TypeInv /\ CarriedInv /\ [Next]_vars => CarriedInv'
<1>. SUFFICES ASSUME TypeInv, CarriedInv, [Next]_vars
             PROVE  CarriedInv'
  OBVIOUS
<1>. USE DEF CarriedInv, TypeInv, talkVars, pressVars, sendVars, netVars
<1>1. CASE Return
  BY <1>1 DEF Return
<1>2. CASE Talk
  BY <1>2 DEF Talk
<1>3. CASE Yes
  BY <1>3 DEF Yes, AskPin
<1>4. CASE PasteHere
  BY <1>4 DEF PasteHere
<1>5. ASSUME NEW t \in Payments, Prepare(t) PROVE CarriedInv'
  BY <1>5 DEF Prepare
<1>6. ASSUME NEW t \in Pasted, Paste(t) PROVE CarriedInv'
  BY <1>6 DEF Paste, To
<1>7. ASSUME NEW r \in Requests, Arrive(r) PROVE CarriedInv'
  BY <1>7 DEF Arrive, To, Enters
<1>8. ASSUME NEW r \in Requests, TimeOut(r) PROVE CarriedInv'
  BY <1>8 DEF TimeOut, To
<1>9. ASSUME NEW c \in Checks, Check(c) PROVE CarriedInv'
  BY <1>9 DEF Check, To, Enters
<1>10. ASSUME NEW c \in Checks, Ask(c) PROVE CarriedInv'
  BY <1>10 DEF Ask, To, AskPin, Enters
<1>11. ASSUME NEW c \in Checks, CheckFails(c) PROVE CarriedInv'
  BY <1>11 DEF CheckFails, To, Fault
<1>12. ASSUME NEW p \in Presses, NEW right \in BOOLEAN, Enter(p, right) PROVE CarriedInv'
  BY <1>12 DEF Enter, Goto
<1>13. ASSUME NEW p \in Presses, ReadData(p) PROVE CarriedInv'
  BY <1>13 DEF ReadData, Goto
<1>14. ASSUME NEW p \in Presses, ReadState(p) PROVE CarriedInv'
  BY <1>14 DEF ReadState, Goto
<1>15. ASSUME NEW p \in Presses, Reset(p) PROVE CarriedInv'
  BY <1>15 DEF Reset, Goto
<1>16. ASSUME NEW p \in Presses, Sign(p) PROVE CarriedInv'
  <2>1. loc[p].xdr # NoTx => loc[p].xdr \in Txs
    BY DEF Locals, TxOrNone
  <2>. QED
    BY <1>16, <2>1 DEF Sign, Goto, Enters
<1>17. ASSUME NEW p \in Presses, Submit(p) PROVE CarriedInv'
  BY <1>17 DEF Submit, Goto, Accept, Refuse, Lose, Fault
<1>18. ASSUME NEW p \in Presses, Call(p) PROVE CarriedInv'
  BY <1>18 DEF Call, Goto
<1>19. ASSUME NEW p \in Presses, Show(p) PROVE CarriedInv'
  BY <1>19 DEF Show, Goto
<1>20. ASSUME NEW p \in Presses, End(p) PROVE CarriedInv'
  BY <1>20 DEF End, Goto, NoLocals
<1>21. ASSUME NEW s \in Sends, SendTr(s) PROVE CarriedInv'
  BY <1>21 DEF SendTr, Press, Envelope
<1>22. ASSUME NEW s \in Sends, ReSend(s) PROVE CarriedInv'
  BY <1>22 DEF ReSend, Press, Envelope
<1>23. ASSUME NEW s \in Sends, SendTools(s) PROVE CarriedInv'
  BY <1>23 DEF SendTools, Press
<1>24. ASSUME NEW s \in Sends, SubmitSent(s) PROVE CarriedInv'
  BY <1>24 DEF SubmitSent, Accept, Lose, Fault, Pressed
<1>25. ASSUME NEW s \in Sends, Answer(s) PROVE CarriedInv'
  BY <1>25 DEF Answer, Pressed, Lose, Fault
<1>26. CASE UNCHANGED vars
  BY <1>26 DEF vars
<1>. HIDE DEF CarriedInv, TypeInv
<1>. QED
  BY <1>1, <1>2, <1>3, <1>4, <1>5, <1>6, <1>7, <1>8, <1>9, <1>10, <1>11, <1>12, <1>13, <1>14,
     <1>15, <1>16, <1>17, <1>18, <1>19, <1>20, <1>21, <1>22, <1>23, <1>24, <1>25, <1>26 DEF Next

-----------------------------------------------------------------------------
\* Where the history of crossed transactions finds those under way.
LEMMA UnderwayHas ==
  ASSUME NEW pressing
  PROVE  /\ screen.kind \notin {"menu", "info"} =>
              screen.tx \in Underway(pressing) /\ data.xdr \in Underway(pressing)
         /\ \A r \in Requests :
              data.request = r /\ cpc[r] \in {"check", "ask", "wait"} => r \in Underway(pressing)
         /\ \A q \in pressing : (ppc[q] = "read" => data.pin) => seen[q] \in Underway(pressing)
         /\ \A q \in pressing :
              loc[q].pin /\ loc[q].xdr # NoTx => loc[q].xdr \in Underway(pressing)
         /\ \A s \in Sending : sent[s] \in Underway(pressing)
<1>1. screen.kind \notin {"menu", "info"} => screen \notin {Menu, Info}
  BY DEF Menu, Info, Screen
<1>. QED
  BY <1>1 DEF Underway

\* What enters the data of others uncrossed is all that was under way.
LEMMA Uncrossed ==
  ASSUME NEW t, NEW others, Enters(t, others), t \notin crossed'
  PROVE  /\ \A x \in others : x = t
         /\ crossed' = crossed
BY DEF Enters

LEMMA EntersKeeps ==
  ASSUME NEW t, NEW others, Enters(t, others)
  PROVE  crossed \subseteq crossed'
BY DEF Enters

\* The disjoint kinds of transactions.
LEMMA Kinds ==
  /\ NoTx \notin Txs /\ NoTx \notin Checks /\ NoTx \notin Payments /\ NoTx \notin Requests
  /\ Payments \cap Checks = {} /\ Txs = Payments \cup Checks
  /\ Requests \subseteq Checks /\ Pasted \subseteq Checks /\ Pasted \cap Requests = {}
BY ConversationAssumption DEF Txs, Checks

-----------------------------------------------------------------------------
\* A pasted transaction or a dApp's in the data is the one under every button to send it,
\* and the one that every handler works on.
FitInv ==
  data.xdr \in Checks \ crossed =>
    /\ screen.kind \in {"send", "resend"} => screen.tx = data.xdr
    /\ \A p \in Presses : ppc[p] \in {"submit", "show"} => loc[p].xdr = data.xdr
    /\ \A s \in Sending : sent[s] = data.xdr

\* Every step keeps FitInv.
LEMMA FitStep == TypeInv /\ CarriedInv /\ FitInv /\ [Next]_vars => FitInv'
<1>. SUFFICES ASSUME TypeInv, CarriedInv, FitInv, [Next]_vars
             PROVE  FitInv'
  OBVIOUS
<1>. USE DEF FitInv, TypeInv, Sending, Data, Screen, Menu, Info, talkVars, pressVars, sendVars,
     netVars
<1>1. CASE Return
  BY <1>1, Kinds DEF Return, NoData
<1>2. CASE Talk
  BY <1>2, Kinds DEF Talk, NoData
<1>3. CASE Yes
  BY <1>3, Kinds DEF Yes, AskPin
<1>4. CASE PasteHere
  BY <1>4 DEF PasteHere
<1>5. ASSUME NEW t \in Payments, Prepare(t) PROVE FitInv'
  BY <1>5, Kinds DEF Prepare
<1>6. ASSUME NEW t \in Pasted, Paste(t) PROVE FitInv'
  BY <1>6 DEF Paste, To
<1>7. ASSUME NEW r \in Requests, Arrive(r) PROVE FitInv'
  BY <1>7 DEF Arrive, To, Enters
<1>8. ASSUME NEW r \in Requests, TimeOut(r) PROVE FitInv'
  BY <1>8 DEF TimeOut, To
<1>9. ASSUME NEW c \in Checks, Check(c) PROVE FitInv'
  <2>1. data'.xdr = c
    BY <1>9 DEF Check, Data
  <2>2. c \notin crossed' => \A x \in Underway(Pressing) : x = c
    BY <1>9, Uncrossed DEF Check
  <2>3. /\ \A p \in Presses : ppc[p] \in {"submit", "show"} =>
                p \in Pressing /\ loc[p].pin /\ loc[p].xdr # NoTx
        /\ Sending' = Sending
    BY <1>9 DEF Pressing, Sending, CarriedInv, Check
  <2>. QED
    BY <1>9, <2>1, <2>2, <2>3, UnderwayHas DEF Check
<1>10. ASSUME NEW c \in Checks, Ask(c) PROVE FitInv'
  BY <1>10 DEF Ask, To, AskPin, Enters
<1>11. ASSUME NEW c \in Checks, CheckFails(c) PROVE FitInv'
  BY <1>11 DEF CheckFails, To, Fault
<1>12. ASSUME NEW p \in Presses, NEW right \in BOOLEAN, Enter(p, right) PROVE FitInv'
  BY <1>12 DEF Enter, Goto
<1>13. ASSUME NEW p \in Presses, ReadData(p) PROVE FitInv'
  BY <1>13 DEF ReadData, Goto
<1>14. ASSUME NEW p \in Presses, ReadState(p) PROVE FitInv'
  BY <1>14 DEF ReadState, Goto
<1>15. ASSUME NEW p \in Presses, Reset(p) PROVE FitInv'
  BY <1>15 DEF Reset, Goto
<1>16. ASSUME NEW p \in Presses, Sign(p) PROVE FitInv'
  <2>1. CASE /\ data' = [data EXCEPT !.xdr = loc[p].xdr]
             /\ Enters(loc[p].xdr, Underway(Pressing \ {p}))
             /\ screen' \in {screen, Info}
    <3>1. data'.xdr = loc[p].xdr /\ Sending' = Sending
      BY <1>16, <2>1 DEF Data, Sign, Sending
    <3>2. loc[p].xdr \notin crossed' => \A x \in Underway(Pressing \ {p}) : x = loc[p].xdr
      BY <2>1, Uncrossed
    <3>3. \A q \in Presses : q # p /\ ppc[q] \in {"submit", "show"} =>
                  q \in Pressing \ {p} /\ loc[q].pin /\ loc[q].xdr # NoTx
      BY DEF Pressing, CarriedInv
    <3>4. /\ loc' = loc /\ sent' = sent
          /\ \A q \in Presses : q # p => ppc'[q] = ppc[q]
          /\ screen' = screen \/ screen'.kind = "info"
      BY <1>16, <2>1 DEF Sign, Goto
    <3>5. CASE loc[p].xdr \in crossed'
      BY <3>1, <3>5
    <3>6. CASE loc[p].xdr \notin crossed'
      <4>1. /\ screen.kind \in {"send", "resend"} => screen.tx = loc[p].xdr
            /\ \A s \in Sending : sent[s] = loc[p].xdr
        BY <3>2, <3>6, UnderwayHas
      <4>2. \A q \in Pressing \ {p} :
              loc[q].pin /\ loc[q].xdr # NoTx => loc[q].xdr = loc[p].xdr
        BY <3>2, <3>6, UnderwayHas
      <4>3. \A q \in Presses : ppc'[q] \in {"submit", "show"} => loc[q].xdr = loc[p].xdr
        BY <3>3, <3>4, <4>2
      <4>. QED
        BY <3>1, <3>4, <4>1, <4>3
    <3>. QED
      BY <3>5, <3>6
  <2>2. CASE /\ screen' = Info /\ Goto(p, "end")
             /\ UNCHANGED <<data, crossed>>
    BY <1>16, <2>2 DEF Sign, Goto, Sending
  <2>. QED
    BY <1>16, <2>1, <2>2 DEF Sign
<1>17. ASSUME NEW p \in Presses, Submit(p) PROVE FitInv'
  <2>1. /\ screen'.kind = "info" \/ (screen'.kind = "resend" /\ screen'.tx = loc[p].xdr)
        /\ UNCHANGED <<data, loc, spc, sent, crossed>>
        /\ \A q \in Presses : ppc'[q] \in {"submit", "show"} => ppc[q] \in {"submit", "show"}
    BY <1>17 DEF Submit, Goto, Accept, Refuse, Lose
  <2>2. ppc[p] = "submit"
    BY <1>17 DEF Submit
  <2>. QED
    BY <2>1, <2>2 DEF Sending
<1>18. ASSUME NEW p \in Presses, Call(p) PROVE FitInv'
  BY <1>18 DEF Call, Goto
<1>19. ASSUME NEW p \in Presses, Show(p) PROVE FitInv'
  BY <1>19 DEF Show, Goto
<1>20. ASSUME NEW p \in Presses, End(p) PROVE FitInv'
  BY <1>20 DEF End, Goto, NoLocals
<1>21. ASSUME NEW s \in Sends, SendTr(s) PROVE FitInv'
  BY <1>21 DEF SendTr, Press, Envelope, Sending
<1>22. ASSUME NEW s \in Sends, ReSend(s) PROVE FitInv'
  BY <1>22 DEF ReSend, Press, Envelope, Sending
<1>23. ASSUME NEW s \in Sends, SendTools(s) PROVE FitInv'
  BY <1>23 DEF SendTools, Press, Sending
<1>24. ASSUME NEW s \in Sends, SubmitSent(s) PROVE FitInv'
  <2>1. s \in Sending
    BY <1>24 DEF SubmitSent, Sending
  <2>. QED
    BY <1>24, <2>1 DEF SubmitSent, Accept, Lose, Fault, Pressed, Sending
<1>25. ASSUME NEW s \in Sends, Answer(s) PROVE FitInv'
  BY <1>25 DEF Answer, Pressed, Lose, Fault
<1>26. CASE UNCHANGED vars
  BY <1>26 DEF vars
<1>. HIDE DEF FitInv, TypeInv
<1>. QED
  BY <1>1, <1>2, <1>3, <1>4, <1>5, <1>6, <1>7, <1>8, <1>9, <1>10, <1>11, <1>12, <1>13, <1>14,
     <1>15, <1>16, <1>17, <1>18, <1>19, <1>20, <1>21, <1>22, <1>23, <1>24, <1>25, <1>26 DEF Next

-----------------------------------------------------------------------------
\* Asked to be sent, or one of two transactions that came into the same data.
Held == wished \cup crossed

PinGiven == data.pin \/ screen.kind = "pin"

\* A confirmation has read the data as they are now, with the PIN, and not yet the state.
Reading == \E p \in Presses : ppc[p] = "mode" /\ loc[p].pin /\ loc[p].xdr = data.xdr

\* With a PIN, the FSM state tells what is only to be signed: what it lets be submitted
\* the user asked to be sent, with "Yes" before the PIN or with a button after it.
WishInv ==
  /\ PinGiven /\ data.xdr \in Payments => data.xdr \in Held
  /\ fsm = "sign_and_send" /\ (PinGiven \/ Reading) => data.xdr \in Held \cup {NoTx}
  /\ \A p \in Presses : loc[p].pin /\ loc[p].xdr \in Payments => loc[p].xdr \in Held
  /\ \A p \in Presses :
       loc[p].mode = "sign_and_send" /\ loc[p].pin => loc[p].xdr \in Held \cup {NoTx}
  /\ signed \cap Payments \subseteq Held
  /\ \A s \in Sending : sent[s] \in Checks => sent[s] \in Held
  /\ \A s \in Sends : spc[s] = "submit" => sent[s] \in signed
  /\ submitted \subseteq Held \cap signed

\* Every step keeps WishInv.
LEMMA WishStep == Password = FALSE /\ TypeInv /\ SeenInv /\ FreshInv /\ CarriedInv /\ FitInv
  /\ WishInv /\ [Next]_vars => WishInv'
<1>. SUFFICES ASSUME Password = FALSE, TypeInv, SeenInv, FreshInv, CarriedInv, FitInv, WishInv,
      [Next]_vars
             PROVE  WishInv'
  OBVIOUS
<1>. USE DEF WishInv, Held, PinGiven, Reading, TypeInv, Sending, Data, Screen, Menu, Info, talkVars,
     pressVars, sendVars, netVars
<1>1. CASE Return
  BY <1>1, Kinds DEF Return, NoData
<1>2. CASE Talk
  BY <1>2, Kinds DEF Talk, NoData
<1>3. CASE Yes
  BY <1>3, Kinds DEF Yes, AskPin, Data
<1>4. CASE PasteHere
  BY <1>4 DEF PasteHere
<1>5. ASSUME NEW t \in Payments, Prepare(t) PROVE WishInv'
  BY <1>5, Kinds DEF Prepare, SeenInv
<1>6. ASSUME NEW t \in Pasted, Paste(t) PROVE WishInv'
  BY <1>6 DEF Paste, To
<1>7. ASSUME NEW r \in Requests, Arrive(r) PROVE WishInv'
  BY <1>7 DEF Arrive, To, Enters
<1>8. ASSUME NEW r \in Requests, TimeOut(r) PROVE WishInv'
  BY <1>8 DEF TimeOut, To
<1>9. ASSUME NEW c \in Checks, Check(c) PROVE WishInv'
  <2>1. data'.xdr = c /\ data'.pin = data.pin
    BY <1>9 DEF Check, Data
  <2>2. c \notin crossed' => \A x \in Underway(Pressing) : x = c
    BY <1>9, Uncrossed DEF Check
  <2>3. screen.tx # c /\ \A p \in Presses : seen[p] # c
    BY <1>9 DEF FreshInv, Check
  <2>4. PinGiven => c \in crossed'
    BY <2>2, <2>3, UnderwayHas DEF SeenInv, Pressing
  <2>5. crossed \subseteq crossed'
    BY <1>9, EntersKeeps DEF Check
  <2>6. ~Reading'
    BY <1>9, <2>1 DEF Check, FreshInv
  <2>. HIDE DEF Reading
  <2>. QED
    BY <1>9, <2>1, <2>4, <2>5, <2>6, Kinds DEF Check
<1>10. ASSUME NEW c \in Checks, Ask(c) PROVE WishInv'
  <2>1. crossed \subseteq crossed'
    BY <1>10, EntersKeeps DEF Ask
  <2>2. data.xdr \in Payments => data.xdr \in crossed'
    BY <1>10, EntersCrosses, Kinds DEF Ask
  <2>3. fsm' = "sign"
    BY <1>10 DEF Ask, AskPin
  <2>. QED
    BY <1>10, <2>1, <2>2, <2>3 DEF Ask
<1>11. ASSUME NEW c \in Checks, CheckFails(c) PROVE WishInv'
  BY <1>11 DEF CheckFails, To, Fault
<1>12. ASSUME NEW p \in Presses, NEW right \in BOOLEAN, Enter(p, right) PROVE WishInv'
  BY <1>12 DEF Enter, Goto
<1>13. ASSUME NEW p \in Presses, ReadData(p) PROVE WishInv'
  BY <1>13 DEF ReadData, Goto
<1>14. ASSUME NEW p \in Presses, ReadState(p) PROVE WishInv'
  <2>1. /\ ppc[p] = "mode" /\ ppc' = [ppc EXCEPT ![p] = "reset"]
        /\ UNCHANGED <<fsm, data, screen, spc, sent, signed, submitted, wished>>
        /\ loc'[p].xdr = loc[p].xdr /\ loc'[p].pin = loc[p].pin
        /\ loc'[p].mode = "sign_and_send" => fsm = "sign_and_send"
        /\ \A q \in Presses : q # p => loc'[q] = loc[q]
        /\ crossed \subseteq crossed'
    BY <1>14 DEF ReadState, Goto
  <2>2. fsm = "sign_and_send" /\ data.xdr # loc[p].xdr => loc[p].xdr \in crossed' \cup {NoTx}
    BY <1>14 DEF ReadState, Tells
  <2>3. fsm = "sign_and_send" /\ loc[p].pin => loc[p].xdr \in Held' \cup {NoTx}
    BY <2>1, <2>2
  <2>4. Reading' => Reading
    BY <2>1
  <2>. QED
    BY <2>1, <2>3, <2>4
<1>15. ASSUME NEW p \in Presses, Reset(p) PROVE WishInv'
  BY <1>15 DEF Reset, Goto
<1>16. ASSUME NEW p \in Presses, Sign(p) PROVE WishInv'
  <2>1. CASE /\ loc[p].pin /\ loc[p].xdr # NoTx
             /\ data' = [data EXCEPT !.xdr = loc[p].xdr] /\ fsm' = "none"
             /\ signed' = signed \cup {loc[p].xdr}
             /\ Enters(loc[p].xdr, Underway(Pressing \ {p}))
             /\ screen' \in {screen, Info}
    <3>1. data'.xdr = loc[p].xdr /\ data'.pin = data.pin
      BY <2>1 DEF Data
    <3>2. crossed \subseteq crossed'
      BY <2>1, EntersKeeps
    <3>3. /\ loc' = loc /\ sent' = sent /\ spc' = spc
          /\ wished' = wished /\ submitted' = submitted
      BY <1>16 DEF Sign
    <3>. QED
      BY <2>1, <3>1, <3>2, <3>3
  <2>2. CASE screen' = Info /\ UNCHANGED <<fsm, data, signed, crossed>>
    <3>1. Reading' => Reading
      BY <1>16, <2>2 DEF Sign, Goto
    <3>. HIDE DEF Reading
    <3>. QED
      BY <1>16, <2>2, <3>1 DEF Sign
  <2>. QED
    BY <1>16, <2>1, <2>2 DEF Sign
<1>17. ASSUME NEW p \in Presses, Submit(p) PROVE WishInv'
  <2>1. loc[p].xdr \in Held \cap signed
    BY <1>17 DEF Submit, CarriedInv
  <2>2. submitted' \subseteq submitted \cup {loc[p].xdr} /\ screen'.kind \in {"info", "resend"}
    BY <1>17 DEF Submit, Accept, Refuse, Lose
  <2>3. Reading' => Reading
    BY <1>17 DEF Submit, Goto
  <2>. HIDE DEF Reading
  <2>. QED
    BY <1>17, <2>1, <2>2, <2>3 DEF Submit
<1>18. ASSUME NEW p \in Presses, Call(p) PROVE WishInv'
  BY <1>18 DEF Call, Goto
<1>19. ASSUME NEW p \in Presses, Show(p) PROVE WishInv'
  BY <1>19 DEF Show, Goto
<1>20. ASSUME NEW p \in Presses, End(p) PROVE WishInv'
  BY <1>20 DEF End, Goto, NoLocals
<1>21. ASSUME NEW s \in Sends, SendTr(s) PROVE WishInv'
  <2>1. data.xdr \in Checks \ crossed => screen.tx = data.xdr
    BY <1>21 DEF SendTr, FitInv
  <2>2. /\ UNCHANGED <<fsm, data, screen, loc, signed, submitted, crossed>>
        /\ spc[s] = "new" /\ wished' = wished \cup {screen.tx}
        /\ sent' = [sent EXCEPT ![s] = data.xdr]
        /\ \E stage \in {"submit", "refuse", "answer"} :
             /\ spc' = [spc EXCEPT ![s] = stage]
             /\ stage = "submit" => data.xdr \in signed
    BY <1>21 DEF SendTr, Press, Envelope
  <2>3. Reading' => Reading
    BY <1>21 DEF SendTr, Press
  <2>. HIDE DEF Reading
  <2>. QED
    BY <2>1, <2>2, <2>3
<1>22. ASSUME NEW s \in Sends, ReSend(s) PROVE WishInv'
  <2>1. data.xdr \in Checks \ crossed => screen.tx = data.xdr
    BY <1>22 DEF ReSend, FitInv
  <2>2. /\ UNCHANGED <<fsm, data, screen, loc, signed, submitted, crossed>>
        /\ spc[s] = "new" /\ wished' = wished \cup {screen.tx}
        /\ sent' = [sent EXCEPT ![s] = data.xdr]
        /\ \E stage \in {"submit", "refuse", "answer"} :
             /\ spc' = [spc EXCEPT ![s] = stage]
             /\ stage = "submit" => data.xdr \in signed
    BY <1>22 DEF ReSend, Press, Envelope
  <2>3. Reading' => Reading
    BY <1>22 DEF ReSend, Press
  <2>. HIDE DEF Reading
  <2>. QED
    BY <2>1, <2>2, <2>3
<1>23. ASSUME NEW s \in Sends, SendTools(s) PROVE WishInv'
  <2>1. data.xdr \in Checks \ crossed => screen.tx = data.xdr
    BY <1>23 DEF SendTools, FitInv
  <2>2. /\ UNCHANGED <<fsm, data, screen, loc, signed, submitted, crossed>>
        /\ spc[s] = "new" /\ wished' = wished \cup {screen.tx}
        /\ sent' = [sent EXCEPT ![s] = data.xdr]
        /\ \E stage \in {"submit", "refuse", "answer"} :
             /\ spc' = [spc EXCEPT ![s] = stage]
             /\ stage = "submit" => data.xdr \in signed
    BY <1>23 DEF SendTools, Press
  <2>3. Reading' => Reading
    BY <1>23 DEF SendTools, Press
  <2>. HIDE DEF Reading
  <2>. QED
    BY <2>1, <2>2, <2>3
<1>24. ASSUME NEW s \in Sends, SubmitSent(s) PROVE WishInv'
  <2>1. s \in Sending
    BY <1>24 DEF SubmitSent
  <2>2. spc[s] = "submit" => sent[s] \in Held
    BY <2>1, Kinds DEF CarriedInv
  <2>3. /\ submitted' = submitted \/ (spc[s] = "submit" /\ submitted' = submitted \cup {sent[s]})
        /\ screen'.kind \in {"info", "resend"}
    BY <1>24 DEF SubmitSent, Accept, Lose
  <2>4. /\ UNCHANGED <<fsm, data, loc, signed, wished, crossed>>
        /\ spc' = [spc EXCEPT ![s] = "done"] /\ sent' = [sent EXCEPT ![s] = NoTx]
    BY <1>24 DEF SubmitSent, Pressed
  <2>5. Reading' => Reading
    BY <1>24 DEF SubmitSent
  <2>. HIDE DEF Reading
  <2>. QED
    BY <2>1, <2>2, <2>3, <2>4, <2>5
<1>25. ASSUME NEW s \in Sends, Answer(s) PROVE WishInv'
  <2>1. s \in Sending
    BY <1>25 DEF Answer
  <2>2. data.xdr \in signed => data.xdr \in Held
    BY <2>1, Kinds DEF CarriedInv, FitInv
  <2>3. submitted' = submitted \/ (data.xdr \in signed /\ submitted' = submitted \cup {data.xdr})
    BY <1>25, Kinds DEF Answer, Lose
  <2>4. /\ UNCHANGED <<data, loc, signed, wished, crossed>> /\ fsm' = "none"
        /\ spc' = [spc EXCEPT ![s] = "done"] /\ sent' = [sent EXCEPT ![s] = NoTx]
        /\ screen'.kind = "info"
    BY <1>25 DEF Answer, Pressed
  <2>5. Reading' => Reading
    BY <1>25 DEF Answer
  <2>. HIDE DEF Reading
  <2>. QED
    BY <2>1, <2>2, <2>3, <2>4, <2>5
<1>26. CASE UNCHANGED vars
  BY <1>26 DEF vars
<1>. HIDE DEF WishInv, TypeInv
<1>. QED
  BY <1>1, <1>2, <1>3, <1>4, <1>5, <1>6, <1>7, <1>8, <1>9, <1>10, <1>11, <1>12, <1>13, <1>14,
     <1>15, <1>16, <1>17, <1>18, <1>19, <1>20, <1>21, <1>22, <1>23, <1>24, <1>25, <1>26 DEF Next

-----------------------------------------------------------------------------
\* The data name a dApp's request that waits and that no other transaction has met.
Asked(r) == data.request = r /\ r \notin crossed /\ cpc[r] \in {"check", "ask", "wait"}

\* A signed transaction is about to go, or may go, to the dApp that the data name.
Showing ==
  \/ \E p \in Presses : ppc[p] = "show"
  \/ \E s \in Sends : spc[s] = "answer"
  \/ screen.kind = "send" /\ screen.request # NoTx

\* It is then the transaction of the request, and no conversation is in its way.
AnswerInv ==
  /\ \A r \in Requests : Asked(r) =>
       /\ Showing => data.xdr \in {r, NoTx}
       /\ fsm = "talk" \/ screen.kind = "confirm" => ~Showing
  /\ screen.kind = "confirm" => screen.tx \in Payments
  /\ AnswersFit

\* Every step keeps AnswerInv.
LEMMA AnswerStep == TypeInv /\ FreshInv /\ CarriedInv /\ AnswerInv /\ [Next]_vars => AnswerInv'
<1>. SUFFICES ASSUME TypeInv, FreshInv, CarriedInv, AnswerInv, [Next]_vars
             PROVE  AnswerInv'
  OBVIOUS
<1>. USE DEF AnswerInv, Asked, Showing, AnswersFit, TypeInv, Data, Screen, Menu, Info, talkVars,
     pressVars, sendVars, netVars
<1>1. CASE Return
  BY <1>1, Kinds DEF Return, NoData
<1>2. CASE Talk
  BY <1>2, Kinds DEF Talk, NoData
<1>3. CASE Yes
  <2>1. Showing' => Showing
    BY <1>3 DEF Yes, AskPin
  <2>. QED
    BY <1>3, <2>1 DEF Yes, AskPin
<1>4. CASE PasteHere
  BY <1>4 DEF PasteHere
<1>5. ASSUME NEW t \in Payments, Prepare(t) PROVE AnswerInv'
  BY <1>5 DEF Prepare
<1>6. ASSUME NEW t \in Pasted, Paste(t) PROVE AnswerInv'
  BY <1>6, Kinds DEF Paste, To
<1>7. ASSUME NEW r \in Requests, Arrive(r) PROVE AnswerInv'
  <2>1. /\ data'.request = r /\ data'.xdr = data.xdr /\ crossed \subseteq crossed'
        /\ UNCHANGED <<fsm, screen, ppc, spc, answer>> /\ cpc[r] = "new"
    BY <1>7, EntersKeeps DEF Arrive, Data
  <2>2. r \notin crossed' => \A x \in Underway(Pressing) : x = r
    BY <1>7, Uncrossed DEF Arrive
  <2>3. screen.tx # r /\ (\A p \in Presses : seen[p] # r) /\ (\A s \in Sends : sent[s] # r)
    BY <2>1, Kinds DEF FreshInv
  <2>4. ASSUME Showing PROVE r \in crossed'
    <3>1. ASSUME NEW p \in Presses, ppc[p] = "show" PROVE r \in crossed'
      BY <2>2, <2>3, <3>1, UnderwayHas DEF Pressing
    <3>2. ASSUME NEW s \in Sends, spc[s] = "answer" PROVE r \in crossed'
      BY <2>2, <2>3, <3>2, UnderwayHas DEF Sending
    <3>3. ASSUME screen.kind = "send" PROVE r \in crossed'
      BY <2>2, <2>3, <3>3, UnderwayHas
    <3>. QED
      BY <2>4, <3>1, <3>2, <3>3
  <2>. QED
    BY <2>1, <2>4
<1>8. ASSUME NEW r \in Requests, TimeOut(r) PROVE AnswerInv'
  BY <1>8, Kinds DEF TimeOut, To
<1>9. ASSUME NEW c \in Checks, Check(c) PROVE AnswerInv'
  <2>1. /\ data'.request = data.request /\ data'.xdr = c /\ crossed \subseteq crossed'
        /\ UNCHANGED <<fsm, screen, ppc, spc, answer>>
        /\ cpc[c] = "check" /\ \A d \in Checks : d # c => cpc'[d] = cpc[d]
    BY <1>9, EntersKeeps DEF Check, To, Data
  <2>2. ASSUME NEW r \in Requests, Asked(r)' PROVE Asked(r) /\ r = c
    <3>1. r # c => r \in Underway(Pressing)
      BY <2>1, <2>2, UnderwayHas, Kinds
    <3>2. r = c
      BY <1>9, <2>2, <3>1, Uncrossed, EntersCrosses DEF Check
    <3>. QED
      BY <2>1, <2>2, <3>2
  <2>. QED
    BY <2>1, <2>2
<1>10. ASSUME NEW c \in Checks, Ask(c) PROVE AnswerInv'
  <2>1. /\ UNCHANGED <<data, ppc, spc, answer>> /\ crossed \subseteq crossed'
        /\ fsm' # "talk" /\ screen'.kind = "pin" /\ cpc[c] = "ask"
        /\ \A d \in Checks : d # c => cpc'[d] = cpc[d]
    BY <1>10, EntersKeeps DEF Ask, AskPin, To
  <2>2. \A r \in Requests : Asked(r)' => Asked(r)
    BY <2>1, Kinds
  <2>3. Showing' => Showing
    BY <2>1
  <2>. QED
    BY <2>1, <2>2, <2>3
<1>11. ASSUME NEW c \in Checks, CheckFails(c) PROVE AnswerInv'
  BY <1>11, Kinds DEF CheckFails, To, Fault
<1>12. ASSUME NEW p \in Presses, NEW right \in BOOLEAN, Enter(p, right) PROVE AnswerInv'
  BY <1>12 DEF Enter, Goto
<1>13. ASSUME NEW p \in Presses, ReadData(p) PROVE AnswerInv'
  BY <1>13 DEF ReadData, Goto
<1>14. ASSUME NEW p \in Presses, ReadState(p) PROVE AnswerInv'
  BY <1>14 DEF ReadState, Goto
<1>15. ASSUME NEW p \in Presses, Reset(p) PROVE AnswerInv'
  BY <1>15 DEF Reset, Goto
<1>16. ASSUME NEW p \in Presses, Sign(p) PROVE AnswerInv'
  <2>1. UNCHANGED <<cpc, spc, answer>> /\ (\A q \in Presses : q # p => ppc'[q] = ppc[q])
    BY <1>16 DEF Sign, Goto
  <2>2. CASE /\ data' = [data EXCEPT !.xdr = loc[p].xdr] /\ fsm' = "none"
             /\ Enters(loc[p].xdr, Underway(Pressing \ {p}))
             /\ screen' \in {screen, Info}
    <3>1. data'.xdr = loc[p].xdr /\ data'.request = data.request /\ crossed \subseteq crossed'
      BY <2>2, EntersKeeps DEF Data
    <3>2. ASSUME NEW r \in Requests, Asked(r)' PROVE loc[p].xdr = r
      BY <2>1, <2>2, <3>1, <3>2, EntersCrosses, UnderwayHas
    <3>3. ASSUME NEW r \in Requests, Asked(r)' PROVE screen'.kind # "confirm"
      <4>1. screen.kind = "confirm" => screen.tx \in Underway(Pressing \ {p})
        BY UnderwayHas
      <4>. QED
        BY <2>2, <3>2, <3>3, <4>1, EntersCrosses, Kinds
    <3>. QED
      BY <2>1, <2>2, <3>1, <3>2, <3>3
  <2>3. CASE screen' = Info /\ Goto(p, "end") /\ UNCHANGED <<fsm, data, crossed>>
    BY <2>1, <2>3 DEF Goto
  <2>. QED
    BY <1>16, <2>2, <2>3 DEF Sign
<1>17. ASSUME NEW p \in Presses, Submit(p) PROVE AnswerInv'
  <2>1. /\ UNCHANGED <<fsm, data, cpc, spc, answer, crossed>> /\ screen'.kind \in {"info", "resend"}
        /\ \A q \in Presses : ppc'[q] = "show" => ppc[q] = "show"
    BY <1>17 DEF Submit, Goto, Accept, Refuse, Lose
  <2>. QED
    BY <2>1
<1>18. ASSUME NEW p \in Presses, Call(p) PROVE AnswerInv'
  BY <1>18 DEF Call, Goto
<1>19. ASSUME NEW p \in Presses, Show(p) PROVE AnswerInv'
  BY <1>19 DEF Show, Goto
<1>20. ASSUME NEW p \in Presses, End(p) PROVE AnswerInv'
  BY <1>20 DEF End, Goto, NoLocals
<1>21. ASSUME NEW s \in Sends, SendTr(s) PROVE AnswerInv'
  BY <1>21 DEF SendTr, Press, Envelope
<1>22. ASSUME NEW s \in Sends, ReSend(s) PROVE AnswerInv'
  BY <1>22 DEF ReSend, Press, Envelope
<1>23. ASSUME NEW s \in Sends, SendTools(s) PROVE AnswerInv'
  BY <1>23 DEF SendTools, Press
<1>24. ASSUME NEW s \in Sends, SubmitSent(s) PROVE AnswerInv'
  <2>1. /\ UNCHANGED <<fsm, data, cpc, ppc, answer, crossed>> /\ screen'.kind \in {"info", "resend"}
        /\ \A z \in Sends : spc'[z] = "answer" => spc[z] = "answer"
    BY <1>24 DEF SubmitSent, Accept, Lose, Pressed
  <2>. QED
    BY <2>1
<1>25. ASSUME NEW s \in Sends, Answer(s) PROVE AnswerInv'
  <2>1. /\ UNCHANGED <<data, ppc, crossed>> /\ fsm' = "none" /\ screen'.kind = "info"
        /\ \A z \in Sends : spc'[z] = "answer" => spc[z] = "answer"
        /\ \A r \in Requests : cpc'[r] = cpc[r] \/ cpc'[r] = "answered"
    BY <1>25, Kinds DEF Answer, Pressed
  <2>2. answer' = answer \/ \E r \in Requests : /\ data.request = r /\ cpc[r] = "wait"
                                                /\ answer' = [answer EXCEPT ![r] = data.xdr]
    BY <1>25 DEF Answer
  <2>3. Showing
    BY <1>25 DEF Answer
  <2>4. AnswersFit'
    BY <2>1, <2>2, <2>3
  <2>. QED
    BY <2>1, <2>4
<1>26. CASE UNCHANGED vars
  BY <1>26 DEF vars
<1>. HIDE DEF AnswerInv, TypeInv
<1>. QED
  BY <1>1, <1>2, <1>3, <1>4, <1>5, <1>6, <1>7, <1>8, <1>9, <1>10, <1>11, <1>12, <1>13, <1>14,
     <1>15, <1>16, <1>17, <1>18, <1>19, <1>20, <1>21, <1>22, <1>23, <1>24, <1>25, <1>26 DEF Next

-----------------------------------------------------------------------------
\* The data and the FSM state let a confirmation send t with its follow-up ...
Armed(t) == data.after = t /\ fsm = "sign_and_send"

\* ... and p has read them and may still call fsm_after_send() for t.
Committed(p, t) ==
  /\ ppc[p] \in {"reset", "sign", "submit", "call"}
  /\ loc[p].after = t /\ loc[p].mode = "sign_and_send" /\ loc[p].pin

\* "Yes" arms a payment once, one confirmation disarms it, and the call ends that one.
Single(t) ==
  /\ calls[t] <= 1
  /\ \A p, q \in Presses : Committed(p, t) /\ Committed(q, t) => p = q
  /\ \A p \in Presses : Committed(p, t) => calls[t] = 0
  /\ Armed(t) => calls[t] = 0 /\ \A p \in Presses : Committed(p, t) => ppc[p] = "reset"

OnceInv ==
  /\ screen.kind = "confirm" => data.pending \notin wished
  /\ \A t \in Payments :
       /\ data.after = t \/ calls[t] > 0 \/ (\E p \in Presses : loc[p].after = t) => t \in wished
       /\ t \notin raced \cup crossed => Single(t)

LEMMA SingleKept ==
  ASSUME NEW t, Single(t), calls'[t] = calls[t], Armed(t)' => Armed(t),
         \A p \in Presses : Committed(p, t)' => Committed(p, t),
         Armed(t)' => \A p \in Presses : ppc[p] = "reset" => ppc'[p] = "reset"
  PROVE  Single(t)'
BY DEF Single

\* Every step keeps OnceInv.
LEMMA OnceStep == Password = FALSE /\ TypeInv /\ CarriedInv /\ OnceInv /\ [Next]_vars => OnceInv'
<1>. SUFFICES ASSUME Password = FALSE, TypeInv, CarriedInv, OnceInv, [Next]_vars
             PROVE  OnceInv'
  OBVIOUS
<1>. USE DEF OnceInv, Single, Armed, Committed, TypeInv, Data, Screen, Menu, Info, talkVars,
     pressVars, sendVars, netVars
<1>1. CASE Return
  BY <1>1, Kinds DEF Return, NoData
<1>2. CASE Talk
  BY <1>2, Kinds DEF Talk, NoData
<1>3. CASE Yes
  <2>1. /\ data'.after = data.pending /\ data.pending \notin wished
        /\ wished' = wished \cup {data.pending} /\ screen'.kind = "pin"
        /\ UNCHANGED <<ppc, loc, calls, raced, crossed>>
    BY <1>3 DEF Yes, AskPin, Data
  <2>2. \A t \in Payments :
          t \notin wished => ~(calls[t] > 0) /\ \A p \in Presses : loc[p].after # t
    OBVIOUS
  <2>3. \A t \in Payments, p \in Presses : Committed(p, t)' <=> Committed(p, t)
    BY <2>1
  <2>4. \A t \in Payments : t # data.pending => ~Armed(t)'
    BY <2>1
  <2>5. \A t \in Payments : t # data.pending /\ Single(t) => Single(t)'
    <3>. HIDE DEF Single, Armed, Committed
    <3>. QED
      BY <2>1, <2>3, <2>4, SingleKept
  <2>6. \A t \in Payments : t = data.pending => Single(t)'
    BY <2>1, <2>2, <2>3
  <2>7. \A t \in Payments :
          data'.after = t \/ calls'[t] > 0 \/ (\E p \in Presses : loc'[p].after = t) => t \in wished'
    <3>. HIDE DEF Single, Armed, Committed
    <3>. QED
      BY <2>1
  <2>. HIDE DEF Single, Armed, Committed
  <2>. QED
    BY <2>1, <2>5, <2>6, <2>7
<1>4. CASE PasteHere
  BY <1>4 DEF PasteHere
<1>5. ASSUME NEW t \in Payments, Prepare(t) PROVE OnceInv'
  BY <1>5 DEF Prepare
<1>6. ASSUME NEW t \in Pasted, Paste(t) PROVE OnceInv'
  BY <1>6 DEF Paste, To
<1>7. ASSUME NEW r \in Requests, Arrive(r) PROVE OnceInv'
  BY <1>7, EntersKeeps DEF Arrive
<1>8. ASSUME NEW r \in Requests, TimeOut(r) PROVE OnceInv'
  BY <1>8 DEF TimeOut, To
<1>9. ASSUME NEW c \in Checks, Check(c) PROVE OnceInv'
  BY <1>9, EntersKeeps DEF Check
<1>10. ASSUME NEW c \in Checks, Ask(c) PROVE OnceInv'
  BY <1>10, EntersKeeps DEF Ask, AskPin
<1>11. ASSUME NEW c \in Checks, CheckFails(c) PROVE OnceInv'
  BY <1>11 DEF CheckFails, To, Fault
<1>12. ASSUME NEW p \in Presses, NEW right \in BOOLEAN, Enter(p, right) PROVE OnceInv'
  BY <1>12 DEF Enter, Goto
<1>13. ASSUME NEW p \in Presses, ReadData(p) PROVE OnceInv'
  <2>1. /\ UNCHANGED <<fsm, data, screen, calls, wished, raced, crossed>>
        /\ ppc' = [ppc EXCEPT ![p] = "mode"] /\ ppc[p] = "read"
        /\ loc'[p].after = data.after
        /\ \A q \in Presses : q # p => loc'[q] = loc[q]
    BY <1>13 DEF ReadData, Goto
  <2>2. \A t \in Payments, q \in Presses :
          Committed(q, t)' => q # p /\ Committed(q, t) /\ ppc'[q] = ppc[q]
    BY <2>1
  <2>. QED
    BY <2>1, <2>2
<1>14. ASSUME NEW p \in Presses, ReadState(p) PROVE OnceInv'
  <2>1. /\ UNCHANGED <<fsm, data, screen, calls, wished>>
        /\ ppc' = [ppc EXCEPT ![p] = "reset"] /\ ppc[p] = "mode"
        /\ loc'[p].after = loc[p].after
        /\ loc'[p].mode = "sign_and_send" => fsm = "sign_and_send"
        /\ \A q \in Presses : q # p => loc'[q] = loc[q]
        /\ crossed \subseteq crossed' /\ raced \subseteq raced'
    BY <1>14 DEF ReadState, Goto
  <2>2. \A t \in Payments, q \in Presses : q # p => (Committed(q, t)' <=> Committed(q, t))
    BY <2>1
  <2>3. \A t \in Payments : Armed(t)' <=> Armed(t)
    BY <2>1
  <2>4. \A q \in Presses : loc'[q].after = loc[q].after
    BY <2>1
  <2>5. ASSUME NEW t \in Payments, t \notin raced' \cup crossed' PROVE Single(t)'
    <3>1. Single(t)
      BY <2>1, <2>5
    <3>2. ASSUME Committed(p, t)'
          PROVE  Armed(t) /\ \A q \in Presses : ~(ppc[q] = "reset" /\ Committed(q, t))
      <4>1. fsm = "sign_and_send" /\ loc[p].after = t
        BY <2>1, <3>2
      <4>2. data.after = t
        BY <1>14, <2>5, <4>1, Kinds DEF ReadState, Tells
      <4>3. \A q \in Presses : ~(ppc[q] = "reset" /\ Committed(q, t))
        BY <1>14, <2>5, <4>1, Kinds DEF ReadState
      <4>. QED
        BY <4>1, <4>2, <4>3
    <3>3. CASE Committed(p, t)'
      <4>1. \A q \in Presses : ~Committed(q, t)
        BY <3>1, <3>2, <3>3
      <4>. QED
        BY <2>1, <2>2, <2>3, <3>1, <3>2, <3>3, <4>1
    <3>4. CASE ~Committed(p, t)'
      BY <2>1, <2>2, <2>3, <3>1, <3>4
    <3>. QED
      BY <3>3, <3>4
  <2>. QED
    BY <2>1, <2>4, <2>5
<1>15. ASSUME NEW p \in Presses, Reset(p) PROVE OnceInv'
  <2>1. /\ UNCHANGED <<data, screen, loc, calls, wished, raced, crossed>> /\ fsm' = "none"
        /\ ppc' = [ppc EXCEPT ![p] = "sign"] /\ ppc[p] = "reset"
    BY <1>15 DEF Reset, Goto
  <2>2. \A t \in Payments, q \in Presses : Committed(q, t)' <=> Committed(q, t)
    BY <2>1
  <2>3. \A t \in Payments : ~Armed(t)'
    BY <2>1
  <2>4. \A t \in Payments : Single(t) => Single(t)'
    <3>. HIDE DEF Single, Armed, Committed
    <3>. QED
      BY <2>1, <2>2, <2>3, SingleKept
  <2>. HIDE DEF Single, Armed, Committed
  <2>. QED
    BY <2>1, <2>4
<1>16. ASSUME NEW p \in Presses, Sign(p) PROVE OnceInv'
  <2>1. /\ UNCHANGED <<loc, calls, wished, raced>> /\ screen' \in {screen, Info}
        /\ crossed \subseteq crossed'
        /\ data'.after = data.after /\ data'.pending = data.pending /\ data'.pin = data.pin
        /\ fsm' \in {"none", fsm} /\ ppc[p] = "sign"
        /\ \A q \in Presses : q # p => ppc'[q] = ppc[q]
    BY <1>16, EntersKeeps DEF Sign, Goto, Data
  <2>2. \A t \in Payments, q \in Presses : Committed(q, t)' => Committed(q, t)
    BY <2>1
  <2>3. \A t \in Payments : Armed(t)' => Armed(t)
    BY <2>1
  <2>4. \A q \in Presses : ppc[q] = "reset" => ppc'[q] = "reset"
    BY <2>1
  <2>5. \A t \in Payments : Single(t) => Single(t)'
    <3>. HIDE DEF Single, Armed, Committed
    <3>. QED
      BY <2>1, <2>2, <2>3, <2>4, SingleKept
  <2>. HIDE DEF Single, Armed, Committed
  <2>. QED
    BY <2>1, <2>5
<1>17. ASSUME NEW p \in Presses, Submit(p) PROVE OnceInv'
  <2>1. /\ UNCHANGED <<fsm, data, loc, calls, wished, raced, crossed>>
        /\ screen'.kind \in {"info", "resend"}
        /\ ppc[p] = "submit" /\ \A q \in Presses : q # p => ppc'[q] = ppc[q]
    BY <1>17 DEF Submit, Goto, Accept, Refuse, Lose
  <2>2. \A t \in Payments, q \in Presses : Committed(q, t)' => Committed(q, t)
    BY <2>1
  <2>3. \A t \in Payments : Armed(t)' => Armed(t)
    BY <2>1
  <2>4. \A q \in Presses : ppc[q] = "reset" => ppc'[q] = "reset"
    BY <2>1
  <2>5. \A t \in Payments : Single(t) => Single(t)'
    <3>. HIDE DEF Single, Armed, Committed
    <3>. QED
      BY <2>1, <2>2, <2>3, <2>4, SingleKept
  <2>. HIDE DEF Single, Armed, Committed
  <2>. QED
    BY <2>1, <2>5
<1>18. ASSUME NEW p \in Presses, Call(p) PROVE OnceInv'
  <2>. DEFINE u == loc[p].after
  <2>1. u \in Payments /\ Committed(p, u)
    BY <1>18, Kinds DEF Call, CarriedInv, Locals
  <2>2. /\ UNCHANGED <<fsm, data, screen, loc, wished, raced, crossed>>
        /\ ppc' = [ppc EXCEPT ![p] = "end"]
    BY <1>18 DEF Call, Goto
  <2>3. calls'[u] = calls[u] + 1 /\ \A t \in Payments : t # u => calls'[t] = calls[t]
    BY <1>18, <2>1 DEF Call
  <2>4. u \notin raced \cup crossed => Single(u)'
    <3>1. ASSUME u \notin raced \cup crossed
          PROVE  /\ calls'[u] = 1 /\ ~Armed(u)
                 /\ \A q \in Presses : Committed(q, u) => q = p
      BY <1>18, <2>1, <2>3, <3>1 DEF Call
    <3>2. \A q \in Presses : Committed(q, u)' => Committed(q, u) /\ q # p
      BY <2>2
    <3>. QED
      BY <2>2, <3>1, <3>2
  <2>5. \A t \in Payments : t # u /\ Single(t) => Single(t)'
    <3>1. \A t \in Payments : Armed(t)' <=> Armed(t)
      BY <2>2
    <3>2. \A t \in Payments, q \in Presses : t # u /\ Committed(q, t)' => Committed(q, t)
      BY <2>2
    <3>3. \A q \in Presses : ppc[q] = "reset" => ppc'[q] = "reset"
      BY <1>18, <2>2 DEF Call
    <3>. HIDE DEF Single, Armed, Committed, u
    <3>. QED
      BY <2>3, <3>1, <3>2, <3>3, SingleKept
  <2>6. u \in wished /\ u' = u
    BY <2>1, <2>2
  <2>. HIDE DEF u, Single, Armed, Committed
  <2>7. \A t \in Payments :
          data'.after = t \/ calls'[t] > 0 \/ (\E q \in Presses : loc'[q].after = t) => t \in wished'
    BY <2>2, <2>3, <2>6
  <2>8. \A t \in Payments : t \notin raced' \cup crossed' => Single(t)'
    <3>1. raced' = raced /\ crossed' = crossed
      BY <2>2
    <3>2. \A t \in Payments : t \notin raced \cup crossed => Single(t)
      OBVIOUS
    <3>. QED
      BY <2>4, <2>5, <2>6, <3>1, <3>2
  <2>. QED
    BY <2>2, <2>7, <2>8
<1>19. ASSUME NEW p \in Presses, Show(p) PROVE OnceInv'
  BY <1>19 DEF Show, Goto
<1>20. ASSUME NEW p \in Presses, End(p) PROVE OnceInv'
  <2>1. /\ UNCHANGED <<fsm, screen, calls, wished, raced, crossed>>
        /\ data'.after = data.after /\ data'.pending = data.pending /\ data'.pin = FALSE
        /\ ppc' = [ppc EXCEPT ![p] = "done"] /\ loc' = [loc EXCEPT ![p] = NoLocals]
        /\ ppc[p] = "end"
    BY <1>20 DEF End, Goto, Data
  <2>2. \A t \in Payments, q \in Presses : Committed(q, t)' => Committed(q, t)
    BY <2>1
  <2>3. \A t \in Payments : Armed(t)' => Armed(t)
    BY <2>1
  <2>4. \A t \in Payments, q \in Presses : loc'[q].after = t => loc[q].after = t
    BY <2>1, Kinds DEF NoLocals
  <2>5. \A q \in Presses : ppc[q] = "reset" => ppc'[q] = "reset"
    BY <2>1
  <2>6. \A t \in Payments : Single(t) => Single(t)'
    <3>. HIDE DEF Single, Armed, Committed
    <3>. QED
      BY <2>1, <2>2, <2>3, <2>5, SingleKept
  <2>. HIDE DEF Single, Armed, Committed
  <2>. QED
    BY <2>1, <2>4, <2>6
<1>21. ASSUME NEW s \in Sends, SendTr(s) PROVE OnceInv'
  BY <1>21 DEF SendTr, Press
<1>22. ASSUME NEW s \in Sends, ReSend(s) PROVE OnceInv'
  BY <1>22 DEF ReSend, Press
<1>23. ASSUME NEW s \in Sends, SendTools(s) PROVE OnceInv'
  BY <1>23 DEF SendTools, Press
<1>24. ASSUME NEW s \in Sends, SubmitSent(s) PROVE OnceInv'
  BY <1>24 DEF SubmitSent, Accept, Lose, Fault, Pressed
<1>25. ASSUME NEW s \in Sends, Answer(s) PROVE OnceInv'
  BY <1>25 DEF Answer, Pressed, Lose, Fault
<1>26. CASE UNCHANGED vars
  BY <1>26 DEF vars
<1>. HIDE DEF OnceInv, TypeInv
<1>. QED
  BY <1>1, <1>2, <1>3, <1>4, <1>5, <1>6, <1>7, <1>8, <1>9, <1>10, <1>11, <1>12, <1>13, <1>14,
     <1>15, <1>16, <1>17, <1>18, <1>19, <1>20, <1>21, <1>22, <1>23, <1>24, <1>25, <1>26 DEF Next

-----------------------------------------------------------------------------
\* Transactions that another one or another handler has met.
Met == crossed \cup overlap

\* The FSM data and state still hold together ...
PairInv ==
  /\ fsm = "sign" => data.xdr \notin Payments \ crossed
  /\ fsm = "sign_and_send" /\ PinGiven /\ data.xdr \in Payments \ crossed => data.after = data.xdr
  /\ screen = Menu => ~data.pin /\ data.after = NoTx

\* ... and every confirmation that nothing has met works on what was on its screen.
MetInv ==
  /\ data.pin => \A p \in Pressing : seen[p] = data.xdr \/ data.xdr \in Met
  /\ \A p, q \in Pressing : p # q => seen[p] \in overlap
  /\ Answering # {} => \A p \in Pressing : seen[p] \in overlap
  /\ \A p \in Presses : loc[p].pin => seen[p] = loc[p].xdr \/ loc[p].xdr \in Met

\* A confirmed payment that nothing has met keeps its follow-up until it is called, or the
\* network fails.
FollowInv ==
  /\ data.pin /\ data.xdr \in Payments \ Met /\ (\E p \in Presses : ppc[p] = "read") =>
       fsm = "sign_and_send" /\ data.after = data.xdr
  /\ \A p \in Presses :
       /\ ppc[p] = "mode" /\ loc[p].pin /\ loc[p].xdr \in Payments \ Met =>
            /\ loc[p].after = loc[p].xdr
            /\ data.xdr = loc[p].xdr /\ data.after = loc[p].xdr => fsm = "sign_and_send"
       /\ ppc[p] \in {"reset", "sign"} /\ loc[p].pin /\ loc[p].xdr \in Payments \ Met =>
            loc[p].mode = "sign_and_send" /\ loc[p].after = loc[p].xdr
       /\ ppc[p] \in {"submit", "call"} /\ loc[p].xdr \in Payments \ Met =>
            loc[p].after = loc[p].xdr
  /\ \A t \in (signed \cap Payments) \ (Met \cup failed) :
       calls[t] > 0 \/ \E p \in Presses : /\ ppc[p] \in {"submit", "call"}
                                          /\ loc[p].xdr = t /\ loc[p].after = t

\* Every step keeps PairInv.
LEMMA PairStep == Password = FALSE /\ TypeInv /\ SeenInv /\ PairInv /\ [Next]_vars => PairInv'
<1>. SUFFICES ASSUME Password = FALSE, TypeInv, SeenInv, PairInv, [Next]_vars
             PROVE  PairInv'
  OBVIOUS
<1>. USE DEF PairInv, PinGiven, TypeInv, Data, Screen, Menu, Info, talkVars, pressVars, sendVars,
     netVars
<1>1. CASE Return
  BY <1>1, Kinds DEF Return, NoData
<1>2. CASE Talk
  BY <1>2, Kinds DEF Talk, NoData
<1>3. CASE Yes
  BY <1>3 DEF Yes, AskPin
<1>4. CASE PasteHere
  BY <1>4 DEF PasteHere
<1>5. ASSUME NEW t \in Payments, Prepare(t) PROVE PairInv'
  BY <1>5, Kinds DEF Prepare, SeenInv
<1>6. ASSUME NEW t \in Pasted, Paste(t) PROVE PairInv'
  BY <1>6 DEF Paste, To
<1>7. ASSUME NEW r \in Requests, Arrive(r) PROVE PairInv'
  BY <1>7, EntersKeeps DEF Arrive
<1>8. ASSUME NEW r \in Requests, TimeOut(r) PROVE PairInv'
  BY <1>8 DEF TimeOut, To
<1>9. ASSUME NEW c \in Checks, Check(c) PROVE PairInv'
  BY <1>9, Kinds, EntersKeeps DEF Check
<1>10. ASSUME NEW c \in Checks, Ask(c) PROVE PairInv'
  <2>1. data.xdr \in Payments => data.xdr \in crossed'
    BY <1>10, EntersCrosses, Kinds DEF Ask
  <2>. QED
    BY <1>10, <2>1 DEF Ask, AskPin
<1>11. ASSUME NEW c \in Checks, CheckFails(c) PROVE PairInv'
  BY <1>11 DEF CheckFails, To, Fault
<1>12. ASSUME NEW p \in Presses, NEW right \in BOOLEAN, Enter(p, right) PROVE PairInv'
  BY <1>12 DEF Enter, Goto
<1>13. ASSUME NEW p \in Presses, ReadData(p) PROVE PairInv'
  BY <1>13 DEF ReadData, Goto
<1>14. ASSUME NEW p \in Presses, ReadState(p) PROVE PairInv'
  BY <1>14 DEF ReadState, Goto
<1>15. ASSUME NEW p \in Presses, Reset(p) PROVE PairInv'
  BY <1>15 DEF Reset, Goto
<1>16. ASSUME NEW p \in Presses, Sign(p) PROVE PairInv'
  <2>1. /\ fsm' = "none" \/ (fsm' = fsm /\ data' = data)
        /\ data'.pin = data.pin /\ data'.after = data.after /\ screen' \in {screen, Info}
        /\ crossed \subseteq crossed'
    BY <1>16, EntersKeeps DEF Sign, Data
  <2>. QED
    BY <1>16, <2>1
<1>17. ASSUME NEW p \in Presses, Submit(p) PROVE PairInv'
  <2>1. UNCHANGED <<fsm, data, crossed>> /\ screen'.kind \in {"info", "resend"}
    BY <1>17 DEF Submit, Accept, Refuse, Lose
  <2>. QED
    BY <2>1
<1>18. ASSUME NEW p \in Presses, Call(p) PROVE PairInv'
  BY <1>18 DEF Call, Goto
<1>19. ASSUME NEW p \in Presses, Show(p) PROVE PairInv'
  BY <1>19 DEF Show, Goto
<1>20. ASSUME NEW p \in Presses, End(p) PROVE PairInv'
  BY <1>20 DEF End, Goto, NoLocals
<1>21. ASSUME NEW s \in Sends, SendTr(s) PROVE PairInv'
  BY <1>21 DEF SendTr, Press
<1>22. ASSUME NEW s \in Sends, ReSend(s) PROVE PairInv'
  BY <1>22 DEF ReSend, Press
<1>23. ASSUME NEW s \in Sends, SendTools(s) PROVE PairInv'
  BY <1>23 DEF SendTools, Press
<1>24. ASSUME NEW s \in Sends, SubmitSent(s) PROVE PairInv'
  <2>1. UNCHANGED <<fsm, data, crossed>> /\ screen'.kind \in {"info", "resend"}
    BY <1>24 DEF SubmitSent, Accept, Lose
  <2>. QED
    BY <2>1
<1>25. ASSUME NEW s \in Sends, Answer(s) PROVE PairInv'
  BY <1>25 DEF Answer, Pressed, Lose, Fault
<1>26. CASE UNCHANGED vars
  BY <1>26 DEF vars
<1>. HIDE DEF PairInv, TypeInv
<1>. QED
  BY <1>1, <1>2, <1>3, <1>4, <1>5, <1>6, <1>7, <1>8, <1>9, <1>10, <1>11, <1>12, <1>13, <1>14,
     <1>15, <1>16, <1>17, <1>18, <1>19, <1>20, <1>21, <1>22, <1>23, <1>24, <1>25, <1>26 DEF Next

\* Every step keeps MetInv.
LEMMA MetStep == TypeInv /\ SeenInv /\ FreshInv /\ CarriedInv /\ MetInv /\ [Next]_vars => MetInv'
<1>. SUFFICES ASSUME TypeInv, SeenInv, FreshInv, CarriedInv, MetInv, [Next]_vars
             PROVE  MetInv'
  OBVIOUS
<1>. USE DEF MetInv, Met, Pressing, Answering, TypeInv, Awaits, Data, talkVars, pressVars,
     sendVars, netVars
<1>1. CASE Return
  BY <1>1 DEF Return, NoData
<1>2. CASE Talk
  BY <1>2 DEF Talk, NoData
<1>3. CASE Yes
  BY <1>3 DEF Yes, AskPin
<1>4. CASE PasteHere
  BY <1>4 DEF PasteHere
<1>5. ASSUME NEW t \in Payments, Prepare(t) PROVE MetInv'
  BY <1>5 DEF Prepare, SeenInv
<1>6. ASSUME NEW t \in Pasted, Paste(t) PROVE MetInv'
  BY <1>6 DEF Paste, To
<1>7. ASSUME NEW r \in Requests, Arrive(r) PROVE MetInv'
  BY <1>7, EntersKeeps DEF Arrive
<1>8. ASSUME NEW r \in Requests, TimeOut(r) PROVE MetInv'
  BY <1>8 DEF TimeOut, To
<1>9. ASSUME NEW c \in Checks, Check(c) PROVE MetInv'
  <2>1. data'.xdr = c /\ data'.pin = data.pin /\ crossed \subseteq crossed'
    BY <1>9, EntersKeeps DEF Check, Data
  <2>2. ASSUME data.pin, NEW p \in Pressing PROVE c \in crossed'
    <3>1. seen[p] # c
      BY <1>9 DEF FreshInv, Check
    <3>. QED
      BY <1>9, <2>2, <3>1, UnderwayHas, EntersCrosses DEF Check
  <2>. QED
    BY <1>9, <2>1, <2>2 DEF Check
<1>10. ASSUME NEW c \in Checks, Ask(c) PROVE MetInv'
  BY <1>10, EntersKeeps DEF Ask
<1>11. ASSUME NEW c \in Checks, CheckFails(c) PROVE MetInv'
  BY <1>11 DEF CheckFails, To, Fault
<1>12. ASSUME NEW p \in Presses, NEW right \in BOOLEAN, Enter(p, right) PROVE MetInv'
  <2>1. /\ ppc[p] = "new" /\ screen.kind = "pin" /\ seen' = [seen EXCEPT ![p] = screen.tx]
        /\ data'.xdr = data.xdr
        /\ Pressing' = Pressing \cup {p} /\ p \notin Pressing
        /\ UNCHANGED <<loc, spc, crossed>>
    BY <1>12 DEF Enter, Goto, Data
  <2>2. /\ overlap \subseteq overlap'
        /\ Pressing # {} \/ Answering # {} =>
             screen.tx \in overlap' /\ \A q \in Pressing : seen[q] \in overlap'
    BY <1>12 DEF Enter
  <2>3. screen.tx = data.xdr \/ data.xdr \in crossed
    BY <2>1 DEF SeenInv
  <2>4. ~loc[p].pin
    BY <2>1 DEF CarriedInv
  <2>. QED
    BY <2>1, <2>2, <2>3, <2>4
<1>13. ASSUME NEW p \in Presses, ReadData(p) PROVE MetInv'
  <2>1. /\ ppc[p] = "read" /\ UNCHANGED <<data, seen, spc, crossed, overlap>> /\ Pressing' = Pressing
        /\ loc'[p].xdr = data.xdr /\ loc'[p].pin = data.pin
        /\ \A q \in Presses : q # p => loc'[q] = loc[q]
    BY <1>13 DEF ReadData, Goto
  <2>. QED
    BY <2>1
<1>14. ASSUME NEW p \in Presses, ReadState(p) PROVE MetInv'
  <2>1. /\ ppc[p] = "mode" /\ UNCHANGED <<data, seen, spc>> /\ Pressing' = Pressing
        /\ crossed \subseteq crossed' /\ overlap \subseteq overlap'
        /\ \A q \in Presses : loc'[q].xdr = loc[q].xdr /\ loc'[q].pin = loc[q].pin
    BY <1>14 DEF ReadState, Goto
  <2>. QED
    BY <2>1
<1>15. ASSUME NEW p \in Presses, Reset(p) PROVE MetInv'
  BY <1>15 DEF Reset, Goto
<1>16. ASSUME NEW p \in Presses, Sign(p) PROVE MetInv'
  <2>1. UNCHANGED <<loc, seen, spc, overlap>> /\ Pressing' = Pressing /\ p \in Pressing
    BY <1>16 DEF Sign, Goto
  <2>2. CASE /\ loc[p].pin /\ data' = [data EXCEPT !.xdr = loc[p].xdr]
             /\ Enters(loc[p].xdr, Underway(Pressing \ {p}))
    <3>1. data'.xdr = loc[p].xdr /\ data'.pin = data.pin /\ crossed \subseteq crossed'
      BY <2>2, EntersKeeps DEF Data
    <3>2. ASSUME data.pin, NEW q \in Pressing PROVE seen[q] = loc[p].xdr \/ loc[p].xdr \in Met'
      <4>1. CASE q = p
        BY <2>1, <2>2, <3>1, <4>1
      <4>2. CASE q # p
        BY <2>2, <3>2, <4>2, UnderwayHas, EntersCrosses
      <4>. QED
        BY <4>1, <4>2
    <3>. QED
      BY <2>1, <3>1, <3>2
  <2>3. CASE UNCHANGED <<data, crossed>>
    BY <2>1, <2>3
  <2>. QED
    BY <1>16, <2>2, <2>3 DEF Sign
<1>17. ASSUME NEW p \in Presses, Submit(p) PROVE MetInv'
  <2>1. UNCHANGED <<data, loc, seen, spc, crossed, overlap>> /\ Pressing' = Pressing
    BY <1>17 DEF Submit, Goto
  <2>. QED
    BY <2>1
<1>18. ASSUME NEW p \in Presses, Call(p) PROVE MetInv'
  BY <1>18 DEF Call, Goto
<1>19. ASSUME NEW p \in Presses, Show(p) PROVE MetInv'
  BY <1>19 DEF Show, Goto
<1>20. ASSUME NEW p \in Presses, End(p) PROVE MetInv'
  BY <1>20 DEF End, Goto, NoLocals
<1>21. ASSUME NEW s \in Sends, SendTr(s) PROVE MetInv'
  BY <1>21 DEF SendTr, Press, Envelope
<1>22. ASSUME NEW s \in Sends, ReSend(s) PROVE MetInv'
  BY <1>22 DEF ReSend, Press, Envelope
<1>23. ASSUME NEW s \in Sends, SendTools(s) PROVE MetInv'
  <2>1. /\ UNCHANGED <<data, ppc, loc, seen, crossed>> /\ overlap \subseteq overlap'
        /\ \A p \in Pressing : seen[p] \in overlap'
    BY <1>23 DEF SendTools, Press
  <2>. QED
    BY <2>1
<1>24. ASSUME NEW s \in Sends, SubmitSent(s) PROVE MetInv'
  BY <1>24 DEF SubmitSent, Pressed
<1>25. ASSUME NEW s \in Sends, Answer(s) PROVE MetInv'
  BY <1>25 DEF Answer, Pressed
<1>26. CASE UNCHANGED vars
  BY <1>26 DEF vars
<1>. HIDE DEF MetInv, TypeInv
<1>. QED
  BY <1>1, <1>2, <1>3, <1>4, <1>5, <1>6, <1>7, <1>8, <1>9, <1>10, <1>11, <1>12, <1>13, <1>14,
     <1>15, <1>16, <1>17, <1>18, <1>19, <1>20, <1>21, <1>22, <1>23, <1>24, <1>25, <1>26 DEF Next

\* Every step keeps FollowInv.
LEMMA FollowStep == Password = FALSE /\ TypeInv /\ SeenInv /\ CarriedInv /\ PairInv /\ MetInv
  /\ MetInv' /\ FollowInv /\ [Next]_vars => FollowInv'
<1>. SUFFICES ASSUME Password = FALSE, TypeInv, SeenInv, CarriedInv, PairInv, MetInv, MetInv',
      FollowInv, [Next]_vars
             PROVE  FollowInv'
  OBVIOUS
<1>. USE DEF FollowInv, Met, TypeInv, Awaits, Data, talkVars, pressVars, sendVars, netVars
<1>1. CASE Return
  BY <1>1, Kinds DEF Return, NoData
<1>2. CASE Talk
  BY <1>2, Kinds DEF Talk, NoData
<1>3. CASE Yes
  BY <1>3 DEF Yes, AskPin
<1>4. CASE PasteHere
  BY <1>4, Kinds DEF PasteHere, PairInv
<1>5. ASSUME NEW t \in Payments, Prepare(t) PROVE FollowInv'
  BY <1>5 DEF Prepare, SeenInv
<1>6. ASSUME NEW t \in Pasted, Paste(t) PROVE FollowInv'
  BY <1>6 DEF Paste, To
<1>7. ASSUME NEW r \in Requests, Arrive(r) PROVE FollowInv'
  BY <1>7, EntersKeeps DEF Arrive
<1>8. ASSUME NEW r \in Requests, TimeOut(r) PROVE FollowInv'
  BY <1>8 DEF TimeOut, To
<1>9. ASSUME NEW c \in Checks, Check(c) PROVE FollowInv'
  BY <1>9, EntersKeeps, Kinds DEF Check
<1>10. ASSUME NEW c \in Checks, Ask(c) PROVE FollowInv'
  <2>1. crossed \subseteq crossed'
    BY <1>10, EntersKeeps DEF Ask
  <2>2. data.xdr \in Payments => data.xdr \in crossed'
    BY <1>10, EntersCrosses, Kinds DEF Ask
  <2>. QED
    BY <1>10, <2>1, <2>2 DEF Ask
<1>11. ASSUME NEW c \in Checks, CheckFails(c) PROVE FollowInv'
  BY <1>11 DEF CheckFails, Fault
<1>12. ASSUME NEW p \in Presses, NEW right \in BOOLEAN, Enter(p, right) PROVE FollowInv'
  <2>1. /\ screen.kind = "pin" /\ fsm \in {"sign", "sign_and_send"} /\ fsm' = fsm
        /\ data'.xdr = data.xdr /\ data'.after = data.after
        /\ UNCHANGED <<loc, signed, failed, calls, crossed>> /\ overlap \subseteq overlap'
        /\ \A q \in Presses : ppc'[q] = "mode" <=> ppc[q] = "mode"
        /\ \A q \in Presses : ppc'[q] \in {"reset", "sign"} <=> ppc[q] \in {"reset", "sign"}
        /\ \A q \in Presses : ppc'[q] \in {"submit", "call"} <=> ppc[q] \in {"submit", "call"}
    BY <1>12 DEF Enter, Goto, Tells
  <2>2. data.xdr \in Payments \ crossed => fsm = "sign_and_send" /\ data.after = data.xdr
    BY <2>1 DEF PairInv, PinGiven
  <2>. QED
    BY <2>1, <2>2
<1>13. ASSUME NEW p \in Presses, ReadData(p) PROVE FollowInv'
  <2>1. /\ ppc[p] = "read"
        /\ UNCHANGED <<fsm, data, seen, signed, failed, calls, crossed, overlap>>
        /\ ppc' = [ppc EXCEPT ![p] = "mode"]
        /\ loc'[p].xdr = data.xdr /\ loc'[p].pin = data.pin /\ loc'[p].after = data.after
        /\ \A q \in Presses : q # p => loc'[q] = loc[q]
    BY <1>13 DEF ReadData, Goto
  <2>. QED
    BY <2>1
<1>14. ASSUME NEW p \in Presses, ReadState(p) PROVE FollowInv'
  <2>1. /\ ppc[p] = "mode" /\ UNCHANGED <<fsm, data, seen, signed, failed, calls>>
        /\ ppc' = [ppc EXCEPT ![p] = "reset"]
        /\ loc'[p].xdr = loc[p].xdr /\ loc'[p].pin = loc[p].pin /\ loc'[p].after = loc[p].after
        /\ fsm = "sign_and_send" => loc'[p].mode = "sign_and_send"
        /\ \A q \in Presses : q # p => loc'[q] = loc[q]
        /\ crossed \subseteq crossed' /\ overlap \subseteq overlap'
    BY <1>14 DEF ReadState, Goto, Tells
  <2>2. data.xdr # loc[p].xdr \/ data.after # loc[p].after => seen[p] \in overlap'
    BY <1>14 DEF ReadState
  <2>3. loc[p].pin /\ loc[p].xdr \in Payments \ Met' =>
          loc'[p].mode = "sign_and_send" /\ loc'[p].after = loc[p].xdr
    BY <2>1, <2>2 DEF MetInv
  <2>. QED
    BY <2>1, <2>3
<1>15. ASSUME NEW p \in Presses, Reset(p) PROVE FollowInv'
  <2>1. /\ ppc[p] = "reset" /\ fsm' = "none" /\ ppc' = [ppc EXCEPT ![p] = "sign"]
        /\ UNCHANGED <<data, loc, seen, signed, failed, calls, crossed, overlap>>
    BY <1>15 DEF Reset, Goto
  <2>2. ASSUME NEW q \in Presses, q # p, ppc[q] \in {"read", "mode"} PROVE seen[q] \in Met
    BY <2>1, <2>2 DEF MetInv, Pressing
  <2>3. ASSUME data.pin, NEW q \in Presses, q # p, ppc[q] = "read" PROVE data.xdr \in Met
    BY <2>1, <2>2, <2>3 DEF MetInv, Pressing
  <2>4. ASSUME NEW q \in Presses, q # p, ppc[q] = "mode", loc[q].pin PROVE loc[q].xdr \in Met
    BY <2>1, <2>2, <2>4 DEF MetInv
  <2>. QED
    BY <2>1, <2>3, <2>4
<1>16. ASSUME NEW p \in Presses, Sign(p) PROVE FollowInv'
  <2>1. /\ UNCHANGED <<loc, seen, overlap, failed, calls>> /\ ppc[p] = "sign"
        /\ crossed \subseteq crossed'
        /\ \A q \in Presses : q # p => ppc'[q] = ppc[q]
    BY <1>16, EntersKeeps DEF Sign, Goto
  <2>2. CASE /\ loc[p].pin
             /\ data' = [data EXCEPT !.xdr = loc[p].xdr] /\ signed' = signed \cup {loc[p].xdr}
             /\ ppc'[p] = CASE loc[p].mode = "sign_and_send" -> "submit"
                            [] loc[p].mode = "sign" -> "show"
                            [] OTHER -> "end"
    <3>1. data'.pin = data.pin /\ data'.xdr = loc[p].xdr
      BY <2>2 DEF Data
    <3>2. ASSUME data.pin, NEW q \in Presses, ppc'[q] = "read" PROVE loc[p].xdr \in Met'
      <4>1. q # p
        BY <2>2, <3>2
      <4>2. seen[q] \in overlap
        BY <2>1, <3>2, <4>1 DEF MetInv, Pressing
      <4>3. seen'[q] = data'.xdr \/ data'.xdr \in Met'
        BY <3>1, <3>2 DEF MetInv, Pressing
      <4>. QED
        BY <2>1, <3>1, <4>2, <4>3
    <3>3. loc[p].xdr \in Payments \ Met' =>
            ppc'[p] = "submit" /\ loc[p].after = loc[p].xdr
      BY <2>1, <2>2
    <3>4. ppc'[p] \in {"submit", "show", "end"}
      BY <2>2
    <3>5. ASSUME NEW q \in Presses, ppc'[q] = "mode", loc[q].pin PROVE loc[q].xdr \in Met
      <4>1. q # p
        BY <3>4, <3>5
      <4>. QED
        BY <2>1, <3>5, <4>1 DEF MetInv, Pressing
    <3>6. \A q \in Presses :
            ppc'[q] \in {"reset", "sign"} => ppc[q] = ppc'[q] /\ q # p
      BY <2>1, <3>4
    <3>7. signed' = signed \cup {loc[p].xdr} /\ \A t : t \in Met => t \in Met'
      BY <2>1, <2>2
    <3>8. \A t \in (signed' \cap Payments) \ (Met' \cup failed') :
            calls'[t] > 0 \/ \E q \in Presses : /\ ppc'[q] \in {"submit", "call"}
                                                /\ loc'[q].xdr = t /\ loc'[q].after = t
      BY <2>1, <3>3, <3>7
    <3>. QED
      BY <2>1, <3>1, <3>2, <3>3, <3>4, <3>5, <3>6, <3>7, <3>8
  <2>3. CASE ppc'[p] = "end" /\ UNCHANGED <<fsm, data, signed, crossed>>
    BY <2>1, <2>3
  <2>. QED
    BY <1>16, <2>2, <2>3 DEF Sign, Goto
<1>17. ASSUME NEW p \in Presses, Submit(p) PROVE FollowInv'
  <2>1. /\ UNCHANGED <<fsm, data, loc, signed, calls, crossed, overlap>> /\ ppc[p] = "submit"
        /\ \A q \in Presses : q # p => ppc'[q] = ppc[q]
    BY <1>17 DEF Submit, Goto
  <2>2. \/ ppc'[p] = (IF loc[p].after # NoTx THEN "call" ELSE "end") /\ failed' = failed
        \/ ppc'[p] = "end" /\ failed' = failed \cup {loc[p].xdr}
    BY <1>17 DEF Submit, Goto, Refuse, Lose, Fault
  <2>. QED
    BY <2>1, <2>2, Kinds
<1>18. ASSUME NEW p \in Presses, Call(p) PROVE FollowInv'
  <2>1. /\ UNCHANGED <<fsm, data, loc, signed, failed, crossed, overlap>> /\ ppc[p] = "call"
        /\ ppc' = [ppc EXCEPT ![p] = "end"]
    BY <1>18 DEF Call, Goto
  <2>2. \A t \in Payments : calls'[t] \in Nat /\ (calls[t] > 0 \/ t = loc[p].after => calls'[t] > 0)
    BY <1>18 DEF Call
  <2>. QED
    BY <2>1, <2>2
<1>19. ASSUME NEW p \in Presses, Show(p) PROVE FollowInv'
  BY <1>19 DEF Show, Goto
<1>20. ASSUME NEW p \in Presses, End(p) PROVE FollowInv'
  <2>1. /\ UNCHANGED <<fsm, signed, failed, calls, crossed, overlap>> /\ ppc[p] = "end"
        /\ data'.pin = FALSE /\ data'.xdr = data.xdr /\ data'.after = data.after
        /\ ppc' = [ppc EXCEPT ![p] = "done"]
        /\ \A q \in Presses : q # p => loc'[q] = loc[q]
    BY <1>20 DEF End, Goto
  <2>. QED
    BY <2>1
<1>21. ASSUME NEW s \in Sends, SendTr(s) PROVE FollowInv'
  <2>1. UNCHANGED <<fsm, data, ppc, loc, signed, failed, calls, crossed>> /\ overlap \subseteq overlap'
    BY <1>21 DEF SendTr, Press
  <2>. QED
    BY <2>1
<1>22. ASSUME NEW s \in Sends, ReSend(s) PROVE FollowInv'
  <2>1. UNCHANGED <<fsm, data, ppc, loc, signed, failed, calls, crossed>> /\ overlap \subseteq overlap'
    BY <1>22 DEF ReSend, Press
  <2>. QED
    BY <2>1
<1>23. ASSUME NEW s \in Sends, SendTools(s) PROVE FollowInv'
  <2>1. UNCHANGED <<fsm, data, ppc, loc, signed, failed, calls, crossed>> /\ overlap \subseteq overlap'
    BY <1>23 DEF SendTools, Press
  <2>. QED
    BY <2>1
<1>24. ASSUME NEW s \in Sends, SubmitSent(s) PROVE FollowInv'
  <2>1. UNCHANGED <<fsm, data, ppc, loc, signed, calls, crossed, overlap>> /\ failed \subseteq failed'
    BY <1>24 DEF SubmitSent, Accept, Lose, Fault
  <2>. QED
    BY <2>1
<1>25. ASSUME NEW s \in Sends, Answer(s) PROVE FollowInv'
  <2>1. UNCHANGED <<data, ppc, loc, signed, calls, crossed, overlap>> /\ failed \subseteq failed'
    BY <1>25 DEF Answer, Lose, Fault
  <2>2. data.pin /\ (\E p \in Presses : ppc[p] = "read") => data.xdr \in Met
    BY <1>25 DEF MetInv, Answer, Answering, Pressing
  <2>3. \A p \in Presses : ppc[p] = "mode" /\ loc[p].pin => loc[p].xdr \in Met
    BY <1>25 DEF MetInv, Answer, Answering, Pressing
  <2>. QED
    BY <2>1, <2>2, <2>3
<1>26. CASE UNCHANGED vars
  BY <1>26 DEF vars
<1>. HIDE DEF FollowInv, TypeInv
<1>. QED
  BY <1>1, <1>2, <1>3, <1>4, <1>5, <1>6, <1>7, <1>8, <1>9, <1>10, <1>11, <1>12, <1>13, <1>14,
     <1>15, <1>16, <1>17, <1>18, <1>19, <1>20, <1>21, <1>22, <1>23, <1>24, <1>25, <1>26 DEF Next

-----------------------------------------------------------------------------
\* What holds with a PIN and with a password ...
CommonInv == TypeInv /\ SeenInv /\ FreshInv /\ CarriedInv /\ FitInv /\ AnswerInv

\* ... and what the names of the FSM states add, which only a PIN keeps apart.
TellingInv == CommonInv /\ WishInv /\ OnceInv /\ PairInv /\ MetInv /\ FollowInv

LEMMA InitCommon == Init => CommonInv
<1>. SUFFICES ASSUME Init PROVE CommonInv
  OBVIOUS
<1>. USE DEF Init, NoData, NoLocals, Menu, Screen
<1>1. TypeInv /\ SeenInv
  BY InitInv
<1>2. FreshInv
  BY Kinds DEF FreshInv
<1>3. CarriedInv /\ FitInv
  BY Kinds DEF CarriedInv, FitInv
<1>4. AnswerInv
  BY Kinds DEF AnswerInv, Asked, AnswersFit
<1>. QED
  BY <1>1, <1>2, <1>3, <1>4 DEF CommonInv

LEMMA InitTelling == Init => TellingInv
<1>. SUFFICES ASSUME Init PROVE TellingInv
  OBVIOUS
<1>. USE DEF Init, NoData, NoLocals, Menu, Screen
<1>1. CommonInv
  BY InitCommon
<1>2. WishInv
  BY Kinds DEF WishInv, PinGiven, Sending
<1>3. OnceInv
  BY Kinds DEF OnceInv, Single, Committed, Armed
<1>4. PairInv /\ MetInv
  BY DEF PairInv, PinGiven, MetInv, Pressing, Answering
<1>5. FollowInv
  BY DEF FollowInv
<1>. QED
  BY <1>1, <1>2, <1>3, <1>4, <1>5 DEF TellingInv

LEMMA CommonStep == CommonInv /\ [Next]_vars => CommonInv'
BY TypeStep, SeenStep, FreshStep, CarriedStep, FitStep, AnswerStep DEF CommonInv

LEMMA TellingStep == Password = FALSE /\ TellingInv /\ [Next]_vars => TellingInv'
<1>. SUFFICES ASSUME Password = FALSE, TellingInv, [Next]_vars PROVE TellingInv'
  OBVIOUS
<1>1. CommonInv'
  BY CommonStep DEF TellingInv
<1>2. WishInv'
  BY WishStep DEF TellingInv, CommonInv
<1>3. OnceInv'
  BY OnceStep DEF TellingInv, CommonInv
<1>4. PairInv' /\ MetInv'
  BY PairStep, MetStep DEF TellingInv, CommonInv
<1>5. FollowInv'
  BY <1>4, FollowStep DEF TellingInv, CommonInv
<1>. QED
  BY <1>1, <1>2, <1>3, <1>4, <1>5 DEF TellingInv

\* do_wc_sign_and_respond() gives a dApp the transaction of its own request or none, with
\* whatever other requests, pasted transactions, conversations and confirmations the FSM
\* data of the user serve meanwhile, unless another transaction came into the request's data.
THEOREM AnswersFitHolds == Spec => []AnswersFit
<1>1. CommonInv => AnswersFit
  BY DEF CommonInv, AnswerInv
<1>. QED
  BY <1>1, InitCommon, CommonStep, PTL DEF Spec

\* With a PIN, neither sign_xdr() nor a button submits what the user did not ask to be sent:
\* what was pasted or came from a dApp leaves the bot after "Send" or "Send to ..." only.
\* (cmd_password() tells sign_xdr() to send whatever it was asked for.)
THEOREM SubmittedAsWishedHolds ==
  ASSUME Password = FALSE
  PROVE  Spec => []SubmittedAsWished
<1>1. TellingInv => SubmittedAsWished
  BY DEF TellingInv, WishInv, Held, SubmittedAsWished
<1>2. TellingInv /\ [Next]_vars => TellingInv'
  BY TellingStep
<1>. QED
  BY <1>1, <1>2, InitTelling, PTL DEF Spec

\* With a PIN, fsm_after_send() is called twice for a payment only if two confirmations read
\* the state sign_and_send for it before either had reset it, or another transaction came into
\* its data, however many presses of "Yes", PINs and buttons; and it is called, or about to be,
\* for one that the network accepted and that neither another handler nor a fault met.
THEOREM CalledOnceHolds ==
  ASSUME Password = FALSE
  PROVE  Spec => []CalledOnce
<1>1. TellingInv => CalledOnce
  <2>. SUFFICES ASSUME TellingInv, NEW t \in Payments
                PROVE  /\ calls[t] > 1 => t \in raced \cup crossed
                       /\ t \in submitted \ (crossed \cup overlap \cup failed) =>
                            calls[t] > 0 \/ \E p \in Pressing : loc[p].xdr = t
    BY DEF CalledOnce
  <2>1. calls[t] \in Nat /\ (t \notin raced \cup crossed => calls[t] <= 1)
    BY DEF TellingInv, CommonInv, TypeInv, OnceInv, Single
  <2>2. t \in submitted \ (crossed \cup overlap \cup failed) =>
          calls[t] > 0 \/ \E p \in Pressing : loc[p].xdr = t
    BY DEF TellingInv, WishInv, FollowInv, Met, Pressing
  <2>. QED
    BY <2>1, <2>2
<1>2. TellingInv /\ [Next]_vars => TellingInv'
  BY TellingStep
<1>. QED
  BY <1>1, <1>2, InitTelling, PTL DEF Spec

=============================================================================
