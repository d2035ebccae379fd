---------------------------- MODULE Wallets_proofs ----------------------------
(***************************************************************************)
(* The safety of Wallets for any number of handlers, wallets, exceptions   *)
(* and restarts.                                                           *)
(***************************************************************************)
EXTENDS Wallets, FiniteSetTheorems, TLAPS

Rows ==
  [kind : {"absent", "deleted", "free", "own"}, pin : Nat, lock : {"id", "secret", "none"}]

\* The default wallet exists and is not deleted.
TypeInv ==
  /\ wallets \in [Ids -> Rows]
  /\ default \in 0..MaxWallets
  /\ lock \in Handlers \cup {None}
  /\ at \in [Handlers -> Creating \cup {"idle", "submit", "after"}]
  /\ source \in [Handlers -> 0..MaxWallets]
  /\ data \in [after : BOOLEAN, buy : 0..MaxWallets, idx : 0..MaxWallets]
  /\ paid \subseteq 0..MaxWallets /\ bought \subseteq Ids
  /\ default # 0 => wallets[default].kind \in {"free", "own"}

-----------------------------------------------------------------------------
\* Between its last count and the row.
Counted == {"key_create", "ton_create"}

\* One creation at a time is between count and row, and its wallet has a place.
FreeInv ==
  /\ \A h \in Handlers : at[h] \in {"key_create", "key_submit"} => lock = h
  /\ "raced" \notin causes =>
       /\ \A g, h \in Handlers : at[g] \in Counted /\ at[h] \in Counted => g = h
       /\ Cardinality(Free) <= MaxFree
       /\ (\E h \in Handlers : at[h] \in Counted) => Cardinality(Free) < MaxFree

-----------------------------------------------------------------------------
Paying(h) == at[h] \in {"submit", "after"}

\* cmd_after_buy is in the data only during the conversation that put it there, or a
\* creation was under way.
AfterInv ==
  /\ screen \in {"menu", "list", "add", "delete"} => ~data.after
  /\ data.after /\ (\E h \in Handlers : at[h] \in Creating) => "crossed" \in causes

\* A payment is made for the default wallet, unless that changed.
PayInv ==
  /\ screen = "confirm" \/ fsm = "pay" => data.buy # 0
  /\ \A h \in Handlers :
       /\ Paying(h) => source[h] # 0
       /\ at[h] = "after" => source[h] \in paid
       /\ Paying(h) => "switched" \in causes \/ default \in {0, source[h]}

BoughtInv == AfterInv /\ PayInv /\ BoughtIsPaid

-----------------------------------------------------------------------------
Exceptions == {"switched", "crossed", "twice"}

Excepted == causes \cap Exceptions # {}

\* A wallet that is paid for is free still, and nobody else pays for it; a password is
\* chosen for the user's own wallet.
KeptInv ==
  Excepted \/
    /\ \A g, h \in Handlers : Paying(g) /\ Paying(h) /\ source[g] = source[h] => g = h
    /\ \A h \in Handlers : Paying(h) /\ default # 0 => Default.kind = "free"
    /\ data.buy # 0 =>
         data.buy \in paid \/ wallets[data.buy].kind \in {"free", "deleted"}
    /\ fsm \in PasswordStates \/ screen = "choose" => default = 0 \/ Default.kind = "own"

LockInv == KeptInv /\ LockIsKnown

-----------------------------------------------------------------------------
\* A new wallet is the default one.
LEMMA AddType ==
  ASSUME TypeInv, NEW kind \in {"free", "own"}, NEW pin \in Nat, NEW key \in {"id", "none"},
         Add(kind, pin, key)
  PROVE  /\ wallets' \in [Ids -> Rows] /\ default' \in 0..MaxWallets
         /\ default' # 0 => wallets'[default'].kind \in {"free", "own"}
BY WalletsAssumption DEF TypeInv, Add, Write, Row, Rows, Ids

\* The default wallet is a row, if there is one.
LEMMA DefaultType ==
  ASSUME TypeInv, default # 0
  PROVE  default \in Ids /\ Default = wallets[default] /\ Default \in Rows
BY WalletsAssumption DEF TypeInv, Default, Ids

\* Writing to an existing wallet that is the default one keeps it so.
LEMMA WriteType ==
  ASSUME TypeInv, NEW w \in Ids, NEW row \in Rows, Write(w, row),
         default' = default, default = w => row.kind \in {"free", "own"}
  PROVE  /\ wallets' \in [Ids -> Rows]
         /\ default' # 0 => wallets'[default'].kind \in {"free", "own"}
<1>1. wallets' \in [Ids -> Rows]
  BY DEF TypeInv, Write
<1>2. \A v \in Ids : wallets'[v] = IF v = w THEN row ELSE wallets[v]
  BY DEF TypeInv, Write
<1>3. default # 0 => default \in Ids
  BY DefaultType
<1>. QED
  BY <1>1, <1>2, <1>3 DEF TypeInv

LEMMA ProtectType ==
  ASSUME TypeInv, NEW pin \in Nat, Protect(pin), default' = default
  PROVE  /\ wallets' \in [Ids -> Rows]
         /\ default' # 0 => wallets'[default'].kind \in {"free", "own"}
<1>1. CASE default # 0 /\ Default.lock = "id"
  <2>. DEFINE row == Row(Default.kind, pin, IF pin = 0 THEN "id" ELSE "secret")
  <2>1. default \in Ids /\ Default = wallets[default] /\ Default \in Rows
    BY <1>1, DefaultType
  <2>2. row \in Rows /\ row.kind \in {"free", "own"}
    BY <1>1, <2>1 DEF Row, Rows, TypeInv
  <2>3. Write(default, row)
    BY <1>1 DEF Protect
  <2>. HIDE DEF row
  <2>. QED
    BY <2>1, <2>2, <2>3, WriteType
<1>2. CASE ~(default # 0 /\ Default.lock = "id")
  BY <1>2 DEF TypeInv, Protect
<1>. QED
  BY <1>1, <1>2

LEMMA UnfreeType ==
  ASSUME TypeInv, Unfree, default' = default
  PROVE  /\ wallets' \in [Ids -> Rows] /\ bought' \subseteq Ids
         /\ default' # 0 => wallets'[default'].kind \in {"free", "own"}
<1>1. CASE default # 0
  <2>. DEFINE row == Row("own", 0, Default.lock)
  <2>1. default \in Ids /\ Default \in Rows
    BY <1>1, DefaultType
  <2>2. row \in Rows /\ row.kind \in {"free", "own"}
    BY <2>1 DEF Row, Rows
  <2>3. Write(default, row) /\ bought' = bought \cup {default}
    BY <1>1 DEF Unfree
  <2>4. bought' \subseteq Ids
    BY <2>1, <2>3 DEF TypeInv
  <2>. HIDE DEF row
  <2>. QED
    BY <2>1, <2>2, <2>3, <2>4, WriteType
<1>2. CASE default = 0
  BY <1>2 DEF TypeInv, Unfree
<1>. QED
  BY <1>1, <1>2

\* Every step keeps the types.
LEMMA TypeStep == TypeInv /\ [Next]_vars => TypeInv'
<1>. SUFFICES ASSUME TypeInv, [Next]_vars PROVE TypeInv'
  OBVIOUS
<1>. USE WalletsAssumption DEF rows, talk, past
<1>1. CASE Return
  BY <1>1 DEF TypeInv, Return, Clear, NoData, Show, Ids, Rows, Creating
<1>2. CASE Settings
  BY <1>2 DEF TypeInv, Settings, Say, Show, Ids, Rows, Creating
<1>3. CASE ChangeWallet
  <2>1. data' = data \/ data' = NoData
    BY <1>3 DEF ChangeWallet, Clear
  <2>2. NoData \in [after : BOOLEAN, buy : 0..MaxWallets, idx : 0..MaxWallets]
    BY DEF NoData
  <2>3. data' \in [after : BOOLEAN, buy : 0..MaxWallets, idx : 0..MaxWallets]
    BY <2>1, <2>2 DEF TypeInv
  <2>. QED
    BY <1>3, <2>3 DEF TypeInv, ChangeWallet
<1>4. CASE YesDelete
  BY <1>4 DEF TypeInv, YesDelete, Deleted, Write, Row, Show, Ids, Rows, Creating
<1>5. CASE AddNew
  BY <1>5 DEF TypeInv, AddNew, Say, Show, Ids, Rows, Creating
<1>6. CASE HaveKey
  BY <1>6 DEF TypeInv, HaveKey, Show, Ids, Rows, Creating
<1>7. CASE ReadOnly
  BY <1>7 DEF TypeInv, ReadOnly, Show, Ids, Rows, Creating
<1>8. CASE SendingPrivate
  BY <1>8, AddType DEF TypeInv, SendingPrivate, Show, Because, Ids, Rows, Creating
<1>9. CASE SendingPublic
  BY <1>9, AddType DEF TypeInv, SendingPublic, Show, Because, Clear, NoData, Ids, Rows, Creating
<1>10. CASE SetPassword
  BY <1>10 DEF TypeInv, SetPassword, Say, Show, Ids, Rows, Creating
<1>11. CASE ChoosePin
  BY <1>11 DEF TypeInv, ChoosePin, Show, Ids, Rows, Creating
<1>12. CASE NoPassword
  BY <1>12, ProtectType DEF TypeInv, NoPassword, Clear, NoData, Show, Ids, Rows, Creating
<1>13. CASE Enter
  BY <1>13 DEF TypeInv, Enter, Show, Ids, Rows, Creating
<1>14. CASE Again
  <2>1. CASE UNCHANGED <<wallets, data>>
    BY <1>14, <2>1 DEF TypeInv, Again
  <2>2. CASE Protect(1) /\ Clear
    BY <1>14, <2>2, ProtectType DEF TypeInv, Again, Clear, NoData
  <2>. QED
    BY <1>14, <2>1, <2>2 DEF Again
<1>15. CASE RemovePassword
  BY <1>15 DEF TypeInv, RemovePassword, Show, Ids, Rows, Creating
<1>16. CASE Unset
  <2>. DEFINE row == Row(Default.kind, 0, "id")
  <2>1. CASE UNCHANGED wallets
    BY <1>16, <2>1 DEF TypeInv, Unset
  <2>2. CASE default # 0 /\ Write(default, row)
    <3>1. default \in Ids /\ Default = wallets[default] /\ Default \in Rows
      BY <2>2, DefaultType
    <3>2. row \in Rows /\ row.kind \in {"free", "own"}
      BY <2>2, <3>1 DEF Row, Rows, TypeInv
    <3>3. default' = default
      BY <1>16 DEF Unset
    <3>. HIDE DEF row
    <3>4. wallets' \in [Ids -> Rows] /\ (default' # 0 => wallets'[default'].kind \in {"free", "own"})
      BY <2>2, <3>1, <3>2, <3>3, WriteType
    <3>. QED
      BY <1>16, <3>4 DEF TypeInv, Unset
  <2>. QED
    BY <1>16, <2>1, <2>2 DEF Unset
<1>17. CASE BuyAddress
  BY <1>17 DEF TypeInv, BuyAddress, Because, Show, Default, NoWallet, Ids, Rows, Creating
<1>18. CASE Yes
  BY <1>18 DEF TypeInv, Yes, Show, Ids, Rows, Creating
<1>19. CASE Restart
  BY <1>19 DEF TypeInv, Restart, Ids, Rows, Creating
<1>20. ASSUME NEW w \in Ids, SetActive(w) PROVE TypeInv'
  BY <1>20 DEF TypeInv, SetActive, Active, Because, Ids, Rows, Creating
<1>21. ASSUME NEW w \in Ids, AskDelete(w) PROVE TypeInv'
  <2>1. data' = [data EXCEPT !.idx = w] /\ w \in 0..MaxWallets
    BY <1>21 DEF AskDelete, Ids
  <2>2. data' \in [after : BOOLEAN, buy : 0..MaxWallets, idx : 0..MaxWallets]
    BY <2>1 DEF TypeInv
  <2>. QED
    BY <1>21, <2>2 DEF TypeInv, AskDelete
<1>22. ASSUME NEW h \in Handlers, AddKey(h) PROVE TypeInv'
  BY <1>22 DEF TypeInv, AddKey, Go, Ids, Rows, Creating
<1>23. ASSUME NEW h \in Handlers, LockKey(h) PROVE TypeInv'
  BY <1>23 DEF TypeInv, LockKey, Go, Because, Ids, Rows, Creating
<1>24. ASSUME NEW h \in Handlers, CreateKey(h) PROVE TypeInv'
  BY <1>24, AddType DEF TypeInv, CreateKey, Go, Because, Say, Show, Ids, Rows, Creating
<1>25. ASSUME NEW h \in Handlers, SubmitKey(h) PROVE TypeInv'
  BY <1>25 DEF TypeInv, SubmitKey, Go, Say, Show, Ids, Rows, Creating
<1>26. ASSUME NEW h \in Handlers, EndKey(h) PROVE TypeInv'
  BY <1>26, UnfreeType DEF TypeInv, EndKey, Go, Ids, Rows, Creating
<1>27. ASSUME NEW h \in Handlers, AddTon(h) PROVE TypeInv'
  BY <1>27 DEF TypeInv, AddTon, Go, Because, Ids, Rows, Creating
<1>28. ASSUME NEW h \in Handlers, CreateTon(h) PROVE TypeInv'
  BY <1>28, AddType DEF TypeInv, CreateTon, Go, Because, Say, Show, Ids, Rows, Creating
<1>29. ASSUME NEW h \in Handlers, Sign(h) PROVE TypeInv'
  BY <1>29 DEF TypeInv, Sign, Go, Because, Show, Ids, Rows, Creating
<1>30. ASSUME NEW h \in Handlers, Submit(h) PROVE TypeInv'
  <2>1. CASE Go(h, "submit", "after") /\ paid' = paid \cup {source[h]} /\ UNCHANGED source
    BY <1>30, <2>1 DEF TypeInv, Submit, Go, Say
  <2>2. CASE Go(h, "submit", "idle") /\ source' = [source EXCEPT ![h] = 0] /\ UNCHANGED paid
    BY <1>30, <2>2 DEF TypeInv, Submit, Go, Say
  <2>. QED
    BY <1>30, <2>1, <2>2 DEF Submit
<1>31. ASSUME NEW h \in Handlers, AfterBuy(h) PROVE TypeInv'
  BY <1>31, UnfreeType DEF TypeInv, AfterBuy, Go, Ids, Rows, Creating
<1>32. CASE UNCHANGED vars
  BY <1>32 DEF TypeInv, vars
<1>. QED
  BY <1>1, <1>2, <1>3, <1>4, <1>5, <1>6, <1>7, <1>8, <1>9, <1>10, <1>11, <1>12, <1>13, <1>14,
     <1>15, <1>16, <1>17, <1>18, <1>19, <1>20, <1>21, <1>22, <1>23, <1>24, <1>25, <1>26, <1>27,
     <1>28, <1>29, <1>30, <1>31, <1>32 DEF Next

-----------------------------------------------------------------------------
LEMMA FreeIsFinite ==
  ASSUME TypeInv
  PROVE  IsFiniteSet(Free) /\ Cardinality(Free) \in Nat
<1>1. IsFiniteSet(Ids)
  BY WalletsAssumption, FS_Interval DEF Ids
<1>2. Free \in SUBSET Ids
  BY DEF Free
<1>. QED
  BY <1>1, <1>2, FS_Subset, FS_CardinalityType

\* A step after which no wallet is free that was not, and nobody is between count and row,
\* or has the lock, who was not.
LEMMA FreeKept ==
  ASSUME TypeInv, FreeInv, MaxFree \in Nat,
         Free' \subseteq Free, causes \subseteq causes',
         \A g \in Handlers :
           at'[g] \in Counted \cup {"key_submit"} => at'[g] = at[g] /\ lock' = lock
  PROVE  FreeInv'
<1>1. /\ IsFiniteSet(Free') /\ Cardinality(Free') \in Nat
      /\ Cardinality(Free) \in Nat /\ Cardinality(Free') <= Cardinality(Free)
  BY FreeIsFinite, FS_Subset, FS_CardinalityType
<1>2. \A h \in Handlers : at'[h] \in {"key_create", "key_submit"} => lock' = h
  BY DEF FreeInv, Counted
<1>3. ASSUME "raced" \notin causes'
      PROVE  /\ \A g, h \in Handlers : at'[g] \in Counted /\ at'[h] \in Counted => g = h
             /\ Cardinality(Free') <= MaxFree
             /\ (\E h \in Handlers : at'[h] \in Counted) => Cardinality(Free') < MaxFree
  <2>1. /\ \A g, h \in Handlers : at[g] \in Counted /\ at[h] \in Counted => g = h
        /\ Cardinality(Free) <= MaxFree
        /\ (\E h \in Handlers : at[h] \in Counted) => Cardinality(Free) < MaxFree
    BY <1>3 DEF FreeInv
  <2>2. \A g \in Handlers : at'[g] \in Counted => at[g] \in Counted
    OBVIOUS
  <2>. QED
    BY <1>1, <2>1, <2>2
<1>. QED
  BY <1>2, <1>3 DEF FreeInv

\* A free wallet more.
LEMMA AddFree ==
  ASSUME TypeInv, Add("free", 0, "id")
  PROVE  Cardinality(Free') = Cardinality(Free) + 1
<1>1. PICK w \in Ids : wallets[w] = NoWallet /\ Write(w, Row("free", 0, "id"))
  BY DEF Add
<1>2. Free' = Free \cup {w} /\ w \notin Free
  BY <1>1 DEF Free, TypeInv, Write, Row, NoWallet
<1>. QED
  BY <1>2, FreeIsFinite, FS_AddElement

LEMMA AddOwn ==
  ASSUME TypeInv, NEW pin, NEW key, Add("own", pin, key)
  PROVE  Free' \subseteq Free
BY DEF TypeInv, Add, Write, Row, Free

LEMMA ProtectFree ==
  ASSUME TypeInv, NEW pin \in Nat, Protect(pin)
  PROVE  Free' \subseteq Free
BY DefaultType DEF TypeInv, Protect, Write, Row, Free

LEMMA UnfreeFree ==
  ASSUME TypeInv, Unfree
  PROVE  Free' \subseteq Free
BY DefaultType DEF TypeInv, Unfree, Write, Row, Free

\* Every step keeps FreeInv.
LEMMA FreeStep == TypeInv /\ FreeInv /\ [Next]_vars => FreeInv'
<1>. SUFFICES ASSUME TypeInv, FreeInv, [Next]_vars PROVE FreeInv'
  OBVIOUS
<1>0. MaxFree \in Nat /\ None \notin Handlers
  BY WalletsAssumption
<1>. USE <1>0 DEF rows, talk, past
<1>1. CASE Return
  BY <1>1, FreeKept DEF Return, Free
<1>2. CASE Settings
  BY <1>2, FreeKept DEF Settings, Free
<1>3. CASE ChangeWallet
  BY <1>3, FreeKept DEF ChangeWallet, Free
<1>4. CASE YesDelete
  <2>1. Free' \subseteq Free
    BY <1>4 DEF YesDelete, Deleted, Write, Row, TypeInv, Free
  <2>. QED
    BY <1>4, <2>1, FreeKept DEF YesDelete
<1>5. CASE AddNew
  BY <1>5, FreeKept DEF AddNew, Free
<1>6. CASE HaveKey
  BY <1>6, FreeKept DEF HaveKey, Free
<1>7. CASE ReadOnly
  BY <1>7, FreeKept DEF ReadOnly, Free
<1>8. CASE SendingPrivate
  <2>1. Free' \subseteq Free
    BY <1>8, AddOwn DEF SendingPrivate, Because
  <2>. QED
    BY <1>8, <2>1, FreeKept DEF SendingPrivate, Because
<1>9. CASE SendingPublic
  <2>1. Free' \subseteq Free
    BY <1>9, AddOwn DEF SendingPublic, Because
  <2>. QED
    BY <1>9, <2>1, FreeKept DEF SendingPublic, Because
<1>10. CASE SetPassword
  BY <1>10, FreeKept DEF SetPassword, Free
<1>11. CASE ChoosePin
  BY <1>11, FreeKept DEF ChoosePin, Free
<1>12. CASE NoPassword
  <2>1. Free' \subseteq Free
    BY <1>12, ProtectFree DEF NoPassword
  <2>. QED
    BY <1>12, <2>1, FreeKept DEF NoPassword
<1>13. CASE Enter
  BY <1>13, FreeKept DEF Enter, Free
<1>14. CASE Again
  <2>1. UNCHANGED wallets \/ Protect(1)
    BY <1>14 DEF Again
  <2>2. Free' \subseteq Free
    BY <2>1, ProtectFree DEF Free
  <2>. QED
    BY <1>14, <2>2, FreeKept DEF Again
<1>15. CASE RemovePassword
  BY <1>15, FreeKept DEF RemovePassword, Free
<1>16. CASE Unset
  <2>1. Free' \subseteq Free
    BY <1>16, DefaultType DEF Unset, Write, Row, TypeInv, Free
  <2>. QED
    BY <1>16, <2>1, FreeKept DEF Unset
<1>17. CASE BuyAddress
  BY <1>17, FreeKept DEF BuyAddress, Because, Free
<1>18. CASE Yes
  BY <1>18, FreeKept DEF Yes, Free
<1>19. CASE Restart
  BY <1>19, FreeKept DEF Restart, Free, Counted
<1>20. ASSUME NEW w \in Ids, SetActive(w) PROVE FreeInv'
  BY <1>20, FreeKept DEF SetActive, Because, Free
<1>21. ASSUME NEW w \in Ids, AskDelete(w) PROVE FreeInv'
  BY <1>21, FreeKept DEF AskDelete, Free
<1>22. ASSUME NEW h \in Handlers, AddKey(h) PROVE FreeInv'
  BY <1>22, FreeKept DEF AddKey, Go, Free, Counted, TypeInv
<1>23. ASSUME NEW h \in Handlers, LockKey(h) PROVE FreeInv'
  <2>1. CASE ~Few
    BY <1>23, <2>1, FreeKept DEF LockKey, Go, Free, Counted, TypeInv
  <2>2. CASE Few
    <3>1. /\ lock = None /\ lock' = h /\ at' = [at EXCEPT ![h] = "key_create"]
          /\ Cardinality(Free) < MaxFree /\ Free' = Free
          /\ "raced" \notin causes' =>
               "raced" \notin causes /\ \A g \in Handlers : at[g] # "ton_create"
      BY <1>23, <2>2 DEF LockKey, Go, Because, Few, Free
    <3>2. \A g \in Handlers : at[g] \notin {"key_create", "key_submit"}
      BY <3>1 DEF FreeInv
    <3>3. \A g \in Handlers : at'[g] = IF g = h THEN "key_create" ELSE at[g]
      BY <3>1 DEF TypeInv
    <3>. QED
      BY <3>1, <3>2, <3>3, FreeIsFinite DEF FreeInv, Counted
  <2>. QED
    BY <2>1, <2>2
<1>24. ASSUME NEW h \in Handlers, CreateKey(h) PROVE FreeInv'
  <2>1. /\ Add("free", 0, "id") /\ lock' = lock /\ causes \subseteq causes'
        /\ at[h] = "key_create" /\ at' = [at EXCEPT ![h] = "key_submit"]
    BY <1>24 DEF CreateKey, Go, Because
  <2>2. \A g \in Handlers : at'[g] = IF g = h THEN "key_submit" ELSE at[g]
    BY <2>1 DEF TypeInv
  <2>3. Cardinality(Free') = Cardinality(Free) + 1
    BY <2>1, AddFree
  <2>. QED
    BY <2>1, <2>2, <2>3, FreeIsFinite DEF FreeInv, Counted
<1>25. ASSUME NEW h \in Handlers, SubmitKey(h) PROVE FreeInv'
  <2>1. PICK to \in {"key_end", "idle"} : at' = [at EXCEPT ![h] = to]
    BY <1>25 DEF SubmitKey, Go
  <2>2. /\ at[h] = "key_submit" /\ lock = h /\ Free' = Free /\ causes' = causes
        /\ \A g \in Handlers : at'[g] = IF g = h THEN to ELSE at[g]
    BY <1>25, <2>1 DEF SubmitKey, Go, Free, FreeInv, TypeInv
  <2>3. \A g \in Handlers : at'[g] \notin {"key_create", "key_submit"}
    BY <2>2 DEF FreeInv
  <2>4. \A g \in Handlers : at'[g] \in Counted => at[g] \in Counted
    BY <2>2 DEF Counted
  <2>. QED
    BY <2>2, <2>3, <2>4 DEF FreeInv
<1>26. ASSUME NEW h \in Handlers, EndKey(h) PROVE FreeInv'
  <2>1. Free' \subseteq Free
    BY <1>26, UnfreeFree DEF EndKey, Free
  <2>. QED
    BY <1>26, <2>1, FreeKept DEF EndKey, Go, Counted, TypeInv
<1>27. ASSUME NEW h \in Handlers, AddTon(h) PROVE FreeInv'
  <2>1. /\ lock' = lock /\ at' = [at EXCEPT ![h] = "ton_create"]
        /\ Cardinality(Free) < MaxFree /\ Free' = Free
        /\ "raced" \notin causes' =>
             "raced" \notin causes /\ \A g \in Handlers : at[g] \notin Counted
    BY <1>27 DEF AddTon, Go, Because, Few, Free, Counted
  <2>2. \A g \in Handlers : at'[g] = IF g = h THEN "ton_create" ELSE at[g]
    BY <2>1 DEF TypeInv
  <2>. QED
    BY <2>1, <2>2, FreeIsFinite DEF FreeInv
<1>28. ASSUME NEW h \in Handlers, CreateTon(h) PROVE FreeInv'
  <2>1. /\ Add("free", 0, "id") /\ lock' = lock /\ causes \subseteq causes'
        /\ at[h] = "ton_create" /\ at' = [at EXCEPT ![h] = "idle"]
    BY <1>28 DEF CreateTon, Go, Because
  <2>2. \A g \in Handlers : at'[g] = IF g = h THEN "idle" ELSE at[g]
    BY <2>1 DEF TypeInv
  <2>3. Cardinality(Free') = Cardinality(Free) + 1
    BY <2>1, AddFree
  <2>. QED
    BY <2>1, <2>2, <2>3, FreeIsFinite DEF FreeInv, Counted
<1>29. ASSUME NEW h \in Handlers, Sign(h) PROVE FreeInv'
  <2>1. \A g \in Handlers : at'[g] \in Counted \cup {"key_submit"} => at'[g] = at[g]
    BY <1>29 DEF Sign, Go, Counted, TypeInv
  <2>. QED
    BY <1>29, <2>1, FreeKept DEF Sign, Because, Free
<1>30. ASSUME NEW h \in Handlers, Submit(h) PROVE FreeInv'
  <2>1. \A g \in Handlers : at'[g] \in Counted \cup {"key_submit"} => at'[g] = at[g]
    BY <1>30 DEF Submit, Go, Counted, TypeInv
  <2>. QED
    BY <1>30, <2>1, FreeKept DEF Submit, Free
<1>31. ASSUME NEW h \in Handlers, AfterBuy(h) PROVE FreeInv'
  <2>1. Free' \subseteq Free
    BY <1>31, UnfreeFree DEF AfterBuy
  <2>. QED
    BY <1>31, <2>1, FreeKept DEF AfterBuy, Go, Counted, TypeInv
<1>32. CASE UNCHANGED vars
  BY <1>32, FreeKept DEF vars, Free
<1>. QED
  BY <1>1, <1>2, <1>3, <1>4, <1>5, <1>6, <1>7, <1>8, <1>9, <1>10, <1>11, <1>12, <1>13, <1>14,
     <1>15, <1>16, <1>17, <1>18, <1>19, <1>20, <1>21, <1>22, <1>23, <1>24, <1>25, <1>26, <1>27,
     <1>28, <1>29, <1>30, <1>31, <1>32 DEF Next

-----------------------------------------------------------------------------
\* Every step keeps BoughtInv.
LEMMA BoughtStep == TypeInv /\ BoughtInv /\ [Next]_vars => BoughtInv'
<1>. SUFFICES ASSUME TypeInv, BoughtInv, [Next]_vars PROVE BoughtInv'
  OBVIOUS
<1>. USE DEF BoughtInv, AfterInv, PayInv, Paying, BoughtIsPaid, rows, talk, past
<1>1. CASE Return
  BY <1>1 DEF TypeInv, Return, Clear, NoData, Show
<1>2. CASE Settings
  BY <1>2 DEF TypeInv, Settings, Say, Show
<1>3. CASE ChangeWallet
  BY <1>3 DEF TypeInv, ChangeWallet, Clear, NoData, Show
<1>4. CASE YesDelete
  BY <1>4 DEF TypeInv, YesDelete, Show
<1>5. CASE AddNew
  BY <1>5 DEF TypeInv, AddNew, Say, Show
<1>6. CASE HaveKey
  BY <1>6 DEF TypeInv, HaveKey, Show
<1>7. CASE ReadOnly
  BY <1>7 DEF TypeInv, ReadOnly, Show
<1>8. CASE SendingPrivate
  BY <1>8 DEF TypeInv, SendingPrivate, Because, Add, Show
<1>9. CASE SendingPublic
  BY <1>9 DEF TypeInv, SendingPublic, Because, Add, Clear, NoData, Show
<1>10. CASE SetPassword
  BY <1>10 DEF TypeInv, SetPassword, Say, Show
<1>11. CASE ChoosePin
  BY <1>11 DEF TypeInv, ChoosePin, Show
<1>12. CASE NoPassword
  BY <1>12 DEF TypeInv, NoPassword, Clear, NoData, Show
<1>13. CASE Enter
  BY <1>13 DEF TypeInv, Enter, Show
<1>14. CASE Again
  BY <1>14 DEF TypeInv, Again, Clear, NoData, Show
<1>15. CASE RemovePassword
  BY <1>15 DEF TypeInv, RemovePassword, Show
<1>16. CASE Unset
  BY <1>16 DEF TypeInv, Unset, Show
<1>17. CASE BuyAddress
  BY <1>17 DEF TypeInv, BuyAddress, Because, Default, NoWallet, Row, Show, Creating
<1>18. CASE Yes
  BY <1>18 DEF TypeInv, Yes, Show
<1>19. CASE Restart
  BY <1>19 DEF TypeInv, Restart, Creating
<1>20. ASSUME NEW w \in Ids, SetActive(w) PROVE BoughtInv'
  BY <1>20 DEF TypeInv, SetActive, Because, Midway
<1>21. ASSUME NEW w \in Ids, AskDelete(w) PROVE BoughtInv'
  <2>1. data'.after = data.after /\ data'.buy = data.buy
    BY <1>21 DEF AskDelete, TypeInv
  <2>. QED
    BY <1>21, <2>1 DEF AskDelete, Show
<1>22. ASSUME NEW h \in Handlers, AddKey(h) PROVE BoughtInv'
  BY <1>22 DEF TypeInv, AddKey, Go, Creating
<1>23. ASSUME NEW h \in Handlers, LockKey(h) PROVE BoughtInv'
  BY <1>23 DEF TypeInv, LockKey, Go, Because, Creating
<1>24. ASSUME NEW h \in Handlers, CreateKey(h) PROVE BoughtInv'
  BY <1>24 DEF TypeInv, CreateKey, Go, Add, Because, Midway, Say, Show, Creating
<1>25. ASSUME NEW h \in Handlers, SubmitKey(h) PROVE BoughtInv'
  BY <1>25 DEF TypeInv, SubmitKey, Go, Say, Show, Creating
<1>26. ASSUME NEW h \in Handlers, EndKey(h) PROVE BoughtInv'
  BY <1>26 DEF TypeInv, EndKey, Go, Creating, Unfree
<1>27. ASSUME NEW h \in Handlers, AddTon(h) PROVE BoughtInv'
  BY <1>27 DEF TypeInv, AddTon, Go, Because, Creating
<1>28. ASSUME NEW h \in Handlers, CreateTon(h) PROVE BoughtInv'
  BY <1>28 DEF TypeInv, CreateTon, Go, Add, Because, Midway, Say, Show, Creating
<1>29. ASSUME NEW h \in Handlers, Sign(h) PROVE BoughtInv'
  BY <1>29 DEF TypeInv, Sign, Go, Because, Show, Creating
<1>30. ASSUME NEW h \in Handlers, Submit(h) PROVE BoughtInv'
  BY <1>30 DEF TypeInv, Submit, Go, Say, Show, Creating
<1>31. ASSUME NEW h \in Handlers, AfterBuy(h) PROVE BoughtInv'
  BY <1>31 DEF TypeInv, AfterBuy, Go, Unfree, Creating
<1>32. CASE UNCHANGED vars
  BY <1>32 DEF TypeInv, vars
<1>. QED
  BY <1>1, <1>2, <1>3, <1>4, <1>5, <1>6, <1>7, <1>8, <1>9, <1>10, <1>11, <1>12, <1>13, <1>14,
     <1>15, <1>16, <1>17, <1>18, <1>19, <1>20, <1>21, <1>22, <1>23, <1>24, <1>25, <1>26, <1>27,
     <1>28, <1>29, <1>30, <1>31, <1>32 DEF Next

-----------------------------------------------------------------------------
\* A new wallet takes a row that was not there.
LEMMA AddedRow ==
  ASSUME TypeInv, NEW kind, NEW pin, NEW key, Add(kind, pin, key)
  PROVE  \E w \in Ids :
           /\ wallets[w].kind = "absent" /\ default' = w /\ w # 0
           /\ \A v \in Ids : wallets'[v] = IF v = w THEN Row(kind, pin, key) ELSE wallets[v]
BY DEF TypeInv, Add, Write, NoWallet, Row, Ids

\* Every step keeps KeptInv and LockIsKnown.
LEMMA LockStep == TypeInv /\ BoughtInv /\ LockInv /\ [Next]_vars => LockInv'
<1>. SUFFICES ASSUME TypeInv, BoughtInv, LockInv, [Next]_vars PROVE LockInv'
  OBVIOUS
<1>. USE DEF LockInv, KeptInv, Excepted, Exceptions, LockIsKnown, Paying, PasswordStates, Active,
     Default, NoWallet, Row, rows, talk, past
<1>1. CASE Return
  BY <1>1 DEF TypeInv, Rows, Return, Clear, NoData, Show
<1>2. CASE Settings
  BY <1>2 DEF TypeInv, Rows, Settings, Say, Show
<1>3. CASE ChangeWallet
  BY <1>3 DEF TypeInv, Rows, ChangeWallet, Clear, NoData, Show
<1>4. CASE YesDelete
  BY <1>4 DEF TypeInv, Rows, YesDelete, BoughtInv, AfterInv, PayInv, Show, Deleted, Write
<1>5. CASE AddNew
  BY <1>5 DEF TypeInv, Rows, AddNew, Say, Show
<1>6. CASE HaveKey
  BY <1>6 DEF TypeInv, Rows, HaveKey, Show
<1>7. CASE ReadOnly
  BY <1>7 DEF TypeInv, Rows, ReadOnly, Show
<1>8. CASE SendingPrivate
  <2>1. Add("own", 1, "id")
    BY <1>8 DEF SendingPrivate
  <2>2. PICK w \in Ids :
          /\ wallets[w].kind = "absent" /\ default' = w /\ w # 0
          /\ \A v \in Ids :
               wallets'[v] = IF v = w THEN Row("own", 1, "id") ELSE wallets[v]
    BY <2>1, AddedRow
  <2>3. CASE Excepted'
    BY <2>3
  <2>4. CASE ~Excepted'
    <3>1. ~Excepted /\ \A g \in Handlers : ~Paying(g)
      BY <1>8, <2>4 DEF SendingPrivate, Because, Midway
    <3>2. at' = at /\ source' = source /\ data' = data /\ paid' = paid
      BY <1>8 DEF SendingPrivate
    <3>3. data.buy # 0 => data.buy \in Ids
      BY DEF TypeInv, Ids
    <3>8. KeptInv'
      BY <2>2, <2>4, <3>1, <3>2, <3>3
    <3>9. LockIsKnown'
      BY <2>2, <2>4, <3>1, <3>2 DEF TypeInv, Rows
    <3>. QED
      BY <3>8, <3>9
  <2>. QED
    BY <2>3, <2>4
<1>9. CASE SendingPublic
  <2>1. Add("own", 10, "none")
    BY <1>9 DEF SendingPublic
  <2>2. PICK w \in Ids :
          /\ wallets[w].kind = "absent" /\ default' = w /\ w # 0
          /\ \A v \in Ids :
               wallets'[v] = IF v = w THEN Row("own", 10, "none") ELSE wallets[v]
    BY <2>1, AddedRow
  <2>3. CASE Excepted'
    BY <2>3
  <2>4. CASE ~Excepted'
    <3>1. ~Excepted /\ \A g \in Handlers : ~Paying(g)
      BY <1>9, <2>4 DEF SendingPublic, Because, Midway
    <3>2. /\ at' = at /\ source' = source /\ paid' = paid
         /\ data'.buy = 0 /\ fsm' = "none" /\ screen' = "menu"
      BY <1>9 DEF SendingPublic, Clear, NoData, Show
    <3>3. data.buy # 0 => data.buy \in Ids
      BY DEF TypeInv, Ids
    <3>8. KeptInv'
      BY <2>2, <2>4, <3>1, <3>2, <3>3
    <3>9. LockIsKnown'
      BY <2>2, <2>4, <3>1, <3>2 DEF TypeInv, Rows
    <3>. QED
      BY <3>8, <3>9
  <2>. QED
    BY <2>3, <2>4
<1>10. CASE SetPassword
  BY <1>10 DEF TypeInv, Rows, SetPassword, Say, Show
<1>11. CASE ChoosePin
  BY <1>11 DEF TypeInv, Rows, ChoosePin, Show
<1>12. CASE NoPassword
  BY <1>12 DEF TypeInv, Rows, NoPassword, Clear, NoData, Show, Protect, Write
<1>13. CASE Enter
  BY <1>13 DEF TypeInv, Rows, Enter, Show
<1>14. CASE Again
  BY <1>14 DEF TypeInv, Rows, Again, Clear, NoData, Show, Protect, Write
<1>15. CASE RemovePassword
  BY <1>15 DEF TypeInv, Rows, RemovePassword, Show
<1>16. CASE Unset
  <2>1. CASE UNCHANGED wallets
    BY <1>16, <2>1 DEF Unset, Show
  <2>2. CASE Excepted
    BY <1>16, <2>2 DEF Unset
  <2>3. CASE ~Excepted /\ default # 0 /\ Write(default, Row(Default.kind, 0, "id"))
    <3>1. default \in Ids /\ Default = wallets[default]
      BY <2>3, DefaultType
    <3>3. /\ default' = default /\ fsm' = "none" /\ screen' = "info" /\ data' = data
          /\ at' = at /\ source' = source /\ paid' = paid /\ causes' = causes
          /\ data.buy # 0 => data.buy \in Ids
      BY <1>16 DEF Unset, Show, TypeInv, Ids
    <3>4. \A v \in Ids :
            /\ wallets'[v].kind = wallets[v].kind
            /\ wallets'[v].pin = IF v = default THEN 0 ELSE wallets[v].pin
            /\ wallets'[v].lock = IF v = default THEN "id" ELSE wallets[v].lock
      <4>1. ASSUME NEW v \in Ids, v # default PROVE wallets'[v] = wallets[v]
        BY <2>3, <4>1 DEF Write, TypeInv
      <4>2. wallets'[default] = Row(wallets[default].kind, 0, "id")
        BY <2>3, <3>1 DEF Write, TypeInv
      <4>. QED
        BY <4>1, <4>2
    <3>8. KeptInv'
      BY <2>3, <3>1, <3>3, <3>4
    <3>9. LockIsKnown'
      BY <2>3, <3>3, <3>4
    <3>. QED
      BY <3>8, <3>9
  <2>. QED
    BY <1>16, <2>1, <2>2, <2>3 DEF Unset
<1>17. CASE BuyAddress
  <2>1. Default.kind = "free" /\ default \in Ids /\ Default = wallets[default]
    BY <1>17, DefaultType DEF BuyAddress
  <2>2. data'.buy \in {data.buy, default} /\ wallets' = wallets /\ default' = default
    BY <1>17 DEF BuyAddress, TypeInv
  <2>. QED
    BY <1>17, <2>1, <2>2 DEF BuyAddress, Because, Show
<1>18. CASE Yes
  BY <1>18 DEF TypeInv, Rows, Yes, Show
<1>19. CASE Restart
  BY <1>19 DEF TypeInv, Rows, Restart, Creating
<1>20. ASSUME NEW w \in Ids, SetActive(w) PROVE LockInv'
  <2>1. UNCHANGED <<wallets, lock, at, source, talk, paid>> /\ default' = w
    BY <1>20 DEF SetActive
  <2>2. causes \subseteq causes' /\ (w # default /\ Midway => "switched" \in causes')
    BY <1>20 DEF SetActive, Because
  <2>3. LockIsKnown'
    BY <2>1, <2>2
  <2>4. CASE w = default
    <3>1. UNCHANGED <<wallets, default, at, source, talk, paid>>
      BY <2>1, <2>4
    <3>2. CASE Excepted
      BY <2>2, <3>2
    <3>3. CASE ~Excepted
      BY <2>3, <3>1, <3>3
    <3>. QED
      BY <3>2, <3>3
  <2>5. CASE ~Midway
    <3>1. /\ \A h \in Handlers : ~Paying(h)
          /\ fsm \notin PasswordStates /\ screen # "choose"
      BY <2>5 DEF Midway
    <3>2. KeptInv'
      BY <2>1, <2>2, <3>1
    <3>. QED
      BY <2>3, <3>2
  <2>6. CASE "switched" \in causes'
    BY <2>3, <2>6
  <2>. QED
    BY <2>2, <2>4, <2>5, <2>6
<1>21. ASSUME NEW w \in Ids, AskDelete(w) PROVE LockInv'
  <2>1. data'.buy = data.buy
    BY <1>21 DEF AskDelete, TypeInv
  <2>. QED
    BY <1>21, <2>1 DEF AskDelete, Show
<1>22. ASSUME NEW h \in Handlers, AddKey(h) PROVE LockInv'
  BY <1>22 DEF TypeInv, Rows, AddKey, Go, Creating
<1>23. ASSUME NEW h \in Handlers, LockKey(h) PROVE LockInv'
  BY <1>23 DEF TypeInv, Rows, LockKey, Go, Because, Creating
<1>24. ASSUME NEW h \in Handlers, CreateKey(h) PROVE LockInv'
  <2>1. Add("free", 0, "id")
    BY <1>24 DEF CreateKey
  <2>2. PICK w \in Ids :
          /\ wallets[w].kind = "absent" /\ default' = w /\ w # 0
          /\ \A v \in Ids :
               wallets'[v] = IF v = w THEN Row("free", 0, "id") ELSE wallets[v]
    BY <2>1, AddedRow
  <2>3. CASE Excepted'
    BY <2>3
  <2>4. CASE ~Excepted'
    <3>1. ~Excepted /\ (\A g \in Handlers : ~Paying(g)) /\ fsm \notin PasswordStates
      BY <1>24, <2>4 DEF CreateKey, Because, Midway
    <3>2. /\ \A g \in Handlers : ~Paying(g) => at'[g] \notin {"submit", "after"}
         /\ source' = source /\ data' = data /\ paid' = paid /\ fsm' = fsm /\ screen' = "info"
      BY <1>24 DEF CreateKey, Go, Say, Show, TypeInv
    <3>3. data.buy # 0 => data.buy \in Ids
      BY DEF TypeInv, Ids
    <3>8. KeptInv'
      BY <2>2, <2>4, <3>1, <3>2, <3>3
    <3>9. LockIsKnown'
      BY <2>2, <2>4, <3>1, <3>2 DEF TypeInv, Rows
    <3>. QED
      BY <3>8, <3>9
  <2>. QED
    BY <2>3, <2>4
<1>25. ASSUME NEW h \in Handlers, SubmitKey(h) PROVE LockInv'
  BY <1>25 DEF TypeInv, Rows, SubmitKey, Go, Say, Show, Creating
<1>26. ASSUME NEW h \in Handlers, EndKey(h) PROVE LockInv'
  BY <1>26 DEF TypeInv, Rows, EndKey, BoughtInv, AfterInv, PayInv, Go, Creating, Unfree, Write
<1>27. ASSUME NEW h \in Handlers, AddTon(h) PROVE LockInv'
  BY <1>27 DEF TypeInv, Rows, AddTon, Go, Because, Creating
<1>28. ASSUME NEW h \in Handlers, CreateTon(h) PROVE LockInv'
  <2>1. Add("free", 0, "id")
    BY <1>28 DEF CreateTon
  <2>2. PICK w \in Ids :
          /\ wallets[w].kind = "absent" /\ default' = w /\ w # 0
          /\ \A v \in Ids :
               wallets'[v] = IF v = w THEN Row("free", 0, "id") ELSE wallets[v]
    BY <2>1, AddedRow
  <2>3. CASE Excepted'
    BY <2>3
  <2>4. CASE ~Excepted'
    <3>1. ~Excepted /\ (\A g \in Handlers : ~Paying(g)) /\ fsm \notin PasswordStates
      BY <1>28, <2>4 DEF CreateTon, Because, Midway
    <3>2. /\ \A g \in Handlers : ~Paying(g) => at'[g] \notin {"submit", "after"}
         /\ source' = source /\ data' = data /\ paid' = paid /\ fsm' = fsm /\ screen' = "info"
      BY <1>28 DEF CreateTon, Go, Say, Show, TypeInv
    <3>3. data.buy # 0 => data.buy \in Ids
      BY DEF TypeInv, Ids
    <3>8. KeptInv'
      BY <2>2, <2>4, <3>1, <3>2, <3>3
    <3>9. LockIsKnown'
      BY <2>2, <2>4, <3>1, <3>2 DEF TypeInv, Rows
    <3>. QED
      BY <3>8, <3>9
  <2>. QED
    BY <2>3, <2>4
<1>29. ASSUME NEW h \in Handlers, Sign(h) PROVE LockInv'
  BY <1>29 DEF TypeInv, Rows, Sign, BoughtInv, AfterInv, PayInv, Go, Because, Show, Creating
<1>30. ASSUME NEW h \in Handlers, Submit(h) PROVE LockInv'
  BY <1>30 DEF TypeInv, Rows, Submit, BoughtInv, AfterInv, PayInv, Go, Say, Show, Creating
<1>31. ASSUME NEW h \in Handlers, AfterBuy(h) PROVE LockInv'
  <2>1. CASE Excepted'
    BY <2>1
  <2>2. CASE default = 0
    BY <1>31, <2>2 DEF AfterBuy, Unfree, Go, TypeInv
  <2>3. CASE default # 0 /\ ~Excepted'
    <3>1. ~Excepted /\ "switched" \notin causes
      BY <1>31, <2>3 DEF AfterBuy
    <3>2. at[h] = "after" /\ source[h] = default /\ default \in paid
      BY <1>31, <2>3, <3>1 DEF AfterBuy, Go, BoughtInv, PayInv
    <3>3. \A g \in Handlers : Paying(g) => g = h
      BY <2>3, <3>1, <3>2 DEF BoughtInv, PayInv
    <3>4. \A g \in Handlers : at'[g] \notin {"submit", "after"}
      BY <1>31, <3>3 DEF AfterBuy, Go, TypeInv
    <3>5. default \in Ids /\ Default = wallets[default] /\ Default.lock = "id"
      BY <2>3, <3>1, <3>2, DefaultType
    <3>6. \A v \in Ids : wallets'[v] = IF v = default THEN Row("own", 0, "id") ELSE wallets[v]
      BY <1>31, <2>3, <3>5 DEF AfterBuy, Unfree, Write, TypeInv
    <3>7. /\ default' = default /\ fsm' = fsm /\ screen' = screen /\ data' = data
          /\ paid' = paid /\ (data.buy # 0 => data.buy \in Ids)
      BY <1>31 DEF AfterBuy, TypeInv, Ids
    <3>8. KeptInv'
      BY <3>1, <3>2, <3>4, <3>5, <3>6, <3>7
    <3>9. LockIsKnown'
      BY <1>31, <2>3, <3>1, <3>2, <3>4, <3>5, <3>6 DEF AfterBuy, TypeInv
    <3>. QED
      BY <3>8, <3>9
  <2>. QED
    BY <2>1, <2>2, <2>3
<1>32. CASE UNCHANGED vars
  BY <1>32 DEF TypeInv, Rows, vars
<1>. QED
  BY <1>1, <1>2, <1>3, <1>4, <1>5, <1>6, <1>7, <1>8, <1>9, <1>10, <1>11, <1>12, <1>13, <1>14,
     <1>15, <1>16, <1>17, <1>18, <1>19, <1>20, <1>21, <1>22, <1>23, <1>24, <1>25, <1>26, <1>27,
     <1>28, <1>29, <1>30, <1>31, <1>32 DEF Next

-----------------------------------------------------------------------------
LEMMA TypeInit == Init => TypeInv
<1>1. /\ MaxWallets \in Nat \ {0} /\ 1 \in Ids
      /\ NoData \in [after : BOOLEAN, buy : 0..MaxWallets, idx : 0..MaxWallets]
  BY WalletsAssumption DEF Ids, NoData
<1>2. Row("free", 0, "id") \in Rows /\ NoWallet \in Rows
  BY DEF Row, NoWallet, Rows
<1>. QED
  BY <1>1, <1>2 DEF Init, TypeInv, Row

LEMMA FreeInit == Init => FreeInv
<1>. SUFFICES ASSUME Init PROVE FreeInv
  OBVIOUS
<1>1. Free = {1}
  BY WalletsAssumption DEF Init, Free, Row, NoWallet, Ids
<1>2. Cardinality(Free) = 1
  BY <1>1, FS_Singleton
<1>3. MaxFree \in Nat \ {0}
  BY WalletsAssumption
<1>. QED
  BY <1>2, <1>3 DEF Init, FreeInv, Counted

LEMMA BoughtInit == Init => BoughtInv
BY DEF Init, BoughtInv, AfterInv, PayInv, Paying, BoughtIsPaid, NoData, Creating

LEMMA LockInit == Init => LockInv
BY DEF Init, LockInv, KeptInv, LockIsKnown, Excepted, Paying, PasswordStates, NoData, NoWallet,
       Row, Active, Ids

\* The rows, handlers and FSM data have their types, and the default wallet is never a
\* deleted one: whatever deletes or switches keeps default_wallet and the rows in step.
THEOREM TypesHold == Spec => []TypeInv
<1>1. TypeInv /\ [Next]_vars => TypeInv'
  BY TypeStep
<1>. QED
  BY <1>1, TypeInit, PTL DEF Spec

\* No interleaving of creations under new_wallet_lock, deletions, purchases and restarts
\* gives the user more free wallets than the limit, except next to the creation of a TON
\* wallet (cq_add_new_key() counts again under the lock before AddWallet.execute()).
THEOREM FreeLimitHolds == Spec => []FreeLimit
<1>1. FreeInv => FreeLimit
  BY DEF FreeInv, FreeLimit
<1>2. TypeInv /\ FreeInv /\ [Next]_vars => FreeInv'
  BY FreeStep
<1>. QED
  BY <1>1, <1>2, FreeInit, TypesHold, PTL DEF Spec

\* cmd_after_buy() makes no wallet the user's own whose price was not paid, however payments
\* by several handlers, menus and restarts interleave, unless the default wallet was switched
\* under a payment or "Buy" was pressed during a creation.
THEOREM BoughtIsPaidHolds == Spec => []BoughtIsPaid
<1>1. BoughtInv => BoughtIsPaid
  BY DEF BoughtInv
<1>2. TypeInv /\ BoughtInv /\ [Next]_vars => BoughtInv'
  BY BoughtStep
<1>. QED
  BY <1>1, <1>2, BoughtInit, TypesHold, PTL DEF Spec

\* use_pin and the encryption of the key agree for every wallet, and a free wallet has no
\* PIN, whatever interleaving of password conversations, payments, creations, deletions and
\* restarts ran before, with the exceptions that LockIsKnown names.
THEOREM LockIsKnownHolds == Spec => []LockIsKnown
<1>1. LockInv => LockIsKnown
  BY DEF LockInv
<1>2. TypeInv /\ BoughtInv /\ [Next]_vars => BoughtInv'
  BY BoughtStep
<1>3. TypeInv /\ BoughtInv /\ LockInv /\ [Next]_vars => LockInv'
  BY LockStep
<1>. QED
  BY <1>1, <1>2, <1>3, BoughtInit, LockInit, TypesHold, PTL DEF Spec

=============================================================================
