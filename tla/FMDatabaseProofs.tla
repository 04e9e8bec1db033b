--------------------------- MODULE FMDatabaseProofs ---------------------------
(***************************************************************************)
(* Proofs about FMDatabase.                                                *)
(***************************************************************************)
EXTENDS FMDatabase, TLAPS

\* What the method that runs was given, by where it is.  It comes to a statement
\* only with the database open.
Calls ==
    /\ call.pc = "idle" => call = Idle
    /\ call.pc # "idle" /\ call.method \in Finders => call.arg \in Arg
    /\ call.pc \in {"prepare", "bind", "run"} => call.sql \in SQL
    /\ call.pc = "prepare" /\ call.method # "executeUpdate" => call.slot \in Slots
    /\ call.pc \in {"bind", "step"} => call.slot \in Slots
    /\ call.pc \in {"bind", "run"} => call.stmt \in Stmt /\ opened

\* What the cache, the result sets and the running method point to was prepared
\* once, and the cache is empty while the database is closed.
Pointers ==
    /\ \A s \in Stmt : stmts[s].kept => stmts[s].life # "none"
    /\ \A r \in Slots : slots[r] # Null => stmts[slots[r]].life # "none"
    /\ \A q \in SQL : cache[q] # Null => stmts[cache[q]].life # "none"
    /\ call.pc \in {"bind", "run"} => stmts[call.stmt].life # "none"
    /\ ~opened => \A q \in SQL : cache[q] = Null

CommonInv ==
    /\ TypeOK /\ Calls /\ Pointers
    /\ InUseExactly /\ ClosedMeansReleased /\ TransactionTracked

LEMMA InitCommon == Init => CommonInv
<1> SUFFICES ASSUME Init PROVE CommonInv
  OBVIOUS
<1> USE DEF Init, InitDatabase, Idle, Unprepared
<1>1. TypeOK
  <2>1. StatementsOK
    BY DEF StatementsOK, Lives
  <2>2. CallOK
    BY TimeoutAssumption DEF CallOK
  <2>3. FlagsOK /\ AnswersOK
    BY DEF FlagsOK, AnswersOK
  <2> QED
    BY <2>1, <2>2, <2>3 DEF TypeOK
<1>2. Calls /\ InUseExactly
  BY DEF Calls, InUseExactly
<1>3. Pointers
  BY DEF Pointers
<1>4. ClosedMeansReleased /\ TransactionTracked
  BY DEF ClosedMeansReleased, TransactionTracked, Alive
<1> QED
  BY <1>1, <1>2, <1>3, <1>4 DEF CommonInv

\* A part of the invariant stays as long as the variables it names do.
LEMMA Stays ==
    ASSUME CommonInv
    PROVE  /\ UNCHANGED <<opened, shouldCache, locked, inUse, inTransaction,
                          transaction>> => FlagsOK'
           /\ UNCHANGED <<stmts, cache, slots>> => StatementsOK'
           /\ UNCHANGED call => CallOK'
           /\ UNCHANGED <<answer, faults>> => AnswersOK'
           /\ UNCHANGED <<call, opened>> => Calls'
           /\ UNCHANGED <<stmts, cache, slots, call, opened>> => Pointers'
           /\ UNCHANGED <<inUse, call>> => InUseExactly'
           /\ UNCHANGED <<opened, transaction, stmts>> => ClosedMeansReleased'
           /\ UNCHANGED <<transaction, inTransaction>> => TransactionTracked'
<1> USE DEF CommonInv, TypeOK
<1>1. UNCHANGED <<opened, shouldCache, locked, inUse, inTransaction, transaction>>
      => FlagsOK'
  BY DEF FlagsOK
<1>2. UNCHANGED <<stmts, cache, slots>> => StatementsOK'
  BY DEF StatementsOK
<1>3. UNCHANGED call => CallOK'
  BY DEF CallOK
<1>4. UNCHANGED <<answer, faults>> => AnswersOK'
  BY DEF AnswersOK
<1>5. UNCHANGED <<call, opened>> => Calls'
  BY DEF Calls
<1>6. UNCHANGED <<stmts, cache, slots, call, opened>> => Pointers'
  BY DEF Pointers
<1>7. UNCHANGED <<inUse, call>> => InUseExactly'
  BY DEF InUseExactly
<1>8. UNCHANGED <<opened, transaction, stmts>> => ClosedMeansReleased'
  BY DEF ClosedMeansReleased, Alive
<1>9. UNCHANGED <<transaction, inTransaction>> => TransactionTracked'
  BY DEF TransactionTracked
<1> QED
  BY <1>1, <1>2, <1>3, <1>4, <1>5, <1>6, <1>7, <1>8, <1>9

LEMMA OtherLocksCommon ==
    ASSUME CommonInv, OtherLocks
    PROVE  CommonInv'
<1> USE DEF CommonInv, TypeOK
<1>1. (StatementsOK /\ CallOK /\ AnswersOK /\ Calls /\ Pointers /\ InUseExactly /\ ClosedMeansReleased /\ TransactionTracked)'
  BY Stays DEF OtherLocks
<1>2. FlagsOK'
  BY DEF OtherLocks, FlagsOK
<1> QED
  BY <1>1, <1>2

LEMMA OtherUnlocksCommon ==
    ASSUME CommonInv, OtherUnlocks
    PROVE  CommonInv'
<1> USE DEF CommonInv, TypeOK
<1>1. (StatementsOK /\ CallOK /\ AnswersOK /\ Calls /\ Pointers /\ InUseExactly /\ ClosedMeansReleased /\ TransactionTracked)'
  BY Stays DEF OtherUnlocks
<1>2. FlagsOK'
  BY DEF OtherUnlocks, FlagsOK
<1> QED
  BY <1>1, <1>2

LEMMA OpenCommon ==
    ASSUME CommonInv, Open
    PROVE  CommonInv'
<1> USE DEF CommonInv, TypeOK
<1>1. (StatementsOK /\ CallOK /\ AnswersOK /\ InUseExactly /\ TransactionTracked)'
  BY Stays DEF Open
<1>2. FlagsOK'
  BY DEF Open, FlagsOK
<1>3. Calls'
  BY DEF Open, Calls, CallOK, Idle
<1>4. Pointers'
  BY DEF Open, Pointers, StatementsOK, CallOK, Calls, Idle
<1>5. ClosedMeansReleased'
  BY DEF Open, ClosedMeansReleased, Alive, StatementsOK, FlagsOK, Calls
<1> QED
  BY <1>1, <1>2, <1>3, <1>4, <1>5

LEMMA CloseCommon ==
    ASSUME CommonInv, Close
    PROVE  CommonInv'
<1> USE DEF CommonInv, TypeOK
<1>0. \A s \in Stmt : /\ stmts'[s].life \in {stmts[s].life, "final"}
                      /\ stmts'[s].kept => stmts[s].kept
  BY DEF Close, Forgotten, StatementsOK
<1>1. (CallOK /\ AnswersOK /\ InUseExactly)'
  BY Stays DEF Close
<1>2. FlagsOK'
  BY <1>0, NullAssumption DEF Close, FlagsOK
<1>3. StatementsOK'
  <2>1. cache' \in [SQL -> Stmt \cup {Null}] /\ slots' = slots
    BY DEF Close
  <2>2. stmts' = [s \in Stmt |-> [stmts[s] EXCEPT
                   !.kept = @ /\ \A q \in SQL : cache[q] # s,
                   !.life = IF opened /\ Alive(s) THEN "final" ELSE @]]
    BY DEF Close, Forgotten, StatementsOK
  <2> DEFINE Record == [life : Lives, sql : SQL \cup {Null},
                        arg : Arg \cup {Null}, kept : BOOLEAN]
             new(s) == [stmts[s] EXCEPT
                          !.kept = @ /\ \A q \in SQL : cache[q] # s,
                          !.life = IF opened /\ Alive(s) THEN "final" ELSE @]
  <2>3. ASSUME NEW s \in Stmt PROVE new(s) \in Record
    <3>1. stmts[s] \in Record
      BY DEF StatementsOK
    <3>2. (stmts[s].kept /\ \A q \in SQL : cache[q] # s) \in BOOLEAN
      OBVIOUS
    <3>3. (IF opened /\ Alive(s) THEN "final" ELSE stmts[s].life) \in Lives
      BY <3>1 DEF Lives
    <3> QED
      BY <3>1, <3>2, <3>3
  <2>4. stmts' = [s \in Stmt |-> new(s)]
    BY <2>2
  <2> HIDE DEF new, Record
  <2>5. stmts' \in [Stmt -> Record]
    BY <2>3, <2>4
  <2> QED
    BY <2>1, <2>5 DEF StatementsOK, Record
<1>4. Calls'
  BY <1>0, NullAssumption DEF Close, Calls, CallOK, Idle
<1>5. Pointers'
  <2>1. call'.pc = "idle" /\ ~opened' /\ \A q \in SQL : cache'[q] = Null
    BY DEF Close, Idle
  <2>2. \A r \in Slots : slots'[r] = slots[r] /\ (slots[r] # Null => slots[r] \in Stmt)
    BY DEF Close, StatementsOK
  <2>3. ASSUME NEW s \in Stmt, stmts'[s].kept
        PROVE  stmts'[s].life # "none"
    <3>1. stmts[s].kept
      BY <1>0, <2>3
    <3>2. stmts[s].life # "none"
      BY <3>1 DEF Pointers
    <3> QED
      BY <1>0, <3>2
  <2>4. ASSUME NEW r \in Slots, slots'[r] # Null
        PROVE  stmts'[slots'[r]].life # "none"
    <3>1. slots[r] \in Stmt /\ slots'[r] = slots[r]
      BY <2>2, <2>4
    <3>2. stmts[slots[r]].life # "none"
      BY <2>2, <2>4 DEF Pointers
    <3> QED
      BY <1>0, <3>1, <3>2
  <2> QED
    BY <2>1, <2>3, <2>4 DEF Pointers
<1>6. ClosedMeansReleased'
  <2>1. \A s \in Stmt : stmts'[s].life = IF opened /\ Alive(s) THEN "final"
                                         ELSE stmts[s].life
    BY DEF Close, Forgotten, StatementsOK
  <2>2. ~transaction'
    BY DEF Close, ClosedMeansReleased, FlagsOK
  <2>3. \A s \in Stmt : stmts'[s].life \notin {"ready", "row", "done"}
    <3>1. CASE opened
      BY <2>1, <3>1 DEF Alive
    <3>2. CASE ~opened
      BY <2>1, <3>2 DEF Alive, ClosedMeansReleased
    <3> QED
      BY <3>1, <3>2
  <2> QED
    BY <2>2, <2>3 DEF ClosedMeansReleased, Alive
<1>7. TransactionTracked'
  BY <1>0, NullAssumption DEF Close, TransactionTracked, FlagsOK
<1> QED
  BY <1>1, <1>2, <1>3, <1>4, <1>5, <1>6, <1>7

LEMMA SetShouldCacheCommon ==
    ASSUME CommonInv, NEW b \in BOOLEAN, SetShouldCacheStatements(b)
    PROVE  CommonInv'
<1> USE DEF CommonInv, TypeOK
<1>1. (CallOK /\ AnswersOK /\ Calls /\ InUseExactly /\ ClosedMeansReleased /\ TransactionTracked)'
  BY Stays DEF SetShouldCacheStatements
<1>2. FlagsOK'
  BY NullAssumption DEF SetShouldCacheStatements, FlagsOK
<1>3. StatementsOK'
  BY NullAssumption DEF SetShouldCacheStatements, StatementsOK
<1>4. Pointers'
  BY NullAssumption DEF SetShouldCacheStatements, Pointers, StatementsOK, CallOK, Calls, Idle
<1> QED
  BY <1>1, <1>2, <1>3, <1>4

LEMMA EnterCommon ==
    ASSUME CommonInv, NEW m \in {"executeQuery", "executeUpdate"} \cup Finders,
           NEW q \in SQL, NEW a \in Arg \cup {Null}, NEW r \in Slots \cup {Null},
           NEW ready \in {"bind", "run"},
           m \in Finders => a \in Arg,
           m # "executeUpdate" \/ ready = "bind" => r \in Slots,
           Enter(m, q, a, r, ready)
    PROVE  CommonInv'
<1> USE DEF CommonInv, TypeOK
<1>1. (StatementsOK /\ AnswersOK /\ ClosedMeansReleased /\ TransactionTracked)'
  BY Stays DEF Enter
<1>2. FlagsOK'
  BY TimeoutAssumption, NullAssumption DEF Enter, FlagsOK
<1>3. CallOK'
  BY TimeoutAssumption DEF Enter, CallOK, StatementsOK
<1>4. Calls'
  BY TimeoutAssumption, NullAssumption DEF Enter, Calls, CallOK, Idle, Pointers, StatementsOK
<1>5. Pointers'
  BY TimeoutAssumption, NullAssumption DEF Enter, Pointers, StatementsOK, CallOK, Calls, Idle
<1>6. InUseExactly'
  BY TimeoutAssumption, NullAssumption DEF Enter, InUseExactly, CallOK, FlagsOK, Calls, Idle
<1> QED
  BY <1>1, <1>2, <1>3, <1>4, <1>5, <1>6

LEMMA NextRowCommon ==
    ASSUME CommonInv, NEW r \in Slot, NextRow(r)
    PROVE  CommonInv'
<1> USE DEF CommonInv, TypeOK
<1>1. (FlagsOK /\ StatementsOK /\ AnswersOK /\ ClosedMeansReleased /\ TransactionTracked)'
  BY Stays DEF NextRow
<1>2. CallOK'
  BY NullAssumption DEF NextRow, CallOK, Idle, MayTouch, Slots, Finders
<1>3. Calls'
  BY NullAssumption DEF NextRow, Calls, CallOK, Idle, MayTouch, Slots, Finders
<1>4. Pointers'
  BY NullAssumption DEF NextRow, Pointers, StatementsOK, CallOK, Calls, Idle, MayTouch, Slots, Finders
<1>5. InUseExactly'
  BY NullAssumption DEF NextRow, InUseExactly, CallOK, FlagsOK, Calls, Idle, MayTouch, Slots, Finders
<1> QED
  BY <1>1, <1>2, <1>3, <1>4, <1>5

LEMMA CloseResultSetCommon ==
    ASSUME CommonInv, NEW r \in Slot, CloseResultSet(r)
    PROVE  CommonInv'
<1> USE DEF CommonInv, TypeOK
<1>1. (FlagsOK /\ CallOK /\ AnswersOK /\ Calls /\ InUseExactly /\ ClosedMeansReleased /\ TransactionTracked)'
  BY Stays DEF CloseResultSet
<1>2. StatementsOK'
  BY NullAssumption DEF CloseResultSet, StatementsOK, Slots
<1>3. Pointers'
  BY NullAssumption DEF CloseResultSet, Pointers, StatementsOK, CallOK, Calls, Idle, Slots
<1> QED
  BY <1>1, <1>2, <1>3

LEMMA ReadColumnCommon ==
    ASSUME CommonInv, NEW r \in Slot, ReadColumn(r)
    PROVE  CommonInv'
<1> USE DEF CommonInv, TypeOK
<1>1. (FlagsOK /\ StatementsOK /\ CallOK /\ Calls /\ Pointers /\ InUseExactly /\ ClosedMeansReleased /\ TransactionTracked)'
  BY Stays DEF ReadColumn
<1>2. AnswersOK'
  BY NullAssumption DEF ReadColumn, AnswersOK, Misused
<1> QED
  BY <1>1, <1>2

LEMMA RetryCommon ==
    ASSUME CommonInv, call.pc # "idle", ~TimedOut, Retry,
           UNCHANGED <<opened, stmts, cache, shouldCache, inUse, inTransaction,
                       transaction, locked, slots, answer, faults>>
    PROVE  CommonInv'
<1> USE DEF CommonInv, TypeOK
<1>1. (FlagsOK /\ StatementsOK /\ AnswersOK /\ ClosedMeansReleased /\ TransactionTracked)'
  BY Stays DEF Retry
<1>2. CallOK'
  BY TimeoutAssumption, NullAssumption DEF Retry, CallOK, Idle, TimedOut
<1>3. Calls'
  BY TimeoutAssumption, NullAssumption DEF Retry, Calls, CallOK, Idle, TimedOut
<1>4. Pointers'
  BY TimeoutAssumption, NullAssumption DEF Retry, Pointers, StatementsOK, CallOK, Calls, Idle, TimedOut
<1>5. InUseExactly'
  BY TimeoutAssumption, NullAssumption DEF Retry, InUseExactly, CallOK, FlagsOK, Calls, Idle, TimedOut
<1> QED
  BY <1>1, <1>2, <1>3, <1>4, <1>5

LEMMA ReturnNothingCommon ==
    ASSUME CommonInv, call.pc = "prepare", ReturnNothing,
           UNCHANGED <<opened, stmts, cache, shouldCache, inTransaction,
                       transaction, locked, faults>>
    PROVE  CommonInv'
<1> USE DEF CommonInv, TypeOK
<1>1. (ClosedMeansReleased /\ TransactionTracked)'
  BY Stays DEF ReturnNothing
<1>2. FlagsOK'
  BY TimeoutAssumption, NullAssumption DEF ReturnNothing, FlagsOK
<1>3. StatementsOK'
  BY TimeoutAssumption, NullAssumption DEF ReturnNothing, StatementsOK, Calls
<1>4. CallOK'
  BY TimeoutAssumption, NullAssumption DEF ReturnNothing, CallOK, Idle
<1>5. AnswersOK'
  BY TimeoutAssumption, NullAssumption DEF ReturnNothing, AnswersOK, Answer, Calls
<1>6. Calls'
  BY TimeoutAssumption, NullAssumption DEF ReturnNothing, Calls, CallOK, Idle
<1>7. Pointers'
  BY TimeoutAssumption, NullAssumption DEF ReturnNothing, Pointers, StatementsOK, CallOK, Calls, Idle
<1>8. InUseExactly'
  BY TimeoutAssumption, NullAssumption DEF ReturnNothing, InUseExactly, CallOK, FlagsOK, Calls, Idle
<1> QED
  BY <1>1, <1>2, <1>3, <1>4, <1>5, <1>6, <1>7, <1>8

LEMMA PrepareBusyCommon ==
    ASSUME CommonInv, PrepareBusy
    PROVE  CommonInv'
<1>1. CASE TimedOut
  BY <1>1, ReturnNothingCommon DEF PrepareBusy
<1>2. CASE ~TimedOut
  BY <1>2, RetryCommon DEF PrepareBusy
<1> QED
  BY <1>1, <1>2

LEMMA PrepareFailsCommon ==
    ASSUME CommonInv, PrepareFails
    PROVE  CommonInv'
BY ReturnNothingCommon DEF PrepareFails

LEMMA PrepareCommon ==
    ASSUME CommonInv, Prepare
    PROVE  CommonInv'
<1> USE DEF CommonInv, TypeOK
<1>0. Fresh \in Stmt /\ Fresh \in Free
  BY DEF Prepare, Fresh, Free
<1>1. (FlagsOK /\ AnswersOK /\ TransactionTracked)'
  BY Stays DEF Prepare
<1>2. StatementsOK'
  BY <1>0, NullAssumption DEF Prepare, StatementsOK, CallOK, Calls, Unprepared, Lives
<1>3. CallOK'
  <2>1. /\ call' \in [method : Finders \cup {"executeQuery", "executeUpdate", "next",
                                              Null},
                       pc : {"idle", "prepare", "bind", "step", "run"},
                       sql : SQL \cup {Null}, arg : Arg \cup {Null},
                       slot : Slots \cup {Null}, stmt : Stmt \cup {Null},
                       hit : BOOLEAN, tries : Nat]
        /\ call'.tries = 0
    BY <1>0 DEF Prepare, CallOK
  <2>2. Timeout # 0 => 0 <= Timeout + 1
    BY TimeoutAssumption
  <2> QED
    BY <2>1, <2>2 DEF CallOK
<1>4. Calls'
  BY <1>0, NullAssumption DEF Prepare, Calls, CallOK, Idle, Unprepared, Lives
<1>5. Pointers'
  BY <1>0, NullAssumption DEF Prepare, Pointers, StatementsOK, CallOK, Calls, Idle, Unprepared, Lives
<1>6. InUseExactly'
  BY <1>0, NullAssumption DEF Prepare, InUseExactly, CallOK, FlagsOK, Calls, Idle, Unprepared, Lives
<1>7. ClosedMeansReleased'
  BY <1>0, NullAssumption DEF Prepare, ClosedMeansReleased, Alive, StatementsOK, FlagsOK, Calls, Unprepared, Lives
<1> QED
  BY <1>1, <1>2, <1>3, <1>4, <1>5, <1>6, <1>7

LEMMA MakeResultSetCommon ==
    ASSUME CommonInv, MakeResultSet
    PROVE  CommonInv'
<1> USE DEF CommonInv, TypeOK
<1>1. (TransactionTracked)'
  BY Stays DEF MakeResultSet
<1>2. FlagsOK'
  BY TimeoutAssumption, NullAssumption DEF MakeResultSet, FlagsOK, Bound, Calls
<1>3. StatementsOK'
  BY TimeoutAssumption, NullAssumption DEF MakeResultSet, StatementsOK, Cached, CallOK, Bound, Calls
<1>4. CallOK'
  <2>1. CASE call' = Idle
    BY <2>1, TimeoutAssumption DEF CallOK, Idle
  <2>2. CASE call' = [call EXCEPT !.pc = "step", !.tries = 0]
    <3>1. call'.tries = 0 /\ 0 <= Timeout + 1
      BY <2>2, TimeoutAssumption DEF CallOK
    <3>2. call' \in [method : Finders \cup {"executeQuery", "executeUpdate",
                                            "next", Null},
                     pc : {"idle", "prepare", "bind", "step", "run"},
                     sql : SQL \cup {Null}, arg : Arg \cup {Null},
                     slot : Slots \cup {Null}, stmt : Stmt \cup {Null},
                     hit : BOOLEAN, tries : Nat]
      BY <2>2 DEF CallOK
    <3> QED
      BY <3>1, <3>2 DEF CallOK
  <2> QED
    BY <2>1, <2>2 DEF MakeResultSet
<1>5. AnswersOK'
  <2>1. CASE call.method = "goodConnection"
    <3>1. answer' = [of |-> call.method, arg |-> call.arg, yes |-> TRUE,
                     failed |-> FALSE]
      BY <2>1 DEF MakeResultSet, Answer, Finders
    <3>2. call.method \in Finders /\ call.arg \in Arg
      BY <2>1 DEF MakeResultSet, Calls, Finders
    <3> QED
      BY <3>1, <3>2 DEF MakeResultSet, AnswersOK, Misused
  <2>2. CASE call.method # "goodConnection"
    BY <2>2 DEF MakeResultSet, AnswersOK, Misused
  <2> QED
    BY <2>1, <2>2
<1>6. Calls'
  BY TimeoutAssumption, NullAssumption DEF MakeResultSet, Calls, CallOK, Idle, Bound
<1>7. Pointers'
  BY TimeoutAssumption, NullAssumption DEF MakeResultSet, Pointers, StatementsOK, CallOK, Calls, Idle, Cached, Bound
<1>8. InUseExactly'
  BY TimeoutAssumption, NullAssumption DEF MakeResultSet, InUseExactly, CallOK, FlagsOK, Calls, Idle, Bound
<1>9. ClosedMeansReleased'
  BY TimeoutAssumption, NullAssumption DEF MakeResultSet, ClosedMeansReleased, Alive, StatementsOK, FlagsOK, Calls, Bound
<1> QED
  BY <1>1, <1>2, <1>3, <1>4, <1>5, <1>6, <1>7, <1>8, <1>9

LEMMA IdleCall ==
    ASSUME call' = Idle
    PROVE  CallOK' /\ Calls'
<1>1. CallOK'
  BY TimeoutAssumption DEF CallOK, Idle
<1>2. Calls'
  BY DEF Calls, Idle
<1> QED
  BY <1>1, <1>2

\* What the running method gives up when it ends without a row.
LEMMA NoRowCommon ==
    ASSUME CommonInv, call.pc = "step", NEW failed \in BOOLEAN, NoRow(failed),
           UNCHANGED <<opened, cache, shouldCache, inUse, inTransaction,
                       transaction, locked>>,
           stmts' = stmts \/ \E s \in Stmt : /\ Alive(s)
                                            /\ stmts' = [stmts EXCEPT ![s].life = "done"],
           faults' \subseteq {"released statement"}
    PROVE  CommonInv'
<1> USE DEF CommonInv, TypeOK
<1>a. call' = Idle
  BY DEF NoRow
<1>b. /\ call.slot \in Slots
      /\ slots' = [slots EXCEPT ![call.slot] = Null]
  BY DEF NoRow, Calls
<1>c. stmts' \in [Stmt -> [life : Lives, sql : SQL \cup {Null},
                          arg : Arg \cup {Null}, kept : BOOLEAN]]
  <2>1. CASE stmts' = stmts
    BY <2>1 DEF StatementsOK
  <2>2. ASSUME NEW s \in Stmt, stmts' = [stmts EXCEPT ![s].life = "done"]
        PROVE  stmts' \in [Stmt -> [life : Lives, sql : SQL \cup {Null},
                                   arg : Arg \cup {Null}, kept : BOOLEAN]]
    <3> DEFINE Record == [life : Lives, sql : SQL \cup {Null},
                          arg : Arg \cup {Null}, kept : BOOLEAN]
    <3>1. stmts \in [Stmt -> Record] /\ "done" \in Lives
      BY DEF StatementsOK, Lives
    <3>2. stmts[s] \in Record
      BY <3>1
    <3>3. [stmts[s] EXCEPT !.life = "done"] \in Record
      BY <3>1, <3>2
    <3> HIDE DEF Record
    <3>4. stmts' \in [Stmt -> Record]
      BY <2>2, <3>1, <3>3
    <3> QED
      BY <3>4 DEF Record
  <2> QED
    BY <2>1, <2>2
<1>0. call.slot \in Slots /\ slots' = [slots EXCEPT ![call.slot] = Null]
      /\ call' = Idle
  BY <1>a, <1>b
<1>1. \A s \in Stmt : /\ stmts'[s].kept = stmts[s].kept
                      /\ stmts[s].life # "none" => stmts'[s].life # "none"
                      /\ Alive(s)' => Alive(s)
  <2>1. CASE stmts' = stmts
    BY <2>1 DEF Alive
  <2>2. ASSUME NEW t \in Stmt, Alive(t), stmts' = [stmts EXCEPT ![t].life = "done"],
               NEW s \in Stmt
        PROVE  /\ stmts'[s].kept = stmts[s].kept
               /\ stmts[s].life # "none" => stmts'[s].life # "none"
               /\ Alive(s)' => Alive(s)
    <3>1. CASE s = t
      <4>1. stmts'[s] = [stmts[s] EXCEPT !.life = "done"]
        BY <2>2, <3>1 DEF StatementsOK
      <4>0. stmts[s] \in [life : Lives, sql : SQL \cup {Null},
                          arg : Arg \cup {Null}, kept : BOOLEAN]
        BY DEF StatementsOK
      <4>2. stmts'[s].kept = stmts[s].kept /\ stmts'[s].life = "done"
        BY <4>0, <4>1
      <4>3. Alive(s)
        BY <2>2, <3>1
      <4> QED
        BY <4>2, <4>3
    <3>2. CASE s # t
      <4>1. stmts'[s] = stmts[s]
        BY <2>2, <3>2 DEF StatementsOK
      <4> QED
        BY <4>1 DEF Alive
    <3> QED
      BY <3>1, <3>2
  <2> QED
    BY <2>1, <2>2
<1>2. TransactionTracked'
  BY Stays
<1>3. FlagsOK'
  BY DEF FlagsOK
<1>4. StatementsOK'
  BY <1>b, <1>c DEF StatementsOK
<1>5. CallOK'
  BY <1>a, IdleCall
<1>6. AnswersOK'
  BY DEF NoRow, Answer, AnswersOK, Calls
<1>7. Calls'
  BY <1>0 DEF Calls, Idle, CallOK
<1>8. Pointers'
  <2>1. \A s \in Stmt : stmts'[s].kept => stmts'[s].life # "none"
    BY <1>1 DEF Pointers
  <2>2. \A r \in Slots : slots'[r] # Null => slots'[r] \in Stmt /\ slots'[r] = slots[r]
    BY <1>0 DEF StatementsOK
  <2>3. \A r \in Slots : slots'[r] # Null => stmts'[slots'[r]].life # "none"
    BY <1>1, <2>2 DEF Pointers
  <2>4. \A q \in SQL : cache[q] # Null => stmts'[cache[q]].life # "none"
    BY <1>1 DEF Pointers, StatementsOK
  <2> QED
    BY <1>0, <2>1, <2>3, <2>4 DEF Pointers, Idle
<1>9. InUseExactly'
  BY <1>0 DEF InUseExactly, Idle
<1>10. ClosedMeansReleased'
  BY <1>1 DEF ClosedMeansReleased
<1> QED
  BY <1>2, <1>3, <1>4, <1>5, <1>6, <1>7, <1>8, <1>9, <1>10

LEMMA StatementType ==
    ASSUME StatementsOK, NEW r \in Slots
    PROVE  Statement(r) \in Stmt \cup {Null}
BY DEF StatementsOK, Statement

LEMMA StepBusyCommon ==
    ASSUME CommonInv, StepBusy
    PROVE  CommonInv'
<1>1. call.pc = "step" /\ faults \subseteq {"released statement"}
  BY DEF StepBusy, CommonInv, TypeOK, AnswersOK
<1>2. CASE TimedOut
  BY <1>1, <1>2, NoRowCommon DEF StepBusy
<1>3. CASE ~TimedOut
  BY <1>1, <1>3, RetryCommon DEF StepBusy
<1> QED
  BY <1>2, <1>3

LEMMA StepFailsCommon ==
    ASSUME CommonInv, StepFails
    PROVE  CommonInv'
<1> DEFINE s == Statement(call.slot)
<1>1. call.pc = "step" /\ faults \subseteq {"released statement"}
  BY DEF StepFails, CommonInv, TypeOK, AnswersOK
<1>2. s \in Stmt \cup {Null} /\ s # Null => stmts[s].life # "none"
  BY <1>1, StatementType DEF CommonInv, TypeOK, Calls, Pointers, Statement
<1>3. stmts' = stmts \/ (s \in Stmt /\ Alive(s) /\ stmts' = [stmts EXCEPT ![s].life = "done"])
  BY <1>2 DEF StepFails, CommonInv, TypeOK, StatementsOK, Lives, Alive, Dangling
<1>4. faults' \subseteq {"released statement"}
  BY <1>1 DEF StepFails, Misused
<1> QED
  BY <1>1, <1>3, <1>4, NoRowCommon DEF StepFails

LEMMA StepRowCommon ==
    ASSUME CommonInv, StepRow
    PROVE  CommonInv'
<1> USE DEF CommonInv, TypeOK
<1> DEFINE s == Statement(call.slot)
<1>0. /\ call.pc = "step" /\ opened
      /\ s \in Stmt /\ Alive(s) /\ stmts' = [stmts EXCEPT ![s].life = "row"]
      /\ call.slot \in Slots
  BY StatementType DEF StepRow, Calls, Alive
<1>1. \/ call' = Idle
      \/ call' = [call EXCEPT !.tries = 0]
  BY DEF StepRow
<1>2. \A r \in Slots : slots'[r] \in {slots[r], Null}
  BY <1>0 DEF StepRow, StatementsOK
<1>3. (FlagsOK /\ TransactionTracked)'
  BY Stays DEF StepRow
<1>4. StatementsOK'
  BY <1>0 DEF StepRow, StatementsOK, Lives
<1>5. CallOK'
  <2>1. CASE call' = Idle
    BY <2>1, TimeoutAssumption DEF CallOK, Idle
  <2>2. CASE call' = [call EXCEPT !.tries = 0]
    <3>1. call'.tries = 0 /\ 0 <= Timeout + 1
      BY <2>2, TimeoutAssumption DEF CallOK
    <3>2. call' \in [method : Finders \cup {"executeQuery", "executeUpdate",
                                            "next", Null},
                     pc : {"idle", "prepare", "bind", "step", "run"},
                     sql : SQL \cup {Null}, arg : Arg \cup {Null},
                     slot : Slots \cup {Null}, stmt : Stmt \cup {Null},
                     hit : BOOLEAN, tries : Nat]
      BY <2>2 DEF CallOK
    <3> QED
      BY <3>1, <3>2 DEF CallOK
  <2> QED
    BY <1>1, <2>1, <2>2
<1>6. AnswersOK'
  <2>1. CASE UNCHANGED answer
    BY <2>1 DEF StepRow, AnswersOK
  <2>2. CASE Answer(TRUE, FALSE) /\ call.method \notin Finders
    BY <2>2 DEF StepRow, AnswersOK, Answer
  <2>3. CASE Answer(TRUE, FALSE) /\ call.method \in Finders
    <3>1. answer' = [of |-> call.method, arg |-> call.arg, yes |-> TRUE,
                     failed |-> FALSE]
      BY <2>3 DEF Answer
    <3>2. call.arg \in Arg
      BY <1>0, <2>3 DEF Calls
    <3> QED
      BY <2>3, <3>1, <3>2 DEF StepRow, AnswersOK
  <2> QED
    BY <2>1, <2>2, <2>3 DEF StepRow
<1>7. Calls'
  <2>1. CASE call' = Idle
    BY <2>1 DEF Calls, Idle, CallOK
  <2>2. CASE call' = [call EXCEPT !.tries = 0]
    BY <1>0, <2>2 DEF Calls, CallOK
  <2> QED
    BY <1>1, <2>1, <2>2
<1>8. Pointers'
  <2>1. \A t \in Stmt : /\ stmts'[t].kept = stmts[t].kept
                        /\ stmts[t].life # "none" => stmts'[t].life # "none"
    BY <1>0 DEF StatementsOK
  <2>2. \A t \in Stmt : stmts'[t].kept => stmts'[t].life # "none"
    BY <2>1 DEF Pointers
  <2>3. \A r \in Slots : slots'[r] # Null => stmts'[slots'[r]].life # "none"
    BY <1>2, <2>1 DEF Pointers, StatementsOK
  <2>4. \A q \in SQL : cache'[q] # Null => stmts'[cache'[q]].life # "none"
    BY <2>1 DEF StepRow, Pointers, StatementsOK
  <2>5. call'.pc \notin {"bind", "run"} /\ opened'
    BY <1>0, <1>1 DEF StepRow, Idle, CallOK
  <2> QED
    BY <2>2, <2>3, <2>4, <2>5 DEF Pointers
<1>9. InUseExactly'
  BY <1>0, <1>1 DEF StepRow, InUseExactly, Idle, CallOK
<1>10. ClosedMeansReleased'
  BY <1>0 DEF StepRow, ClosedMeansReleased
<1> QED
  BY <1>3, <1>4, <1>5, <1>6, <1>7, <1>8, <1>9, <1>10

LEMMA StepDoneCommon ==
    ASSUME CommonInv, StepDone
    PROVE  CommonInv'
<1> DEFINE s == Statement(call.slot)
<1>1. call.pc = "step" /\ faults \subseteq {"released statement"}
  BY DEF StepDone, CommonInv, TypeOK, AnswersOK
<1>2. s \in Stmt /\ Alive(s) /\ stmts' = [stmts EXCEPT ![s].life = "done"]
  BY <1>1, StatementType DEF StepDone, CommonInv, TypeOK, Calls
<1> QED
  BY <1>1, <1>2, NoRowCommon DEF StepDone

\* executeUpdate: disposes of its statement, whatever the answer.
LEMMA FinishCommon ==
    ASSUME CommonInv, call.pc = "run", NEW ok \in BOOLEAN, Finish(ok),
           UNCHANGED <<opened, shouldCache, locked, slots, answer>>,
           transaction' \in BOOLEAN, faults' \subseteq {"released statement"},
           TransactionTracked'
    PROVE  CommonInv'
<1> USE DEF CommonInv, TypeOK
<1> DEFINE s == call.stmt
<1>a. call' = Idle
  BY DEF Finish
<1>b. /\ s \in Stmt /\ opened /\ stmts[s].life # "none" /\ call.sql \in SQL
      /\ stmts' = Disposed(s) /\ cache' = Cached(s) /\ ~inUse' /\ Flag(ok)
  BY DEF Finish, Calls, Pointers
<1>1. FlagsOK'
  BY <1>b DEF Finish, Flag, FlagsOK
<1> DEFINE Record == [life : Lives, sql : SQL \cup {Null}, arg : Arg \cup {Null},
                      kept : BOOLEAN]
<1>c. stmts \in [Stmt -> Record] /\ shouldCache \in BOOLEAN /\ call.hit \in BOOLEAN
  BY DEF StatementsOK, FlagsOK, CallOK
<1>d. /\ stmts' \in [Stmt -> Record]
      /\ \A t \in Stmt : t # s => stmts'[t] = stmts[t]
      /\ stmts'[s].life \in {stmts[s].life, "final", "ready"}
  <2> DEFINE k == stmts[s].kept \/ (shouldCache /\ ~call.hit)
             l == IF ~call.hit THEN "final"
                  ELSE IF Dangling(s) THEN stmts[s].life ELSE "ready"
  <2>1. stmts' = [stmts EXCEPT ![s] = [[@ EXCEPT !.kept = k] EXCEPT !.life = l]]
    BY <1>b, <1>c DEF Disposed
  <2>2. stmts[s] \in Record
    BY <1>b, <1>c
  <2>3. k \in BOOLEAN
    BY <1>b, <1>c
  <2>4. l \in Lives /\ l \in {stmts[s].life, "final", "ready"}
    BY <2>2 DEF Lives
  <2> HIDE DEF k, l
  <2> DEFINE new == [[stmts[s] EXCEPT !.kept = k] EXCEPT !.life = l]
  <2>5. new \in Record
    BY <2>2, <2>3, <2>4
  <2>6. new.life = l
    BY <2>2
  <2>7. stmts' = [stmts EXCEPT ![s] = new]
    BY <2>1
  <2> HIDE DEF new, Record
  <2> QED
    BY <1>b, <1>c, <2>4, <2>5, <2>6, <2>7
<1>2. \A t \in Stmt :
          /\ t # s => stmts'[t] = stmts[t]
          /\ stmts[t].life # "none" => stmts'[t].life # "none"
  BY <1>b, <1>d
<1>3. StatementsOK'
  <2>1. cache' \in [SQL -> Stmt \cup {Null}]
    BY <1>b DEF StatementsOK, Cached
  <2> QED
    BY <1>d, <2>1 DEF StatementsOK
<1>4. CallOK'
  BY <1>a, IdleCall
<1>5. AnswersOK'
  BY DEF AnswersOK
<1>6. Calls'
  BY <1>a DEF Calls, Idle
<1>7. Pointers'
  <2>1. \A t \in Stmt : stmts'[t].kept => stmts'[t].life # "none"
    BY <1>b, <1>2 DEF Pointers
  <2>2. \A r \in Slots : slots'[r] # Null => stmts'[slots'[r]].life # "none"
    BY <1>2 DEF Pointers, StatementsOK
  <2>3. \A q \in SQL : cache'[q] # Null => stmts'[cache'[q]].life # "none"
    BY <1>b, <1>2 DEF Pointers, StatementsOK, Cached
  <2> QED
    BY <1>a, <1>b, <2>1, <2>2, <2>3 DEF Pointers, Idle
<1>8. InUseExactly'
  BY <1>a, <1>b DEF InUseExactly, Idle
<1>9. ClosedMeansReleased'
  BY <1>b DEF ClosedMeansReleased
<1> QED
  BY <1>1, <1>3, <1>4, <1>5, <1>6, <1>7, <1>8, <1>9

LEMMA RunBusyCommon ==
    ASSUME CommonInv, RunBusy
    PROVE  CommonInv'
<1>1. CASE TimedOut
  <2>1. transaction' \in BOOLEAN /\ faults' \subseteq {"released statement"}
    BY DEF RunBusy, CommonInv, TypeOK, FlagsOK, AnswersOK
  <2>2. TransactionTracked'
    BY <1>1 DEF RunBusy, Finish, Flag, CommonInv, TransactionTracked
  <2> QED
    BY <1>1, <2>1, <2>2, FinishCommon DEF RunBusy
<1>2. CASE ~TimedOut
  BY <1>2, RetryCommon DEF RunBusy
<1> QED
  BY <1>1, <1>2

LEMMA RunFailsCommon ==
    ASSUME CommonInv, RunFails
    PROVE  CommonInv'
<1>1. transaction' \in BOOLEAN /\ faults' \subseteq {"released statement"}
  BY DEF RunFails, Misused, CommonInv, TypeOK, FlagsOK, AnswersOK
<1>2. TransactionTracked'
  BY DEF RunFails, Finish, Flag, CommonInv, TransactionTracked
<1> QED
  BY <1>1, <1>2, FinishCommon DEF RunFails

\* BEGIN is neither COMMIT nor ROLLBACK: SQLite's answer and the flag agree.
LEMMA RunDoneCommon ==
    ASSUME CommonInv, RunDone
    PROVE  CommonInv'
<1>1. transaction' \in BOOLEAN /\ faults' \subseteq {"released statement"}
  BY DEF RunDone, CommonInv, TypeOK, FlagsOK, AnswersOK
<1>2. TransactionTracked'
  BY DEF RunDone, Finish, Flag, CommonInv, TransactionTracked, Begin, Commit,
         Rollback
<1> QED
  BY <1>1, <1>2, FinishCommon DEF RunDone

LEMMA CallerCommon ==
    ASSUME CommonInv, Caller
    PROVE  CommonInv'
<1>1. ASSUME NEW b \in Caching, SetShouldCacheStatements(b)
      PROVE  CommonInv'
  BY <1>1, CachingAssumption, SetShouldCacheCommon
<1>2. ASSUME NEW q \in Query, NEW a \in Arg, NEW r \in Slot, ExecuteQuery(q, a, r)
      PROVE  CommonInv'
  BY <1>2, EnterCommon DEF ExecuteQuery, SQL, Slots, Finders
<1>3. ASSUME NEW q \in Query, NEW a \in Arg, NEW m \in Finders, Find(m, q, a)
      PROVE  CommonInv'
  BY <1>3, EnterCommon DEF Find, SQL, Slots
<1>4. ASSUME NEW u \in Update, ExecuteUpdate(u)
      PROVE  CommonInv'
  BY <1>4, EnterCommon DEF ExecuteUpdate, SQL, Finders
<1>5. ASSUME NEW r \in Slot, NextRow(r) \/ CloseResultSet(r) \/ ReadColumn(r)
      PROVE  CommonInv'
  BY <1>5, NextRowCommon, CloseResultSetCommon, ReadColumnCommon
<1> QED
  BY <1>1, <1>2, <1>3, <1>4, <1>5, OpenCommon, CloseCommon DEF Caller

LEMMA NextCommon ==
    ASSUME CommonInv, [Next]_databaseVars
    PROVE  CommonInv'
<1>1. CASE Caller
  BY <1>1, CallerCommon
<1>2. CASE Continue
  BY <1>2, PrepareBusyCommon, PrepareFailsCommon, PrepareCommon,
     MakeResultSetCommon, StepBusyCommon, StepFailsCommon, StepRowCommon,
     StepDoneCommon, RunBusyCommon, RunFailsCommon, RunDoneCommon DEF Continue
<1>3. CASE Environment
  BY <1>3, OtherLocksCommon, OtherUnlocksCommon DEF Environment
<1>4. CASE UNCHANGED databaseVars
  BY <1>4, Stays DEF databaseVars, CommonInv, TypeOK
<1> QED
  BY <1>1, <1>2, <1>3, <1>4 DEF Next

LEMMA CommonAlways == Spec => []CommonInv
<1>1. Init => CommonInv
  BY InitCommon
<1>2. CommonInv /\ [Next]_databaseVars => CommonInv'
  BY NextCommon
<1> QED
  BY <1>1, <1>2, PTL DEF Spec

(***************************************************************************)
(* What holds for every value of the constants.                            *)
(***************************************************************************)

\* The variables have their types, and with a timeout set no busy loop goes
\* beyond Timeout + 1 attempts, however the lock comes and goes.
THEOREM TypeCorrect == Spec => []TypeOK
<1>1. CommonInv => TypeOK
  BY DEF CommonInv
<1> QED
  BY <1>1, CommonAlways, PTL

\* executeQuery: and executeUpdate: take inUse down on every path, whatever
\* fails and whoever locks the file, so no later call is refused.
THEOREM FlagDownWhenIdle == Spec => []InUseExactly
<1>1. CommonInv => InUseExactly
  BY DEF CommonInv
<1> QED
  BY <1>1, CommonAlways, PTL

\* close leaves no statement alive and no transaction open, even with result
\* sets that outlive it and with a cache it dropped before.
THEOREM CloseReleases == Spec => []ClosedMeansReleased
<1>1. CommonInv => ClosedMeansReleased
  BY DEF CommonInv
<1> QED
  BY <1>1, CommonAlways, PTL

\* The flag inTransaction never misses a transaction SQLite is in, whatever
\* texts are executed, refused or rolled back by SQLite itself.
THEOREM TransactionsTracked == Spec => []TransactionTracked
<1>1. CommonInv => TransactionTracked
  BY DEF CommonInv
<1> QED
  BY <1>1, CommonAlways, PTL

(***************************************************************************)
(* Without the statement cache, what tableExists: and columnExists: answer *)
(* is what the file says.                                                  *)
(***************************************************************************)

\* A statement is bound once, before it is ever stepped.  A finder that steps
\* on has the statement of its own text and argument, and it stepped past a row
\* only if that was not the row it looks for.
Uncached ==
    /\ ~shouldCache
    /\ call.pc \in {"prepare", "bind"} => ~call.hit
    /\ call.pc = "bind" => /\ stmts[call.stmt].life = "ready"
                           /\ stmts[call.stmt].sql = call.sql
    /\ call.pc # "idle" /\ call.method \in Finders =>
           (call.sql \in Schema <=> call.method # "tableExists")
    /\ call.pc = "step" /\ call.method \in Finders =>
           /\ call.method # "goodConnection"
           /\ slots[call.slot] # Null
           /\ stmts[slots[call.slot]].kept
           /\ stmts[slots[call.slot]].sql = call.sql
           /\ stmts[slots[call.slot]].arg = call.arg
           /\ stmts[slots[call.slot]].life = "row" =>
                  call.method = "columnExists" /\ call.arg \notin Match

LEMMA UncachedIdle ==
    ASSUME call' = Idle, ~shouldCache'
    PROVE  Uncached'
BY DEF Uncached, Idle

LEMMA UncachedSameCall ==
    ASSUME Uncached,
           call' = call \/ call' = [call EXCEPT !.tries = call'.tries], CallOK,
           UNCHANGED <<stmts, slots, shouldCache>>
    PROVE  Uncached'
BY DEF Uncached, CallOK

LEMMA RetryAsExcept ==
    ASSUME CallOK, Retry
    PROVE  call' = [call EXCEPT !.tries = call'.tries]
BY TimeoutAssumption DEF Retry, CallOK

LEMMA UncachedCaller ==
    ASSUME TRUE \notin Caching, CommonInv, Uncached, Caller
    PROVE  Uncached' /\ answer' = answer
<1>1. CASE Open \/ Close \/ \E r \in Slot : CloseResultSet(r) \/ ReadColumn(r)
  BY <1>1, UncachedIdle DEF Open, Close, CloseResultSet, ReadColumn, MayTouch,
     Uncached
<1>2. ASSUME NEW b \in Caching, SetShouldCacheStatements(b)
      PROVE  Uncached' /\ answer' = answer
  <2>1. b = FALSE
    BY CachingAssumption
  <2> QED
    BY <1>2, <2>1, UncachedIdle DEF SetShouldCacheStatements
<1>3. ASSUME NEW q \in Query, NEW a \in Arg, NEW r \in Slot, ExecuteQuery(q, a, r)
      PROVE  Uncached' /\ answer' = answer
  BY <1>3 DEF ExecuteQuery, Enter, Uncached, Finders
<1>4. ASSUME NEW q \in Query, NEW a \in Arg, NEW m \in Finders, Find(m, q, a)
      PROVE  Uncached' /\ answer' = answer
  BY <1>4 DEF Find, Enter, Uncached, Finders
<1>5. ASSUME NEW u \in Update, ExecuteUpdate(u)
      PROVE  Uncached' /\ answer' = answer
  BY <1>5 DEF ExecuteUpdate, Enter, Uncached, Finders
<1>6. ASSUME NEW r \in Slot, NextRow(r)
      PROVE  Uncached' /\ answer' = answer
  BY <1>6 DEF NextRow, Uncached, Finders, Idle
<1> QED
  BY <1>1, <1>2, <1>3, <1>4, <1>5, <1>6 DEF Caller

\* The methods that run: the flag of the cache never changes, and a method that
\* ends leaves the invariant to hold by itself.
LEMMA UncachedPrepare ==
    ASSUME CommonInv, Uncached, TrueAnswers, PrepareBusy \/ PrepareFails \/ Prepare
    PROVE  Uncached' /\ TrueAnswers'
<1> USE DEF CommonInv, TypeOK
<1>1. CASE ReturnNothing /\ UNCHANGED shouldCache /\ call.pc = "prepare"
  <2>1. Uncached'
    BY <1>1, UncachedIdle DEF ReturnNothing, Uncached
  <2>2. TrueAnswers'
    BY <1>1 DEF ReturnNothing, Answer, TrueAnswers
  <2> QED
    BY <2>1, <2>2
<1>2. CASE Retry /\ UNCHANGED <<stmts, slots, shouldCache, answer>>
  BY <1>2, RetryAsExcept, UncachedSameCall DEF TrueAnswers
<1>3. CASE Prepare
  <2>1. Fresh \in Stmt
    BY <1>3 DEF Prepare, Fresh, Free
  <2>2. stmts'[Fresh].life = "ready" /\ stmts'[Fresh].sql = call.sql
    BY <1>3, <2>1 DEF Prepare, StatementsOK, Unprepared
  <2>3. /\ call'.stmt = Fresh /\ call'.sql = call.sql /\ call'.hit = call.hit
        /\ call'.method = call.method /\ call'.pc \in {"bind", "run"}
    BY <1>3 DEF Prepare, CallOK
  <2> QED
    BY <1>3, <2>2, <2>3 DEF Prepare, Uncached, TrueAnswers
<1> QED
  BY <1>1, <1>2, <1>3 DEF PrepareBusy, PrepareFails

LEMMA UncachedMake ==
    ASSUME CommonInv, Uncached, TrueAnswers, MakeResultSet
    PROVE  Uncached' /\ TrueAnswers'
<1> USE DEF CommonInv, TypeOK
<1> DEFINE s == call.stmt
<1>1. /\ s \in Stmt /\ s # Null /\ call.slot \in Slots
      /\ stmts[s].life = "ready" /\ stmts[s].sql = call.sql /\ ~call.hit
  BY NullAssumption DEF MakeResultSet, Calls, Uncached
<1>2. /\ stmts'[s].life = "ready" /\ stmts'[s].sql = call.sql
      /\ stmts'[s].arg = call.arg /\ stmts'[s].kept
  <2>1. stmts[s] \in [life : Lives, sql : SQL \cup {Null},
                      arg : Arg \cup {Null}, kept : BOOLEAN]
    BY <1>1 DEF StatementsOK
  <2>2. stmts'[s] = [[stmts[s] EXCEPT !.arg = call.arg] EXCEPT !.kept = TRUE]
    BY <1>1 DEF MakeResultSet, Bound, StatementsOK
  <2> QED
    BY <1>1, <2>1, <2>2
<1>3. CASE call.method \in {"executeQuery", "goodConnection"}
  <2>1. Uncached'
    BY <1>3, UncachedIdle DEF MakeResultSet, Uncached
  <2>2. TrueAnswers'
    BY <1>3 DEF MakeResultSet, TrueAnswers, Answer, Finders
  <2> QED
    BY <2>1, <2>2
<1>4. CASE call.method \notin {"executeQuery", "goodConnection"}
  <2>1. call' = [call EXCEPT !.pc = "step", !.tries = 0]
    BY <1>4 DEF MakeResultSet
  <2>2. /\ call'.pc = "step" /\ call'.method = call.method /\ call'.sql = call.sql
        /\ call'.slot = call.slot /\ call'.arg = call.arg
    BY <2>1 DEF CallOK
  <2>3. slots'[call.slot] = s
    BY <1>1, <1>4 DEF MakeResultSet, StatementsOK
  <2>4. Uncached'
    BY <1>1, <1>2, <1>4, <2>2, <2>3 DEF MakeResultSet, Uncached
  <2>5. TrueAnswers'
    BY <1>4 DEF MakeResultSet, TrueAnswers
  <2> QED
    BY <2>4, <2>5
<1> QED
  BY <1>3, <1>4

LEMMA UncachedStep ==
    ASSUME CommonInv, Uncached, TrueAnswers,
           StepBusy \/ StepFails \/ StepRow \/ StepDone
    PROVE  Uncached' /\ TrueAnswers'
<1> USE DEF CommonInv, TypeOK
<1> DEFINE s == Statement(call.slot)
<1>1. /\ call.pc = "step" /\ call.slot \in Slots /\ UNCHANGED shouldCache
      /\ ~shouldCache
  BY DEF StepBusy, StepFails, StepRow, StepDone, Calls, Uncached
<1>2. call.method \in Finders =>
          /\ s # Null /\ s = slots[call.slot] /\ s \in Stmt
          /\ stmts[s].sql = call.sql /\ stmts[s].arg = call.arg
          /\ call.sql \in Schema <=> call.method # "tableExists"
          /\ call.method # "goodConnection"
          /\ stmts[s].life = "row" => /\ call.method = "columnExists"
                                      /\ call.arg \notin Match
  BY <1>1 DEF Uncached, Statement, StatementsOK
<1>3. CASE NoRow(TRUE)
  BY <1>1, <1>3, UncachedIdle DEF NoRow, Answer, TrueAnswers
<1>4. CASE Retry /\ UNCHANGED <<stmts, slots, shouldCache, answer>>
  BY <1>4, RetryAsExcept, UncachedSameCall DEF TrueAnswers
<1>5. CASE StepRow
  <2>1. /\ s \in Stmt /\ Finds(s) /\ stmts' = [stmts EXCEPT ![s].life = "row"]
    BY <1>1, <1>5, StatementType DEF StepRow
  <2>2. CASE call' = Idle /\ UNCHANGED answer
    BY <1>1, <2>2, UncachedIdle DEF TrueAnswers
  <2>3. CASE call.method # "next" /\ (call.method = "columnExists" => call.arg \in Match)
    <3>1. call' = Idle /\ Answer(TRUE, FALSE)
      BY <1>5, <2>3 DEF StepRow
    <3>2. call.method \in Finders => call.arg \in Match
      BY <1>2, <2>1, <2>3 DEF Finds, Finders
    <3> QED
      BY <1>1, <3>1, <3>2, UncachedIdle DEF TrueAnswers, Answer
  <2>4. CASE call.method = "columnExists" /\ call.arg \notin Match
    <3>1. call' = [call EXCEPT !.tries = 0] /\ UNCHANGED <<slots, answer>>
      BY <1>5, <2>4 DEF StepRow
    <3>2. /\ call'.pc = "step" /\ call'.method = call.method /\ call'.sql = call.sql
          /\ call'.slot = call.slot /\ call'.arg = call.arg
      BY <1>1, <3>1 DEF CallOK
    <3>3. /\ stmts'[s].kept = stmts[s].kept /\ stmts'[s].sql = stmts[s].sql
          /\ stmts'[s].arg = stmts[s].arg
      BY <2>1 DEF StatementsOK
    <3>4. call.method \in Finders
      BY <2>4 DEF Finders
    <3>5. Uncached'
      BY <1>1, <1>2, <2>4, <3>1, <3>2, <3>3, <3>4 DEF Uncached
    <3> QED
      BY <3>1, <3>5 DEF TrueAnswers
  <2> QED
    BY <1>5, <2>2, <2>3, <2>4 DEF StepRow
<1>6. CASE StepDone
  <2>1. s \in Stmt /\ ~Finds(s) /\ NoRow(FALSE)
    BY <1>1, <1>6, StatementType DEF StepDone
  <2>2. call.method \in Finders => call.arg \notin Match
    BY <1>2, <2>1 DEF Finds, Finders
  <2> QED
    BY <1>1, <2>1, <2>2, UncachedIdle DEF NoRow, Answer, TrueAnswers
<1> QED
  BY <1>3, <1>4, <1>5, <1>6 DEF StepBusy, StepFails

LEMMA UncachedRun ==
    ASSUME CommonInv, Uncached, TrueAnswers, RunBusy \/ RunFails \/ RunDone
    PROVE  Uncached' /\ TrueAnswers'
<1>1. UNCHANGED <<shouldCache, slots, answer>> /\ call.pc = "run"
  BY DEF RunBusy, RunFails, RunDone
<1>2. CASE call' = Idle
  BY <1>1, <1>2, UncachedIdle DEF Uncached, TrueAnswers
<1>3. CASE Retry /\ UNCHANGED stmts
  BY <1>1, <1>3, RetryAsExcept, UncachedSameCall DEF CommonInv, TypeOK, TrueAnswers
<1> QED
  BY <1>2, <1>3 DEF RunBusy, RunFails, RunDone, Finish

\* Without the statement cache tableExists: and columnExists: say what the file
\* says unless SQLite was asked in vain, whatever statements stay half read,
\* whoever locks the file and whenever the database is closed.
THEOREM AnswersTrueUncached ==
    ASSUME TRUE \notin Caching
    PROVE  Spec => []TrueAnswers
<1>1. Init => Uncached /\ TrueAnswers
  BY DEF Init, InitDatabase, Idle, Uncached, TrueAnswers
<1>2. CommonInv /\ Uncached /\ TrueAnswers /\ [Next]_databaseVars
      => Uncached' /\ TrueAnswers'
  <2> SUFFICES ASSUME CommonInv, Uncached, TrueAnswers, [Next]_databaseVars
               PROVE  Uncached' /\ TrueAnswers'
    OBVIOUS
  <2>1. CASE Caller
    BY <2>1, UncachedCaller DEF TrueAnswers
  <2>2. CASE Continue
    BY <2>2, UncachedPrepare, UncachedMake, UncachedStep, UncachedRun DEF Continue
  <2>3. CASE Environment \/ UNCHANGED databaseVars
    BY <2>3, UncachedSameCall DEF Environment, OtherLocks, OtherUnlocks,
       databaseVars, CommonInv, TypeOK, TrueAnswers
  <2> QED
    BY <2>1, <2>2, <2>3 DEF Next
<1> QED
  BY <1>1, <1>2, CommonAlways, PTL DEF Spec

(***************************************************************************)
(* Who may use a result set after close: the two ways of calling that are  *)
(* safe.                                                                   *)
(***************************************************************************)

\* Queries with the cache and no updates.  Every statement an FMStatement still
\* points to is in the cache, and what the cache holds is alive; so a result set
\* that outlives close finds its FMStatement emptied.
CacheOwns ==
    /\ faults = {}
    /\ \A s \in Stmt : stmts[s].kept => \E q \in SQL : cache[q] = s
    /\ \A q \in SQL : cache[q] # Null => stmts[cache[q]].kept /\ Alive(cache[q])
    /\ call.pc # "run"
    /\ call.pc # "idle" => call.method # "executeUpdate"
    /\ call.pc \in {"prepare", "bind"} => shouldCache
    /\ call.pc = "prepare" => ~call.hit /\ cache[call.sql] = Null
    /\ call.pc = "bind" => /\ Alive(call.stmt)
                           /\ call.hit => stmts[call.stmt].kept
                           /\ ~call.hit => cache[call.sql] = Null

LEMMA CacheOwnsEnter ==
    ASSUME CommonInv, CacheOwns, NEW m, m # "executeUpdate",
           NEW q \in SQL, NEW a, NEW r, shouldCache, Enter(m, q, a, r, "bind")
    PROVE  CacheOwns'
<1> USE DEF CommonInv, TypeOK
<1>1. cache[q] # Null => stmts[cache[q]].kept /\ Alive(cache[q])
  BY DEF CacheOwns
<1>2. /\ call'.method = m /\ call'.sql = q
      /\ call'.pc = IF cache[q] # Null THEN "bind" ELSE "prepare"
      /\ call'.stmt = IF cache[q] # Null THEN cache[q] ELSE Null
      /\ call'.hit = (cache[q] # Null)
  BY <1>1 DEF Enter
<1>3. UNCHANGED <<stmts, cache, shouldCache, faults>>
  BY DEF Enter
<1> QED
  BY <1>1, <1>2, <1>3 DEF CacheOwns, Alive

LEMMA CacheOwnsCaller ==
    ASSUME Caching = {TRUE}, Update = {}, CommonInv, CacheOwns, Caller
    PROVE  CacheOwns'
<1> USE DEF CommonInv, TypeOK
<1>1. CASE Open \/ \E r \in Slot : NextRow(r) \/ CloseResultSet(r)
  <2>1. CASE Open \/ \E r \in Slot : CloseResultSet(r)
    BY <2>1 DEF Open, CloseResultSet, CacheOwns, Alive
  <2>2. CASE \E r \in Slot : NextRow(r)
    <3>1. call'.pc = "step" /\ call'.method = "next"
          /\ UNCHANGED <<stmts, cache, shouldCache, faults>>
      BY <2>2 DEF NextRow, Idle
    <3> QED
      BY <3>1 DEF CacheOwns, Alive
  <2> QED
    BY <1>1, <2>1, <2>2
<1>2. ASSUME NEW r \in Slot, ReadColumn(r)
      PROVE  CacheOwns'
  <2>1. r \in Slots /\ Statement(r) \in Stmt \cup {Null}
    BY <1>2, StatementType DEF Slots
  <2>2. Statement(r) # Null => Alive(Statement(r))
    BY <2>1 DEF Statement, CacheOwns
  <2>3. faults' = faults
    BY <1>2, <2>2 DEF ReadColumn, Misused, Dangling, Alive
  <2> QED
    BY <1>2, <2>3 DEF ReadColumn, CacheOwns, Alive
<1>3. CASE Close
  <2>1. \A s \in Stmt : ~stmts'[s].kept
    <3>1. \A s \in Stmt : stmts'[s].kept = (stmts[s].kept /\ \A q \in SQL : cache[q] # s)
      BY <1>3 DEF Close, Forgotten, StatementsOK
    <3> QED
      BY <3>1 DEF CacheOwns
  <2>2. /\ \A q \in SQL : cache'[q] = Null
        /\ call = Idle /\ UNCHANGED <<call, faults, shouldCache>>
    BY <1>3 DEF Close
  <2> QED
    BY <2>1, <2>2 DEF CacheOwns, Idle
<1>4. ASSUME NEW b \in Caching, SetShouldCacheStatements(b)
      PROVE  CacheOwns'
  <2>1. cache' = cache
    BY <1>4 DEF SetShouldCacheStatements, StatementsOK
  <2> QED
    BY <1>4, <2>1 DEF SetShouldCacheStatements, CacheOwns, Alive, Idle
<1>5. ASSUME NEW q \in Query, NEW a \in Arg, NEW r \in Slot, ExecuteQuery(q, a, r)
      PROVE  CacheOwns'
  BY <1>5, CacheOwnsEnter DEF ExecuteQuery, SQL
<1>6. ASSUME NEW q \in Query, NEW a \in Arg, NEW m \in Finders, Find(m, q, a)
      PROVE  CacheOwns'
  BY <1>6, CacheOwnsEnter DEF Find, SQL, Finders
<1> QED
  BY <1>1, <1>2, <1>3, <1>4, <1>5, <1>6 DEF Caller

LEMMA CacheOwnsSameCall ==
    ASSUME CacheOwns, CallOK,
           call' = call \/ call' = [call EXCEPT !.tries = call'.tries],
           UNCHANGED <<stmts, cache, shouldCache, faults>>
    PROVE  CacheOwns'
BY DEF CacheOwns, CallOK, Alive

\* A method that ends, or steps on, changes at most a statement's position.
LEMMA CacheOwnsStepped ==
    ASSUME CommonInv, CacheOwns, call.pc = "step", UNCHANGED <<cache, faults>>,
           call' = Idle \/ call' = [call EXCEPT !.tries = call'.tries],
           NEW l \in {"row", "done"},
           stmts' = stmts \/ \E s \in Stmt : stmts' = [stmts EXCEPT ![s].life = l]
    PROVE  CacheOwns'
<1> USE DEF CommonInv, TypeOK
<1>1. \A t \in Stmt : /\ stmts'[t].kept = stmts[t].kept
                      /\ Alive(t) => Alive(t)'
  BY DEF StatementsOK, Alive
<1>2. call'.pc \in {"idle", "step"}
      /\ (call'.pc # "idle" => call'.method # "executeUpdate")
  BY DEF Idle, CallOK, CacheOwns
<1> QED
  BY <1>1, <1>2 DEF CacheOwns, StatementsOK

LEMMA CacheOwnsContinue ==
    ASSUME CommonInv, CacheOwns, Continue
    PROVE  CacheOwns'
<1> USE DEF CommonInv, TypeOK
<1>1. CASE PrepareBusy \/ PrepareFails
  <2>1. CASE ReturnNothing /\ UNCHANGED <<stmts, cache, faults>>
    BY <2>1 DEF ReturnNothing, CacheOwns, Idle, Alive
  <2>2. CASE Retry /\ UNCHANGED <<stmts, cache, shouldCache, faults>>
    BY <2>2, RetryAsExcept, CacheOwnsSameCall
  <2> QED
    BY <1>1, <2>1, <2>2 DEF PrepareBusy, PrepareFails
<1>2. CASE Prepare
  <2>1. /\ Fresh \in Stmt /\ ~Alive(Fresh) /\ \A q \in SQL : cache[q] # Fresh
    BY <1>2 DEF Prepare, Fresh, Free
  <2>2. stmts'[Fresh] = [Unprepared EXCEPT !.life = "ready", !.sql = call.sql]
    BY <1>2, <2>1 DEF Prepare, StatementsOK
  <2>3. stmts'[Fresh].life = "ready" /\ ~stmts'[Fresh].kept
    BY <2>2 DEF Unprepared
  <2>4. \A t \in Stmt \ {Fresh} : stmts'[t] = stmts[t]
    BY <1>2, <2>1 DEF Prepare, StatementsOK
  <2>5. /\ call'.stmt = Fresh /\ call'.sql = call.sql /\ call'.hit = call.hit
        /\ call'.pc = "bind" /\ call'.method = call.method
    BY <1>2 DEF Prepare, CallOK, CacheOwns
  <2>6. \A t \in Stmt : stmts'[t].kept => stmts[t].kept /\ t # Fresh
    BY <2>3, <2>4
  <2>7. \A q \in SQL : cache[q] # Null =>
            stmts'[cache[q]].kept /\ stmts'[cache[q]].life \in {"ready", "row", "done"}
    BY <2>1, <2>4 DEF CacheOwns, StatementsOK, Alive
  <2> QED
    BY <1>2, <2>3, <2>5, <2>6, <2>7 DEF Prepare, CacheOwns, Alive
<1>3. CASE MakeResultSet
  <2> DEFINE s == call.stmt
  <2>1. /\ s \in Stmt /\ call.sql \in SQL /\ Alive(s) /\ shouldCache
        /\ call.pc = "bind"
    BY <1>3 DEF MakeResultSet, Calls, CacheOwns
  <2>2. \A t \in Stmt : /\ stmts'[t].life = stmts[t].life
                        /\ stmts'[t].kept = (stmts[t].kept \/ (t = s /\ ~call.hit))
    BY <1>3, <2>1 DEF MakeResultSet, Bound, StatementsOK
  <2>3. cache' = IF call.hit THEN cache ELSE [cache EXCEPT ![call.sql] = s]
    BY <1>3, <2>1 DEF MakeResultSet, Cached, CallOK
  <2>4. \A q \in SQL : cache'[q] = IF ~call.hit /\ q = call.sql THEN s ELSE cache[q]
    BY <2>1, <2>3 DEF StatementsOK
  <2>5. faults' = {}
    BY <1>3, <2>1 DEF MakeResultSet, Misused, Dangling, Alive, CacheOwns
  <2>6. call'.pc \in {"idle", "step"}
        /\ (call'.pc # "idle" => call'.method # "executeUpdate")
    BY <1>3, <2>1 DEF MakeResultSet, Idle, CallOK, CacheOwns
  <2>7. ASSUME NEW t \in Stmt, stmts'[t].kept
        PROVE  \E q \in SQL : cache'[q] = t
    <3>1. CASE t = s /\ ~call.hit
      BY <2>1, <2>4, <3>1
    <3>2. CASE stmts[t].kept
      <4>1. PICK q \in SQL : cache[q] = t
        BY <3>2 DEF CacheOwns
      <4>2. cache'[q] = t
        BY <2>1, <2>4, <4>1, NullAssumption DEF CacheOwns
      <4> QED
        BY <4>2
    <3> QED
      BY <2>2, <2>7, <3>1, <3>2
  <2>8. ASSUME NEW q \in SQL, cache'[q] # Null
        PROVE  /\ stmts'[cache'[q]].kept
               /\ stmts'[cache'[q]].life \in {"ready", "row", "done"}
    <3>1. CASE ~call.hit /\ q = call.sql
      BY <2>1, <2>2, <2>4, <3>1 DEF Alive
    <3>2. CASE call.hit \/ q # call.sql
      BY <2>2, <2>4, <2>8, <3>2 DEF CacheOwns, Alive, StatementsOK
    <3> QED
      BY <3>1, <3>2
  <2> QED
    BY <2>5, <2>6, <2>7, <2>8 DEF CacheOwns, Alive
<1>4. CASE StepBusy \/ StepFails \/ StepRow \/ StepDone
  <2> DEFINE s == Statement(call.slot)
  <2>1. call.pc = "step" /\ s \in Stmt \cup {Null}
    BY <1>4, StatementType DEF StepBusy, StepFails, StepRow, StepDone, Calls
  <2>2. s # Null => Alive(s)
    BY <2>1 DEF Statement, CacheOwns
  <2>3. UNCHANGED <<cache, faults>>
    BY <1>4, <2>2 DEF StepBusy, StepFails, StepRow, StepDone, Misused, Dangling,
       Alive
  <2>4. call' = Idle \/ call' = [call EXCEPT !.tries = call'.tries]
    BY <1>4, RetryAsExcept DEF StepBusy, StepFails, StepRow, StepDone, NoRow, CallOK
  <2>5. CASE stmts' = stmts
    BY <2>1, <2>3, <2>4, <2>5, CacheOwnsStepped
  <2>6. CASE s # Null /\ stmts' = [stmts EXCEPT ![s].life = "row"]
    BY <2>1, <2>3, <2>4, <2>6, CacheOwnsStepped
  <2>7. CASE s # Null /\ stmts' = [stmts EXCEPT ![s].life = "done"]
    BY <2>1, <2>3, <2>4, <2>7, CacheOwnsStepped
  <2> QED
    BY <1>4, <2>5, <2>6, <2>7 DEF StepBusy, StepFails, StepRow, StepDone
<1>5. ~(RunBusy \/ RunFails \/ RunDone)
  BY DEF RunBusy, RunFails, RunDone, CacheOwns
<1> QED
  BY <1>1, <1>2, <1>3, <1>4, <1>5 DEF Continue

\* With the cache on for every query and no updates, no statement is used after
\* sqlite3_finalize, even by result sets the caller keeps beyond close.
THEOREM CachedQueriesSafe ==
    ASSUME Caching = {TRUE}, Update = {}
    PROVE  Spec => []NoUseOfReleased
<1>1. Init => CacheOwns
  BY DEF Init, InitDatabase, Idle, Unprepared, CacheOwns
<1>2. CommonInv /\ CacheOwns /\ [Next]_databaseVars => CacheOwns'
  <2> SUFFICES ASSUME CommonInv, CacheOwns, [Next]_databaseVars
               PROVE  CacheOwns'
    OBVIOUS
  <2>1. CASE Environment \/ UNCHANGED databaseVars
    BY <2>1, CacheOwnsSameCall DEF Environment, OtherLocks, OtherUnlocks,
       databaseVars, CommonInv, TypeOK
  <2> QED
    BY <2>1, CacheOwnsCaller, CacheOwnsContinue DEF Next
<1>3. CacheOwns => NoUseOfReleased
  BY DEF CacheOwns, NoUseOfReleased
<1> QED
  BY <1>1, <1>2, <1>3, CommonAlways, PTL DEF Spec

\* Queries and updates without the cache, by callers that close their result
\* sets first.  Every result set then has a statement that is alive, and nobody
\* else has the statement of an update.
SlotsAlive ==
    /\ faults = {}
    /\ ~shouldCache
    /\ \A r \in Slots : slots[r] # Null => Alive(slots[r])
    /\ call.pc # "step" => slots[Local] = Null
    /\ call.pc = "step" /\ call.slot # Local => slots[Local] = Null
    /\ call.pc # "idle" /\ call.method \in {"executeQuery", "next"} =>
           call.slot # Local
    /\ call.pc \in {"prepare", "bind", "run"} => ~call.hit
    /\ call.pc \in {"bind", "run"} => Alive(call.stmt)
    /\ call.pc = "run" => \A r \in Slots : slots[r] # call.stmt

LEMMA SlotsAliveSame ==
    ASSUME SlotsAlive, CallOK,
           call' = call \/ call' = [call EXCEPT !.tries = call'.tries],
           UNCHANGED <<stmts, slots, shouldCache, faults>>
    PROVE  SlotsAlive'
BY DEF SlotsAlive, CallOK, Alive

LEMMA SlotsAliveIdle ==
    ASSUME call' = Idle, faults' = {}, ~shouldCache', slots'[Local] = Null,
           \A r \in Slots : slots'[r] # Null =>
               stmts'[slots'[r]].life \in {"ready", "row", "done"}
    PROVE  SlotsAlive'
BY DEF SlotsAlive, Alive, Idle

LEMMA SlotsAliveCaller ==
    ASSUME TRUE \notin Caching, LateUse = FALSE, CommonInv, SlotsAlive, Caller
    PROVE  SlotsAlive'
<1> USE DEF CommonInv, TypeOK
<1>1. ASSUME NEW m, NEW q, NEW a, NEW r, NEW ready, Enter(m, q, a, r, ready),
             m \in {"executeQuery", "next"} => r # Local
      PROVE  SlotsAlive'
  BY <1>1 DEF Enter, SlotsAlive, Alive, Idle
<1>2. CASE Open \/ \E r \in Slot : CloseResultSet(r)
  BY <1>2, SlotsAliveIdle, LocalAssumption
     DEF Open, CloseResultSet, SlotsAlive, Alive, Idle, StatementsOK, Slots
<1>3. ASSUME NEW r \in Slot, NextRow(r)
      PROVE  SlotsAlive'
  BY <1>3, LocalAssumption DEF NextRow, MayTouch, SlotsAlive, Alive, Idle
<1>4. ASSUME NEW r \in Slot, ReadColumn(r)
      PROVE  SlotsAlive'
  <2>1. Statement(r) # Null => Alive(Statement(r))
    BY DEF SlotsAlive, Slots, Statement
  <2>2. faults' = faults
    BY <1>4, <2>1 DEF ReadColumn, Misused, Dangling, Alive
  <2> QED
    BY <1>4, <2>2, SlotsAliveSame DEF ReadColumn
<1>5. CASE Close
  <2>1. \A r \in Slots : slots'[r] = Null
    BY <1>5 DEF Close, SlotsAlive, Slots, Idle
  <2> QED
    BY <1>5, <2>1, SlotsAliveIdle DEF Close, SlotsAlive, Slots
<1>6. ASSUME NEW b \in Caching, SetShouldCacheStatements(b)
      PROVE  SlotsAlive'
  <2>1. b = FALSE
    BY CachingAssumption
  <2> QED
    BY <1>6, <2>1, SlotsAliveSame DEF SetShouldCacheStatements, SlotsAlive, FlagsOK
<1>7. ASSUME NEW q \in Query, NEW a \in Arg, NEW r \in Slot, ExecuteQuery(q, a, r)
      PROVE  SlotsAlive'
  BY <1>1, <1>7, LocalAssumption DEF ExecuteQuery
<1>8. ASSUME NEW q \in Query, NEW a \in Arg, NEW m \in Finders, Find(m, q, a)
      PROVE  SlotsAlive'
  BY <1>1, <1>8 DEF Find, Finders
<1>9. ASSUME NEW u \in Update, ExecuteUpdate(u)
      PROVE  SlotsAlive'
  BY <1>1, <1>9 DEF ExecuteUpdate
<1> QED
  BY <1>2, <1>3, <1>4, <1>5, <1>6, <1>7, <1>8, <1>9 DEF Caller

LEMMA SlotsAliveContinue ==
    ASSUME CommonInv, SlotsAlive, Continue
    PROVE  SlotsAlive'
<1> USE DEF CommonInv, TypeOK
<1>1. CASE Retry /\ UNCHANGED <<stmts, slots, shouldCache, faults>>
  BY <1>1, RetryAsExcept, SlotsAliveSame
<1>2. CASE ReturnNothing /\ UNCHANGED <<stmts, shouldCache, faults>>
           /\ call.pc = "prepare"
  BY <1>2, SlotsAliveIdle DEF ReturnNothing, SlotsAlive, Alive, StatementsOK, Slots
<1>3. CASE Prepare
  <2>1. /\ Fresh \in Stmt /\ \A r \in Slots : slots[r] # Fresh
    BY <1>3 DEF Prepare, Fresh, Free
  <2>2. stmts'[Fresh].life = "ready"
    BY <1>3, <2>1 DEF Prepare, StatementsOK, Unprepared
  <2>3. \A r \in Slots : slots[r] # Null => stmts'[slots[r]] = stmts[slots[r]]
    BY <1>3, <2>1 DEF Prepare, StatementsOK
  <2>4. /\ call'.stmt = Fresh /\ call'.hit = call.hit /\ call'.pc \in {"bind", "run"}
    BY <1>3 DEF Prepare, CallOK
  <2> QED
    BY <1>3, <2>1, <2>2, <2>3, <2>4 DEF Prepare, SlotsAlive, Alive
<1>4. CASE MakeResultSet
  <2> DEFINE s == call.stmt
  <2>1. s \in Stmt /\ call.slot \in Slots /\ Alive(s) /\ slots[Local] = Null
    BY <1>4 DEF MakeResultSet, Calls, SlotsAlive
  <2>2. \A t \in Stmt : stmts'[t].life = stmts[t].life
    BY <1>4, <2>1 DEF MakeResultSet, Bound, StatementsOK
  <2>3. faults' = {} /\ ~shouldCache'
    BY <1>4, <2>1 DEF MakeResultSet, Misused, Dangling, Alive, SlotsAlive
  <2>4. slots' = [slots EXCEPT ![call.slot] =
                    IF call.method = "goodConnection" THEN Null ELSE s]
    BY <1>4 DEF MakeResultSet
  <2>5. \A r \in Slots : slots'[r] # Null =>
            stmts'[slots'[r]].life \in {"ready", "row", "done"}
    BY <2>1, <2>2, <2>4 DEF SlotsAlive, StatementsOK, Alive
  <2>6. CASE call.method \in {"executeQuery", "goodConnection"}
    <3>1. call' = Idle
      BY <1>4, <2>6 DEF MakeResultSet
    <3>2. slots'[Local] = Null
      BY <1>4, <2>1, <2>4, <2>6 DEF StatementsOK, Slots, SlotsAlive, MakeResultSet
    <3> QED
      BY <2>3, <2>5, <3>1, <3>2, SlotsAliveIdle
  <2>7. CASE call.method \notin {"executeQuery", "goodConnection"}
    <3>1. call' = [call EXCEPT !.pc = "step", !.tries = 0]
      BY <1>4, <2>7 DEF MakeResultSet
    <3>2. /\ call'.pc = "step" /\ call'.slot = call.slot
          /\ call'.method = call.method
      BY <3>1 DEF CallOK
    <3>3. call.slot # Local => slots'[Local] = Null
      BY <2>1, <2>4 DEF StatementsOK, Slots
    <3> QED
      BY <1>4, <2>3, <2>5, <3>2, <3>3 DEF SlotsAlive, Alive, MakeResultSet
  <2> QED
    BY <2>6, <2>7
<1>5. ASSUME call.pc = "step", NEW t \in Stmt \cup {Null}, NEW l \in {"row", "done"},
             t # Null => Alive(t),
             stmts' = stmts \/ (t # Null /\ stmts' = [stmts EXCEPT ![t].life = l])
      PROVE  \A r \in Slots : slots[r] # Null =>
                 stmts'[slots[r]].life \in {"ready", "row", "done"}
  BY <1>5 DEF StatementsOK, SlotsAlive, Alive
<1>6. CASE StepBusy \/ StepFails \/ StepRow \/ StepDone
  <2> DEFINE s == Statement(call.slot)
  <2>1. call.pc = "step" /\ s \in Stmt \cup {Null} /\ call.slot \in Slots
    BY <1>6, StatementType DEF StepBusy, StepFails, StepRow, StepDone, Calls
  <2>2. s # Null => Alive(s)
    BY <2>1 DEF Statement, SlotsAlive
  <2>3. faults' = {} /\ ~shouldCache'
    <3>1. Misused(s) = {}
      BY <2>2 DEF Misused, Dangling, Alive
    <3>2. shouldCache' = shouldCache /\ faults' \in {faults, faults \cup Misused(s)}
      BY <1>6 DEF StepBusy, StepFails, StepRow, StepDone
    <3> QED
      BY <3>1, <3>2 DEF SlotsAlive
  <2>4. stmts' = stmts \/ (s # Null /\ \E l \in {"row", "done"} :
                               stmts' = [stmts EXCEPT ![s].life = l])
    BY <1>6 DEF StepBusy, StepFails, StepRow, StepDone
  <2>5. \A r \in Slots : slots[r] # Null =>
            stmts'[slots[r]].life \in {"ready", "row", "done"}
    BY <1>5, <2>1, <2>2, <2>4
  <2>6. CASE call' = Idle /\ slots' = [slots EXCEPT ![call.slot] = Null]
    <3>1. slots'[Local] = Null /\ \A r \in Slots : slots'[r] \in {slots[r], Null}
      BY <2>1, <2>6 DEF StatementsOK, SlotsAlive, Slots
    <3> QED
      BY <2>3, <2>5, <2>6, <3>1, SlotsAliveIdle
  <2>7. CASE call' = Idle /\ slots' = slots /\ call.method = "next"
    BY <2>1, <2>3, <2>5, <2>7, SlotsAliveIdle DEF SlotsAlive
  <2>8. CASE /\ call' = [call EXCEPT !.tries = call'.tries]
             /\ slots' = slots
    <3>1. /\ call'.pc = "step" /\ call'.slot = call.slot
          /\ call'.method = call.method
      BY <2>1, <2>8 DEF CallOK
    <3> QED
      BY <2>1, <2>3, <2>5, <2>8, <3>1 DEF SlotsAlive, Alive
  <2> QED
    BY <1>6, <2>6, <2>7, <2>8, RetryAsExcept
       DEF StepBusy, StepFails, StepRow, StepDone, NoRow, CallOK
<1>7. CASE (RunBusy \/ RunFails \/ RunDone) /\ \E ok \in BOOLEAN : Finish(ok)
  <2> DEFINE s == call.stmt
  <2>1. /\ s \in Stmt /\ \A r \in Slots : slots[r] # s
        /\ call.pc = "run" /\ Alive(s) /\ slots[Local] = Null
    BY <1>7 DEF RunBusy, RunFails, RunDone, Calls, SlotsAlive
  <2>2. faults' = {} /\ ~shouldCache' /\ slots' = slots /\ call' = Idle
    <3>1. Misused(s) = {}
      BY <2>1 DEF Misused, Dangling, Alive
    <3>2. /\ shouldCache' = shouldCache /\ slots' = slots /\ call' = Idle
          /\ faults' \in {faults, faults \cup Misused(s)}
      BY <1>7 DEF RunBusy, RunFails, RunDone, Finish
    <3> QED
      BY <3>1, <3>2 DEF SlotsAlive
  <2>3. \A t \in Stmt : t # s => stmts'[t] = stmts[t]
    BY <1>7, <2>1 DEF Finish, Disposed, StatementsOK
  <2> QED
    BY <2>1, <2>2, <2>3, SlotsAliveIdle DEF SlotsAlive, Alive, StatementsOK
<1>8. CASE RunBusy /\ Retry /\ UNCHANGED stmts
  BY <1>1, <1>8 DEF RunBusy
<1> QED
  BY <1>1, <1>2, <1>3, <1>4, <1>6, <1>7, <1>8
     DEF Continue, PrepareBusy, PrepareFails, RunBusy, RunFails, RunDone

\* Without the cache, callers that close their result sets before the database
\* never hand a released statement to SQLite: updates release their own only.
THEOREM UncachedCallsSafe ==
    ASSUME TRUE \notin Caching, LateUse = FALSE
    PROVE  Spec => []NoUseOfReleased
<1>1. Init => SlotsAlive
  BY DEF Init, InitDatabase, Idle, SlotsAlive, Slots
<1>2. CommonInv /\ SlotsAlive /\ [Next]_databaseVars => SlotsAlive'
  <2> SUFFICES ASSUME CommonInv, SlotsAlive, [Next]_databaseVars
               PROVE  SlotsAlive'
    OBVIOUS
  <2>1. CASE Environment \/ UNCHANGED databaseVars
    BY <2>1, SlotsAliveSame DEF Environment, OtherLocks, OtherUnlocks,
       databaseVars, CommonInv, TypeOK
  <2> QED
    BY <2>1, SlotsAliveCaller, SlotsAliveContinue DEF Next
<1>3. SlotsAlive => NoUseOfReleased
  BY DEF SlotsAlive, NoUseOfReleased
<1> QED
  BY <1>1, <1>2, <1>3, CommonAlways, PTL DEF Spec

===============================================================================
