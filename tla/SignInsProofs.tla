----------------------------- MODULE SignInsProofs -----------------------------
(***************************************************************************)
(* For any sign-ins, direct connections and tasks: what is stored of what  *)
(* is shown, what a removal leaves, and the connections that outlive a     *)
(* sign-in.                                                                *)
(***************************************************************************)
EXTENDS SignIns, TLAPS

(* Each command goes through its own steps *)
StepsInv ==
  \A w \in Workers :
    /\ op[w].kind = "connect" => op[w].pc = "wait"
    /\ op[w].kind = "reauth"  => op[w].pc \in {"wait"} \cup PersistSteps
    /\ op[w].kind \in {"login", "filter", "restore"} => op[w].pc \in PersistSteps
    /\ op[w].kind = "remove"  => op[w].pc \in RemoveSteps
    /\ op[w].kind = "attach"  => op[w].pc \in AttachSteps
    /\ op[w].kind = "detach"  => op[w].pc \in DetachSteps

(* Sign-ins and direct connections have commands of their own *)
DirectInv ==
  /\ conns \cap Direct = {} /\ late \cap Direct = {}
  /\ \A w \in Workers : op[w].kind # "none" =>
       (op[w].id \in Direct <=> op[w].kind \in {"attach", "detach"})

(* What is known of a sign-in was drawn before *)
UsedInv ==
  /\ memory \subseteq shown /\ shown \subseteq used
  /\ row \subseteq used /\ removed \subseteq used
  /\ \A w \in Workers : op[w].kind # "none" => op[w].id \in used

(* What is still to be restored has its row *)
RestoreInv ==
  /\ todo \subseteq row
  /\ op[Main].kind = "restore" => op[Main].id \notin todo

(* The id of a login or of a new connection is its own until it is there *)
LoginInv ==
  \A w \in Workers : op[w].kind \in {"login", "attach"} =>
    /\ op[w].id \notin shown /\ op[w].id \notin removed
    /\ \A v \in Workers \ {w} : op[v].id # op[w].id

(* Nothing can bring i back *)
Quiet(i) ==
  /\ i \notin memory
  /\ \A t \in Tasks : op[t].id = i => op[t].kind = "reauth" /\ op[t].pc = "wait"

(* While it is removed, unless it is late *)
RemovingInv ==
  op[Main].kind \in {"remove", "detach"} =>
    /\ op[Main].id \in shown /\ op[Main].id \notin memory
    /\ op[Main].id \notin late =>
         /\ Quiet(op[Main].id)
         /\ op[Main].pc # "row" => op[Main].id \notin row
         /\ op[Main].pc \notin {"row", "secret"} => op[Main].id \notin token

(* and for ever after *)
RemovedInv ==
  \A i \in removed \ late :
    /\ Quiet(i)
    /\ i \notin row /\ i \notin token /\ i \notin todo
    /\ op[Main].id = i => op[Main].kind \in {"remove", "detach"}

(* A connection being opened *)
ConnectingInv ==
  /\ ConnectionsHaveSignIn
  /\ \A w \in Workers : op[w].kind = "connect" => op[w].id \in memory \cup late

IInv == TypeOK /\ StepsInv /\ DirectInv /\ UsedInv /\ RestoreInv /\ LoginInv /\ RemovingInv /\ RemovedInv /\ ConnectingInv

(* What a command that will enter the memory has stored so far *)
OwnInv ==
  \A w \in Workers : op[w].kind \in {"login", "restore", "attach"} /\ op[w].id \notin hurt =>
    /\ op[w].kind = "restore" \/ op[w].pc \in {"delete", "insert"} \cup FileSteps
         => op[w].id \in token \cup Keyless
    /\ (op[w].kind = "restore" /\ op[w].pc # "insert") \/ op[w].pc \in FileSteps => op[w].id \in row

StoredInv == ShownIsStored /\ OwnInv /\ NoStrayToken
-----------------------------------------------------------------------------
LEMMA TypeStep ==
  ASSUME TypeOK, [Next]_vars
  PROVE  TypeOK'
<1> USE SignInsAssumption DEF TypeOK, Op, Idle, Workers, AttachSteps, DetachSteps, PersistSteps,
       RemoveSteps, FileSteps, MainKinds, TaskKinds, Within, disk, SignInIds
<1>1. ASSUME NEW w \in Workers, Get(w) PROVE TypeOK'
  BY <1>1 DEF Get, Goto
<1>2. ASSUME NEW w \in Workers, PutToken(w) PROVE TypeOK'
  BY <1>2 DEF PutToken, Goto
<1>3. ASSUME NEW w \in Workers, DeleteRow(w) PROVE TypeOK'
  BY <1>3 DEF DeleteRow, Goto
<1>4. ASSUME NEW w \in Workers, InsertRow(w) PROVE TypeOK'
  <2>1. CASE op[w].id \in row
    <3>1. End(w, FALSE) /\ Within /\ op[w].pc = "insert" /\ row' = row \cup {op[w].id} /\ UNCHANGED <<token, file, hurt>>
      BY <1>4, <2>1 DEF InsertRow
    <3> QED
      BY <2>1, <3>1 DEF End
  <2>2. CASE op[w].id \notin row /\ op[w].kind = "attach"
    <3>1. End(w, TRUE) /\ Within /\ op[w].pc = "insert" /\ row' = row \cup {op[w].id} /\ UNCHANGED <<token, file, hurt>>
      BY <1>4, <2>2 DEF InsertRow
    <3> QED
      BY <2>2, <3>1 DEF End
  <2>3. CASE op[w].id \notin row /\ op[w].kind # "attach"
    BY <1>4, <2>3 DEF InsertRow, Goto
  <2> QED
    BY <2>1, <2>2, <2>3
<1>5. ASSUME NEW w \in Workers, RemoveRow(w) PROVE TypeOK'
  BY <1>5 DEF RemoveRow, Goto
<1>6. ASSUME NEW w \in Workers, RemoveToken(w) PROVE TypeOK'
  <2>1. CASE op[w].kind = "detach"
    <3>1. End(w, TRUE) /\ Within /\ op[w].pc = "secret" /\ token' = token \ {op[w].id} /\ UNCHANGED <<row, file, hurt>>
      BY <1>6, <2>1 DEF RemoveToken
    <3> QED
      BY <2>1, <3>1 DEF End
  <2>2. CASE op[w].kind # "detach"
    BY <1>6, <2>2 DEF RemoveToken, Goto
  <2> QED
    BY <2>1, <2>2
<1>7. ASSUME NEW w \in Workers, Load(w) PROVE TypeOK'
  <2>1. CASE file # "whole"
    <3>1. End(w, FALSE) /\ Within /\ op[w].pc = "load" /\ UNCHANGED <<disk, hurt>>
      BY <1>7, <2>1 DEF Load
    <3> QED
      BY <2>1, <3>1 DEF End
  <2>2. CASE file = "whole"
    BY <1>7, <2>2 DEF Load, Goto
  <2> QED
    BY <2>1, <2>2
<1>8. ASSUME NEW w \in Workers, Truncate(w) PROVE TypeOK'
  BY <1>8 DEF Truncate, Goto
<1>9. ASSUME NEW w \in Workers, Write(w) PROVE TypeOK'
  BY <1>9 DEF Write, End
<1>10. ASSUME NEW w \in Workers, Fail(w) PROVE TypeOK'
  BY <1>10 DEF Fail, End, Broken
<1>11. ASSUME NEW t \in Tasks, NEW i \in Ids, BeginLogin(t, i) PROVE TypeOK'
  BY <1>11 DEF BeginLogin, Free, Work
<1>12. ASSUME NEW t \in Tasks, NEW i \in Ids, BeginAttach(t, i) PROVE TypeOK'
  BY <1>12 DEF BeginAttach, Free, Work
<1>13. ASSUME NEW t \in Tasks, NEW i \in Ids, NEW k \in {"reauth", "connect"}, BeginWait(t, k, i) PROVE TypeOK'
  BY <1>13 DEF BeginWait, Free, Work
<1>14. ASSUME NEW t \in Tasks, StopWaiting(t) PROVE TypeOK'
  BY <1>14 DEF StopWaiting
<1>15. ASSUME NEW t \in Tasks, Renew(t) PROVE TypeOK'
  BY <1>15 DEF Renew
<1>16. ASSUME NEW t \in Tasks, Connected(t) PROVE TypeOK'
  BY <1>16 DEF Connected
<1>17. ASSUME NEW i \in Ids, Disconnect(i) PROVE TypeOK'
  BY <1>17 DEF Disconnect, Free
<1>18. ASSUME NEW i \in Ids, BeginFilter(i) PROVE TypeOK'
  BY <1>18 DEF BeginFilter, Free, Work
<1>19. ASSUME NEW i \in Ids, BeginRemove(i) PROVE TypeOK'
  BY <1>19 DEF BeginRemove, Free, Work, Past
<1>20. ASSUME NEW i \in Ids, BeginDetach(i) PROVE TypeOK'
  BY <1>20 DEF BeginDetach, Free, Work
<1>21. ASSUME Start PROVE TypeOK'
  BY <1>21 DEF Start
<1>22. ASSUME NEW i \in Ids, Restore(i) PROVE TypeOK'
  BY <1>22 DEF Restore, Work
<1>23. ASSUME NEW i \in Ids, Reattach(i) PROVE TypeOK'
  BY <1>23 DEF Reattach
<1>24. ASSUME NEW i \in Ids, Skip(i) PROVE TypeOK'
  BY <1>24 DEF Skip
<1>25. ASSUME Restored PROVE TypeOK'
  BY <1>25 DEF Restored
<1>26. ASSUME Stop PROVE TypeOK'
  BY <1>26 DEF Stop, Broken
<1>27. ASSUME UNCHANGED vars PROVE TypeOK'
  BY <1>27 DEF vars
<1> QED
  BY <1>1, <1>2, <1>3, <1>4, <1>5, <1>6, <1>7, <1>8, <1>9, <1>10, <1>11, <1>12, <1>13, <1>14,
     <1>15, <1>16, <1>17, <1>18, <1>19, <1>20, <1>21, <1>22, <1>23, <1>24, <1>25, <1>26, <1>27
  DEF Next, Step

(* Goto names a step of the same command. *)
LEMMA StepsStep ==
  ASSUME TypeOK, StepsInv, [Next]_vars
  PROVE  StepsInv'
<1> USE SignInsAssumption DEF TypeOK, Op, Idle, Workers, AttachSteps, DetachSteps, PersistSteps,
       RemoveSteps, FileSteps, MainKinds, TaskKinds, Within, disk, SignInIds, StepsInv
<1>1. ASSUME NEW w \in Workers, Get(w) PROVE StepsInv'
  BY <1>1 DEF Get, Goto
<1>2. ASSUME NEW w \in Workers, PutToken(w) PROVE StepsInv'
  BY <1>2 DEF PutToken, Goto
<1>3. ASSUME NEW w \in Workers, DeleteRow(w) PROVE StepsInv'
  BY <1>3 DEF DeleteRow, Goto
<1>4. ASSUME NEW w \in Workers, InsertRow(w) PROVE StepsInv'
  <2>1. CASE op[w].id \in row
    <3>1. End(w, FALSE) /\ Within /\ op[w].pc = "insert" /\ row' = row \cup {op[w].id} /\ UNCHANGED <<token, file, hurt>>
      BY <1>4, <2>1 DEF InsertRow
    <3> QED
      BY <2>1, <3>1 DEF End
  <2>2. CASE op[w].id \notin row /\ op[w].kind = "attach"
    <3>1. End(w, TRUE) /\ Within /\ op[w].pc = "insert" /\ row' = row \cup {op[w].id} /\ UNCHANGED <<token, file, hurt>>
      BY <1>4, <2>2 DEF InsertRow
    <3> QED
      BY <2>2, <3>1 DEF End
  <2>3. CASE op[w].id \notin row /\ op[w].kind # "attach"
    BY <1>4, <2>3 DEF InsertRow, Goto
  <2> QED
    BY <2>1, <2>2, <2>3
<1>5. ASSUME NEW w \in Workers, RemoveRow(w) PROVE StepsInv'
  BY <1>5 DEF RemoveRow, Goto
<1>6. ASSUME NEW w \in Workers, RemoveToken(w) PROVE StepsInv'
  <2>1. CASE op[w].kind = "detach"
    <3>1. End(w, TRUE) /\ Within /\ op[w].pc = "secret" /\ token' = token \ {op[w].id} /\ UNCHANGED <<row, file, hurt>>
      BY <1>6, <2>1 DEF RemoveToken
    <3> QED
      BY <2>1, <3>1 DEF End
  <2>2. CASE op[w].kind # "detach"
    BY <1>6, <2>2 DEF RemoveToken, Goto
  <2> QED
    BY <2>1, <2>2
<1>7. ASSUME NEW w \in Workers, Load(w) PROVE StepsInv'
  <2>1. CASE file # "whole"
    <3>1. End(w, FALSE) /\ Within /\ op[w].pc = "load" /\ UNCHANGED <<disk, hurt>>
      BY <1>7, <2>1 DEF Load
    <3> QED
      BY <2>1, <3>1 DEF End
  <2>2. CASE file = "whole"
    BY <1>7, <2>2 DEF Load, Goto
  <2> QED
    BY <2>1, <2>2
<1>8. ASSUME NEW w \in Workers, Truncate(w) PROVE StepsInv'
  BY <1>8 DEF Truncate, Goto
<1>9. ASSUME NEW w \in Workers, Write(w) PROVE StepsInv'
  BY <1>9 DEF Write, End
<1>10. ASSUME NEW w \in Workers, Fail(w) PROVE StepsInv'
  BY <1>10 DEF Fail, End, Broken
<1>11. ASSUME NEW t \in Tasks, NEW i \in Ids, BeginLogin(t, i) PROVE StepsInv'
  BY <1>11 DEF BeginLogin, Free, Work
<1>12. ASSUME NEW t \in Tasks, NEW i \in Ids, BeginAttach(t, i) PROVE StepsInv'
  BY <1>12 DEF BeginAttach, Free, Work
<1>13. ASSUME NEW t \in Tasks, NEW i \in Ids, NEW k \in {"reauth", "connect"}, BeginWait(t, k, i) PROVE StepsInv'
  BY <1>13 DEF BeginWait, Free, Work
<1>14. ASSUME NEW t \in Tasks, StopWaiting(t) PROVE StepsInv'
  BY <1>14 DEF StopWaiting
<1>15. ASSUME NEW t \in Tasks, Renew(t) PROVE StepsInv'
  BY <1>15 DEF Renew
<1>16. ASSUME NEW t \in Tasks, Connected(t) PROVE StepsInv'
  BY <1>16 DEF Connected
<1>17. ASSUME NEW i \in Ids, Disconnect(i) PROVE StepsInv'
  BY <1>17 DEF Disconnect, Free
<1>18. ASSUME NEW i \in Ids, BeginFilter(i) PROVE StepsInv'
  BY <1>18 DEF BeginFilter, Free, Work
<1>19. ASSUME NEW i \in Ids, BeginRemove(i) PROVE StepsInv'
  BY <1>19 DEF BeginRemove, Free, Work, Past
<1>20. ASSUME NEW i \in Ids, BeginDetach(i) PROVE StepsInv'
  BY <1>20 DEF BeginDetach, Free, Work
<1>21. ASSUME Start PROVE StepsInv'
  BY <1>21 DEF Start
<1>22. ASSUME NEW i \in Ids, Restore(i) PROVE StepsInv'
  BY <1>22 DEF Restore, Work
<1>23. ASSUME NEW i \in Ids, Reattach(i) PROVE StepsInv'
  BY <1>23 DEF Reattach
<1>24. ASSUME NEW i \in Ids, Skip(i) PROVE StepsInv'
  BY <1>24 DEF Skip
<1>25. ASSUME Restored PROVE StepsInv'
  BY <1>25 DEF Restored
<1>26. ASSUME Stop PROVE StepsInv'
  BY <1>26 DEF Stop, Broken
<1>27. ASSUME UNCHANGED vars PROVE StepsInv'
  BY <1>27 DEF vars
<1> QED
  BY <1>1, <1>2, <1>3, <1>4, <1>5, <1>6, <1>7, <1>8, <1>9, <1>10, <1>11, <1>12, <1>13, <1>14,
     <1>15, <1>16, <1>17, <1>18, <1>19, <1>20, <1>21, <1>22, <1>23, <1>24, <1>25, <1>26, <1>27
  DEF Next, Step

(* Only connecting draws an id of a direct connection. *)
LEMMA DirectStep ==
  ASSUME TypeOK, StepsInv, DirectInv, [Next]_vars
  PROVE  DirectInv'
<1> USE SignInsAssumption DEF TypeOK, Op, Idle, Workers, AttachSteps, DetachSteps, PersistSteps,
       RemoveSteps, FileSteps, MainKinds, TaskKinds, Within, disk, SignInIds, StepsInv,
       DirectInv
<1>1. ASSUME NEW w \in Workers, Get(w) PROVE DirectInv'
  BY <1>1 DEF Get, Goto
<1>2. ASSUME NEW w \in Workers, PutToken(w) PROVE DirectInv'
  BY <1>2 DEF PutToken, Goto
<1>3. ASSUME NEW w \in Workers, DeleteRow(w) PROVE DirectInv'
  BY <1>3 DEF DeleteRow, Goto
<1>4. ASSUME NEW w \in Workers, InsertRow(w) PROVE DirectInv'
  <2>1. CASE op[w].id \in row
    <3>1. End(w, FALSE) /\ Within /\ op[w].pc = "insert" /\ row' = row \cup {op[w].id} /\ UNCHANGED <<token, file, hurt>>
      BY <1>4, <2>1 DEF InsertRow
    <3> QED
      BY <2>1, <3>1 DEF End
  <2>2. CASE op[w].id \notin row /\ op[w].kind = "attach"
    <3>1. End(w, TRUE) /\ Within /\ op[w].pc = "insert" /\ row' = row \cup {op[w].id} /\ UNCHANGED <<token, file, hurt>>
      BY <1>4, <2>2 DEF InsertRow
    <3> QED
      BY <2>2, <3>1 DEF End
  <2>3. CASE op[w].id \notin row /\ op[w].kind # "attach"
    BY <1>4, <2>3 DEF InsertRow, Goto
  <2> QED
    BY <2>1, <2>2, <2>3
<1>5. ASSUME NEW w \in Workers, RemoveRow(w) PROVE DirectInv'
  BY <1>5 DEF RemoveRow, Goto
<1>6. ASSUME NEW w \in Workers, RemoveToken(w) PROVE DirectInv'
  <2>1. CASE op[w].kind = "detach"
    <3>1. End(w, TRUE) /\ Within /\ op[w].pc = "secret" /\ token' = token \ {op[w].id} /\ UNCHANGED <<row, file, hurt>>
      BY <1>6, <2>1 DEF RemoveToken
    <3> QED
      BY <2>1, <3>1 DEF End
  <2>2. CASE op[w].kind # "detach"
    BY <1>6, <2>2 DEF RemoveToken, Goto
  <2> QED
    BY <2>1, <2>2
<1>7. ASSUME NEW w \in Workers, Load(w) PROVE DirectInv'
  <2>1. CASE file # "whole"
    <3>1. End(w, FALSE) /\ Within /\ op[w].pc = "load" /\ UNCHANGED <<disk, hurt>>
      BY <1>7, <2>1 DEF Load
    <3> QED
      BY <2>1, <3>1 DEF End
  <2>2. CASE file = "whole"
    BY <1>7, <2>2 DEF Load, Goto
  <2> QED
    BY <2>1, <2>2
<1>8. ASSUME NEW w \in Workers, Truncate(w) PROVE DirectInv'
  BY <1>8 DEF Truncate, Goto
<1>9. ASSUME NEW w \in Workers, Write(w) PROVE DirectInv'
  BY <1>9 DEF Write, End
<1>10. ASSUME NEW w \in Workers, Fail(w) PROVE DirectInv'
  BY <1>10 DEF Fail, End, Broken
<1>11. ASSUME NEW t \in Tasks, NEW i \in Ids, BeginLogin(t, i) PROVE DirectInv'
  BY <1>11 DEF BeginLogin, Free, Work
<1>12. ASSUME NEW t \in Tasks, NEW i \in Ids, BeginAttach(t, i) PROVE DirectInv'
  BY <1>12 DEF BeginAttach, Free, Work
<1>13. ASSUME NEW t \in Tasks, NEW i \in Ids, NEW k \in {"reauth", "connect"}, BeginWait(t, k, i) PROVE DirectInv'
  BY <1>13 DEF BeginWait, Free, Work
<1>14. ASSUME NEW t \in Tasks, StopWaiting(t) PROVE DirectInv'
  BY <1>14 DEF StopWaiting
<1>15. ASSUME NEW t \in Tasks, Renew(t) PROVE DirectInv'
  BY <1>15 DEF Renew
<1>16. ASSUME NEW t \in Tasks, Connected(t) PROVE DirectInv'
  BY <1>16 DEF Connected
<1>17. ASSUME NEW i \in Ids, Disconnect(i) PROVE DirectInv'
  BY <1>17 DEF Disconnect, Free
<1>18. ASSUME NEW i \in Ids, BeginFilter(i) PROVE DirectInv'
  BY <1>18 DEF BeginFilter, Free, Work
<1>19. ASSUME NEW i \in Ids, BeginRemove(i) PROVE DirectInv'
  BY <1>19 DEF BeginRemove, Free, Work, Past
<1>20. ASSUME NEW i \in Ids, BeginDetach(i) PROVE DirectInv'
  BY <1>20 DEF BeginDetach, Free, Work
<1>21. ASSUME Start PROVE DirectInv'
  BY <1>21 DEF Start
<1>22. ASSUME NEW i \in Ids, Restore(i) PROVE DirectInv'
  BY <1>22 DEF Restore, Work
<1>23. ASSUME NEW i \in Ids, Reattach(i) PROVE DirectInv'
  BY <1>23 DEF Reattach
<1>24. ASSUME NEW i \in Ids, Skip(i) PROVE DirectInv'
  BY <1>24 DEF Skip
<1>25. ASSUME Restored PROVE DirectInv'
  BY <1>25 DEF Restored
<1>26. ASSUME Stop PROVE DirectInv'
  BY <1>26 DEF Stop, Broken
<1>27. ASSUME UNCHANGED vars PROVE DirectInv'
  BY <1>27 DEF vars
<1> QED
  BY <1>1, <1>2, <1>3, <1>4, <1>5, <1>6, <1>7, <1>8, <1>9, <1>10, <1>11, <1>12, <1>13, <1>14,
     <1>15, <1>16, <1>17, <1>18, <1>19, <1>20, <1>21, <1>22, <1>23, <1>24, <1>25, <1>26, <1>27
  DEF Next, Step

(* An id is drawn by BeginLogin or BeginAttach before it reaches any of the places. *)
LEMMA UsedStep ==
  ASSUME TypeOK, StepsInv, RestoreInv, UsedInv, [Next]_vars
  PROVE  UsedInv'
<1> USE SignInsAssumption DEF TypeOK, Op, Idle, Workers, AttachSteps, DetachSteps, PersistSteps,
       RemoveSteps, FileSteps, MainKinds, TaskKinds, Within, disk, SignInIds, RestoreInv,
       UsedInv
<1>1. ASSUME NEW w \in Workers, Get(w) PROVE UsedInv'
  BY <1>1 DEF Get, Goto
<1>2. ASSUME NEW w \in Workers, PutToken(w) PROVE UsedInv'
  BY <1>2 DEF PutToken, Goto
<1>3. ASSUME NEW w \in Workers, DeleteRow(w) PROVE UsedInv'
  BY <1>3 DEF DeleteRow, Goto
<1>4. ASSUME NEW w \in Workers, InsertRow(w) PROVE UsedInv'
  <2>1. CASE op[w].id \in row
    <3>1. End(w, FALSE) /\ Within /\ op[w].pc = "insert" /\ row' = row \cup {op[w].id} /\ UNCHANGED <<token, file, hurt>>
      BY <1>4, <2>1 DEF InsertRow
    <3> QED
      BY <2>1, <3>1 DEF End
  <2>2. CASE op[w].id \notin row /\ op[w].kind = "attach"
    <3>1. End(w, TRUE) /\ Within /\ op[w].pc = "insert" /\ row' = row \cup {op[w].id} /\ UNCHANGED <<token, file, hurt>>
      BY <1>4, <2>2 DEF InsertRow
    <3> QED
      BY <2>2, <3>1 DEF End
  <2>3. CASE op[w].id \notin row /\ op[w].kind # "attach"
    BY <1>4, <2>3 DEF InsertRow, Goto
  <2> QED
    BY <2>1, <2>2, <2>3
<1>5. ASSUME NEW w \in Workers, RemoveRow(w) PROVE UsedInv'
  BY <1>5 DEF RemoveRow, Goto
<1>6. ASSUME NEW w \in Workers, RemoveToken(w) PROVE UsedInv'
  <2>1. CASE op[w].kind = "detach"
    <3>1. End(w, TRUE) /\ Within /\ op[w].pc = "secret" /\ token' = token \ {op[w].id} /\ UNCHANGED <<row, file, hurt>>
      BY <1>6, <2>1 DEF RemoveToken
    <3> QED
      BY <2>1, <3>1 DEF End
  <2>2. CASE op[w].kind # "detach"
    BY <1>6, <2>2 DEF RemoveToken, Goto
  <2> QED
    BY <2>1, <2>2
<1>7. ASSUME NEW w \in Workers, Load(w) PROVE UsedInv'
  <2>1. CASE file # "whole"
    <3>1. End(w, FALSE) /\ Within /\ op[w].pc = "load" /\ UNCHANGED <<disk, hurt>>
      BY <1>7, <2>1 DEF Load
    <3> QED
      BY <2>1, <3>1 DEF End
  <2>2. CASE file = "whole"
    BY <1>7, <2>2 DEF Load, Goto
  <2> QED
    BY <2>1, <2>2
<1>8. ASSUME NEW w \in Workers, Truncate(w) PROVE UsedInv'
  BY <1>8 DEF Truncate, Goto
<1>9. ASSUME NEW w \in Workers, Write(w) PROVE UsedInv'
  BY <1>9 DEF Write, End
<1>10. ASSUME NEW w \in Workers, Fail(w) PROVE UsedInv'
  BY <1>10 DEF Fail, End, Broken
<1>11. ASSUME NEW t \in Tasks, NEW i \in Ids, BeginLogin(t, i) PROVE UsedInv'
  BY <1>11 DEF BeginLogin, Free, Work
<1>12. ASSUME NEW t \in Tasks, NEW i \in Ids, BeginAttach(t, i) PROVE UsedInv'
  BY <1>12 DEF BeginAttach, Free, Work
<1>13. ASSUME NEW t \in Tasks, NEW i \in Ids, NEW k \in {"reauth", "connect"}, BeginWait(t, k, i) PROVE UsedInv'
  BY <1>13 DEF BeginWait, Free, Work
<1>14. ASSUME NEW t \in Tasks, StopWaiting(t) PROVE UsedInv'
  BY <1>14 DEF StopWaiting
<1>15. ASSUME NEW t \in Tasks, Renew(t) PROVE UsedInv'
  BY <1>15 DEF Renew
<1>16. ASSUME NEW t \in Tasks, Connected(t) PROVE UsedInv'
  BY <1>16 DEF Connected
<1>17. ASSUME NEW i \in Ids, Disconnect(i) PROVE UsedInv'
  BY <1>17 DEF Disconnect, Free
<1>18. ASSUME NEW i \in Ids, BeginFilter(i) PROVE UsedInv'
  BY <1>18 DEF BeginFilter, Free, Work
<1>19. ASSUME NEW i \in Ids, BeginRemove(i) PROVE UsedInv'
  BY <1>19 DEF BeginRemove, Free, Work, Past
<1>20. ASSUME NEW i \in Ids, BeginDetach(i) PROVE UsedInv'
  BY <1>20 DEF BeginDetach, Free, Work
<1>21. ASSUME Start PROVE UsedInv'
  BY <1>21 DEF Start
<1>22. ASSUME NEW i \in Ids, Restore(i) PROVE UsedInv'
  BY <1>22 DEF Restore, Work
<1>23. ASSUME NEW i \in Ids, Reattach(i) PROVE UsedInv'
  BY <1>23 DEF Reattach
<1>24. ASSUME NEW i \in Ids, Skip(i) PROVE UsedInv'
  BY <1>24 DEF Skip
<1>25. ASSUME Restored PROVE UsedInv'
  BY <1>25 DEF Restored
<1>26. ASSUME Stop PROVE UsedInv'
  BY <1>26 DEF Stop, Broken
<1>27. ASSUME UNCHANGED vars PROVE UsedInv'
  BY <1>27 DEF vars
<1> QED
  BY <1>1, <1>2, <1>3, <1>4, <1>5, <1>6, <1>7, <1>8, <1>9, <1>10, <1>11, <1>12, <1>13, <1>14,
     <1>15, <1>16, <1>17, <1>18, <1>19, <1>20, <1>21, <1>22, <1>23, <1>24, <1>25, <1>26, <1>27
  DEF Next, Step

(* A restored row leaves todo before persist deletes it and inserts it again. *)
LEMMA RestoreStep ==
  ASSUME TypeOK, StepsInv, RestoreInv, [Next]_vars
  PROVE  RestoreInv'
<1> USE SignInsAssumption DEF TypeOK, Op, Idle, Workers, AttachSteps, DetachSteps, PersistSteps,
       RemoveSteps, FileSteps, MainKinds, TaskKinds, Within, disk, SignInIds, StepsInv,
       RestoreInv
<1>1. ASSUME NEW w \in Workers, Get(w) PROVE RestoreInv'
  BY <1>1 DEF Get, Goto
<1>2. ASSUME NEW w \in Workers, PutToken(w) PROVE RestoreInv'
  BY <1>2 DEF PutToken, Goto
<1>3. ASSUME NEW w \in Workers, DeleteRow(w) PROVE RestoreInv'
  BY <1>3 DEF DeleteRow, Goto
<1>4. ASSUME NEW w \in Workers, InsertRow(w) PROVE RestoreInv'
  <2>1. CASE op[w].id \in row
    <3>1. End(w, FALSE) /\ Within /\ op[w].pc = "insert" /\ row' = row \cup {op[w].id} /\ UNCHANGED <<token, file, hurt>>
      BY <1>4, <2>1 DEF InsertRow
    <3> QED
      BY <2>1, <3>1 DEF End
  <2>2. CASE op[w].id \notin row /\ op[w].kind = "attach"
    <3>1. End(w, TRUE) /\ Within /\ op[w].pc = "insert" /\ row' = row \cup {op[w].id} /\ UNCHANGED <<token, file, hurt>>
      BY <1>4, <2>2 DEF InsertRow
    <3> QED
      BY <2>2, <3>1 DEF End
  <2>3. CASE op[w].id \notin row /\ op[w].kind # "attach"
    BY <1>4, <2>3 DEF InsertRow, Goto
  <2> QED
    BY <2>1, <2>2, <2>3
<1>5. ASSUME NEW w \in Workers, RemoveRow(w) PROVE RestoreInv'
  BY <1>5 DEF RemoveRow, Goto
<1>6. ASSUME NEW w \in Workers, RemoveToken(w) PROVE RestoreInv'
  <2>1. CASE op[w].kind = "detach"
    <3>1. End(w, TRUE) /\ Within /\ op[w].pc = "secret" /\ token' = token \ {op[w].id} /\ UNCHANGED <<row, file, hurt>>
      BY <1>6, <2>1 DEF RemoveToken
    <3> QED
      BY <2>1, <3>1 DEF End
  <2>2. CASE op[w].kind # "detach"
    BY <1>6, <2>2 DEF RemoveToken, Goto
  <2> QED
    BY <2>1, <2>2
<1>7. ASSUME NEW w \in Workers, Load(w) PROVE RestoreInv'
  <2>1. CASE file # "whole"
    <3>1. End(w, FALSE) /\ Within /\ op[w].pc = "load" /\ UNCHANGED <<disk, hurt>>
      BY <1>7, <2>1 DEF Load
    <3> QED
      BY <2>1, <3>1 DEF End
  <2>2. CASE file = "whole"
    BY <1>7, <2>2 DEF Load, Goto
  <2> QED
    BY <2>1, <2>2
<1>8. ASSUME NEW w \in Workers, Truncate(w) PROVE RestoreInv'
  BY <1>8 DEF Truncate, Goto
<1>9. ASSUME NEW w \in Workers, Write(w) PROVE RestoreInv'
  BY <1>9 DEF Write, End
<1>10. ASSUME NEW w \in Workers, Fail(w) PROVE RestoreInv'
  BY <1>10 DEF Fail, End, Broken
<1>11. ASSUME NEW t \in Tasks, NEW i \in Ids, BeginLogin(t, i) PROVE RestoreInv'
  BY <1>11 DEF BeginLogin, Free, Work
<1>12. ASSUME NEW t \in Tasks, NEW i \in Ids, BeginAttach(t, i) PROVE RestoreInv'
  BY <1>12 DEF BeginAttach, Free, Work
<1>13. ASSUME NEW t \in Tasks, NEW i \in Ids, NEW k \in {"reauth", "connect"}, BeginWait(t, k, i) PROVE RestoreInv'
  BY <1>13 DEF BeginWait, Free, Work
<1>14. ASSUME NEW t \in Tasks, StopWaiting(t) PROVE RestoreInv'
  BY <1>14 DEF StopWaiting
<1>15. ASSUME NEW t \in Tasks, Renew(t) PROVE RestoreInv'
  BY <1>15 DEF Renew
<1>16. ASSUME NEW t \in Tasks, Connected(t) PROVE RestoreInv'
  BY <1>16 DEF Connected
<1>17. ASSUME NEW i \in Ids, Disconnect(i) PROVE RestoreInv'
  BY <1>17 DEF Disconnect, Free
<1>18. ASSUME NEW i \in Ids, BeginFilter(i) PROVE RestoreInv'
  BY <1>18 DEF BeginFilter, Free, Work
<1>19. ASSUME NEW i \in Ids, BeginRemove(i) PROVE RestoreInv'
  BY <1>19 DEF BeginRemove, Free, Work, Past
<1>20. ASSUME NEW i \in Ids, BeginDetach(i) PROVE RestoreInv'
  BY <1>20 DEF BeginDetach, Free, Work
<1>21. ASSUME Start PROVE RestoreInv'
  BY <1>21 DEF Start
<1>22. ASSUME NEW i \in Ids, Restore(i) PROVE RestoreInv'
  BY <1>22 DEF Restore, Work
<1>23. ASSUME NEW i \in Ids, Reattach(i) PROVE RestoreInv'
  BY <1>23 DEF Reattach
<1>24. ASSUME NEW i \in Ids, Skip(i) PROVE RestoreInv'
  BY <1>24 DEF Skip
<1>25. ASSUME Restored PROVE RestoreInv'
  BY <1>25 DEF Restored
<1>26. ASSUME Stop PROVE RestoreInv'
  BY <1>26 DEF Stop, Broken
<1>27. ASSUME UNCHANGED vars PROVE RestoreInv'
  BY <1>27 DEF vars
<1> QED
  BY <1>1, <1>2, <1>3, <1>4, <1>5, <1>6, <1>7, <1>8, <1>9, <1>10, <1>11, <1>12, <1>13, <1>14,
     <1>15, <1>16, <1>17, <1>18, <1>19, <1>20, <1>21, <1>22, <1>23, <1>24, <1>25, <1>26, <1>27
  DEF Next, Step

(* A login enters what is shown only with End, which frees its worker; every   *)
(* other command takes an id that is shown, or restores before logins begin.    *)
LEMMA LoginStep ==
  ASSUME TypeOK, StepsInv, UsedInv, LoginInv, [Next]_vars
  PROVE  LoginInv'
<1> USE SignInsAssumption DEF TypeOK, Op, Idle, Workers, AttachSteps, DetachSteps, PersistSteps,
       RemoveSteps, FileSteps, MainKinds, TaskKinds, Within, disk, SignInIds, UsedInv, StepsInv,
       LoginInv
<1>1. ASSUME NEW w \in Workers, Get(w) PROVE LoginInv'
  BY <1>1 DEF Get, Goto
<1>2. ASSUME NEW w \in Workers, PutToken(w) PROVE LoginInv'
  BY <1>2 DEF PutToken, Goto
<1>3. ASSUME NEW w \in Workers, DeleteRow(w) PROVE LoginInv'
  BY <1>3 DEF DeleteRow, Goto
<1>4. ASSUME NEW w \in Workers, InsertRow(w) PROVE LoginInv'
  <2>1. CASE op[w].id \in row
    <3>1. End(w, FALSE) /\ Within /\ op[w].pc = "insert" /\ row' = row \cup {op[w].id} /\ UNCHANGED <<token, file, hurt>>
      BY <1>4, <2>1 DEF InsertRow
    <3> QED
      BY <2>1, <3>1 DEF End
  <2>2. CASE op[w].id \notin row /\ op[w].kind = "attach"
    <3>1. End(w, TRUE) /\ Within /\ op[w].pc = "insert" /\ row' = row \cup {op[w].id} /\ UNCHANGED <<token, file, hurt>>
      BY <1>4, <2>2 DEF InsertRow
    <3> QED
      BY <2>2, <3>1 DEF End
  <2>3. CASE op[w].id \notin row /\ op[w].kind # "attach"
    BY <1>4, <2>3 DEF InsertRow, Goto
  <2> QED
    BY <2>1, <2>2, <2>3
<1>5. ASSUME NEW w \in Workers, RemoveRow(w) PROVE LoginInv'
  BY <1>5 DEF RemoveRow, Goto
<1>6. ASSUME NEW w \in Workers, RemoveToken(w) PROVE LoginInv'
  <2>1. CASE op[w].kind = "detach"
    <3>1. End(w, TRUE) /\ Within /\ op[w].pc = "secret" /\ token' = token \ {op[w].id} /\ UNCHANGED <<row, file, hurt>>
      BY <1>6, <2>1 DEF RemoveToken
    <3> QED
      BY <2>1, <3>1 DEF End
  <2>2. CASE op[w].kind # "detach"
    BY <1>6, <2>2 DEF RemoveToken, Goto
  <2> QED
    BY <2>1, <2>2
<1>7. ASSUME NEW w \in Workers, Load(w) PROVE LoginInv'
  <2>1. CASE file # "whole"
    <3>1. End(w, FALSE) /\ Within /\ op[w].pc = "load" /\ UNCHANGED <<disk, hurt>>
      BY <1>7, <2>1 DEF Load
    <3> QED
      BY <2>1, <3>1 DEF End
  <2>2. CASE file = "whole"
    BY <1>7, <2>2 DEF Load, Goto
  <2> QED
    BY <2>1, <2>2
<1>8. ASSUME NEW w \in Workers, Truncate(w) PROVE LoginInv'
  BY <1>8 DEF Truncate, Goto
<1>9. ASSUME NEW w \in Workers, Write(w) PROVE LoginInv'
  BY <1>9 DEF Write, End
<1>10. ASSUME NEW w \in Workers, Fail(w) PROVE LoginInv'
  BY <1>10 DEF Fail, End, Broken
<1>11. ASSUME NEW t \in Tasks, NEW i \in Ids, BeginLogin(t, i) PROVE LoginInv'
  BY <1>11 DEF BeginLogin, Free, Work
<1>12. ASSUME NEW t \in Tasks, NEW i \in Ids, BeginAttach(t, i) PROVE LoginInv'
  BY <1>12 DEF BeginAttach, Free, Work
<1>13. ASSUME NEW t \in Tasks, NEW i \in Ids, NEW k \in {"reauth", "connect"}, BeginWait(t, k, i) PROVE LoginInv'
  BY <1>13 DEF BeginWait, Free, Work
<1>14. ASSUME NEW t \in Tasks, StopWaiting(t) PROVE LoginInv'
  BY <1>14 DEF StopWaiting
<1>15. ASSUME NEW t \in Tasks, Renew(t) PROVE LoginInv'
  BY <1>15 DEF Renew
<1>16. ASSUME NEW t \in Tasks, Connected(t) PROVE LoginInv'
  BY <1>16 DEF Connected
<1>17. ASSUME NEW i \in Ids, Disconnect(i) PROVE LoginInv'
  BY <1>17 DEF Disconnect, Free
<1>18. ASSUME NEW i \in Ids, BeginFilter(i) PROVE LoginInv'
  BY <1>18 DEF BeginFilter, Free, Work
<1>19. ASSUME NEW i \in Ids, BeginRemove(i) PROVE LoginInv'
  BY <1>19 DEF BeginRemove, Free, Work, Past
<1>20. ASSUME NEW i \in Ids, BeginDetach(i) PROVE LoginInv'
  BY <1>20 DEF BeginDetach, Free, Work
<1>21. ASSUME Start PROVE LoginInv'
  BY <1>21 DEF Start
<1>22. ASSUME NEW i \in Ids, Restore(i) PROVE LoginInv'
  BY <1>22 DEF Restore, Work
<1>23. ASSUME NEW i \in Ids, Reattach(i) PROVE LoginInv'
  BY <1>23 DEF Reattach
<1>24. ASSUME NEW i \in Ids, Skip(i) PROVE LoginInv'
  BY <1>24 DEF Skip
<1>25. ASSUME Restored PROVE LoginInv'
  BY <1>25 DEF Restored
<1>26. ASSUME Stop PROVE LoginInv'
  BY <1>26 DEF Stop, Broken
<1>27. ASSUME UNCHANGED vars PROVE LoginInv'
  BY <1>27 DEF vars
<1> QED
  BY <1>1, <1>2, <1>3, <1>4, <1>5, <1>6, <1>7, <1>8, <1>9, <1>10, <1>11, <1>12, <1>13, <1>14,
     <1>15, <1>16, <1>17, <1>18, <1>19, <1>20, <1>21, <1>22, <1>23, <1>24, <1>25, <1>26, <1>27
  DEF Next, Step

(* Once it is out of the memory only a task past its look can touch a sign-in:  *)
(* BeginRemove finds none, or marks it late, and later ones find no sign-in.    *)
LEMMA RemovingStep ==
  ASSUME IInv, [Next]_vars
  PROVE  RemovingInv'
<1> USE SignInsAssumption DEF TypeOK, Op, Idle, Workers, AttachSteps, DetachSteps, PersistSteps,
       RemoveSteps, FileSteps, MainKinds, TaskKinds, Within, disk, SignInIds, UsedInv, StepsInv,
       DirectInv, LoginInv, RemovingInv, RemovedInv, Quiet, IInv
<1>1. ASSUME NEW w \in Workers, Get(w) PROVE RemovingInv'
  BY <1>1 DEF Get, Goto
<1>2. ASSUME NEW w \in Workers, PutToken(w) PROVE RemovingInv'
  BY <1>2 DEF PutToken, Goto
<1>3. ASSUME NEW w \in Workers, DeleteRow(w) PROVE RemovingInv'
  BY <1>3 DEF DeleteRow, Goto
<1>4. ASSUME NEW w \in Workers, InsertRow(w) PROVE RemovingInv'
  <2>1. CASE op[w].id \in row
    <3>1. End(w, FALSE) /\ Within /\ op[w].pc = "insert" /\ row' = row \cup {op[w].id} /\ UNCHANGED <<token, file, hurt>>
      BY <1>4, <2>1 DEF InsertRow
    <3> QED
      BY <2>1, <3>1 DEF End
  <2>2. CASE op[w].id \notin row /\ op[w].kind = "attach"
    <3>1. End(w, TRUE) /\ Within /\ op[w].pc = "insert" /\ row' = row \cup {op[w].id} /\ UNCHANGED <<token, file, hurt>>
      BY <1>4, <2>2 DEF InsertRow
    <3> QED
      BY <2>2, <3>1 DEF End
  <2>3. CASE op[w].id \notin row /\ op[w].kind # "attach"
    BY <1>4, <2>3 DEF InsertRow, Goto
  <2> QED
    BY <2>1, <2>2, <2>3
<1>5. ASSUME NEW w \in Workers, RemoveRow(w) PROVE RemovingInv'
  BY <1>5 DEF RemoveRow, Goto
<1>6. ASSUME NEW w \in Workers, RemoveToken(w) PROVE RemovingInv'
  <2>1. CASE op[w].kind = "detach"
    <3>1. End(w, TRUE) /\ Within /\ op[w].pc = "secret" /\ token' = token \ {op[w].id} /\ UNCHANGED <<row, file, hurt>>
      BY <1>6, <2>1 DEF RemoveToken
    <3> QED
      BY <2>1, <3>1 DEF End
  <2>2. CASE op[w].kind # "detach"
    BY <1>6, <2>2 DEF RemoveToken, Goto
  <2> QED
    BY <2>1, <2>2
<1>7. ASSUME NEW w \in Workers, Load(w) PROVE RemovingInv'
  <2>1. CASE file # "whole"
    <3>1. End(w, FALSE) /\ Within /\ op[w].pc = "load" /\ UNCHANGED <<disk, hurt>>
      BY <1>7, <2>1 DEF Load
    <3> QED
      BY <2>1, <3>1 DEF End
  <2>2. CASE file = "whole"
    BY <1>7, <2>2 DEF Load, Goto
  <2> QED
    BY <2>1, <2>2
<1>8. ASSUME NEW w \in Workers, Truncate(w) PROVE RemovingInv'
  BY <1>8 DEF Truncate, Goto
<1>9. ASSUME NEW w \in Workers, Write(w) PROVE RemovingInv'
  BY <1>9 DEF Write, End
<1>10. ASSUME NEW w \in Workers, Fail(w) PROVE RemovingInv'
  BY <1>10 DEF Fail, End, Broken
<1>11. ASSUME NEW t \in Tasks, NEW i \in Ids, BeginLogin(t, i) PROVE RemovingInv'
  BY <1>11 DEF BeginLogin, Free, Work
<1>12. ASSUME NEW t \in Tasks, NEW i \in Ids, BeginAttach(t, i) PROVE RemovingInv'
  BY <1>12 DEF BeginAttach, Free, Work
<1>13. ASSUME NEW t \in Tasks, NEW i \in Ids, NEW k \in {"reauth", "connect"}, BeginWait(t, k, i) PROVE RemovingInv'
  BY <1>13 DEF BeginWait, Free, Work
<1>14. ASSUME NEW t \in Tasks, StopWaiting(t) PROVE RemovingInv'
  BY <1>14 DEF StopWaiting
<1>15. ASSUME NEW t \in Tasks, Renew(t) PROVE RemovingInv'
  BY <1>15 DEF Renew
<1>16. ASSUME NEW t \in Tasks, Connected(t) PROVE RemovingInv'
  BY <1>16 DEF Connected
<1>17. ASSUME NEW i \in Ids, Disconnect(i) PROVE RemovingInv'
  BY <1>17 DEF Disconnect, Free
<1>18. ASSUME NEW i \in Ids, BeginFilter(i) PROVE RemovingInv'
  BY <1>18 DEF BeginFilter, Free, Work
<1>19. ASSUME NEW i \in Ids, BeginRemove(i) PROVE RemovingInv'
  BY <1>19 DEF BeginRemove, Free, Work, Past
<1>20. ASSUME NEW i \in Ids, BeginDetach(i) PROVE RemovingInv'
  BY <1>20 DEF BeginDetach, Free, Work
<1>21. ASSUME Start PROVE RemovingInv'
  BY <1>21 DEF Start
<1>22. ASSUME NEW i \in Ids, Restore(i) PROVE RemovingInv'
  BY <1>22 DEF Restore, Work
<1>23. ASSUME NEW i \in Ids, Reattach(i) PROVE RemovingInv'
  BY <1>23 DEF Reattach
<1>24. ASSUME NEW i \in Ids, Skip(i) PROVE RemovingInv'
  BY <1>24 DEF Skip
<1>25. ASSUME Restored PROVE RemovingInv'
  BY <1>25 DEF Restored
<1>26. ASSUME Stop PROVE RemovingInv'
  BY <1>26 DEF Stop, Broken
<1>27. ASSUME UNCHANGED vars PROVE RemovingInv'
  BY <1>27 DEF vars
<1> QED
  BY <1>1, <1>2, <1>3, <1>4, <1>5, <1>6, <1>7, <1>8, <1>9, <1>10, <1>11, <1>12, <1>13, <1>14,
     <1>15, <1>16, <1>17, <1>18, <1>19, <1>20, <1>21, <1>22, <1>23, <1>24, <1>25, <1>26, <1>27
  DEF Next, Step

(* What RemovingInv has gathered when the removal ends; a later start finds no  *)
(* row to restore.                                                              *)
LEMMA RemovedStep ==
  ASSUME IInv, [Next]_vars
  PROVE  RemovedInv'
<1> USE SignInsAssumption DEF TypeOK, Op, Idle, Workers, AttachSteps, DetachSteps, PersistSteps,
       RemoveSteps, FileSteps, MainKinds, TaskKinds, Within, disk, SignInIds, UsedInv, StepsInv,
       DirectInv, RestoreInv, LoginInv, RemovingInv, RemovedInv, Quiet, IInv
<1>1. ASSUME NEW w \in Workers, Get(w) PROVE RemovedInv'
  BY <1>1 DEF Get, Goto
<1>2. ASSUME NEW w \in Workers, PutToken(w) PROVE RemovedInv'
  BY <1>2 DEF PutToken, Goto
<1>3. ASSUME NEW w \in Workers, DeleteRow(w) PROVE RemovedInv'
  BY <1>3 DEF DeleteRow, Goto
<1>4. ASSUME NEW w \in Workers, InsertRow(w) PROVE RemovedInv'
  <2>1. CASE op[w].id \in row
    <3>1. End(w, FALSE) /\ Within /\ op[w].pc = "insert" /\ row' = row \cup {op[w].id} /\ UNCHANGED <<token, file, hurt>>
      BY <1>4, <2>1 DEF InsertRow
    <3> QED
      BY <2>1, <3>1 DEF End
  <2>2. CASE op[w].id \notin row /\ op[w].kind = "attach"
    <3>1. End(w, TRUE) /\ Within /\ op[w].pc = "insert" /\ row' = row \cup {op[w].id} /\ UNCHANGED <<token, file, hurt>>
      BY <1>4, <2>2 DEF InsertRow
    <3> QED
      BY <2>2, <3>1 DEF End
  <2>3. CASE op[w].id \notin row /\ op[w].kind # "attach"
    BY <1>4, <2>3 DEF InsertRow, Goto
  <2> QED
    BY <2>1, <2>2, <2>3
<1>5. ASSUME NEW w \in Workers, RemoveRow(w) PROVE RemovedInv'
  BY <1>5 DEF RemoveRow, Goto
<1>6. ASSUME NEW w \in Workers, RemoveToken(w) PROVE RemovedInv'
  <2>1. CASE op[w].kind = "detach"
    <3>1. End(w, TRUE) /\ Within /\ op[w].pc = "secret" /\ token' = token \ {op[w].id} /\ UNCHANGED <<row, file, hurt>>
      BY <1>6, <2>1 DEF RemoveToken
    <3> QED
      BY <2>1, <3>1 DEF End
  <2>2. CASE op[w].kind # "detach"
    BY <1>6, <2>2 DEF RemoveToken, Goto
  <2> QED
    BY <2>1, <2>2
<1>7. ASSUME NEW w \in Workers, Load(w) PROVE RemovedInv'
  <2>1. CASE file # "whole"
    <3>1. End(w, FALSE) /\ Within /\ op[w].pc = "load" /\ UNCHANGED <<disk, hurt>>
      BY <1>7, <2>1 DEF Load
    <3> QED
      BY <2>1, <3>1 DEF End
  <2>2. CASE file = "whole"
    BY <1>7, <2>2 DEF Load, Goto
  <2> QED
    BY <2>1, <2>2
<1>8. ASSUME NEW w \in Workers, Truncate(w) PROVE RemovedInv'
  BY <1>8 DEF Truncate, Goto
<1>9. ASSUME NEW w \in Workers, Write(w) PROVE RemovedInv'
  BY <1>9 DEF Write, End
<1>10. ASSUME NEW w \in Workers, Fail(w) PROVE RemovedInv'
  BY <1>10 DEF Fail, End, Broken
<1>11. ASSUME NEW t \in Tasks, NEW i \in Ids, BeginLogin(t, i) PROVE RemovedInv'
  BY <1>11 DEF BeginLogin, Free, Work
<1>12. ASSUME NEW t \in Tasks, NEW i \in Ids, BeginAttach(t, i) PROVE RemovedInv'
  BY <1>12 DEF BeginAttach, Free, Work
<1>13. ASSUME NEW t \in Tasks, NEW i \in Ids, NEW k \in {"reauth", "connect"}, BeginWait(t, k, i) PROVE RemovedInv'
  BY <1>13 DEF BeginWait, Free, Work
<1>14. ASSUME NEW t \in Tasks, StopWaiting(t) PROVE RemovedInv'
  BY <1>14 DEF StopWaiting
<1>15. ASSUME NEW t \in Tasks, Renew(t) PROVE RemovedInv'
  BY <1>15 DEF Renew
<1>16. ASSUME NEW t \in Tasks, Connected(t) PROVE RemovedInv'
  BY <1>16 DEF Connected
<1>17. ASSUME NEW i \in Ids, Disconnect(i) PROVE RemovedInv'
  BY <1>17 DEF Disconnect, Free
<1>18. ASSUME NEW i \in Ids, BeginFilter(i) PROVE RemovedInv'
  BY <1>18 DEF BeginFilter, Free, Work
<1>19. ASSUME NEW i \in Ids, BeginRemove(i) PROVE RemovedInv'
  BY <1>19 DEF BeginRemove, Free, Work, Past
<1>20. ASSUME NEW i \in Ids, BeginDetach(i) PROVE RemovedInv'
  BY <1>20 DEF BeginDetach, Free, Work
<1>21. ASSUME Start PROVE RemovedInv'
  BY <1>21 DEF Start
<1>22. ASSUME NEW i \in Ids, Restore(i) PROVE RemovedInv'
  BY <1>22 DEF Restore, Work
<1>23. ASSUME NEW i \in Ids, Reattach(i) PROVE RemovedInv'
  BY <1>23 DEF Reattach
<1>24. ASSUME NEW i \in Ids, Skip(i) PROVE RemovedInv'
  BY <1>24 DEF Skip
<1>25. ASSUME Restored PROVE RemovedInv'
  BY <1>25 DEF Restored
<1>26. ASSUME Stop PROVE RemovedInv'
  BY <1>26 DEF Stop, Broken
<1>27. ASSUME UNCHANGED vars PROVE RemovedInv'
  BY <1>27 DEF vars
<1> QED
  BY <1>1, <1>2, <1>3, <1>4, <1>5, <1>6, <1>7, <1>8, <1>9, <1>10, <1>11, <1>12, <1>13, <1>14,
     <1>15, <1>16, <1>17, <1>18, <1>19, <1>20, <1>21, <1>22, <1>23, <1>24, <1>25, <1>26, <1>27
  DEF Next, Step

(* BeginRemove closes what is open and marks what is being opened late. *)
LEMMA ConnectingStep ==
  ASSUME IInv, [Next]_vars
  PROVE  ConnectingInv'
<1> USE SignInsAssumption DEF TypeOK, Op, Idle, Workers, AttachSteps, DetachSteps, PersistSteps,
       RemoveSteps, FileSteps, MainKinds, TaskKinds, Within, disk, SignInIds, UsedInv, StepsInv,
       DirectInv, ConnectingInv, ConnectionsHaveSignIn, RemovingInv, IInv
<1>1. ASSUME NEW w \in Workers, Get(w) PROVE ConnectingInv'
  BY <1>1 DEF Get, Goto
<1>2. ASSUME NEW w \in Workers, PutToken(w) PROVE ConnectingInv'
  BY <1>2 DEF PutToken, Goto
<1>3. ASSUME NEW w \in Workers, DeleteRow(w) PROVE ConnectingInv'
  BY <1>3 DEF DeleteRow, Goto
<1>4. ASSUME NEW w \in Workers, InsertRow(w) PROVE ConnectingInv'
  <2>1. CASE op[w].id \in row
    <3>1. End(w, FALSE) /\ Within /\ op[w].pc = "insert" /\ row' = row \cup {op[w].id} /\ UNCHANGED <<token, file, hurt>>
      BY <1>4, <2>1 DEF InsertRow
    <3> QED
      BY <2>1, <3>1 DEF End
  <2>2. CASE op[w].id \notin row /\ op[w].kind = "attach"
    <3>1. End(w, TRUE) /\ Within /\ op[w].pc = "insert" /\ row' = row \cup {op[w].id} /\ UNCHANGED <<token, file, hurt>>
      BY <1>4, <2>2 DEF InsertRow
    <3> QED
      BY <2>2, <3>1 DEF End
  <2>3. CASE op[w].id \notin row /\ op[w].kind # "attach"
    BY <1>4, <2>3 DEF InsertRow, Goto
  <2> QED
    BY <2>1, <2>2, <2>3
<1>5. ASSUME NEW w \in Workers, RemoveRow(w) PROVE ConnectingInv'
  BY <1>5 DEF RemoveRow, Goto
<1>6. ASSUME NEW w \in Workers, RemoveToken(w) PROVE ConnectingInv'
  <2>1. CASE op[w].kind = "detach"
    <3>1. End(w, TRUE) /\ Within /\ op[w].pc = "secret" /\ token' = token \ {op[w].id} /\ UNCHANGED <<row, file, hurt>>
      BY <1>6, <2>1 DEF RemoveToken
    <3> QED
      BY <2>1, <3>1 DEF End
  <2>2. CASE op[w].kind # "detach"
    BY <1>6, <2>2 DEF RemoveToken, Goto
  <2> QED
    BY <2>1, <2>2
<1>7. ASSUME NEW w \in Workers, Load(w) PROVE ConnectingInv'
  <2>1. CASE file # "whole"
    <3>1. End(w, FALSE) /\ Within /\ op[w].pc = "load" /\ UNCHANGED <<disk, hurt>>
      BY <1>7, <2>1 DEF Load
    <3> QED
      BY <2>1, <3>1 DEF End
  <2>2. CASE file = "whole"
    BY <1>7, <2>2 DEF Load, Goto
  <2> QED
    BY <2>1, <2>2
<1>8. ASSUME NEW w \in Workers, Truncate(w) PROVE ConnectingInv'
  BY <1>8 DEF Truncate, Goto
<1>9. ASSUME NEW w \in Workers, Write(w) PROVE ConnectingInv'
  BY <1>9 DEF Write, End
<1>10. ASSUME NEW w \in Workers, Fail(w) PROVE ConnectingInv'
  BY <1>10 DEF Fail, End, Broken
<1>11. ASSUME NEW t \in Tasks, NEW i \in Ids, BeginLogin(t, i) PROVE ConnectingInv'
  BY <1>11 DEF BeginLogin, Free, Work
<1>12. ASSUME NEW t \in Tasks, NEW i \in Ids, BeginAttach(t, i) PROVE ConnectingInv'
  BY <1>12 DEF BeginAttach, Free, Work
<1>13. ASSUME NEW t \in Tasks, NEW i \in Ids, NEW k \in {"reauth", "connect"}, BeginWait(t, k, i) PROVE ConnectingInv'
  BY <1>13 DEF BeginWait, Free, Work
<1>14. ASSUME NEW t \in Tasks, StopWaiting(t) PROVE ConnectingInv'
  BY <1>14 DEF StopWaiting
<1>15. ASSUME NEW t \in Tasks, Renew(t) PROVE ConnectingInv'
  BY <1>15 DEF Renew
<1>16. ASSUME NEW t \in Tasks, Connected(t) PROVE ConnectingInv'
  BY <1>16 DEF Connected
<1>17. ASSUME NEW i \in Ids, Disconnect(i) PROVE ConnectingInv'
  BY <1>17 DEF Disconnect, Free
<1>18. ASSUME NEW i \in Ids, BeginFilter(i) PROVE ConnectingInv'
  BY <1>18 DEF BeginFilter, Free, Work
<1>19. ASSUME NEW i \in Ids, BeginRemove(i) PROVE ConnectingInv'
  BY <1>19 DEF BeginRemove, Free, Work, Past
<1>20. ASSUME NEW i \in Ids, BeginDetach(i) PROVE ConnectingInv'
  BY <1>20 DEF BeginDetach, Free, Work
<1>21. ASSUME Start PROVE ConnectingInv'
  BY <1>21 DEF Start
<1>22. ASSUME NEW i \in Ids, Restore(i) PROVE ConnectingInv'
  BY <1>22 DEF Restore, Work
<1>23. ASSUME NEW i \in Ids, Reattach(i) PROVE ConnectingInv'
  BY <1>23 DEF Reattach
<1>24. ASSUME NEW i \in Ids, Skip(i) PROVE ConnectingInv'
  BY <1>24 DEF Skip
<1>25. ASSUME Restored PROVE ConnectingInv'
  BY <1>25 DEF Restored
<1>26. ASSUME Stop PROVE ConnectingInv'
  BY <1>26 DEF Stop, Broken
<1>27. ASSUME UNCHANGED vars PROVE ConnectingInv'
  BY <1>27 DEF vars
<1> QED
  BY <1>1, <1>2, <1>3, <1>4, <1>5, <1>6, <1>7, <1>8, <1>9, <1>10, <1>11, <1>12, <1>13, <1>14,
     <1>15, <1>16, <1>17, <1>18, <1>19, <1>20, <1>21, <1>22, <1>23, <1>24, <1>25, <1>26, <1>27
  DEF Next, Step

(* A session enters the memory with what OwnInv says; after that only removals  *)
(* and replacing the row take anything away.                                    *)
LEMMA ShownStep ==
  ASSUME IInv, StoredInv, [Next]_vars
  PROVE  ShownIsStored'
<1> USE SignInsAssumption DEF TypeOK, Op, Idle, Workers, AttachSteps, DetachSteps, PersistSteps,
       RemoveSteps, FileSteps, MainKinds, TaskKinds, Within, disk, SignInIds, UsedInv, StepsInv,
       RestoreInv, LoginInv, RemovingInv, IInv, StoredInv, ShownIsStored, OwnInv, At
<1>1. ASSUME NEW w \in Workers, Get(w) PROVE ShownIsStored'
  BY <1>1 DEF Get, Goto
<1>2. ASSUME NEW w \in Workers, PutToken(w) PROVE ShownIsStored'
  BY <1>2 DEF PutToken, Goto
<1>3. ASSUME NEW w \in Workers, DeleteRow(w) PROVE ShownIsStored'
  BY <1>3 DEF DeleteRow, Goto
<1>4. ASSUME NEW w \in Workers, InsertRow(w) PROVE ShownIsStored'
  <2>1. CASE op[w].id \in row
    <3>1. End(w, FALSE) /\ Within /\ op[w].pc = "insert" /\ row' = row \cup {op[w].id} /\ UNCHANGED <<token, file, hurt>>
      BY <1>4, <2>1 DEF InsertRow
    <3> QED
      BY <2>1, <3>1 DEF End
  <2>2. CASE op[w].id \notin row /\ op[w].kind = "attach"
    <3>1. End(w, TRUE) /\ Within /\ op[w].pc = "insert" /\ row' = row \cup {op[w].id} /\ UNCHANGED <<token, file, hurt>>
      BY <1>4, <2>2 DEF InsertRow
    <3> QED
      BY <2>2, <3>1 DEF End
  <2>3. CASE op[w].id \notin row /\ op[w].kind # "attach"
    BY <1>4, <2>3 DEF InsertRow, Goto
  <2> QED
    BY <2>1, <2>2, <2>3
<1>5. ASSUME NEW w \in Workers, RemoveRow(w) PROVE ShownIsStored'
  BY <1>5 DEF RemoveRow, Goto
<1>6. ASSUME NEW w \in Workers, RemoveToken(w) PROVE ShownIsStored'
  <2>1. CASE op[w].kind = "detach"
    <3>1. End(w, TRUE) /\ Within /\ op[w].pc = "secret" /\ token' = token \ {op[w].id} /\ UNCHANGED <<row, file, hurt>>
      BY <1>6, <2>1 DEF RemoveToken
    <3> QED
      BY <2>1, <3>1 DEF End
  <2>2. CASE op[w].kind # "detach"
    BY <1>6, <2>2 DEF RemoveToken, Goto
  <2> QED
    BY <2>1, <2>2
<1>7. ASSUME NEW w \in Workers, Load(w) PROVE ShownIsStored'
  <2>1. CASE file # "whole"
    <3>1. End(w, FALSE) /\ Within /\ op[w].pc = "load" /\ UNCHANGED <<disk, hurt>>
      BY <1>7, <2>1 DEF Load
    <3> QED
      BY <2>1, <3>1 DEF End
  <2>2. CASE file = "whole"
    BY <1>7, <2>2 DEF Load, Goto
  <2> QED
    BY <2>1, <2>2
<1>8. ASSUME NEW w \in Workers, Truncate(w) PROVE ShownIsStored'
  BY <1>8 DEF Truncate, Goto
<1>9. ASSUME NEW w \in Workers, Write(w) PROVE ShownIsStored'
  BY <1>9 DEF Write, End
<1>10. ASSUME NEW w \in Workers, Fail(w) PROVE ShownIsStored'
  BY <1>10 DEF Fail, End, Broken
<1>11. ASSUME NEW t \in Tasks, NEW i \in Ids, BeginLogin(t, i) PROVE ShownIsStored'
  BY <1>11 DEF BeginLogin, Free, Work
<1>12. ASSUME NEW t \in Tasks, NEW i \in Ids, BeginAttach(t, i) PROVE ShownIsStored'
  BY <1>12 DEF BeginAttach, Free, Work
<1>13. ASSUME NEW t \in Tasks, NEW i \in Ids, NEW k \in {"reauth", "connect"}, BeginWait(t, k, i) PROVE ShownIsStored'
  BY <1>13 DEF BeginWait, Free, Work
<1>14. ASSUME NEW t \in Tasks, StopWaiting(t) PROVE ShownIsStored'
  BY <1>14 DEF StopWaiting
<1>15. ASSUME NEW t \in Tasks, Renew(t) PROVE ShownIsStored'
  BY <1>15 DEF Renew
<1>16. ASSUME NEW t \in Tasks, Connected(t) PROVE ShownIsStored'
  BY <1>16 DEF Connected
<1>17. ASSUME NEW i \in Ids, Disconnect(i) PROVE ShownIsStored'
  BY <1>17 DEF Disconnect, Free
<1>18. ASSUME NEW i \in Ids, BeginFilter(i) PROVE ShownIsStored'
  BY <1>18 DEF BeginFilter, Free, Work
<1>19. ASSUME NEW i \in Ids, BeginRemove(i) PROVE ShownIsStored'
  BY <1>19 DEF BeginRemove, Free, Work, Past
<1>20. ASSUME NEW i \in Ids, BeginDetach(i) PROVE ShownIsStored'
  BY <1>20 DEF BeginDetach, Free, Work
<1>21. ASSUME Start PROVE ShownIsStored'
  BY <1>21 DEF Start
<1>22. ASSUME NEW i \in Ids, Restore(i) PROVE ShownIsStored'
  BY <1>22 DEF Restore, Work
<1>23. ASSUME NEW i \in Ids, Reattach(i) PROVE ShownIsStored'
  BY <1>23 DEF Reattach
<1>24. ASSUME NEW i \in Ids, Skip(i) PROVE ShownIsStored'
  BY <1>24 DEF Skip
<1>25. ASSUME Restored PROVE ShownIsStored'
  BY <1>25 DEF Restored
<1>26. ASSUME Stop PROVE ShownIsStored'
  BY <1>26 DEF Stop, Broken
<1>27. ASSUME UNCHANGED vars PROVE ShownIsStored'
  BY <1>27 DEF vars
<1> QED
  BY <1>1, <1>2, <1>3, <1>4, <1>5, <1>6, <1>7, <1>8, <1>9, <1>10, <1>11, <1>12, <1>13, <1>14,
     <1>15, <1>16, <1>17, <1>18, <1>19, <1>20, <1>21, <1>22, <1>23, <1>24, <1>25, <1>26, <1>27
  DEF Next, Step

(* A login has its id for itself, a restored sign-in the whole process. *)
LEMMA OwnStep ==
  ASSUME IInv, StoredInv, [Next]_vars
  PROVE  OwnInv'
<1> USE SignInsAssumption DEF TypeOK, Op, Idle, Workers, AttachSteps, DetachSteps, PersistSteps,
       RemoveSteps, FileSteps, MainKinds, TaskKinds, Within, disk, SignInIds, UsedInv, StepsInv,
       RestoreInv, LoginInv, RemovingInv, IInv, StoredInv, ShownIsStored, OwnInv, At
<1>1. ASSUME NEW w \in Workers, Get(w) PROVE OwnInv'
  BY <1>1 DEF Get, Goto
<1>2. ASSUME NEW w \in Workers, PutToken(w) PROVE OwnInv'
  BY <1>2 DEF PutToken, Goto
<1>3. ASSUME NEW w \in Workers, DeleteRow(w) PROVE OwnInv'
  BY <1>3 DEF DeleteRow, Goto
<1>4. ASSUME NEW w \in Workers, InsertRow(w) PROVE OwnInv'
  <2>1. CASE op[w].id \in row
    <3>1. End(w, FALSE) /\ Within /\ op[w].pc = "insert" /\ row' = row \cup {op[w].id} /\ UNCHANGED <<token, file, hurt>>
      BY <1>4, <2>1 DEF InsertRow
    <3> QED
      BY <2>1, <3>1 DEF End
  <2>2. CASE op[w].id \notin row /\ op[w].kind = "attach"
    <3>1. End(w, TRUE) /\ Within /\ op[w].pc = "insert" /\ row' = row \cup {op[w].id} /\ UNCHANGED <<token, file, hurt>>
      BY <1>4, <2>2 DEF InsertRow
    <3> QED
      BY <2>2, <3>1 DEF End
  <2>3. CASE op[w].id \notin row /\ op[w].kind # "attach"
    BY <1>4, <2>3 DEF InsertRow, Goto
  <2> QED
    BY <2>1, <2>2, <2>3
<1>5. ASSUME NEW w \in Workers, RemoveRow(w) PROVE OwnInv'
  BY <1>5 DEF RemoveRow, Goto
<1>6. ASSUME NEW w \in Workers, RemoveToken(w) PROVE OwnInv'
  <2>1. CASE op[w].kind = "detach"
    <3>1. End(w, TRUE) /\ Within /\ op[w].pc = "secret" /\ token' = token \ {op[w].id} /\ UNCHANGED <<row, file, hurt>>
      BY <1>6, <2>1 DEF RemoveToken
    <3> QED
      BY <2>1, <3>1 DEF End
  <2>2. CASE op[w].kind # "detach"
    BY <1>6, <2>2 DEF RemoveToken, Goto
  <2> QED
    BY <2>1, <2>2
<1>7. ASSUME NEW w \in Workers, Load(w) PROVE OwnInv'
  <2>1. CASE file # "whole"
    <3>1. End(w, FALSE) /\ Within /\ op[w].pc = "load" /\ UNCHANGED <<disk, hurt>>
      BY <1>7, <2>1 DEF Load
    <3> QED
      BY <2>1, <3>1 DEF End
  <2>2. CASE file = "whole"
    BY <1>7, <2>2 DEF Load, Goto
  <2> QED
    BY <2>1, <2>2
<1>8. ASSUME NEW w \in Workers, Truncate(w) PROVE OwnInv'
  BY <1>8 DEF Truncate, Goto
<1>9. ASSUME NEW w \in Workers, Write(w) PROVE OwnInv'
  BY <1>9 DEF Write, End
<1>10. ASSUME NEW w \in Workers, Fail(w) PROVE OwnInv'
  BY <1>10 DEF Fail, End, Broken
<1>11. ASSUME NEW t \in Tasks, NEW i \in Ids, BeginLogin(t, i) PROVE OwnInv'
  BY <1>11 DEF BeginLogin, Free, Work
<1>12. ASSUME NEW t \in Tasks, NEW i \in Ids, BeginAttach(t, i) PROVE OwnInv'
  BY <1>12 DEF BeginAttach, Free, Work
<1>13. ASSUME NEW t \in Tasks, NEW i \in Ids, NEW k \in {"reauth", "connect"}, BeginWait(t, k, i) PROVE OwnInv'
  BY <1>13 DEF BeginWait, Free, Work
<1>14. ASSUME NEW t \in Tasks, StopWaiting(t) PROVE OwnInv'
  BY <1>14 DEF StopWaiting
<1>15. ASSUME NEW t \in Tasks, Renew(t) PROVE OwnInv'
  BY <1>15 DEF Renew
<1>16. ASSUME NEW t \in Tasks, Connected(t) PROVE OwnInv'
  BY <1>16 DEF Connected
<1>17. ASSUME NEW i \in Ids, Disconnect(i) PROVE OwnInv'
  BY <1>17 DEF Disconnect, Free
<1>18. ASSUME NEW i \in Ids, BeginFilter(i) PROVE OwnInv'
  BY <1>18 DEF BeginFilter, Free, Work
<1>19. ASSUME NEW i \in Ids, BeginRemove(i) PROVE OwnInv'
  BY <1>19 DEF BeginRemove, Free, Work, Past
<1>20. ASSUME NEW i \in Ids, BeginDetach(i) PROVE OwnInv'
  BY <1>20 DEF BeginDetach, Free, Work
<1>21. ASSUME Start PROVE OwnInv'
  BY <1>21 DEF Start
<1>22. ASSUME NEW i \in Ids, Restore(i) PROVE OwnInv'
  BY <1>22 DEF Restore, Work
<1>23. ASSUME NEW i \in Ids, Reattach(i) PROVE OwnInv'
  BY <1>23 DEF Reattach
<1>24. ASSUME NEW i \in Ids, Skip(i) PROVE OwnInv'
  BY <1>24 DEF Skip
<1>25. ASSUME Restored PROVE OwnInv'
  BY <1>25 DEF Restored
<1>26. ASSUME Stop PROVE OwnInv'
  BY <1>26 DEF Stop, Broken
<1>27. ASSUME UNCHANGED vars PROVE OwnInv'
  BY <1>27 DEF vars
<1> QED
  BY <1>1, <1>2, <1>3, <1>4, <1>5, <1>6, <1>7, <1>8, <1>9, <1>10, <1>11, <1>12, <1>13, <1>14,
     <1>15, <1>16, <1>17, <1>18, <1>19, <1>20, <1>21, <1>22, <1>23, <1>24, <1>25, <1>26, <1>27
  DEF Next, Step

(* A persist that puts a token goes on to insert the row, and a removal that    *)
(* deletes the row goes on to delete the token.                                 *)
LEMMA StrayStep ==
  ASSUME TypeOK, StepsInv, NoStrayToken, [Next]_vars
  PROVE  NoStrayToken'
<1> USE SignInsAssumption DEF TypeOK, Op, Idle, Workers, AttachSteps, DetachSteps, PersistSteps,
       RemoveSteps, FileSteps, MainKinds, TaskKinds, Within, disk, SignInIds, StepsInv,
       NoStrayToken, At
<1>1. ASSUME NEW w \in Workers, Get(w) PROVE NoStrayToken'
  BY <1>1 DEF Get, Goto
<1>2. ASSUME NEW w \in Workers, PutToken(w) PROVE NoStrayToken'
  BY <1>2 DEF PutToken, Goto
<1>3. ASSUME NEW w \in Workers, DeleteRow(w) PROVE NoStrayToken'
  BY <1>3 DEF DeleteRow, Goto
<1>4. ASSUME NEW w \in Workers, InsertRow(w) PROVE NoStrayToken'
  <2>1. CASE op[w].id \in row
    <3>1. End(w, FALSE) /\ Within /\ op[w].pc = "insert" /\ row' = row \cup {op[w].id} /\ UNCHANGED <<token, file, hurt>>
      BY <1>4, <2>1 DEF InsertRow
    <3> QED
      BY <2>1, <3>1 DEF End
  <2>2. CASE op[w].id \notin row /\ op[w].kind = "attach"
    <3>1. End(w, TRUE) /\ Within /\ op[w].pc = "insert" /\ row' = row \cup {op[w].id} /\ UNCHANGED <<token, file, hurt>>
      BY <1>4, <2>2 DEF InsertRow
    <3> QED
      BY <2>2, <3>1 DEF End
  <2>3. CASE op[w].id \notin row /\ op[w].kind # "attach"
    BY <1>4, <2>3 DEF InsertRow, Goto
  <2> QED
    BY <2>1, <2>2, <2>3
<1>5. ASSUME NEW w \in Workers, RemoveRow(w) PROVE NoStrayToken'
  BY <1>5 DEF RemoveRow, Goto
<1>6. ASSUME NEW w \in Workers, RemoveToken(w) PROVE NoStrayToken'
  <2>1. CASE op[w].kind = "detach"
    <3>1. End(w, TRUE) /\ Within /\ op[w].pc = "secret" /\ token' = token \ {op[w].id} /\ UNCHANGED <<row, file, hurt>>
      BY <1>6, <2>1 DEF RemoveToken
    <3> QED
      BY <2>1, <3>1 DEF End
  <2>2. CASE op[w].kind # "detach"
    BY <1>6, <2>2 DEF RemoveToken, Goto
  <2> QED
    BY <2>1, <2>2
<1>7. ASSUME NEW w \in Workers, Load(w) PROVE NoStrayToken'
  <2>1. CASE file # "whole"
    <3>1. End(w, FALSE) /\ Within /\ op[w].pc = "load" /\ UNCHANGED <<disk, hurt>>
      BY <1>7, <2>1 DEF Load
    <3> QED
      BY <2>1, <3>1 DEF End
  <2>2. CASE file = "whole"
    BY <1>7, <2>2 DEF Load, Goto
  <2> QED
    BY <2>1, <2>2
<1>8. ASSUME NEW w \in Workers, Truncate(w) PROVE NoStrayToken'
  BY <1>8 DEF Truncate, Goto
<1>9. ASSUME NEW w \in Workers, Write(w) PROVE NoStrayToken'
  BY <1>9 DEF Write, End
<1>10. ASSUME NEW w \in Workers, Fail(w) PROVE NoStrayToken'
  BY <1>10 DEF Fail, End, Broken
<1>11. ASSUME NEW t \in Tasks, NEW i \in Ids, BeginLogin(t, i) PROVE NoStrayToken'
  BY <1>11 DEF BeginLogin, Free, Work
<1>12. ASSUME NEW t \in Tasks, NEW i \in Ids, BeginAttach(t, i) PROVE NoStrayToken'
  BY <1>12 DEF BeginAttach, Free, Work
<1>13. ASSUME NEW t \in Tasks, NEW i \in Ids, NEW k \in {"reauth", "connect"}, BeginWait(t, k, i) PROVE NoStrayToken'
  BY <1>13 DEF BeginWait, Free, Work
<1>14. ASSUME NEW t \in Tasks, StopWaiting(t) PROVE NoStrayToken'
  BY <1>14 DEF StopWaiting
<1>15. ASSUME NEW t \in Tasks, Renew(t) PROVE NoStrayToken'
  BY <1>15 DEF Renew
<1>16. ASSUME NEW t \in Tasks, Connected(t) PROVE NoStrayToken'
  BY <1>16 DEF Connected
<1>17. ASSUME NEW i \in Ids, Disconnect(i) PROVE NoStrayToken'
  BY <1>17 DEF Disconnect, Free
<1>18. ASSUME NEW i \in Ids, BeginFilter(i) PROVE NoStrayToken'
  BY <1>18 DEF BeginFilter, Free, Work
<1>19. ASSUME NEW i \in Ids, BeginRemove(i) PROVE NoStrayToken'
  BY <1>19 DEF BeginRemove, Free, Work, Past
<1>20. ASSUME NEW i \in Ids, BeginDetach(i) PROVE NoStrayToken'
  BY <1>20 DEF BeginDetach, Free, Work
<1>21. ASSUME Start PROVE NoStrayToken'
  BY <1>21 DEF Start
<1>22. ASSUME NEW i \in Ids, Restore(i) PROVE NoStrayToken'
  BY <1>22 DEF Restore, Work
<1>23. ASSUME NEW i \in Ids, Reattach(i) PROVE NoStrayToken'
  BY <1>23 DEF Reattach
<1>24. ASSUME NEW i \in Ids, Skip(i) PROVE NoStrayToken'
  BY <1>24 DEF Skip
<1>25. ASSUME Restored PROVE NoStrayToken'
  BY <1>25 DEF Restored
<1>26. ASSUME Stop PROVE NoStrayToken'
  BY <1>26 DEF Stop, Broken
<1>27. ASSUME UNCHANGED vars PROVE NoStrayToken'
  BY <1>27 DEF vars
<1> QED
  BY <1>1, <1>2, <1>3, <1>4, <1>5, <1>6, <1>7, <1>8, <1>9, <1>10, <1>11, <1>12, <1>13, <1>14,
     <1>15, <1>16, <1>17, <1>18, <1>19, <1>20, <1>21, <1>22, <1>23, <1>24, <1>25, <1>26, <1>27
  DEF Next, Step

LEMMA InitIInv ==
  ASSUME Init
  PROVE  IInv /\ StoredInv
  BY SignInsAssumption
  DEF Init, IInv, TypeOK, StepsInv, DirectInv, UsedInv, RestoreInv, LoginInv, RemovingInv, RemovedInv,
      ConnectingInv, ConnectionsHaveSignIn, StoredInv, ShownIsStored, OwnInv, NoStrayToken,
      Op, Idle, Workers, MainKinds, TaskKinds

LEMMA Invariance == Spec => [](IInv /\ StoredInv)
<1>1. Init => IInv /\ StoredInv
  BY InitIInv
<1>2. IInv /\ StoredInv /\ [Next]_vars => (IInv /\ StoredInv)'
  <2> SUFFICES ASSUME IInv, StoredInv, [Next]_vars
               PROVE  (IInv /\ StoredInv)'
    OBVIOUS
  <2>1. TypeOK' /\ StepsInv' /\ DirectInv' /\ RestoreInv' /\ UsedInv' /\ LoginInv'
    BY TypeStep, StepsStep, DirectStep, RestoreStep, UsedStep, LoginStep DEF IInv
  <2>2. RemovingInv' /\ RemovedInv' /\ ConnectingInv'
    BY RemovingStep, RemovedStep, ConnectingStep
  <2>3. ShownIsStored' /\ OwnInv' /\ NoStrayToken'
    BY ShownStep, OwnStep, StrayStep DEF IInv, StoredInv
  <2> QED
    BY <2>1, <2>2, <2>3 DEF IInv, StoredInv
<1> QED
  BY <1>1, <1>2, PTL DEF Spec

(* Every reachable state is well typed, for any sign-ins, connections and tasks. *)
THEOREM SpecTypeOK == Spec => []TypeOK
<1>1. IInv => TypeOK
  BY DEF IInv
<1> QED
  BY Invariance, <1>1, PTL

(* What is shown can be restored: no persist, filter, renewed login or removal *)
(* beside it takes its token or its row.                                       *)
THEOREM SpecShownIsStored == Spec => []ShownIsStored
<1>1. StoredInv => ShownIsStored
  BY DEF StoredInv
<1> QED
  BY Invariance, <1>1, PTL

(* Every refresh token and secret in the keychain has its row, or is about to. *)
THEOREM SpecNoStrayToken == Spec => []NoStrayToken
<1>1. StoredInv => NoStrayToken
  BY DEF StoredInv
<1> QED
  BY Invariance, <1>1, PTL

(* What remove_sign_in has removed while no task was past its look at the    *)
(* memory is never restored, nor a direct connection that was disconnected.  *)
THEOREM SpecRemovedStaysRemoved == Spec => []RemovedStaysRemoved
<1>1. IInv => RemovedStaysRemoved
  BY DEF IInv, RemovedInv, RemovedStaysRemoved, Quiet
<1> QED
  BY Invariance, <1>1, PTL

(* A connection outlives its sign-in only when it was being opened. *)
THEOREM SpecConnectionsHaveSignIn == Spec => []ConnectionsHaveSignIn
<1>1. IInv => ConnectionsHaveSignIn
  BY DEF IInv, ConnectingInv
<1> QED
  BY Invariance, <1>1, PTL
=============================================================================
