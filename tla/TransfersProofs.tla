--------------------------- MODULE TransfersProofs ---------------------------
(***************************************************************************)
(* The safety properties of Transfers, for any number of transfers, files  *)
(* and rows; then those of Downloads and Previews, for any number of       *)
(* downloads, blobs, chunks and requests.  The invariants the runs check   *)
(* are strengthened with what is known at each program counter.            *)
(***************************************************************************)
EXTENDS Transfers, Previews, FiniteSetTheorems, FunctionTheorems, SequenceTheorems, TLAPS

(* What the rows say of the commands' program counters *)
RowsInv ==
  /\ IsFiniteSet(DOMAIN activities)
  /\ \A i \in DOMAIN activities :
       IF activities[i].status = "running"
       THEN i \in Transfers /\ pc[i] \notin {"idle", "returned"}
       ELSE i \in Recorded \/ (pc[i] = "returned" /\ activities[i].status = verdict[i])

(* What a command in each phase knows of its token and of its outcome *)
OutcomeInv ==
  \A t \in Transfers :
    /\ t \in cancelled => pc[t] \notin {"idle", "begun"}
    /\ late[t].stopped => pc[t] \in {"failing", "reporting", "returned"} /\ t \in cancelled
    /\ pc[t] \in {"reporting", "returned"} =>
         /\ verdict[t] = "done" => moved[t] = FileCount[t]
         /\ verdict[t] = "cancelled" => t \in cancelled
         /\ late[t].stopped => verdict[t] = "cancelled"

(* Late work leaves a command where the next look at the token stops it *)
LateInv ==
  \A t \in Transfers :
    /\ late[t].chunks <= 1
    /\ late[t].chunks = 1 => t \in cancelled /\ pc[t] # "passing"
    /\ t \in Uploads =>
         /\ late[t].files <= 1
         /\ late[t].files = 1 =>
              t \in cancelled /\ pc[t] \notin {"awaiting", "passing", "storing"}

IInv == TypeOK /\ TokensWhileActive /\ RowsInv /\ OutcomeInv /\ LateInv

LEMMA InitIInv == Init => IInv
<1> SUFFICES ASSUME Init PROVE IInv
  OBVIOUS
<1>1. DOMAIN activities = {}
  BY DEF Init
<1>2. IsFiniteSet(DOMAIN activities)
  BY <1>1, FS_EmptySet
<1> QED
  BY <1>1, <1>2, TransfersAssumption
  DEF Init, IInv, TypeOK, TokensWhileActive, RowsInv, OutcomeInv, LateInv, Ids, PCs, Final, LateWork

(* Inserting a row keeps the other rows as they are, and the list finite. *)
LEMMA InsertRow ==
  ASSUME TypeOK, IsFiniteSet(DOMAIN activities),
         NEW id \in Ids, NEW status \in {"running"} \cup Final,
         NEW result \in {"none", "progress", "cancelling", "final"},
         activities' = Insert(id, status, result)
  PROVE  /\ IsFiniteSet(DOMAIN activities')
         /\ DOMAIN activities' \subseteq DOMAIN activities \cup {id}
         /\ id \in DOMAIN activities'
         /\ activities'[id].status = status /\ activities'[id].result = result
         /\ \A i \in DOMAIN activities' : activities'[i] \in Row
         /\ \A i \in DOMAIN activities' \ {id} :
              /\ activities'[i].status = activities[i].status
              /\ activities'[i].result = activities[i].result
<1> DEFINE older == [i \in DOMAIN activities |-> [activities[i] EXCEPT !.pos = @ + 1]]
           kept == {i \in DOMAIN older : older[i].pos < ActivityLimit}
<1>1. activities' = [i \in kept \cup {id} |->
         IF i = id THEN [status |-> status, result |-> result, pos |-> 0] ELSE older[i]]
  BY DEF Insert
<1>2. kept \subseteq DOMAIN activities
  OBVIOUS
<1>3. IsFiniteSet(kept \cup {id})
  BY <1>2, FS_Subset, FS_AddElement
<1>4. \A i \in DOMAIN activities :
        /\ older[i] \in Row
        /\ older[i].status = activities[i].status
        /\ older[i].result = activities[i].result
        /\ older[i].pos = activities[i].pos + 1
  BY DEF TypeOK, Row
<1>5. [status |-> status, result |-> result, pos |-> 0] \in Row
  BY DEF Row
<1> HIDE DEF older, kept
<1>6. DOMAIN activities' = kept \cup {id}
  BY <1>1
<1>7. activities'[id] = [status |-> status, result |-> result, pos |-> 0]
  BY <1>1
<1>8. \A i \in kept \ {id} : activities'[i] = older[i]
  BY <1>1
<1> QED
  BY <1>2, <1>3, <1>4, <1>5, <1>6, <1>7, <1>8

(* Retaining rows changes nothing but their places. *)
LEMMA RetainRows ==
  ASSUME TypeOK, IsFiniteSet(DOMAIN activities),
         NEW keep \in SUBSET DOMAIN activities,
         activities' = Retain(keep)
  PROVE  /\ DOMAIN activities' = keep
         /\ IsFiniteSet(keep)
         /\ \A i \in keep : /\ activities'[i] \in Row
                            /\ activities'[i].status = activities[i].status
                            /\ activities'[i].result = activities[i].result
<1>1. IsFiniteSet(keep)
  BY FS_Subset
<1>2. ASSUME NEW i \in keep
      PROVE  Cardinality({j \in keep : activities[j].pos < activities[i].pos}) \in Nat
  BY <1>1, FS_Subset, FS_CardinalityType
<1>3. activities' = [i \in keep |-> [activities[i] EXCEPT
        !.pos = Cardinality({j \in keep : activities[j].pos < activities[i].pos})]]
  BY DEF Retain
<1> QED
  BY <1>1, <1>2, <1>3 DEF TypeOK, Row
-----------------------------------------------------------------------------
(* Every step of a command, and every step of the others, keeps IInv.      *)

LEMMA StoppedLateWork ==
  ASSUME NEW w \in LateWork
  PROVE  [w EXCEPT !.stopped = TRUE] \in LateWork
BY Zenon DEF LateWork

LEMMA TransferStepIInv ==
  ASSUME IInv, NEW t \in Transfers, TransferStep(t)
  PROVE  IInv'
<1> USE DEF IInv, Goto
<1>1. CASE BeginActivity(t)
  <2> USE <1>1 DEF BeginActivity
  <2>1. activities' = Insert(t, "running", "none") /\ t \in Ids
    BY DEF Ids
  <2>2. /\ IsFiniteSet(DOMAIN activities')
        /\ DOMAIN activities' \subseteq DOMAIN activities \cup {t}
        /\ activities'[t].status = "running"
        /\ \A i \in DOMAIN activities' : activities'[i] \in Row
        /\ \A i \in DOMAIN activities' \ {t} : activities'[i].status = activities[i].status
    BY <2>1, InsertRow DEF RowsInv
  <2>3. TypeOK'
    BY <2>1, <2>2 DEF TypeOK, PCs
  <2>4. RowsInv'
    BY <2>2, TransfersAssumption DEF RowsInv, TypeOK
  <2>5. TokensWhileActive' /\ OutcomeInv' /\ LateInv'
    BY DEF TypeOK, TokensWhileActive, OutcomeInv, LateInv
  <2> QED
    BY <2>3, <2>4, <2>5
<1>2. CASE RegisterToken(t)
  <2> USE <1>2 DEF RegisterToken
  <2>1. TypeOK'
    BY TransfersAssumption DEF TypeOK, PCs, Final, Row, Ids
  <2>2. TokensWhileActive'
    BY DEF TypeOK, TokensWhileActive
  <2>3. RowsInv'
    BY TransfersAssumption DEF RowsInv, TypeOK, Ids, Row, Final
  <2>4. OutcomeInv'
    BY DEF OutcomeInv, TypeOK, TokensWhileActive
  <2>5. LateInv'
    BY DEF LateInv, OutcomeInv, TypeOK, LateWork
  <2> QED
    BY <2>1, <2>2, <2>3, <2>4, <2>5
<1>3. CASE AllMoved(t)
  <2> USE <1>3 DEF AllMoved, Report
  <2>1. TypeOK'
    BY TransfersAssumption DEF TypeOK, PCs, Final, Row, Ids
  <2>2. TokensWhileActive'
    BY DEF TypeOK, TokensWhileActive
  <2>3. RowsInv'
    BY TransfersAssumption DEF RowsInv, TypeOK, Ids, Row, Final
  <2>4. OutcomeInv'
    BY DEF OutcomeInv, TypeOK, TokensWhileActive
  <2>5. LateInv'
    BY DEF LateInv, OutcomeInv, TypeOK, LateWork
  <2> QED
    BY <2>1, <2>2, <2>3, <2>4, <2>5
<1>4. CASE LocalError(t)
  <2> USE <1>4 DEF LocalError, Report
  <2>1. TypeOK'
    BY TransfersAssumption DEF TypeOK, PCs, Final, Row, Ids
  <2>2. TokensWhileActive'
    BY DEF TypeOK, TokensWhileActive
  <2>3. RowsInv'
    BY TransfersAssumption DEF RowsInv, TypeOK, Ids, Row, Final
  <2>4. OutcomeInv'
    BY DEF OutcomeInv, TypeOK, TokensWhileActive
  <2>5. LateInv'
    BY DEF LateInv, OutcomeInv, TypeOK, LateWork
  <2> QED
    BY <2>1, <2>2, <2>3, <2>4, <2>5
<1>5. CASE OpenSource(t)
  <2> USE <1>5 DEF OpenSource
  <2>1. TypeOK'
    BY TransfersAssumption DEF TypeOK, PCs, Final, Row, Ids
  <2>2. TokensWhileActive'
    BY DEF TypeOK, TokensWhileActive
  <2>3. RowsInv'
    BY TransfersAssumption DEF RowsInv, TypeOK, Ids, Row, Final
  <2>4. OutcomeInv'
    BY DEF OutcomeInv, TypeOK, TokensWhileActive
  <2>5. LateInv'
    BY DEF LateInv, OutcomeInv, TypeOK, LateWork
  <2> QED
    BY <2>1, <2>2, <2>3, <2>4, <2>5
<1>6. CASE CheckToken(t)
  <2> USE <1>6 DEF CheckToken, StopByToken
  <2>0. [late[t] EXCEPT !.stopped = TRUE] \in LateWork
    BY StoppedLateWork DEF TypeOK
  <2>1. TypeOK'
    BY <2>0, TransfersAssumption DEF TypeOK, PCs, Final, Row, Ids
  <2>2. TokensWhileActive'
    BY DEF TypeOK, TokensWhileActive
  <2>3. RowsInv'
    BY TransfersAssumption DEF RowsInv, TypeOK, Ids, Row, Final
  <2>4. OutcomeInv'
    BY DEF OutcomeInv, TypeOK, TokensWhileActive
  <2>5. LateInv'
    BY DEF LateInv, OutcomeInv, TypeOK, LateWork
  <2> QED
    BY <2>1, <2>2, <2>3, <2>4, <2>5
<1>7. CASE ReadChunk(t)
  <2> USE <1>7 DEF ReadChunk, StopByToken
  <2>0. [late[t] EXCEPT !.stopped = TRUE] \in LateWork
    BY StoppedLateWork DEF TypeOK
  <2>1. TypeOK'
    BY <2>0, TransfersAssumption DEF TypeOK, PCs, Final, Row, Ids
  <2>2. TokensWhileActive'
    BY DEF TypeOK, TokensWhileActive
  <2>3. RowsInv'
    BY TransfersAssumption DEF RowsInv, TypeOK, Ids, Row, Final
  <2>4. OutcomeInv'
    BY DEF OutcomeInv, TypeOK, TokensWhileActive
  <2>5. LateInv'
    BY DEF LateInv, OutcomeInv, TypeOK, LateWork
  <2> QED
    BY <2>1, <2>2, <2>3, <2>4, <2>5
<1>8. CASE ReadFails(t)
  <2> USE <1>8 DEF ReadFails
  <2>1. TypeOK'
    BY TransfersAssumption DEF TypeOK, PCs, Final, Row, Ids
  <2>2. TokensWhileActive'
    BY DEF TypeOK, TokensWhileActive
  <2>3. RowsInv'
    BY TransfersAssumption DEF RowsInv, TypeOK, Ids, Row, Final
  <2>4. OutcomeInv'
    BY DEF OutcomeInv, TypeOK, TokensWhileActive
  <2>5. LateInv'
    BY DEF LateInv, OutcomeInv, TypeOK, LateWork
  <2> QED
    BY <2>1, <2>2, <2>3, <2>4, <2>5
<1>9. CASE PassChunk(t)
  <2> USE <1>9 DEF PassChunk, Progressed
  <2>0. late[t].chunks < 2 => [late[t] EXCEPT !.chunks = late[t].chunks + 1] \in LateWork
    BY DEF TypeOK, LateWork
  <2>1. TypeOK'
    BY <2>0, TransfersAssumption DEF TypeOK, PCs, Final, Row, Ids
  <2>2. TokensWhileActive'
    BY DEF TypeOK, TokensWhileActive
  <2>3. RowsInv'
    BY TransfersAssumption DEF RowsInv, TypeOK, Ids, Row, Final
  <2>4. OutcomeInv'
    BY DEF OutcomeInv, TypeOK, TokensWhileActive
  <2>5. LateInv'
    BY DEF LateInv, OutcomeInv, TypeOK, LateWork
  <2> QED
    BY <2>1, <2>2, <2>3, <2>4, <2>5
<1>10. CASE PassFails(t)
  <2> USE <1>10 DEF PassFails, Progressed
  <2>1. TypeOK'
    BY TransfersAssumption DEF TypeOK, PCs, Final, Row, Ids
  <2>2. TokensWhileActive'
    BY DEF TypeOK, TokensWhileActive
  <2>3. RowsInv'
    BY TransfersAssumption DEF RowsInv, TypeOK, Ids, Row, Final
  <2>4. OutcomeInv'
    BY DEF OutcomeInv, TypeOK, TokensWhileActive
  <2>5. LateInv'
    BY DEF LateInv, OutcomeInv, TypeOK, LateWork
  <2> QED
    BY <2>1, <2>2, <2>3, <2>4, <2>5
<1>11. CASE EndOfSource(t)
  <2> USE <1>11 DEF EndOfSource
  <2>1. TypeOK'
    BY TransfersAssumption DEF TypeOK, PCs, Final, Row, Ids
  <2>2. TokensWhileActive'
    BY DEF TypeOK, TokensWhileActive
  <2>3. RowsInv'
    BY TransfersAssumption DEF RowsInv, TypeOK, Ids, Row, Final
  <2>4. OutcomeInv'
    BY DEF OutcomeInv, TypeOK, TokensWhileActive
  <2>5. LateInv'
    BY DEF LateInv, OutcomeInv, TypeOK, LateWork
  <2> QED
    BY <2>1, <2>2, <2>3, <2>4, <2>5
<1>12. CASE StoreFile(t)
  <2> USE <1>12 DEF StoreFile, Progressed
  <2>0. [late[t] EXCEPT !.files = late[t].files + 1] \in LateWork
    BY DEF TypeOK, LateWork
  <2>1. TypeOK'
    BY <2>0, TransfersAssumption DEF TypeOK, PCs, Final, Row, Ids
  <2>2. TokensWhileActive'
    BY DEF TypeOK, TokensWhileActive
  <2>3. RowsInv'
    BY TransfersAssumption DEF RowsInv, TypeOK, Ids, Row, Final
  <2>4. OutcomeInv'
    BY DEF OutcomeInv, TypeOK, TokensWhileActive
  <2>5. LateInv'
    BY DEF LateInv, OutcomeInv, TypeOK, LateWork
  <2> QED
    BY <2>1, <2>2, <2>3, <2>4, <2>5
<1>13. CASE StoreFails(t)
  <2> USE <1>13 DEF StoreFails
  <2>1. TypeOK'
    BY TransfersAssumption DEF TypeOK, PCs, Final, Row, Ids
  <2>2. TokensWhileActive'
    BY DEF TypeOK, TokensWhileActive
  <2>3. RowsInv'
    BY TransfersAssumption DEF RowsInv, TypeOK, Ids, Row, Final
  <2>4. OutcomeInv'
    BY DEF OutcomeInv, TypeOK, TokensWhileActive
  <2>5. LateInv'
    BY DEF LateInv, OutcomeInv, TypeOK, LateWork
  <2> QED
    BY <2>1, <2>2, <2>3, <2>4, <2>5
<1>14. CASE ReadVerdict(t)
  <2> USE <1>14 DEF ReadVerdict, Report
  <2>1. TypeOK'
    BY TransfersAssumption DEF TypeOK, PCs, Final, Row, Ids
  <2>2. TokensWhileActive'
    BY DEF TypeOK, TokensWhileActive
  <2>3. RowsInv'
    BY TransfersAssumption DEF RowsInv, TypeOK, Ids, Row, Final
  <2>4. OutcomeInv'
    BY DEF OutcomeInv, TypeOK, TokensWhileActive
  <2>5. LateInv'
    BY DEF LateInv, OutcomeInv, TypeOK, LateWork
  <2> QED
    BY <2>1, <2>2, <2>3, <2>4, <2>5
<1>15. CASE Finish(t)
  <2> USE <1>15 DEF Finish, FinishActivity
  <2>1. TypeOK'
    BY TransfersAssumption DEF TypeOK, PCs, Final, Row, Ids
  <2>2. TokensWhileActive'
    BY DEF TypeOK, TokensWhileActive
  <2>3. RowsInv'
    BY TransfersAssumption DEF RowsInv, TypeOK, Ids, Row, Final
  <2>4. OutcomeInv'
    BY DEF OutcomeInv, TypeOK, TokensWhileActive
  <2>5. LateInv'
    BY DEF LateInv, OutcomeInv, TypeOK, LateWork
  <2> QED
    BY <2>1, <2>2, <2>3, <2>4, <2>5
<1> QED
  BY <1>1, <1>2, <1>3, <1>4, <1>5, <1>6, <1>7, <1>8, <1>9, <1>10, <1>11, <1>12, <1>13, <1>14, <1>15
  DEF TransferStep

LEMMA CancelIInv ==
  ASSUME IInv, NEW t \in Transfers, CancelActivity(t)
  PROVE  IInv'
<1> USE DEF IInv, CancelActivity
<1>1. TypeOK'
  BY DEF TypeOK, Row
<1>2. TokensWhileActive'
  BY DEF TypeOK, TokensWhileActive
<1>3. RowsInv'
  BY DEF RowsInv, TypeOK, Row
<1>4. OutcomeInv' /\ LateInv'
  BY DEF OutcomeInv, LateInv, TypeOK, LateWork, TokensWhileActive
<1> QED
  BY <1>1, <1>2, <1>3, <1>4

LEMMA ClearIInv ==
  ASSUME IInv, ClearCompleted \/ ClearSuccessful
  PROVE  IInv'
<1>1. PICK keep \in SUBSET DOMAIN activities : activities' = Retain(keep)
  BY DEF ClearCompleted, ClearSuccessful
<1>2. UNCHANGED <<registered, cancelled, pc, verdict, moved, late>>
  BY DEF ClearCompleted, ClearSuccessful
<1>3. /\ DOMAIN activities' = keep
      /\ IsFiniteSet(keep)
      /\ \A i \in keep : activities'[i] \in Row /\ activities'[i].status = activities[i].status
  BY <1>1, RetainRows DEF IInv, RowsInv
<1>4. TypeOK' /\ RowsInv'
  BY <1>2, <1>3 DEF IInv, TypeOK, RowsInv
<1>5. TokensWhileActive' /\ OutcomeInv' /\ LateInv'
  BY <1>2 DEF IInv, TokensWhileActive, OutcomeInv, LateInv
<1> QED
  BY <1>4, <1>5 DEF IInv

LEMMA RecordIInv ==
  ASSUME IInv, NEW id \in Recorded, RecordActivity(id)
  PROVE  IInv'
<1>1. activities' = Insert(id, "done", "final") /\ id \in Ids
  BY DEF RecordActivity, Ids
<1>2. UNCHANGED <<registered, cancelled, pc, verdict, moved, late>>
  BY DEF RecordActivity
<1>3. /\ IsFiniteSet(DOMAIN activities')
      /\ DOMAIN activities' \subseteq DOMAIN activities \cup {id}
      /\ activities'[id].status = "done"
      /\ \A i \in DOMAIN activities' : activities'[i] \in Row
      /\ \A i \in DOMAIN activities' \ {id} : activities'[i].status = activities[i].status
  BY <1>1, InsertRow DEF IInv, RowsInv, Final
<1>4. TypeOK' /\ RowsInv'
  BY <1>1, <1>2, <1>3 DEF IInv, TypeOK, RowsInv
<1>5. TokensWhileActive' /\ OutcomeInv' /\ LateInv'
  BY <1>2 DEF IInv, TokensWhileActive, OutcomeInv, LateInv
<1> QED
  BY <1>4, <1>5 DEF IInv

LEMMA NextIInv == IInv /\ [Next]_vars => IInv'
<1> SUFFICES ASSUME IInv, [Next]_vars PROVE IInv'
  OBVIOUS
<1>1. CASE UNCHANGED vars
  BY <1>1 DEF vars, IInv, TypeOK, TokensWhileActive, RowsInv, OutcomeInv, LateInv
<1>2. CASE Next
  BY <1>2, TransferStepIInv, CancelIInv, ClearIInv, RecordIInv DEF Next
<1> QED
  BY <1>1, <1>2

(* The strengthened invariant holds in every reachable state. *)
LEMMA SpecIInv == Spec => []IInv
BY InitIInv, NextIInv, PTL DEF Spec

-----------------------------------------------------------------------------
(* The theorems.                                                           *)

(* Every reachable state of the registry and its commands is well typed. *)
THEOREM SpecTypeOK == Spec => []TypeOK
<1>1. IInv => TypeOK
  BY DEF IInv
<1> QED
  BY <1>1, SpecIInv, PTL

(* No cancellation token outlives its command or is missing while it works, *)
(* whatever rows the list has dropped (begin_cancellable_activity,          *)
(* finish_activity).                                                        *)
THEOREM SpecTokensWhileActive == Spec => []TokensWhileActive
<1>1. IInv => TokensWhileActive
  BY DEF IInv
<1> QED
  BY <1>1, SpecIInv, PTL

(* Every running row belongs to a command still at work that cancel_activity *)
(* can reach.                                                                *)
THEOREM SpecRunningRowCancellable == Spec => []RunningRowCancellable
<1>1. IInv => RunningRowCancellable
  BY DEF IInv, TypeOK, RowsInv, TokensWhileActive, RunningRowCancellable
<1> QED
  BY <1>1, SpecIInv, PTL

(* A finished row says what its command did (finish_transfer_error). *)
THEOREM SpecOutcomeIsTruthful == Spec => []OutcomeIsTruthful
<1>1. IInv => OutcomeIsTruthful
  BY TransfersAssumption DEF IInv, TypeOK, RowsInv, OutcomeInv, OutcomeIsTruthful
<1> QED
  BY <1>1, SpecIInv, PTL

(* A set token lets through one chunk, and one file of an upload, at most. *)
THEOREM SpecLateWorkBounded == Spec => []LateWorkBounded
<1>1. IInv => LateWorkBounded
  BY DEF IInv, LateInv, LateWorkBounded
<1> QED
  BY <1>1, SpecIInv, PTL

(* No step alters a finished row: not a late cancel, not a late progress *)
(* report, not the end of another command.                               *)
THEOREM SpecFinishedRowFrozen == Spec => FinishedRowFrozen
<1> DEFINE Frozen ==
      \A i \in DOMAIN activities \cap DOMAIN activities' :
        activities[i].status # "running" =>
          activities'[i].status = activities[i].status
          /\ activities'[i].result = activities[i].result
<1>1. IInv /\ [Next]_vars => [Frozen]_vars
  <2> SUFFICES ASSUME IInv, Next PROVE Frozen
    OBVIOUS
  <2>1. ASSUME NEW t \in Transfers, TransferStep(t)
        PROVE  Frozen
    <3>1. CASE BeginActivity(t)
      <4>1. t \notin DOMAIN activities
        BY <3>1, TransfersAssumption DEF BeginActivity, IInv, RowsInv
      <4>2. \A i \in DOMAIN activities' \ {t} :
              activities'[i].status = activities[i].status
              /\ activities'[i].result = activities[i].result
        BY <3>1, InsertRow DEF BeginActivity, IInv, RowsInv, Ids
      <4> QED
        BY <4>1, <4>2
    <3>2. CASE ~ BeginActivity(t)
      <4>1. \/ UNCHANGED activities
            \/ activities' = Progressed(t) /\ pc[t] # "returned"
            \/ FinishActivity(t, verdict[t]) /\ pc[t] # "returned"
        BY <2>1, <3>2
        DEF TransferStep, RegisterToken, AllMoved, LocalError, OpenSource, CheckToken,
            ReadChunk, ReadFails, PassChunk, PassFails, EndOfSource, StoreFile, StoreFails,
            ReadVerdict, Finish
      <4>2. \A i \in DOMAIN activities : activities[i].status # "running" => i # t \/ pc[t] = "returned"
        BY TransfersAssumption DEF IInv, RowsInv
      <4> QED
        BY <4>1, <4>2 DEF Progressed, FinishActivity
    <3> QED
      BY <3>1, <3>2
  <2>2. ASSUME NEW t \in Transfers, CancelActivity(t)
        PROVE  Frozen
    <3>1. t \in DOMAIN activities => activities[t].status = "running"
      BY <2>2, TransfersAssumption DEF CancelActivity, IInv, TypeOK, TokensWhileActive, RowsInv
    <3> QED
      BY <2>2, <3>1 DEF CancelActivity
  <2>3. ASSUME ClearCompleted \/ ClearSuccessful
        PROVE  Frozen
    <3>1. PICK keep \in SUBSET DOMAIN activities : activities' = Retain(keep)
      BY <2>3 DEF ClearCompleted, ClearSuccessful
    <3> QED
      BY <3>1, RetainRows DEF IInv, RowsInv
  <2>4. ASSUME NEW id \in Recorded, RecordActivity(id)
        PROVE  Frozen
    BY <2>4, InsertRow DEF RecordActivity, IInv, RowsInv, Ids, Final
  <2> QED
    BY <2>1, <2>2, <2>3, <2>4 DEF Next
<1>2. IInv /\ [Next]_vars => [Frozen]_vars
  BY <1>1
<1> HIDE DEF Frozen
<1>3. Spec => [][Frozen]_vars
  BY SpecIInv, <1>2, PTL DEF Spec
<1> QED
  BY <1>3 DEF FinishedRowFrozen, Frozen
-----------------------------------------------------------------------------
(* The places of the rows.                                                 *)

(* pos is an index into a Vec of at most ActivityLimit rows. *)
PlacesInv ==
  \A i, j \in DOMAIN activities :
    /\ activities[i].pos < ActivityLimit
    /\ activities[i].pos = activities[j].pos => i = j

(* The cut drops the oldest row of a full list and no other. *)
LEMMA InsertPlaces ==
  ASSUME TypeOK, PlacesInv, NEW id, NEW status, NEW result,
         activities' = Insert(id, status, result)
  PROVE  /\ PlacesInv'
         /\ \A i \in DOMAIN activities \ DOMAIN activities' :
              activities[i].pos = ActivityLimit - 1
<1> DEFINE older == [i \in DOMAIN activities |-> [activities[i] EXCEPT !.pos = @ + 1]]
           kept == {i \in DOMAIN older : older[i].pos < ActivityLimit}
<1>1. activities' = [i \in kept \cup {id} |->
         IF i = id THEN [status |-> status, result |-> result, pos |-> 0] ELSE older[i]]
  BY DEF Insert
<1>2. \A i \in DOMAIN activities : older[i].pos = activities[i].pos + 1 /\ activities[i].pos \in Nat
  BY DEF TypeOK, Row
<1>3. kept = {i \in DOMAIN activities : older[i].pos < ActivityLimit}
  OBVIOUS
<1> HIDE DEF older, kept
<1>4. DOMAIN activities' = kept \cup {id}
  BY <1>1
<1>5. activities'[id].pos = 0
  BY <1>1
<1>6. \A i \in kept \ {id} : activities'[i].pos = activities[i].pos + 1 /\ activities[i].pos \in Nat
                             /\ activities[i].pos + 1 < ActivityLimit /\ i \in DOMAIN activities
  BY <1>1, <1>2, <1>3
<1>7. PlacesInv'
  BY <1>4, <1>5, <1>6, TransfersAssumption DEF PlacesInv
<1>8. ASSUME NEW i \in DOMAIN activities \ DOMAIN activities'
       PROVE  activities[i].pos = ActivityLimit - 1
  BY <1>2, <1>3, <1>4, <1>8, TransfersAssumption DEF PlacesInv
<1> QED
  BY <1>7, <1>8

(* The rows that are kept close up, in their order. *)
LEMMA RetainPlaces ==
  ASSUME TypeOK, PlacesInv, IsFiniteSet(DOMAIN activities),
         NEW keep \in SUBSET DOMAIN activities,
         activities' = Retain(keep)
  PROVE  PlacesInv'
<1> DEFINE before(i) == {j \in keep : activities[j].pos < activities[i].pos}
<1>1. IsFiniteSet(keep)
  BY FS_Subset
<1>2. activities' = [i \in keep |-> [activities[i] EXCEPT !.pos = Cardinality(before(i))]]
  BY DEF Retain
<1>3. \A i \in keep : activities[i] \in Row /\ activities[i].pos \in Nat
  BY DEF TypeOK, Row
<1>4. DOMAIN activities' = keep /\ \A i \in keep : activities'[i].pos = Cardinality(before(i))
  BY <1>2, <1>3 DEF Row
<1>5. ASSUME NEW i \in keep
      PROVE  /\ IsFiniteSet(before(i))
             /\ Cardinality(before(i)) \in Nat
             /\ Cardinality(before(i)) < ActivityLimit
  <2>1. IsFiniteSet(before(i)) /\ Cardinality(before(i)) \in Nat
    BY <1>1, FS_Subset, FS_CardinalityType
  <2> DEFINE n == activities[i].pos
             place == [j \in before(i) |-> activities[j].pos]
  <2>2. n \in Nat /\ n < ActivityLimit
    BY <1>3 DEF PlacesInv
  <2>3. place \in Injection(before(i), 0..(n - 1))
    <3>1. \A j \in before(i) : activities[j].pos \in 0..(n - 1)
      BY <1>3, <2>2
    <3>2. place \in [before(i) -> 0..(n - 1)]
      BY <3>1
    <3>3. \A j, k \in before(i) : place[j] = place[k] => j = k
      BY DEF PlacesInv
    <3> QED
      BY <3>2, <3>3 DEF Injection, IsInjective
  <2>4. ASSUME NEW m \in Nat
        PROVE  IsFiniteSet(0..(m - 1)) /\ Cardinality(0..(m - 1)) = m
    <3>1. m - 1 \in Int /\ (0 > m - 1 <=> m = 0)
      OBVIOUS
    <3>2. /\ IsFiniteSet(0..(m - 1))
          /\ Cardinality(0..(m - 1)) = IF 0 > m - 1 THEN 0 ELSE (m - 1) - 0 + 1
      BY <3>1, FS_Interval
    <3> QED
      BY <3>1, <3>2
  <2>5. Cardinality(before(i)) <= n
    BY <2>2, <2>3, <2>4, FS_Injection
  <2> QED
    BY <2>1, <2>2, <2>5, TransfersAssumption
<1>6. ASSUME NEW i \in keep, NEW k \in keep, activities[i].pos < activities[k].pos
      PROVE  Cardinality(before(i)) < Cardinality(before(k))
  <2>1. before(i) \in SUBSET before(k) /\ i \in before(k) /\ i \notin before(i)
    BY <1>3, <1>6
  <2>2. /\ Cardinality(before(i)) <= Cardinality(before(k))
        /\ Cardinality(before(k)) = Cardinality(before(i)) => before(k) = before(i)
    BY <1>5, <2>1, FS_Subset
  <2>3. before(k) # before(i)
    BY <2>1
  <2>4. Cardinality(before(i)) \in Nat /\ Cardinality(before(k)) \in Nat
    BY <1>5
  <2> HIDE DEF before
  <2> QED
    BY <2>2, <2>3, <2>4
<1>7. ASSUME NEW i \in keep, NEW k \in keep, Cardinality(before(i)) = Cardinality(before(k))
      PROVE  i = k
  <2> HIDE DEF before
  <2>0. Cardinality(before(i)) \in Nat /\ ~(Cardinality(before(i)) < Cardinality(before(k)))
        /\ ~(Cardinality(before(k)) < Cardinality(before(i)))
    BY <1>5, <1>7
  <2>1. ~(activities[i].pos < activities[k].pos) /\ ~(activities[k].pos < activities[i].pos)
    BY <1>6, <2>0
  <2>2. activities[i].pos = activities[k].pos
    BY <1>3, <2>1
  <2> QED
    BY <2>2 DEF PlacesInv
<1> HIDE DEF before
<1> QED
  BY <1>4, <1>5, <1>7 DEF PlacesInv

(* A running row leaves the list only by the cut: neither clear_activities nor *)
(* any step of a command hides a transfer that still works.                    *)
THEOREM SpecRunningRowKept == Spec => RunningRowKept
<1> DEFINE Kept ==
      \A i \in DOMAIN activities \ DOMAIN activities' :
        activities[i].status = "running" => activities[i].pos = ActivityLimit - 1
<1>1. Init => PlacesInv
  <2> SUFFICES ASSUME Init PROVE PlacesInv
    OBVIOUS
  <2>1. DOMAIN activities = {}
    BY DEF Init
  <2> QED
    BY <2>1 DEF PlacesInv
<1>2. ASSUME IInv, PlacesInv, Next
      PROVE  PlacesInv' /\ Kept
  <2>1. ASSUME DOMAIN activities' = DOMAIN activities,
               \A i \in DOMAIN activities : activities'[i].pos = activities[i].pos
        PROVE  PlacesInv' /\ Kept
    BY <1>2, <2>1 DEF PlacesInv
  <2>2. ASSUME NEW t \in Transfers, TransferStep(t)
        PROVE  PlacesInv' /\ Kept
    <3>1. CASE BeginActivity(t)
      BY <1>2, <3>1, InsertPlaces DEF BeginActivity, IInv
    <3>2. CASE ~BeginActivity(t)
      <4>1. \/ UNCHANGED activities
            \/ activities' = Progressed(t)
            \/ FinishActivity(t, verdict[t])
        BY <2>2, <3>2
        DEF TransferStep, RegisterToken, AllMoved, LocalError, OpenSource, CheckToken,
            ReadChunk, ReadFails, PassChunk, PassFails, EndOfSource, StoreFile, StoreFails,
            ReadVerdict, Finish
      <4>2. \A i \in DOMAIN activities : activities[i] \in Row
        BY <1>2 DEF IInv, TypeOK
      <4>3. /\ DOMAIN activities' = DOMAIN activities
            /\ \A i \in DOMAIN activities : activities'[i].pos = activities[i].pos
        <5>1. CASE UNCHANGED activities
          BY <5>1
        <5>2. CASE activities' = Progressed(t)
          BY <4>2, <5>2 DEF Progressed, Row
        <5>3. CASE FinishActivity(t, verdict[t])
          BY <4>2, <5>3 DEF FinishActivity, Row
        <5> QED
          BY <4>1, <5>1, <5>2, <5>3
      <4> QED
        BY <2>1, <4>3
    <3> QED
      BY <3>1, <3>2
  <2>3. ASSUME NEW t \in Transfers, CancelActivity(t)
        PROVE  PlacesInv' /\ Kept
    <3>1. \A i \in DOMAIN activities : activities[i] \in Row
      BY <1>2 DEF IInv, TypeOK
    <3>2. /\ DOMAIN activities' = DOMAIN activities
          /\ \A i \in DOMAIN activities : activities'[i].pos = activities[i].pos
      BY <2>3, <3>1 DEF CancelActivity, Row
    <3> QED
      BY <2>1, <3>2
  <2>4. ASSUME NEW keep \in SUBSET DOMAIN activities, activities' = Retain(keep),
               \A i \in DOMAIN activities \ keep : activities[i].status # "running"
        PROVE  PlacesInv' /\ Kept
    <3>1. DOMAIN activities' = keep
      BY <2>4 DEF Retain
    <3> QED
      BY <1>2, <2>4, <3>1, RetainPlaces DEF IInv, RowsInv
  <2>5. CASE ClearCompleted
    BY <2>4, <2>5 DEF ClearCompleted
  <2>6. CASE ClearSuccessful
    BY <2>4, <2>6 DEF ClearSuccessful
  <2>7. ASSUME NEW id \in Recorded, RecordActivity(id)
        PROVE  PlacesInv' /\ Kept
    BY <1>2, <2>7, InsertPlaces DEF RecordActivity, IInv
  <2> QED
    BY <1>2, <2>2, <2>3, <2>5, <2>6, <2>7 DEF Next
<1>3. ASSUME IInv, PlacesInv, [Next]_vars
      PROVE  PlacesInv' /\ [Kept]_vars
  BY <1>2, <1>3 DEF PlacesInv, vars
<1> HIDE DEF Kept
<1>4. Spec => [][Kept]_vars
  BY SpecIInv, <1>1, <1>3, PTL DEF Spec
<1> QED
  BY <1>4 DEF RunningRowKept, Kept

-----------------------------------------------------------------------------
(* Downloads *)

Phases == {"idle", "choosing", "taking", "making", "creating", "asking", "reading", "over"}

Fetching(d) == at[d] \in {"making", "creating", "asking", "reading"}

Going(d) == at[d] = "taking" \/ Fetching(d) \/ outcome[d] = "done"

DTypeOK ==
  /\ stored \in [Blobs -> {Nothing} \cup (Nat \ {0})]
  /\ disk = [p \in DOMAIN disk |-> disk[p]]
  /\ at \in [Downloads -> Phases]
  /\ index \in [Downloads -> Nat]
  /\ left \in [Downloads -> SUBSET Blobs]
  /\ item \in [Downloads -> Blobs \cup {Nothing}]
  /\ version \in [Downloads -> Nat]
  /\ got \in [Downloads -> Nat]
  /\ fetched = [d \in Downloads |-> fetched[d]]
  /\ outcome \in [Downloads -> {"none", "done", "error"}]
  /\ there = [d \in Downloads |-> there[d]]

(* Where a download stands among its blobs: those to come, the one in hand  *)
(* and those it has fetched are apart, and one that is not of a prefix      *)
(* leaves none out.                                                         *)
Account(d) ==
  /\ outcome[d] # "none" => at[d] = "over"
  /\ d \in Copies => at[d] \notin {"choosing", "making"}
  /\ at[d] \in {"idle", "choosing"} => item[d] = Nothing /\ DOMAIN fetched[d] = {}
  /\ Fetching(d) => item[d] \in Blobs /\ item[d] \notin left[d] \cup DOMAIN fetched[d]
  /\ at[d] # "idle" => left[d] \cap DOMAIN fetched[d] = {}
  /\ DOMAIN fetched[d] \subseteq Blobs
  /\ d \notin Prefixes /\ (at[d] = "choosing" \/ Going(d)) =>
       /\ DOMAIN fetched[d] \cup left[d] \cup (IF Fetching(d) THEN {item[d]} ELSE {}) = Source[d]
       /\ outcome[d] = "done" => left[d] = {}

(* Another download is where this one is *)
Shared(d) == \E e \in Downloads \ {d} : Top(e) = Top(d) /\ item[e] # Nothing

(* Another blob of the download is, or is about to be, in the place of b *)
Overlaid(d, b) ==
  \E other \in (DOMAIN fetched[d] \cup (IF Fetching(d) THEN {item[d]} ELSE {})) \ {b} :
    Place(d, other) = Place(d, b)

Written(b, v, n) == [k \in 1..n |-> Mark(b, v, k)]

(* The file in hand holds what has been written of it *)
Progress(d) ==
  /\ at[d] = "reading" \/ (at[d] = "asking" /\ d \notin Copies) =>
       Place(d, item[d]) \in DOMAIN disk
  /\ at[d] = "asking" /\ d \notin Copies => Shared(d) \/ disk[Place(d, item[d])] = <<>>
  /\ at[d] = "reading" =>
       /\ got[d] <= Pieces[item[d]]
       /\ Shared(d) \/ disk[Place(d, item[d])] = Written(item[d], version[d], got[d])
  /\ d \in Copies /\ at[d] \in {"creating", "reading"} => version[d] > 0
  /\ d \in Copies /\ at[d] = "creating" => got[d] = 0

(* ... and those it has done with are whole *)
Finished(d) ==
  Going(d) =>
    \A b \in DOMAIN fetched[d] :
      \/ Shared(d) \/ Overlaid(d, b)
      \/ Place(d, b) \in DOMAIN disk /\ disk[Place(d, b)] = Whole(b, fetched[d][b])

Named(d, b) == b \in Blobs /\ (d \in Prefixes => LocalName[b] # NoName)

(* Where the desktop's downloads put their files there was none *)
Chosen(d) ==
  /\ \A b \in left[d] : Named(d, b)
  /\ Fetching(d) => Named(d, item[d])
  /\ d \in Prefixes /\ at[d] \in {"creating", "asking", "reading"} => Top(d) \in dirs
  /\ d \notin Copies /\ (at[d] = "taking" \/ Fetching(d)) =>
       \A b \in Blobs : Named(d, b) => Place(d, b) \notin there[d]

Directories == \A p \in DOMAIN disk : p[3] # NoName => <<p[1], p[2]>> \in dirs

DownloadInv(d) == Account(d) /\ Progress(d) /\ Finished(d) /\ Chosen(d)

DInv == DTypeOK /\ Directories /\ \A d \in Downloads : DownloadInv(d)

(* What a step of download d does to the rest: it goes only to the place of *)
(* the blob d has in hand, and takes nothing away.                          *)
StepOf(d) ==
  /\ \A e \in Downloads \ {d} :
       /\ at'[e] = at[e] /\ index'[e] = index[e] /\ left'[e] = left[e] /\ item'[e] = item[e]
       /\ version'[e] = version[e] /\ got'[e] = got[e] /\ fetched'[e] = fetched[e]
       /\ outcome'[e] = outcome[e] /\ there'[e] = there[e]
  /\ DOMAIN disk \subseteq DOMAIN disk' /\ dirs \subseteq dirs'
  /\ \A p \in DOMAIN disk :
       disk'[p] = disk[p] \/ (p = Place(d, item[d]) /\ item[d] # Nothing)
  /\ item[d] # Nothing => item'[d] # Nothing /\ index'[d] = index[d]

(* A place that is shared stays shared. *)
LEMMA SharedLasts ==
  ASSUME NEW d \in Downloads, StepOf(d), NEW e \in Downloads, Shared(e), index'[e] = index[e]
  PROVE  Shared(e)'
<1>1. PICK other \in Downloads \ {e} : Top(other) = Top(e) /\ item[other] # Nothing
  BY DEF Shared
<1>2. index'[other] = index[other] /\ item'[other] # Nothing
  BY <1>1 DEF StepOf
<1>3. Top(other)' = Top(e)'
  BY <1>1, <1>2 DEF Top
<1> QED
  BY <1>2, <1>3 DEF Shared

(* A step of one download leaves what is known of another as it is. *)
LEMMA OthersKeep ==
  ASSUME DInv, NEW d \in Downloads, StepOf(d), NEW e \in Downloads \ {d}
  PROVE  DownloadInv(e)'
<1>1. /\ at'[e] = at[e] /\ index'[e] = index[e] /\ left'[e] = left[e] /\ item'[e] = item[e]
      /\ version'[e] = version[e] /\ got'[e] = got[e] /\ fetched'[e] = fetched[e]
      /\ outcome'[e] = outcome[e] /\ there'[e] = there[e]
  BY DEF StepOf
<1>2. Shared(e) => Shared(e)'
  BY <1>1, SharedLasts
<1>3. DownloadInv(e)
  BY DEF DInv
<1>4. \A b : Place(e, b)' = Place(e, b)
  BY <1>1 DEF Place
<1>5. (Fetching(e)' <=> Fetching(e)) /\ (Going(e)' <=> Going(e))
  BY <1>1 DEF Fetching, Going
<1>6. ASSUME NEW b, Place(e, b) \in DOMAIN disk, ~Shared(e)'
      PROVE  Place(e, b) \in DOMAIN disk' /\ disk'[Place(e, b)] = disk[Place(e, b)]
  <2>1. CASE disk'[Place(e, b)] = disk[Place(e, b)]
    BY <1>6, <2>1 DEF StepOf
  <2>2. CASE Place(e, b) = Place(d, item[d]) /\ item[d] # Nothing
    <3>1. Top(d) = Top(e)
      BY <2>2 DEF Place, Top
    <3>2. Top(d)' = Top(e)' /\ item'[d] # Nothing
      BY <3>1, <2>2, <1>1 DEF StepOf, Top
    <3> QED
      BY <1>6, <3>2 DEF Shared
  <2> QED
    BY <1>6, <2>1, <2>2 DEF StepOf
<1>7. Account(e)'
  BY <1>1, <1>3, <1>5 DEF DownloadInv, Account
<1>8. Progress(e)'
  <2>1. at[e] = "reading" \/ (at[e] = "asking" /\ e \notin Copies) =>
          Place(e, item[e]) \in DOMAIN disk
    BY <1>3 DEF DownloadInv, Progress
  <2>2. Place(e, item[e])' = Place(e, item[e])
    BY <1>1, <1>4
  <2>3. DOMAIN disk \subseteq DOMAIN disk'
    BY DEF StepOf
  <2>4. at[e] = "reading" =>
          Shared(e)' \/ disk'[Place(e, item[e])] = Written(item[e], version[e], got[e])
    BY <1>2, <1>3, <1>6, <2>1 DEF DownloadInv, Progress
  <2>5. at[e] = "asking" /\ e \notin Copies =>
          Shared(e)' \/ disk'[Place(e, item[e])] = <<>>
    BY <1>2, <1>3, <1>6, <2>1 DEF DownloadInv, Progress
  <2> QED
    BY <1>1, <1>3, <2>1, <2>2, <2>3, <2>4, <2>5 DEF DownloadInv, Progress, Written, Mark
<1>9. Finished(e)'
  <2>1. \A b : Overlaid(e, b)' <=> Overlaid(e, b)
    BY <1>1, <1>4, <1>5 DEF Overlaid
  <2>2. SUFFICES ASSUME Going(e), NEW b \in DOMAIN fetched[e], ~Shared(e)', ~Overlaid(e, b)
                 PROVE  /\ Place(e, b) \in DOMAIN disk'
                        /\ disk'[Place(e, b)] = Whole(b, fetched[e][b])
    BY <1>1, <1>4, <1>5, <2>1 DEF Finished, Whole, Mark
  <2> QED
    BY <1>2, <1>3, <1>6, <2>2 DEF DownloadInv, Finished
<1>10. Chosen(e)'
  <2>1. Top(e)' = Top(e)
    BY <1>1 DEF Top
  <2>2. \A b : Named(e, b)' <=> Named(e, b)
    BY DEF Named
  <2>3. Chosen(e)
    BY <1>3 DEF DownloadInv
  <2>4. dirs \subseteq dirs'
    BY DEF StepOf
  <2> QED
    BY <1>1, <1>4, <1>5, <2>1, <2>2, <2>3, <2>4 DEF Chosen
<1> QED
  BY <1>7, <1>8, <1>9, <1>10 DEF DownloadInv

(* So it is enough to look at the download that takes the step. *)
LEMMA OneStep ==
  ASSUME DInv, NEW d \in Downloads, StepOf(d), DTypeOK', Directories', DownloadInv(d)'
  PROVE  DInv'
BY OthersKeep DEF DInv

LEMMA InitDInv == DInit => DInv
<1> SUFFICES ASSUME DInit PROVE DInv
  OBVIOUS
<1>1. DTypeOK
  BY DEF DInit, DTypeOK, Phases, NoVersions
<1>2. Directories
  BY DownloadsAssumption DEF DInit, Directories
<1>3. ASSUME NEW d \in Downloads PROVE DownloadInv(d)
  BY DEF DInit, DownloadInv, Account, Progress, Finished, Chosen, Going, Fetching, NoVersions
<1> QED
  BY <1>1, <1>2, <1>3 DEF DInv

LEMMA BeginKeeps ==
  ASSUME DInv, NEW d \in Downloads, Begin(d)
  PROVE  StepOf(d) /\ DTypeOK' /\ Directories' /\ DownloadInv(d)'
<1> DEFINE listed == {b \in Source[d] : d \notin Prefixes \/ stored[b] # Nothing}
<1>1. DTypeOK /\ Directories /\ DownloadInv(d) /\ at[d] = "idle"
  BY DEF DInv, Begin
<1>2. listed \subseteq Blobs /\ (d \notin Prefixes => listed = Source[d] /\ listed # {})
  BY DownloadsAssumption
<1>3. at'[d] \in {"over", "choosing", "taking"} /\ outcome'[d] # "done"
  BY <1>1 DEF Begin, End, Enter, DTypeOK, DownloadInv, Account
<1>4. DTypeOK'
  <2>1. /\ at' \in [Downloads -> Phases] /\ left' \in [Downloads -> SUBSET Blobs]
        /\ outcome' \in [Downloads -> {"none", "done", "error"}]
    <3>1. CASE listed = {}
      BY <1>1, <3>1 DEF Begin, End, Enter, DTypeOK, Phases
    <3>2. CASE listed # {}
      <4>1. PICK next \in Phases : at' = [at EXCEPT ![d] = next]
        BY <3>2 DEF Begin, Enter, Phases
      <4> QED
        BY <1>1, <1>2, <3>2, <4>1 DEF Begin, DTypeOK
    <3> QED
      BY <3>1, <3>2
  <2>2. there' = [e \in Downloads |-> there'[e]]
    BY <1>1 DEF Begin, DTypeOK
  <2> QED
    BY <1>1, <2>1, <2>2 DEF Begin, DTypeOK
<1>5. StepOf(d)
  BY <1>1 DEF Begin, End, Enter, DTypeOK, StepOf
<1>6. Directories'
  BY <1>1 DEF Begin, Directories
<1>7. item[d] = Nothing /\ DOMAIN fetched[d] = {}
  BY <1>1 DEF DownloadInv, Account
<1>8. Account(d)'
  <2>1. CASE listed = {}
    BY <1>1, <1>7, <2>1 DEF Begin, End, Enter, DTypeOK, Account, Going, Fetching, DownloadInv
  <2>2. CASE listed # {}
    BY <1>1, <1>2, <1>7, <2>2, DownloadsAssumption
    DEF Begin, End, Enter, DTypeOK, Account, Going, Fetching, DownloadInv
  <2> QED
    BY <2>1, <2>2
<1>9. Progress(d)' /\ Finished(d)'
  BY <1>1, <1>3, <1>7 DEF Begin, Progress, Finished
<1>10. Chosen(d)'
  BY <1>1, <1>2, <1>3, DownloadsAssumption
  DEF Begin, End, Enter, DTypeOK, DownloadInv, Chosen, Named, Fetching
<1> QED
  BY <1>4, <1>5, <1>6, <1>8, <1>9, <1>10 DEF DownloadInv

LEMMA LookKeeps ==
  ASSUME DInv, NEW d \in Downloads, Look(d)
  PROVE  StepOf(d) /\ DTypeOK' /\ Directories' /\ DownloadInv(d)'
<1>1. DTypeOK /\ Directories /\ DownloadInv(d) /\ at[d] = "choosing"
  BY DEF DInv, Look
<1>2. item[d] = Nothing /\ DOMAIN fetched[d] = {} /\ d \notin Copies /\ outcome[d] = "none"
  BY <1>1 DEF DownloadInv, Account, DTypeOK
<1>3. at'[d] \in {"over", "choosing", "taking"} /\ outcome'[d] # "done"
  BY <1>1, <1>2 DEF Look, End, Enter, DTypeOK
<1>4. DTypeOK'
  <2>1. /\ at' \in [Downloads -> Phases] /\ index' \in [Downloads -> Nat]
        /\ outcome' \in [Downloads -> {"none", "done", "error"}]
    BY <1>1 DEF Look, End, Enter, DTypeOK, Phases
  <2>2. there' = [e \in Downloads |-> there'[e]]
    BY <1>1 DEF Look, DTypeOK
  <2> QED
    BY <1>1, <2>1, <2>2 DEF Look, DTypeOK
<1>5. StepOf(d)
  BY <1>1, <1>2 DEF Look, End, Enter, DTypeOK, StepOf
<1>6. Directories'
  BY <1>1 DEF Look, Directories
<1>8. Account(d)'
  BY <1>1, <1>2, <1>3 DEF Look, End, Enter, DTypeOK, Account, Going, Fetching, DownloadInv
<1>9. Progress(d)' /\ Finished(d)'
  BY <1>1, <1>2, <1>3 DEF Look, Progress, Finished
<1>10. Chosen(d)'
  <2>1. CASE ~Exists(Top(d))
    <3>1. at'[d] = "taking" /\ index'[d] = index[d] /\ there'[d] = DOMAIN disk /\ left' = left
          /\ dirs' = dirs
      BY <1>1, <2>1 DEF Look, Enter, DTypeOK
    <3>2. ASSUME NEW b, Named(d, b) PROVE Place(d, b) \notin DOMAIN disk
      BY <2>1, <3>2, <1>1 DEF Exists, IsFile, Top, Place, Named, Directories
    <3> QED
      BY <1>1, <3>1, <3>2 DEF DownloadInv, Chosen, Named, Fetching, Place
  <2>2. CASE Exists(Top(d))
    <3>1. at'[d] \in {"choosing", "over"} /\ left' = left
      BY <1>1, <2>2 DEF Look, End, Enter, DTypeOK
    <3> QED
      BY <1>1, <3>1 DEF DownloadInv, Chosen, Named, Fetching
  <2> QED
    BY <2>1, <2>2
<1> QED
  BY <1>4, <1>5, <1>6, <1>8, <1>9, <1>10 DEF DownloadInv

LEMMA TakeKeeps ==
  ASSUME DInv, NEW d \in Downloads, Take(d)
  PROVE  StepOf(d) /\ DTypeOK' /\ Directories' /\ DownloadInv(d)'
<1>1. DTypeOK /\ Directories /\ DownloadInv(d) /\ at[d] = "taking" /\ Going(d) /\ ~Fetching(d)
  BY DEF DInv, Take, Going, Fetching
<1>2. DTypeOK'
  BY <1>1 DEF Take, End, Enter, DTypeOK, Phases
<1>3. Directories'
  BY <1>1 DEF Take, Directories
<1>4. CASE left[d] = {}
  <2>1. /\ outcome' = [outcome EXCEPT ![d] = "done"] /\ at' = [at EXCEPT ![d] = "over"]
        /\ UNCHANGED <<left, item, stored, dirs, disk, index, version, got, fetched, there>>
    BY <1>4 DEF Take, End, Enter
  <2>2. StepOf(d)
    BY <1>1, <2>1 DEF StepOf, DTypeOK
  <2>3. at'[d] = "over" /\ outcome'[d] = "done"
    BY <1>1, <2>1 DEF DTypeOK
  <2>4. Account(d)' /\ Progress(d)' /\ Chosen(d)'
    BY <1>1, <1>4, <2>1, <2>3
    DEF DownloadInv, Account, Progress, Chosen, Named, Going, Fetching
  <2>5. \A b : Place(d, b)' = Place(d, b)
    BY <2>1 DEF Place
  <2>6. Shared(d) => Shared(d)'
    BY <2>1, <2>2, SharedLasts
  <2>7. \A b : Overlaid(d, b)' <=> Overlaid(d, b)
    BY <1>1, <2>1, <2>3, <2>5 DEF Overlaid, Fetching
  <2>8. Finished(d)'
    BY <1>1, <2>1, <2>5, <2>6, <2>7 DEF DownloadInv, Finished, Whole, Mark
  <2> QED
    BY <1>2, <1>3, <2>2, <2>4, <2>8 DEF DownloadInv
<1>5. CASE left[d] # {}
  <2>1. PICK b \in left[d] :
          /\ item' = [item EXCEPT ![d] = b] /\ left' = [left EXCEPT ![d] = @ \ {b}]
          /\ at' = [at EXCEPT ![d] = IF d \in Copies THEN "asking" ELSE "making"]
          /\ UNCHANGED <<outcome, stored, dirs, disk, index, version, got, fetched, there>>
    BY <1>5 DEF Take, Enter
  <2>2. b \in Blobs /\ b # Nothing
    BY <1>1, DownloadsAssumption DEF DTypeOK
  <2>3. StepOf(d)
    BY <1>1, <2>1, <2>2 DEF StepOf, DTypeOK
  <2>4. at'[d] = (IF d \in Copies THEN "asking" ELSE "making") /\ item'[d] = b
        /\ left'[d] = left[d] \ {b}
    BY <1>1, <2>1 DEF DTypeOK
  <2>5. Account(d)'
    BY <1>1, <2>1, <2>2, <2>4 DEF DownloadInv, Account, Going, Fetching
  <2>6. Progress(d)'
    BY <2>4 DEF Progress
  <2>7. Chosen(d)'
    <3>1. Chosen(d) /\ Named(d, b) /\ (d \notin Copies => at'[d] = "making")
      BY <1>1, <2>1, <2>4 DEF DownloadInv, Chosen
    <3>2. \A x : Place(d, x)' = Place(d, x)
      BY <2>1 DEF Place
    <3>3. \A x \in left'[d] : Named(d, x)'
      BY <3>1, <2>4 DEF Chosen, Named
    <3>4. Named(d, item[d])'
      BY <3>1, <2>4 DEF Named
    <3>5. at'[d] \notin {"creating", "reading"} /\ (at'[d] = "asking" => d \in Copies)
      BY <2>4
    <3>6. d \notin Prefixes \/ d \notin Copies
      BY DownloadsAssumption
    <3>7. d \notin Copies => \A x \in Blobs : Named(d, x)' => Place(d, x)' \notin there'[d]
      BY <1>1, <2>1, <3>1, <3>2 DEF Chosen, Named
    <3> QED
      BY <3>3, <3>4, <3>5, <3>6, <3>7 DEF Chosen
  <2>8. \A x : Place(d, x)' = Place(d, x)
    BY <2>1 DEF Place
  <2>9. Shared(d) => Shared(d)'
    BY <2>1, <2>3, SharedLasts
  <2>10. \A x : Overlaid(d, x) => Overlaid(d, x)'
    BY <1>1, <2>1, <2>8 DEF Overlaid, Fetching
  <2>11. Finished(d)'
    BY <1>1, <2>1, <2>8, <2>9, <2>10 DEF DownloadInv, Finished, Whole, Mark
  <2> QED
    BY <1>2, <1>3, <2>3, <2>5, <2>6, <2>7, <2>11 DEF DownloadInv
<1> QED
  BY <1>4, <1>5

(* While a blob is in hand, only a place it shares can change. *)
LEMMA InHand ==
  ASSUME DInv, NEW d \in Downloads, StepOf(d), Fetching(d), Fetching(d)',
         item'[d] = item[d], fetched'[d] = fetched[d]
  PROVE  Finished(d)'
<1>1. DownloadInv(d) /\ item[d] # Nothing /\ Going(d)
  BY DownloadsAssumption DEF DInv, DownloadInv, Account, Going
<1>2. index'[d] = index[d]
  BY <1>1 DEF StepOf
<1>3. \A b : Place(d, b)' = Place(d, b)
  BY <1>2 DEF Place
<1>4. Shared(d) => Shared(d)'
  BY <1>2, SharedLasts
<1>5. \A b : Overlaid(d, b)' <=> Overlaid(d, b)
  BY <1>3 DEF Overlaid
<1>6. SUFFICES ASSUME NEW b \in DOMAIN fetched[d], ~Shared(d), ~Overlaid(d, b)
               PROVE  /\ Place(d, b) \in DOMAIN disk'
                      /\ disk'[Place(d, b)] = Whole(b, fetched[d][b])
  BY <1>3, <1>4, <1>5 DEF Finished, Whole, Mark
<1>7. Place(d, b) \in DOMAIN disk /\ disk[Place(d, b)] = Whole(b, fetched[d][b])
  BY <1>1, <1>6 DEF DownloadInv, Finished
<1>8. item[d] # b
  BY <1>1 DEF DownloadInv, Account
<1>9. Place(d, b) # Place(d, item[d])
  BY <1>6, <1>8 DEF Overlaid
<1> QED
  BY <1>7, <1>9 DEF StepOf

LEMMA GiveUp ==
  ASSUME DInv, NEW d \in Downloads, at[d] \notin {"idle", "choosing"}, outcome[d] = "none",
         End(d, "error"),
         UNCHANGED <<stored, dirs, disk, index, left, item, fetched, there>>,
         version' = version, got' \in [Downloads -> Nat],
         \A e \in Downloads \ {d} : got'[e] = got[e]
  PROVE  StepOf(d) /\ DTypeOK' /\ Directories' /\ DownloadInv(d)'
<1>1. DTypeOK /\ Directories /\ DownloadInv(d)
  BY DEF DInv
<1>2. at'[d] = "over" /\ outcome'[d] = "error"
  BY <1>1 DEF End, Enter, DTypeOK
<1>3. DTypeOK'
  BY <1>1 DEF End, Enter, DTypeOK, Phases
<1>4. StepOf(d)
  BY <1>1 DEF End, Enter, DTypeOK, StepOf
<1>5. Directories'
  BY <1>1 DEF Directories
<1>6. Account(d)' /\ Progress(d)' /\ Finished(d)' /\ Chosen(d)'
  BY <1>1, <1>2 DEF DownloadInv, Account, Progress, Finished, Chosen, Named, Going, Fetching
<1> QED
  BY <1>3, <1>4, <1>5, <1>6 DEF DownloadInv

LEMMA AbortKeeps ==
  ASSUME DInv, NEW d \in Downloads, Abort(d)
  PROVE  StepOf(d) /\ DTypeOK' /\ Directories' /\ DownloadInv(d)'
<1>1. outcome[d] = "none"
  BY DEF DInv, DownloadInv, Account, Abort, DTypeOK
<1> QED
  BY <1>1, GiveUp DEF Abort, DInv, DTypeOK

LEMMA MakeDirectoryKeeps ==
  ASSUME DInv, NEW d \in Downloads, MakeDirectory(d)
  PROVE  StepOf(d) /\ DTypeOK' /\ Directories' /\ DownloadInv(d)'
<1>1. DTypeOK /\ Directories /\ DownloadInv(d) /\ at[d] = "making"
  BY DEF DInv, MakeDirectory
<1>2. outcome[d] = "none" /\ d \notin Copies /\ Fetching(d)
  BY <1>1 DEF DownloadInv, Account, DTypeOK, Fetching
<1>3. CASE d \in Prefixes /\ IsFile(Top(d))
  BY <1>1, <1>2, <1>3, GiveUp DEF MakeDirectory, DTypeOK
<1>4. CASE ~(d \in Prefixes /\ IsFile(Top(d)))
  <2>1. /\ at' = [at EXCEPT ![d] = "creating"]
        /\ dirs' = IF d \in Prefixes THEN dirs \cup {Top(d)} ELSE dirs
        /\ UNCHANGED <<outcome, stored, disk, index, left, item, version, got, fetched, there>>
    BY <1>4 DEF MakeDirectory, Enter
  <2>2. at'[d] = "creating" /\ Fetching(d)'
    BY <1>1, <2>1 DEF DTypeOK, Fetching
  <2>3. DTypeOK'
    BY <1>1, <2>1 DEF DTypeOK, Phases
  <2>4. StepOf(d)
    BY <1>1, <2>1 DEF StepOf, DTypeOK
  <2>5. Directories'
    BY <1>1, <2>1 DEF Directories
  <2>6. Account(d)' /\ Progress(d)'
    BY <1>1, <1>2, <2>1, <2>2 DEF DownloadInv, Account, Progress, Going, Fetching
  <2>7. Finished(d)'
    BY <1>2, <2>1, <2>2, <2>4, InHand
  <2>8. Chosen(d)'
    BY <1>1, <1>2, <2>1, <2>2 DEF DownloadInv, Chosen, Named, Place, Top
  <2> QED
    BY <2>3, <2>4, <2>5, <2>6, <2>7, <2>8 DEF DownloadInv
<1> QED
  BY <1>3, <1>4

LEMMA CreateFileKeeps ==
  ASSUME DInv, NEW d \in Downloads, CreateFile(d)
  PROVE  StepOf(d) /\ DTypeOK' /\ Directories' /\ DownloadInv(d)'
<1>1. DTypeOK /\ Directories /\ DownloadInv(d) /\ at[d] = "creating"
  BY DEF DInv, CreateFile
<1>2. outcome[d] = "none" /\ Fetching(d) /\ item[d] \in Blobs /\ item[d] # Nothing
  BY <1>1, DownloadsAssumption DEF DownloadInv, Account, DTypeOK, Fetching
<1>3. CASE d \notin Prefixes /\ Top(d) \in dirs
  BY <1>1, <1>2, <1>3, GiveUp DEF CreateFile, DTypeOK
<1>4. CASE ~(d \notin Prefixes /\ Top(d) \in dirs)
  <2> DEFINE place == Place(d, item[d])
  <2>1. /\ disk' = [q \in DOMAIN disk \cup {place} |-> IF q = place THEN <<>> ELSE disk[q]]
        /\ at' = [at EXCEPT ![d] = IF d \in Copies THEN "reading" ELSE "asking"]
        /\ UNCHANGED <<outcome, stored, dirs, index, left, item, version, got, fetched, there>>
    BY <1>4 DEF CreateFile, Enter
  <2>2. at'[d] = (IF d \in Copies THEN "reading" ELSE "asking") /\ Fetching(d)'
    BY <1>1, <2>1 DEF DTypeOK, Fetching
  <2>3. DTypeOK'
    <3>1. at' \in [Downloads -> Phases]
      BY <1>1, <2>1 DEF DTypeOK, Phases
    <3>2. disk' = [q \in DOMAIN disk' |-> disk'[q]]
      BY <2>1
    <3> QED
      BY <1>1, <2>1, <3>1, <3>2 DEF DTypeOK
  <2>4. StepOf(d)
    BY <1>1, <1>2, <2>1 DEF StepOf, DTypeOK
  <2>5. Directories'
    <3>1. place[3] # NoName => <<place[1], place[2]>> \in dirs
      BY <1>1, <1>2 DEF DownloadInv, Chosen, Place, Top
    <3> QED
      BY <1>1, <2>1, <3>1 DEF Directories
  <2>6. Account(d)'
    BY <1>1, <1>2, <2>1, <2>2 DEF DownloadInv, Account, Going, Fetching
  <2>7. Progress(d)'
    <3>1. Place(d, item[d])' = place /\ place \in DOMAIN disk' /\ disk'[place] = <<>>
      BY <2>1 DEF Place
    <3>2. Written(item[d], version[d], 0) = <<>>
      BY DEF Written
    <3>3. d \in Copies => got[d] = 0 /\ version[d] > 0
      BY <1>1 DEF DownloadInv, Progress
    <3>4. 0 <= Pieces[item[d]]
      BY <1>2, DownloadsAssumption
    <3> QED
      BY <1>1, <2>1, <2>2, <3>1, <3>2, <3>3, <3>4 DEF Progress, Written, Mark
  <2>8. Finished(d)'
    BY <1>2, <2>1, <2>2, <2>4, InHand
  <2>9. Chosen(d)'
    BY <1>1, <1>2, <2>1, <2>2 DEF DownloadInv, Chosen, Named, Place, Top
  <2> QED
    BY <2>3, <2>4, <2>5, <2>6, <2>7, <2>8, <2>9 DEF DownloadInv
<1> QED
  BY <1>3, <1>4

LEMMA AskKeeps ==
  ASSUME DInv, NEW d \in Downloads, Ask(d)
  PROVE  StepOf(d) /\ DTypeOK' /\ Directories' /\ DownloadInv(d)'
<1>1. DTypeOK /\ Directories /\ DownloadInv(d) /\ at[d] = "asking"
  BY DEF DInv, Ask
<1>2. outcome[d] = "none" /\ Fetching(d) /\ item[d] \in Blobs
  BY <1>1, DownloadsAssumption DEF DownloadInv, Account, DTypeOK, Fetching
<1>3. CASE stored[item[d]] = Nothing
  BY <1>1, <1>2, <1>3, GiveUp DEF Ask, DTypeOK
<1>4. CASE stored[item[d]] # Nothing
  <2>1. /\ version' = [version EXCEPT ![d] = stored[item[d]]]
        /\ got' = [got EXCEPT ![d] = 0]
        /\ at' = [at EXCEPT ![d] = IF d \in Copies THEN "creating" ELSE "reading"]
        /\ UNCHANGED <<outcome, stored, dirs, disk, index, left, item, fetched, there>>
    BY <1>4 DEF Ask, Enter
  <2>2. at'[d] = (IF d \in Copies THEN "creating" ELSE "reading") /\ Fetching(d)' /\ got'[d] = 0
    BY <1>1, <2>1 DEF DTypeOK, Fetching
  <2>3. stored[item[d]] \in Nat \ {0}
    BY <1>1, <1>2, <1>4 DEF DTypeOK
  <2>4. DTypeOK'
    BY <1>1, <2>1, <2>3 DEF DTypeOK, Phases
  <2>5. StepOf(d)
    BY <1>1, <1>2, <2>1 DEF StepOf, DTypeOK
  <2>6. Directories'
    BY <1>1, <2>1 DEF Directories
  <2>7. Account(d)'
    BY <1>1, <1>2, <2>1, <2>2 DEF DownloadInv, Account, Going, Fetching
  <2>8. Progress(d)'
    <3>1. Place(d, item[d])' = Place(d, item[d])
      BY <2>1 DEF Place
    <3>2. version'[d] > 0 /\ 0 <= Pieces[item[d]]
      BY <1>1, <1>2, <2>1, <2>3, DownloadsAssumption DEF DTypeOK
    <3>3. Shared(d) => Shared(d)'
      BY <2>1, <2>5, SharedLasts
    <3>4. \A v : Written(item[d], v, 0) = <<>>
      BY DEF Written
    <3>5. d \notin Copies => /\ Place(d, item[d]) \in DOMAIN disk
                             /\ Shared(d) \/ disk[Place(d, item[d])] = <<>>
      BY <1>1 DEF DownloadInv, Progress
    <3> QED
      BY <2>1, <2>2, <3>1, <3>2, <3>3, <3>4, <3>5 DEF Progress, Written, Mark
  <2>9. Finished(d)'
    BY <1>2, <2>1, <2>2, <2>5, InHand
  <2>10. Chosen(d)'
    BY <1>1, <1>2, <2>1, <2>2, DownloadsAssumption DEF DownloadInv, Chosen, Named, Place, Top
  <2> QED
    BY <2>4, <2>5, <2>6, <2>7, <2>8, <2>9, <2>10 DEF DownloadInv
<1> QED
  BY <1>3, <1>4

LEMMA WriteChunkKeeps ==
  ASSUME DInv, NEW d \in Downloads, WriteChunk(d)
  PROVE  StepOf(d) /\ DTypeOK' /\ Directories' /\ DownloadInv(d)'
<1> DEFINE place == Place(d, item[d])
           k == got[d] + 1
           size == IF Len(disk[place]) > k THEN Len(disk[place]) ELSE k
<1>1. DTypeOK /\ Directories /\ DownloadInv(d) /\ at[d] = "reading" /\ got[d] < Pieces[item[d]]
  BY DEF DInv, WriteChunk
<1>2. outcome[d] = "none" /\ Fetching(d) /\ item[d] \in Blobs /\ item[d] # Nothing
  BY <1>1, DownloadsAssumption DEF DownloadInv, Account, DTypeOK, Fetching
<1>3. /\ got' = [got EXCEPT ![d] = k]
      /\ disk' = [disk EXCEPT ![place] =
           [j \in 1..size |-> IF j = k THEN Mark(item[d], version[d], k)
                              ELSE IF j <= Len(@) THEN @[j] ELSE Nothing]]
      /\ UNCHANGED <<at, outcome, stored, dirs, index, left, item, version, fetched, there>>
  BY DEF WriteChunk
<1>4. place \in DOMAIN disk /\ got[d] \in Nat
  BY <1>1 DEF DownloadInv, Progress, DTypeOK
<1>5. /\ DOMAIN disk' = DOMAIN disk /\ disk' = [p \in DOMAIN disk' |-> disk'[p]]
      /\ \A p \in DOMAIN disk : p # place => disk'[p] = disk[p]
  BY <1>1, <1>3, <1>4 DEF DTypeOK
<1>6. got'[d] = k /\ Fetching(d)'
  BY <1>1, <1>3 DEF DTypeOK, Fetching
<1>7. DTypeOK'
  BY <1>1, <1>3, <1>4, <1>5 DEF DTypeOK
<1>8. StepOf(d)
  BY <1>1, <1>2, <1>3, <1>5 DEF StepOf, DTypeOK
<1>9. Directories'
  BY <1>1, <1>3, <1>5 DEF Directories
<1>10. Account(d)'
  BY <1>1, <1>2, <1>3 DEF DownloadInv, Account, Going, Fetching
<1>11. Progress(d)'
  <2>1. Place(d, item[d])' = place
    BY <1>3 DEF Place
  <2>2. Shared(d) => Shared(d)'
    BY <1>3, <1>8, SharedLasts
  <2>3. ASSUME disk[place] = Written(item[d], version[d], got[d])
        PROVE  disk'[place] = Written(item[d], version[d], k)
    <3>1. Len(disk[place]) = got[d] /\ \A j \in 1..got[d] : disk[place][j] = Mark(item[d], version[d], j)
      BY <2>3, <1>4 DEF Written
    <3>2. size = k
      BY <3>1, <1>4
    <3>3. disk'[place] =
            [j \in 1..k |-> IF j = k THEN Mark(item[d], version[d], k)
                            ELSE IF j <= Len(disk[place]) THEN disk[place][j] ELSE Nothing]
      BY <1>1, <1>3, <1>4, <3>2 DEF DTypeOK
    <3>4. \A j \in 1..k : disk'[place][j] = Mark(item[d], version[d], j)
      BY <3>1, <3>3, <1>4
    <3> QED
      BY <3>3, <3>4 DEF Written
  <2>4. k <= Pieces[item[d]]
    BY <1>1, <1>2, <1>4, DownloadsAssumption
  <2>5. Shared(d) \/ disk[place] = Written(item[d], version[d], got[d])
    BY <1>1 DEF DownloadInv, Progress
  <2>6. d \in Copies => version[d] > 0
    BY <1>1 DEF DownloadInv, Progress
  <2>7. Written(item[d], version[d], got[d])' = Written(item[d], version[d], k)
    BY <1>3, <1>6 DEF Written, Mark
  <2> QED
    BY <1>1, <1>3, <1>4, <1>5, <1>6, <2>1, <2>2, <2>3, <2>4, <2>5, <2>6, <2>7 DEF Progress
<1>12. Finished(d)'
  BY <1>2, <1>3, <1>6, <1>8, InHand
<1>13. Chosen(d)'
  BY <1>1, <1>2, <1>3 DEF DownloadInv, Chosen, Named, Place, Top, Fetching
<1> QED
  BY <1>7, <1>8, <1>9, <1>10, <1>11, <1>12, <1>13 DEF DownloadInv

LEMMA FinishFileKeeps ==
  ASSUME DInv, NEW d \in Downloads, FinishFile(d)
  PROVE  StepOf(d) /\ DTypeOK' /\ Directories' /\ DownloadInv(d)'
<1>1. DTypeOK /\ Directories /\ DownloadInv(d) /\ at[d] = "reading" /\ got[d] = Pieces[item[d]]
  BY DEF DInv, FinishFile
<1>2. outcome[d] = "none" /\ Fetching(d) /\ Going(d) /\ item[d] \in Blobs /\ item[d] # Nothing
  BY <1>1, DownloadsAssumption DEF DownloadInv, Account, DTypeOK, Fetching, Going
<1>3. /\ fetched' = [fetched EXCEPT ![d] =
           [b \in DOMAIN @ \cup {item[d]} |-> IF b = item[d] THEN version[d] ELSE @[b]]]
      /\ at' = [at EXCEPT ![d] = "taking"]
      /\ UNCHANGED <<stored, dirs, disk, index, left, item, version, got, outcome, there>>
  BY DEF FinishFile, Enter
<1>4. /\ at'[d] = "taking"
      /\ DOMAIN fetched'[d] = DOMAIN fetched[d] \cup {item[d]}
      /\ fetched'[d][item[d]] = version[d]
      /\ \A b \in DOMAIN fetched[d] : b # item[d] => fetched'[d][b] = fetched[d][b]
      /\ \A e \in Downloads \ {d} : fetched'[e] = fetched[e]
      /\ fetched' = [e \in Downloads |-> fetched'[e]]
  BY <1>1, <1>3 DEF DTypeOK
<1>5. DTypeOK'
  BY <1>1, <1>3, <1>4 DEF DTypeOK, Phases
<1>6. StepOf(d)
  BY <1>1, <1>3, <1>4 DEF StepOf, DTypeOK
<1>7. Directories'
  BY <1>1, <1>3 DEF Directories
<1>8. Account(d)'
  BY <1>1, <1>2, <1>3, <1>4 DEF DownloadInv, Account, Going, Fetching
<1>9. Progress(d)'
  BY <1>4 DEF Progress
<1>10. Finished(d)'
  <2>1. \A b : Place(d, b)' = Place(d, b)
    BY <1>3 DEF Place
  <2>2. Shared(d) => Shared(d)'
    BY <1>3, <1>6, SharedLasts
  <2>3. \A b : Overlaid(d, b) => Overlaid(d, b)'
    BY <1>2, <1>4, <2>1 DEF Overlaid
  <2>4. Shared(d) \/ (/\ Place(d, item[d]) \in DOMAIN disk
                      /\ disk[Place(d, item[d])] = Whole(item[d], version[d]))
    BY <1>1 DEF DownloadInv, Progress, Written, Whole
  <2>5. SUFFICES ASSUME NEW b \in DOMAIN fetched'[d], ~Shared(d)', ~Overlaid(d, b)'
                 PROVE  /\ Place(d, b) \in DOMAIN disk
                        /\ disk[Place(d, b)] = Whole(b, fetched'[d][b])
    BY <1>3, <2>1 DEF Finished, Whole, Mark
  <2> QED
    BY <1>1, <1>2, <1>4, <2>2, <2>3, <2>4, <2>5 DEF DownloadInv, Finished
<1>11. Chosen(d)'
  BY <1>1, <1>2, <1>3, <1>4 DEF DownloadInv, Chosen, Named, Place, Top, Fetching
<1> QED
  BY <1>5, <1>6, <1>7, <1>8, <1>9, <1>10, <1>11 DEF DownloadInv

LEMMA ChangeBlobKeeps ==
  ASSUME DInv, ChangeBlob
  PROVE  DInv'
<1>1. stored' \in [Blobs -> {Nothing} \cup (Nat \ {0})]
  BY DownloadsAssumption DEF ChangeBlob, DInv, DTypeOK
<1>2. UNCHANGED <<dirs, disk, own>>
  BY DEF ChangeBlob
<1>3. DTypeOK' /\ Directories'
  BY <1>1, <1>2 DEF DInv, DTypeOK, Directories, own
<1>4. ASSUME NEW d \in Downloads PROVE DownloadInv(d)'
  BY <1>2 DEF DInv, DownloadInv, Account, Progress, Finished, Chosen, Named, Going, Fetching,
     Shared, Overlaid, Written, Whole, Mark, Place, Top, own
<1> QED
  BY <1>3, <1>4 DEF DInv

LEMMA DNextKeeps ==
  ASSUME DInv, [DNext]_dvars
  PROVE  DInv'
<1>1. CASE UNCHANGED dvars
  <2>1. UNCHANGED <<stored, dirs, disk, own>>
    BY <1>1 DEF dvars
  <2>2. DTypeOK' /\ Directories'
    BY <2>1 DEF DInv, DTypeOK, Directories, own
  <2>3. ASSUME NEW d \in Downloads PROVE DownloadInv(d)'
    BY <2>1 DEF DInv, DownloadInv, Account, Progress, Finished, Chosen, Named, Going, Fetching,
       Shared, Overlaid, Written, Whole, Mark, Place, Top, own
  <2> QED
    BY <2>2, <2>3 DEF DInv
<1>2. ASSUME NEW d \in Downloads, Begin(d) PROVE DInv'
  BY <1>2, BeginKeeps, OneStep
<1>3. ASSUME NEW d \in Downloads, Step(d) PROVE DInv'
  <2>1. StepOf(d) /\ DTypeOK' /\ Directories' /\ DownloadInv(d)'
    BY <1>3, LookKeeps, TakeKeeps, MakeDirectoryKeeps, CreateFileKeeps, AskKeeps, WriteChunkKeeps,
       FinishFileKeeps, AbortKeeps DEF Step
  <2> QED
    BY <2>1, OneStep
<1> QED
  BY <1>1, <1>2, <1>3, ChangeBlobKeeps DEF DNext

LEMMA DInvImpliesWhole == DInv => DoneIsWhole
<1> SUFFICES ASSUME DInv, NEW d \in Downloads, outcome[d] = "done"
             PROVE  /\ \A b \in DOMAIN fetched[d] :
                         Contested(d, b) \/ disk[Place(d, b)] = Whole(b, fetched[d][b])
                    /\ d \notin Prefixes => DOMAIN fetched[d] = Source[d]
  BY DEF DoneIsWhole
<1>1. DownloadInv(d) /\ Going(d)
  BY DEF DInv, Going
<1>2. at[d] = "over" /\ ~Fetching(d)
  BY <1>1 DEF DownloadInv, Account, Fetching
<1>3. \A b : Shared(d) \/ Overlaid(d, b) => Contested(d, b)
  BY <1>2 DEF Shared, Overlaid, Contested
<1> QED
  BY <1>1, <1>2, <1>3 DEF DownloadInv, Finished, Account

LEMMA DInvKeepsFiles ==
  ASSUME DInv, [DNext]_dvars, NEW p \in DOMAIN disk
  PROVE  /\ p \in DOMAIN disk'
         /\ disk'[p] # disk[p] =>
              \E d \in Downloads :
                /\ at[d] \in {"creating", "reading"} /\ Place(d, item[d]) = p
                /\ p \in there[d] => d \in Copies /\ version[d] > 0
<1>1. CASE disk' = disk
  BY <1>1
<1>2. ASSUME NEW d \in Downloads, CreateFile(d) \/ WriteChunk(d)
      PROVE  /\ p \in DOMAIN disk'
             /\ disk'[p] # disk[p] =>
                  /\ at[d] \in {"creating", "reading"} /\ Place(d, item[d]) = p
                  /\ p \in there[d] => d \in Copies /\ version[d] > 0
  <2>1. StepOf(d)
    BY <1>2, CreateFileKeeps, WriteChunkKeeps
  <2>2. at[d] \in {"creating", "reading"} /\ Fetching(d) /\ DownloadInv(d)
    BY <1>2 DEF CreateFile, WriteChunk, Fetching, DInv
  <2>3. d \in Copies => version[d] > 0
    BY <2>2 DEF DownloadInv, Progress
  <2>4. d \notin Copies => Place(d, item[d]) \notin there[d]
    BY <2>2 DEF DownloadInv, Chosen, Named
  <2> QED
    BY <2>1, <2>2, <2>3, <2>4 DEF StepOf
<1>3. CASE DNext
  BY <1>1, <1>2, <1>3 DEF DNext, Begin, Step, Look, Take, MakeDirectory, Ask, FinishFile, Abort, ChangeBlob
<1> QED
  BY <1>1, <1>3 DEF dvars

-----------------------------------------------------------------------------
(* Previews *)

Page(b, v, offset, limit) ==
  Table(Rows(b, v), offset, Lesser(limit, MaxLimit), IF IsCut(b) THEN Nothing ELSE Pieces[b])

RowCount(b) ==
  Lesser(Pieces[b], Cap[Format[b]] \div 2)
    + IF IsCut(b) /\ Cap[Format[b]] % 2 = 1 THEN 1 ELSE 0

PageEnd(b, offset, limit) == Lesser(offset + Lesser(limit, MaxLimit), RowCount(b))

RowsOf(b, v) == {Mark(b, v, k) : k \in Nat}

(* What is loaded of a version are its own rows, all of them unless it is cut. *)
LEMMA RowsOfAVersion ==
  ASSUME NEW b \in Openable, NEW v
  PROVE  /\ RowCount(b) \in Nat
         /\ ~IsCut(b) => RowCount(b) = Pieces[b]
         /\ Len(Rows(b, v)) = RowCount(b)
         /\ Rows(b, v) \in Seq(RowsOf(b, v))
         /\ \A k \in 1..RowCount(b) : Rows(b, v)[k][1] = b /\ Rows(b, v)[k][2] = v
<1> DEFINE half == Cap[Format[b]] \div 2
           whole == Lesser(Pieces[b], half)
           first == SubSeq(Whole(b, v), 1, whole)
           rest == IF IsCut(b) /\ Cap[Format[b]] % 2 = 1 THEN <<Mark(b, v, Half)>> ELSE <<>>
<1>1. Pieces[b] \in Nat /\ Cap[Format[b]] \in Nat
  BY DownloadsAssumption, PreviewsAssumption
<1>2. half \in Nat /\ (2 * Pieces[b] <= Cap[Format[b]] => Pieces[b] <= half)
  BY <1>1
<1>3. whole \in Nat /\ whole <= Pieces[b] /\ (~IsCut(b) => whole = Pieces[b])
  <2>1. 2 * Pieces[b] > Cap[Format[b]] \/ 2 * Pieces[b] <= Cap[Format[b]]
    BY <1>1
  <2> HIDE DEF half
  <2> QED
    BY <1>1, <1>2, <2>1 DEF Lesser, IsCut
<1>4. PICK S : S = RowsOf(b, v) /\ S = {Mark(b, v, k) : k \in Nat}
  BY DEF RowsOf
<1>5. first \in Seq(S) /\ Len(first) = whole
  <2>1. Whole(b, v) \in Seq(S) /\ Len(Whole(b, v)) = Pieces[b]
    BY <1>1, <1>4 DEF Whole
  <2>2. \A k \in 1..whole : Whole(b, v)[k] \in S
    BY <1>1, <1>3, <1>4 DEF Whole
  <2> QED
    BY <1>3, <2>2, SubSeqProperties
<1>6. /\ rest \in Seq(S)
      /\ Len(rest) = IF IsCut(b) /\ Cap[Format[b]] % 2 = 1 THEN 1 ELSE 0
  <2>1. Mark(b, v, Half) \in S
    BY <1>4 DEF Half
  <2> QED
    BY <2>1
<1>7. Rows(b, v) = first \o rest
  BY DEF Rows
<1>8. Rows(b, v) \in Seq(S) /\ Len(Rows(b, v)) = RowCount(b)
  <2>1. Len(first \o rest) = Len(first) + Len(rest) /\ first \o rest \in Seq(S)
    BY <1>5, <1>6, ConcatProperties
  <2> QED
    BY <1>5, <1>6, <1>7, <2>1 DEF RowCount
<1>9. RowCount(b) \in Nat /\ (~IsCut(b) => RowCount(b) = Pieces[b])
  BY <1>3 DEF RowCount
<1>10. ASSUME NEW k \in 1..RowCount(b)
       PROVE  Rows(b, v)[k][1] = b /\ Rows(b, v)[k][2] = v
  <2>1. Rows(b, v)[k] \in S
    BY <1>8
  <2> QED
    BY <1>4, <2>1 DEF Mark
<1> QED
  BY <1>4, <1>8, <1>9, <1>10

(* Only one kind of preview is a table. *)
LEMMA PreviewIsAPage ==
  ASSUME NEW b, NEW v, NEW offset, NEW limit,
         Preview(b, v, offset, limit).kind = "table"
  PROVE  Preview(b, v, offset, limit) = Page(b, v, offset, limit)
<1>1. \A kind : Plain(kind).kind = kind
  BY DEF Plain
<1>2. CASE Format[b] = "csv"
  BY <1>2 DEF Preview, Page
<1>3. CASE Format[b] = "lines"
  BY <1>1, <1>3 DEF Preview, Page
<1>4. CASE Format[b] = "parquet"
  BY <1>1, <1>4 DEF Preview, Page
<1>5. CASE Format[b] = "image"
  <2>1. Preview(b, v, offset, limit) = Plain(IF IsCut(b) THEN "binary" ELSE "image")
    BY <1>5 DEF Preview
  <2> QED
    BY <1>1, <2>1
<1>6. CASE Format[b] \notin {"csv", "lines", "parquet", "image"}
  <2>1. Preview(b, v, offset, limit) = Plain("text")
    BY <1>6 DEF Preview
  <2> QED
    BY <1>1, <2>1
<1> QED
  BY <1>2, <1>3, <1>4, <1>5, <1>6

(* What SubSeq makes of a stretch of a sequence, wherever it ends. *)
LEMMA Stretch ==
  ASSUME NEW s, NEW from \in Nat, NEW to \in Nat
  PROVE  /\ to <= from => SubSeq(s, from + 1, to) = <<>>
         /\ to > from => /\ Len(SubSeq(s, from + 1, to)) = to - from
                         /\ SubSeq(s, from + 1, to)[1] = s[from + 1]
                         /\ SubSeq(s, from + 1, to) # <<>>
<1>1. CASE to <= from
  BY <1>1, SubSeqEmpty
<1>2. CASE to > from
  <2>1. PICK t : t = SubSeq(s, from + 1, to)
    OBVIOUS
  <2>2. DOMAIN t = 1..(to - from)
    BY <1>2, <2>1
  <2>3. Len(t) = to - from 
    BY <1>2, <2>1
  <2>4. t[1] = s[from + 1]
    BY <1>2, <2>1
  <2> QED
    <3>1. t # <<>>
      BY <1>2, <2>3
    <3> QED
      BY <1>2, <2>1, <2>3, <2>4, <3>1
<1> QED
  BY <1>1, <1>2

LEMMA PageEnds ==
  ASSUME NEW b \in Openable, NEW offset \in Nat, NEW limit \in Nat \ {0}
  PROVE  /\ Lesser(limit, MaxLimit) \in Nat \ {0}
         /\ PageEnd(b, offset, limit) \in Nat /\ PageEnd(b, offset, limit) <= RowCount(b)
         /\ \/ PageEnd(b, offset, limit) = offset + Lesser(limit, MaxLimit)
            \/ /\ PageEnd(b, offset, limit) = RowCount(b)
               /\ RowCount(b) <= offset + Lesser(limit, MaxLimit)
         /\ PageEnd(b, offset, limit) <= offset => RowCount(b) <= offset
<1>1. Lesser(limit, MaxLimit) \in Nat \ {0}
  BY PreviewsAssumption DEF Lesser
<1>2. RowCount(b) \in Nat
  BY RowsOfAVersion
<1> QED
  BY <1>1, <1>2 DEF PageEnd, Lesser

(* A page is a stretch of the rows. *)
LEMMA PageRows ==
  ASSUME NEW b \in Openable, NEW v \in Nat \ {0}, NEW offset \in Nat, NEW limit \in Nat \ {0}
  PROVE  Page(b, v, offset, limit).rows =
           SubSeq(Rows(b, v), offset + 1, PageEnd(b, offset, limit))
BY RowsOfAVersion DEF Page, Table, PageEnd

LEMMA PageFields ==
  ASSUME NEW b \in Openable, NEW v \in Nat \ {0}, NEW offset \in Nat, NEW limit \in Nat \ {0}
  PROVE  /\ Page(b, v, offset, limit).offset = offset
         /\ Page(b, v, offset, limit).limit = Lesser(limit, MaxLimit)
         /\ Page(b, v, offset, limit).total = IF IsCut(b) THEN Nothing ELSE Pieces[b]
BY DEF Page, Table

LEMMA PageLength ==
  ASSUME NEW b \in Openable, NEW v \in Nat \ {0}, NEW offset \in Nat, NEW limit \in Nat \ {0}
  PROVE  /\ PageEnd(b, offset, limit) <= offset => Page(b, v, offset, limit).rows = <<>>
         /\ PageEnd(b, offset, limit) > offset =>
              /\ Page(b, v, offset, limit).rows # <<>>
              /\ Len(Page(b, v, offset, limit).rows) = PageEnd(b, offset, limit) - offset
              /\ Page(b, v, offset, limit).rows[1] = Rows(b, v)[offset + 1]
<1>1. PICK end : end = PageEnd(b, offset, limit)
  OBVIOUS
<1>2. end \in Nat
  BY <1>1, PageEnds
<1>3. Page(b, v, offset, limit).rows = SubSeq(Rows(b, v), offset + 1, end)
  BY <1>1, PageRows
<1>4. CASE end <= offset
  BY <1>1, <1>2, <1>3, <1>4, Stretch
<1>5. CASE end > offset
  BY <1>1, <1>2, <1>3, <1>5, Stretch
<1> QED
  BY <1>1, <1>2, <1>4, <1>5

(* There is a next page exactly when this one shows something and the rows *)
(* go on after it.                                                         *)
LEMMA PageNext ==
  ASSUME NEW b \in Openable, NEW v \in Nat \ {0}, NEW offset \in Nat, NEW limit \in Nat \ {0}
  PROVE  Page(b, v, offset, limit).next <=>
           PageEnd(b, offset, limit) > offset /\ PageEnd(b, offset, limit) < RowCount(b)
<1>1. /\ PageEnd(b, offset, limit) \in Nat /\ RowCount(b) \in Nat
      /\ PageEnd(b, offset, limit) <= RowCount(b)
      /\ PageEnd(b, offset, limit) <= offset => RowCount(b) <= offset
  <2>1. RowCount(b) \in Nat
    BY RowsOfAVersion
  <2> QED
    BY <2>1, PageEnds
<1>2. PICK p, end, N : /\ p = Page(b, v, offset, limit) /\ end = PageEnd(b, offset, limit)
                       /\ N = RowCount(b)
  OBVIOUS
<1>3. p.next <=> offset + Len(p.rows) < N
  <2>1. Len(Rows(b, v)) = N
    BY <1>2, RowsOfAVersion
  <2> QED
    BY <1>2, <2>1 DEF Page, Table
<1>4. CASE end <= offset
  <2>1. p.rows = <<>>
    BY <1>2, <1>4, PageLength
  <2>2. ~(offset + Len(p.rows) < N) /\ ~(end > offset)
    BY <1>1, <1>2, <1>4, <2>1
  <2> QED
    BY <1>2, <1>3, <2>2
<1>5. CASE end > offset
  <2>1. Len(p.rows) = end - offset
    BY <1>2, <1>5, PageLength
  <2>2. offset + Len(p.rows) < N <=> end < N
    BY <1>1, <1>2, <2>1
  <2> QED
    BY <1>2, <1>3, <1>5, <2>2
<1> QED
  BY <1>1, <1>2, <1>4, <1>5

Result ==
  {Nothing, Failed} \cup
    {Preview(b, v, offset, limit) :
       b \in Openable, v \in Nat \ {0}, offset \in Nat, limit \in Nat \ {0}}

Request ==
  [blob : Openable, offset : Nat, limit : Nat \ {0}, how : {"open", "next", "jump"},
   stage : {"sent", "answered", "received"}, result : Result]

(* A request's answer, of whatever version the service had *)
Answers(r, result) ==
  \/ result = Failed
  \/ \E v \in Nat \ {0} : result = Preview(r.blob, v, r.offset, r.limit)

Last == requests[Len(requests)]

RequestInv ==
  /\ requests \in Seq(Request)
  /\ \A i \in DOMAIN requests :
       requests[i].stage = "answered" => Answers(requests[i], requests[i].result)

(* A pane that does not wait shows the last request's answer *)
PaneInv ==
  pane # Nothing =>
    /\ Len(requests) > 0 /\ pane.blob \in Openable
    /\ ~pane.busy =>
         Last.stage = "received" /\ pane.blob = Last.blob /\ Answers(Last, pane.result)

(* What has been seen are the first rows of one version, up to the end of the *)
(* page that is shown, and a next page that is awaited goes on from there     *)
ViewedInv ==
  viewed # <<>> =>
    \E b \in Openable, v \in Nat \ {0} :
      /\ Len(viewed) \in 1..RowCount(b)
      /\ viewed = SubSeq(Rows(b, v), 1, Len(viewed))
      /\ pane # Nothing /\ ~pane.busy /\ pane.result.kind = "table" =>
           /\ pane.result = Page(b, v, Last.offset, Last.limit)
           /\ pane.result.rows # <<>>
           /\ Len(viewed) = Last.offset + Len(pane.result.rows)
      /\ Len(requests) > 0 /\ Last.how = "next" /\ Last.stage # "received" =>
           Len(viewed) = Last.offset

PInv == DInv /\ RequestInv /\ PaneInv /\ ViewedInv

LEMMA InitPInv == PInit => PInv
BY InitDInv DEF PInit, PInv, RequestInv, PaneInv, ViewedInv

(* The table a pane shows is a page of what was asked last. *)
LEMMA ShownTable ==
  ASSUME RequestInv, PaneInv, pane # Nothing, ~pane.busy, pane.result.kind = "table"
  PROVE  /\ Last \in Request /\ Last.stage = "received" /\ pane.blob = Last.blob
         /\ \E v \in Nat \ {0} : pane.result = Page(Last.blob, v, Last.offset, Last.limit)
         /\ pane.result.offset = Last.offset
         /\ pane.result.limit = Lesser(Last.limit, MaxLimit)
         /\ pane.result.limit \in Nat \ {0} /\ PageLimit = pane.result.limit
<1>1. Len(requests) \in Nat \ {0} /\ Last \in Request
  <2>1. Len(requests) \in Nat /\ Len(requests) > 0
    BY DEF RequestInv, PaneInv
  <2> QED
    BY <2>1, ElementOfSeq DEF RequestInv, Last
<1>2. Last.stage = "received" /\ pane.blob = Last.blob /\ Answers(Last, pane.result)
  BY DEF PaneInv
<1>3. pane.result # Failed
  BY DEF Failed
<1>4. PICK v \in Nat \ {0} : pane.result = Preview(Last.blob, v, Last.offset, Last.limit)
  BY <1>2, <1>3 DEF Answers
<1>5. pane.result = Page(Last.blob, v, Last.offset, Last.limit)
  BY <1>4, PreviewIsAPage
<1>6. /\ Last.blob \in Openable /\ Last.offset \in Nat /\ Last.limit \in Nat \ {0}
  BY <1>1 DEF Request
<1>7. /\ pane.result.offset = Last.offset /\ pane.result.limit = Lesser(Last.limit, MaxLimit)
      /\ pane.result.limit \in Nat \ {0}
  <2>1. PICK p, n, end :
          /\ p = Page(Last.blob, v, Last.offset, Last.limit) /\ n = Lesser(Last.limit, MaxLimit)
          /\ end = Lesser(Last.offset + n, RowCount(Last.blob))
    OBVIOUS
  <2>2. p.offset = Last.offset /\ p.limit = n /\ n \in Nat \ {0}
    BY <1>6, <2>1, PreviewsAssumption DEF Page, Table, Lesser
  <2> QED
    BY <1>5, <2>1, <2>2
<1> QED
  BY <1>1, <1>2, <1>5, <1>7 DEF PageLimit

(* A new request leaves what has been seen, and goes on from there if it is *)
(* for the next page.                                                       *)
LEMMA AskForKeeps ==
  ASSUME PInv, NEW b \in Openable, NEW offset \in Nat, NEW limit \in Nat \ {0},
         NEW how \in {"open", "next", "jump"}, AskFor(b, offset, limit, how),
         how = "next" /\ viewed # <<>> => Len(viewed) = offset
  PROVE  RequestInv' /\ PaneInv' /\ ViewedInv'
<1> DEFINE new == NewRequest(b, offset, limit, how)
<1>1. new \in Request
  BY DEF NewRequest, Request, Result
<1>2. requests \in Seq(Request) /\ requests' = Append(requests, new)
  BY DEF PInv, RequestInv, AskFor
<1>3. /\ requests' \in Seq(Request) /\ Len(requests') = Len(requests) + 1 /\ Len(requests) \in Nat
      /\ requests'[Len(requests')] = new
      /\ \A i \in DOMAIN requests' : i \in DOMAIN requests \/ i = Len(requests')
      /\ \A i \in DOMAIN requests : requests'[i] = requests[i]
  <2> HIDE DEF new
  <2> QED
    BY <1>1, <1>2
<1>4. Last' = new /\ new.stage = "sent" /\ new.offset = offset /\ new.how = how /\ new.blob = b
  BY <1>3 DEF Last, NewRequest
<1>5. RequestInv'
  <2> SUFFICES ASSUME NEW i \in DOMAIN requests', requests'[i].stage = "answered"
               PROVE  Answers(requests'[i], requests'[i].result)
    BY <1>3 DEF RequestInv, Answers, Preview, Rows, Table, Plain, IsCut, Whole, Mark
  <2> QED
    BY <1>3, <1>4 DEF PInv, RequestInv
<1>6. PaneInv'
  BY <1>3 DEF AskFor, PaneInv
<1>7. ViewedInv'
  <2>1. viewed' = viewed /\ (pane'.busy)
    BY DEF AskFor
  <2> SUFFICES ASSUME viewed # <<>> PROVE ViewedInv'
    BY <2>1 DEF ViewedInv
  <2>2. PICK c \in Openable, v \in Nat \ {0} :
          Len(viewed) \in 1..RowCount(c) /\ viewed = SubSeq(Rows(c, v), 1, Len(viewed))
    BY DEF PInv, ViewedInv
  <2>3. Last'.how = "next" => Len(viewed) = Last'.offset
    BY <1>4
  <2> QED
    BY <2>1, <2>2, <2>3 DEF ViewedInv
<1> QED
  BY <1>5, <1>6, <1>7

LEMMA AnswerKeeps ==
  ASSUME PInv, NEW i \in DOMAIN requests, Answer(i)
  PROVE  RequestInv' /\ PaneInv' /\ ViewedInv'
<1> DEFINE r == requests[i]
<1>1. requests \in Seq(Request) /\ i \in 1..Len(requests) /\ r \in Request /\ r.stage = "sent"
  BY ElementOfSeq DEF PInv, RequestInv, Answer
<1>2. PICK result : /\ Answers(r, result) /\ result \in Result
                    /\ requests' = [requests EXCEPT ![i].stage = "answered", ![i].result = result]
  <2>1. PICK result \in {Failed} \cup
               (IF stored[r.blob] = Nothing THEN {}
                ELSE {Preview(r.blob, stored[r.blob], r.offset, r.limit)}) :
          requests' = [requests EXCEPT ![i].stage = "answered", ![i].result = result]
    BY DEF Answer
  <2>2. Answers(r, result) /\ result \in Result
    <3>1. CASE result = Failed
      BY <3>1 DEF Answers, Result
    <3>2. CASE result # Failed
      <4>1. result = Preview(r.blob, stored[r.blob], r.offset, r.limit) /\ stored[r.blob] # Nothing
        BY <2>1, <3>2
      <4>2. r.blob \in Openable /\ r.blob \in Blobs /\ r.offset \in Nat /\ r.limit \in Nat \ {0}
        BY <1>1, PreviewsAssumption DEF Request
      <4>3. stored[r.blob] \in Nat \ {0}
        BY <4>1, <4>2 DEF PInv, DInv, DTypeOK
      <4> QED
        BY <4>1, <4>2, <4>3 DEF Answers, Result
    <3> QED
      BY <3>1, <3>2
  <2> QED
    BY <2>1, <2>2, Zenon
<1> DEFINE new == [r EXCEPT !.stage = "answered", !.result = result]
<1>3. /\ new \in Request /\ new.blob = r.blob /\ new.offset = r.offset /\ new.limit = r.limit
      /\ new.how = r.how /\ new.stage = "answered" /\ new.result = result
  BY <1>1, <1>2 DEF Request
<1>4. requests' = [requests EXCEPT ![i] = new]
  BY <1>1, <1>2
<1>5. /\ requests' \in Seq(Request) /\ Len(requests') = Len(requests)
      /\ DOMAIN requests' = 1..Len(requests)
      /\ \A j \in 1..Len(requests) : requests'[j] = IF j = i THEN new ELSE requests[j]
  <2> HIDE DEF new
  <2> QED
    BY <1>1, <1>3, <1>4, ExceptSeq
<1>6. UNCHANGED <<pane, viewed>>
  BY DEF Answer
<1>7. RequestInv'
  <2> SUFFICES ASSUME NEW j \in 1..Len(requests), requests'[j].stage = "answered"
               PROVE  Answers(requests'[j], requests'[j].result)
    BY <1>5 DEF RequestInv, Answers, Preview, Rows, Table, Plain, IsCut, Whole, Mark
  <2>1. CASE j = i
    BY <1>2, <1>3, <1>5, <2>1 DEF Answers
  <2>2. CASE j # i
    BY <1>5, <2>2 DEF PInv, RequestInv
  <2> QED
    BY <2>1, <2>2
<1>8. Len(requests) > 0 =>
        /\ Last'.how = Last.how /\ Last'.offset = Last.offset
        /\ Last.stage = "received" => Last' = Last
        /\ Last.stage = "received" <=> Last'.stage = "received"
  <2>1. Len(requests) > 0 => Last' = IF Len(requests) = i THEN new ELSE Last
    BY <1>1, <1>5 DEF Last
  <2> HIDE DEF new
  <2> QED
    BY <1>1, <1>3, <2>1 DEF Last
<1>9. PaneInv'
  BY <1>5, <1>6, <1>8 DEF PInv, PaneInv, Answers
<1>10. ViewedInv'
  <2> SUFFICES ASSUME viewed # <<>> PROVE ViewedInv'
    BY <1>6 DEF ViewedInv
  <2>1. PICK b \in Openable, v \in Nat \ {0} :
          /\ Len(viewed) \in 1..RowCount(b) /\ viewed = SubSeq(Rows(b, v), 1, Len(viewed))
          /\ pane # Nothing /\ ~pane.busy /\ pane.result.kind = "table" =>
               /\ pane.result = Page(b, v, Last.offset, Last.limit)
               /\ pane.result.rows # <<>>
               /\ Len(viewed) = Last.offset + Len(pane.result.rows)
          /\ Len(requests) > 0 /\ Last.how = "next" /\ Last.stage # "received" =>
               Len(viewed) = Last.offset
    BY DEF PInv, ViewedInv
  <2>2. pane # Nothing /\ ~pane.busy => Last.stage = "received" /\ Len(requests) > 0
    BY DEF PInv, PaneInv
  <2>3. pane # Nothing /\ ~pane.busy => Last' = Last
    BY <1>8, <2>2
  <2> QED
    BY <1>5, <1>6, <1>8, <2>1, <2>3 DEF ViewedInv
<1> QED
  BY <1>7, <1>9, <1>10

LEMMA ReceiveKeeps ==
  ASSUME PInv, NEW i \in DOMAIN requests, Receive(i)
  PROVE  RequestInv' /\ PaneInv' /\ ViewedInv'
<1> DEFINE r == requests[i]
           new == [r EXCEPT !.stage = "received", !.result = Nothing]
<1>1. requests \in Seq(Request) /\ i \in 1..Len(requests) /\ r \in Request /\ r.stage = "answered"
  BY ElementOfSeq DEF PInv, RequestInv, Receive
<1>2. /\ new \in Request /\ new.blob = r.blob /\ new.offset = r.offset /\ new.limit = r.limit
      /\ new.how = r.how /\ new.stage = "received"
  <2>1. Nothing \in Result
    BY DEF Result
  <2> QED
    BY <1>1, <2>1 DEF Request
<1>3. requests' = [requests EXCEPT ![i] = new]
  BY <1>1 DEF Receive
<1>4. /\ requests' \in Seq(Request) /\ Len(requests') = Len(requests)
      /\ DOMAIN requests' = 1..Len(requests)
      /\ \A j \in 1..Len(requests) : requests'[j] = IF j = i THEN new ELSE requests[j]
  <2> HIDE DEF new
  <2> QED
    BY <1>1, <1>2, <1>3, ExceptSeq
<1>5. RequestInv'
  <2> SUFFICES ASSUME NEW j \in 1..Len(requests), requests'[j].stage = "answered"
               PROVE  Answers(requests'[j], requests'[j].result)
    BY <1>4 DEF RequestInv, Answers, Preview, Rows, Table, Plain, IsCut, Whole, Mark
  <2>1. j # i
    <3> HIDE DEF new
    <3> QED
      BY <1>2, <1>4
  <2> QED
    BY <1>4, <2>1 DEF PInv, RequestInv
<1>6. Last' = IF i = Len(requests) THEN new ELSE Last
  BY <1>1, <1>4 DEF Last
<1>7. CASE i # Len(requests)
  <2>1. Last' = Last /\ UNCHANGED <<pane, viewed>>
    BY <1>6, <1>7 DEF Receive
  <2>2. PaneInv'
    BY <1>4, <2>1 DEF PInv, PaneInv, Answers
  <2>3. ViewedInv'
    BY <1>4, <2>1 DEF PInv, ViewedInv
  <2> QED
    BY <1>5, <2>2, <2>3
<1>8. CASE i = Len(requests)
  <2>1. /\ pane' = [blob |-> r.blob, busy |-> FALSE, result |-> r.result,
                    offset |-> IF r.result = Failed THEN r.offset ELSE r.result.offset,
                    limit |-> IF r.result = Failed \/ r.result.limit = 0 THEN r.limit
                              ELSE r.result.limit]
        /\ viewed' = Seen(r)
    BY <1>8 DEF Receive
  <2>2. pane'.blob = r.blob /\ ~pane'.busy /\ pane'.result = r.result
    BY <2>1
  <2>3. r.blob \in Openable /\ r.offset \in Nat /\ r.limit \in Nat \ {0} /\ Answers(r, r.result)
    BY <1>1 DEF Request, PInv, RequestInv
  <2>4. Answers(Last', r.result)
    BY <1>2, <1>6, <1>8, <2>3 DEF Answers
  <2>5. PaneInv'
    BY <1>1, <1>2, <1>4, <1>6, <1>8, <2>2, <2>3, <2>4 DEF PaneInv, Answers
  <2>6. ViewedInv'
    <3> SUFFICES ASSUME viewed' # <<>> PROVE ViewedInv'
      BY DEF ViewedInv
    <3>1. /\ r.result.kind = "table" /\ r.result.rows # <<>>
          /\ \/ r.result.offset = 0 /\ viewed' = r.result.rows
             \/ /\ r.how = "next" /\ viewed # <<>>
                /\ VersionOf(viewed) = VersionOf(r.result.rows)
                /\ viewed' = viewed \o r.result.rows
      BY <2>1 DEF Seen
    <3>2. r.result # Failed
      BY <3>1 DEF Failed
    <3>3. PICK v \in Nat \ {0} : r.result = Preview(r.blob, v, r.offset, r.limit)
      BY <2>3, <3>2 DEF Answers
    <3>4. r.result = Page(r.blob, v, r.offset, r.limit)
      BY <3>1, <3>3, PreviewIsAPage
    <3>5. PICK o, b, end : o = r.offset /\ b = r.blob /\ end = PageEnd(b, o, r.limit)
      OBVIOUS
    <3>6. /\ o \in Nat /\ end \in Nat /\ end > o /\ end <= RowCount(b) /\ b \in Openable
          /\ r.result.offset = o /\ r.result.rows = SubSeq(Rows(b, v), o + 1, end)
          /\ Len(r.result.rows) = end - o /\ r.result.rows[1] = Rows(b, v)[o + 1]
      <4>1. b \in Openable /\ o \in Nat /\ r.limit \in Nat \ {0}
        BY <2>3, <3>5
      <4>2. end \in Nat /\ end <= RowCount(b)
        BY <3>5, <4>1, PageEnds
      <4>3. r.result.offset = o /\ r.result.rows = SubSeq(Rows(b, v), o + 1, end)
        <5>1. r.result.offset = o
          BY <3>4, <3>5, <4>1, PageFields
        <5>2. PICK l : l = r.limit
          OBVIOUS
        <5>3. r.result = Page(b, v, o, l) /\ end = PageEnd(b, o, l)
          BY <3>4, <3>5, <5>2
        <5>4. Page(b, v, o, l).rows = SubSeq(Rows(b, v), o + 1, PageEnd(b, o, l))
          BY <4>1, <5>2, PageRows
        <5> QED
          BY <5>1, <5>3, <5>4
      <4>4. end > o
        BY <3>1, <3>4, <3>5, <4>1, <4>2, PageLength
      <4>5. Len(r.result.rows) = end - o /\ r.result.rows[1] = Rows(b, v)[o + 1]
        BY <3>4, <3>5, <4>1, <4>4, PageLength
      <4> QED
        BY <4>1, <4>2, <4>3, <4>4, <4>5
    <3>7. /\ RowCount(b) \in Nat /\ Len(Rows(b, v)) = RowCount(b)
          /\ Rows(b, v) \in Seq(RowsOf(b, v))
          /\ \A k \in 1..RowCount(b) : Rows(b, v)[k][1] = b /\ Rows(b, v)[k][2] = v
      BY <3>6, RowsOfAVersion
    <3>8. viewed' = SubSeq(Rows(b, v), 1, end) /\ Len(viewed') = end
      <4>1. CASE r.result.offset = 0 /\ viewed' = r.result.rows
        <5>1. o = 0 /\ o + 1 = 1 /\ end - o = end
          BY <3>6, <4>1
        <5> QED
          BY <3>6, <4>1, <5>1
      <4>2. CASE /\ r.how = "next" /\ viewed # <<>>
                 /\ VersionOf(viewed) = VersionOf(r.result.rows)
                 /\ viewed' = viewed \o r.result.rows
        <5>1. PICK c \in Openable, w \in Nat \ {0} :
                /\ Len(viewed) \in 1..RowCount(c) /\ viewed = SubSeq(Rows(c, w), 1, Len(viewed))
                /\ Len(requests) > 0 /\ Last.how = "next" /\ Last.stage # "received" =>
                     Len(viewed) = Last.offset
          BY <4>2 DEF PInv, ViewedInv
        <5>2. Len(viewed) = o
          BY <1>1, <1>8, <3>5, <4>2, <5>1 DEF Last
        <5>3. viewed[1] = Rows(c, w)[1]
          <6>1. PICK m : m = Len(viewed)
            OBVIOUS
          <6>2. m \in Nat /\ m > 0 /\ viewed = SubSeq(Rows(c, w), 0 + 1, m)
            BY <5>1, <6>1
          <6>3. SubSeq(Rows(c, w), 0 + 1, m)[1] = Rows(c, w)[0 + 1]
            BY <6>2, Stretch
          <6> QED
            BY <6>2, <6>3
        <5>4. c = b /\ w = v
          <6>1. Rows(c, w)[1][1] = c /\ Rows(c, w)[1][2] = w
            BY <5>1, RowsOfAVersion
          <6>2. Rows(b, v)[o + 1][1] = b /\ Rows(b, v)[o + 1][2] = v
            BY <3>6, <3>7
          <6> QED
            BY <3>6, <4>2, <5>3, <6>1, <6>2 DEF VersionOf
        <5>5. viewed' = SubSeq(Rows(b, v), 1, o) \o SubSeq(Rows(b, v), o + 1, end)
          BY <3>6, <4>2, <5>1, <5>2, <5>4
        <5>6. o \in 1..RowCount(b)
          BY <5>1, <5>2, <5>4
        <5>7. viewed' = SubSeq(Rows(b, v), 1, end)
          BY <3>6, <3>7, <5>5, <5>6, ConcatAdjacentSubSeq
        <5>8. Len(SubSeq(Rows(b, v), 0 + 1, end)) = end - 0
          BY <3>6, Stretch
        <5> QED
          BY <3>6, <5>7, <5>8
      <4> QED
        BY <3>1, <4>1, <4>2
    <3>9. Last'.offset = o /\ Last'.limit = r.limit /\ Last'.stage = "received"
      BY <1>2, <1>6, <1>8, <3>5
    <3>10. /\ pane'.result = Page(b, v, Last'.offset, Last'.limit)
           /\ end = Last'.offset + Len(pane'.result.rows) /\ pane'.result.rows # <<>>
      BY <2>2, <3>1, <3>4, <3>5, <3>6, <3>9
    <3>11. Len(viewed') \in 1..RowCount(b) /\ viewed' = SubSeq(Rows(b, v), 1, Len(viewed'))
      BY <3>6, <3>7, <3>8
    <3> QED
      BY <3>6, <3>8, <3>9, <3>10, <3>11 DEF ViewedInv
  <2> QED
    BY <1>5, <2>5, <2>6
<1> QED
  BY <1>7, <1>8

LEMMA PagerKeeps ==
  ASSUME PInv, Open \/ NextPage \/ PreviousPage \/ JumpTo
  PROVE  RequestInv' /\ PaneInv' /\ ViewedInv'
<1>1. CASE Open
  BY <1>1, AskForKeeps, PreviewsAssumption DEF Open
<1>2. ASSUME CanPage
      PROVE  /\ pane.blob \in Openable /\ pane.result.offset = Last.offset
             /\ Last.offset \in Nat /\ PageLimit \in Nat \ {0}
  <2>1. RequestInv /\ PaneInv /\ pane # Nothing /\ ~pane.busy /\ pane.result.kind = "table"
    BY <1>2 DEF CanPage, PInv
  <2> QED
    BY <2>1, ShownTable DEF Request
<1>3. CASE NextPage
  <2>1. CanPage /\ pane.result.next
        /\ AskFor(pane.blob, pane.result.offset + PageLimit, PageLimit, "next")
    BY <1>3 DEF NextPage
  <2>2. pane # Nothing /\ ~pane.busy /\ pane.result.kind = "table" /\ RequestInv /\ PaneInv
    BY <2>1 DEF CanPage, PInv
  <2>3. ASSUME viewed # <<>> PROVE Len(viewed) = Last.offset + PageLimit
    <3>1. PICK b \in Openable, v \in Nat \ {0} :
            /\ pane.result = Page(b, v, Last.offset, Last.limit)
            /\ Len(viewed) = Last.offset + Len(pane.result.rows)
      BY <2>2, <2>3 DEF PInv, ViewedInv
    <3>2. PICK o, l, n, end : /\ o = Last.offset /\ l = Last.limit /\ n = Lesser(l, MaxLimit)
                              /\ end = PageEnd(b, o, l)
      OBVIOUS
    <3>3. o \in Nat /\ l \in Nat \ {0} /\ PageLimit = n
      BY <2>2, <3>2, ShownTable DEF Request
    <3>4. end > o /\ end < RowCount(b)
      BY <2>1, <3>1, <3>2, <3>3, PageNext
    <3>5. end = o + n /\ n \in Nat
      <4>1. end = o + n \/ end = RowCount(b)
        BY <3>2, <3>3, PageEnds
      <4>2. n \in Nat /\ end \in Nat /\ RowCount(b) \in Nat
        BY <3>2, <3>3, PageEnds, RowsOfAVersion
      <4> QED
        BY <3>4, <4>1, <4>2
    <3>6. Len(pane.result.rows) = end - o
      BY <3>1, <3>2, <3>3, <3>4, PageLength
    <3> QED
      BY <3>1, <3>2, <3>3, <3>5, <3>6
  <2> QED
    BY <1>2, <2>1, <2>3, AskForKeeps
<1>4. CASE PreviousPage
  <2>1. CanPage /\ AskFor(pane.blob, IF pane.result.offset > PageLimit
                                     THEN pane.result.offset - PageLimit ELSE 0, PageLimit, "jump")
    BY <1>4 DEF PreviousPage
  <2>2. (IF pane.result.offset > PageLimit THEN pane.result.offset - PageLimit ELSE 0) \in Nat
    BY <1>2, <2>1
  <2> QED
    BY <1>2, <2>1, <2>2, AskForKeeps
<1>5. CASE JumpTo
  <2>1. CanPage
    BY <1>5 DEF JumpTo
  <2>2. CASE AskFor(pane.blob, 0, PageLimit, "jump")
    BY <1>2, <2>1, <2>2, AskForKeeps
  <2>3. ASSUME NEW page \in 0..((pane.result.total - 1) \div PageLimit),
               AskFor(pane.blob, page * PageLimit, PageLimit, "jump")
        PROVE  RequestInv' /\ PaneInv' /\ ViewedInv'
    <3>1. page \in Nat
      OBVIOUS
    <3>2. page * PageLimit \in Nat
      BY <1>2, <2>1, <3>1
    <3> QED
      BY <1>2, <2>1, <2>3, <3>2, AskForKeeps
  <2>4. ASSUME NEW limit \in Limits, AskFor(pane.blob, 0, limit, "jump")
        PROVE  RequestInv' /\ PaneInv' /\ ViewedInv'
    BY <1>2, <2>1, <2>4, AskForKeeps, PreviewsAssumption
  <2> QED
    BY <1>5, <2>2, <2>3, <2>4 DEF JumpTo
<1> QED
  BY <1>1, <1>3, <1>4, <1>5

LEMMA PNextKeeps ==
  ASSUME PInv, [PNext]_pvars
  PROVE  PInv'
<1>1. [DNext]_dvars
  BY DEF PNext, pvars, Open, NextPage, PreviousPage, JumpTo, Close, AskFor, Answer, Receive
<1>2. DInv'
  BY <1>1, DNextKeeps DEF PInv
<1>3. CASE UNCHANGED <<requests, pane, viewed>>
  <2>1. RequestInv' /\ PaneInv' /\ ViewedInv'
    BY <1>3 DEF PInv, RequestInv, PaneInv, ViewedInv, Last, Answers
  <2> QED
    BY <1>2, <2>1 DEF PInv
<1>4. CASE Close
  <2>1. RequestInv' /\ PaneInv' /\ ViewedInv'
    BY <1>4 DEF Close, PInv, RequestInv, PaneInv, ViewedInv, Last, Answers
  <2> QED
    BY <1>2, <2>1 DEF PInv
<1>5. CASE Open \/ NextPage \/ PreviousPage \/ JumpTo
  BY <1>2, <1>5, PagerKeeps DEF PInv
<1>6. ASSUME NEW i \in DOMAIN requests, Answer(i) \/ Receive(i) PROVE PInv'
  BY <1>2, <1>6, AnswerKeeps, ReceiveKeeps DEF PInv
<1> QED
  BY <1>3, <1>4, <1>5, <1>6 DEF PNext, pvars

LEMMA PInvShows == PInv => ShowsWhatWasAsked
<1> SUFFICES ASSUME PInv, pane # Nothing, ~pane.busy PROVE ShowsWhatWasAsked
  BY DEF ShowsWhatWasAsked
<1>1. Last.stage = "received" /\ pane.blob = Last.blob
  BY DEF PInv, PaneInv
<1>2. pane.result.kind = "table" =>
        pane.result.offset = Last.offset /\ pane.result.limit = Lesser(Last.limit, MaxLimit)
  BY ShownTable DEF PInv
<1> QED
  BY <1>1, <1>2 DEF ShowsWhatWasAsked, Last

LEMMA PInvPages == PInv => PagesShowEveryRow
<1> SUFFICES ASSUME PInv, viewed # <<>> PROVE PagesShowEveryRow
  BY DEF PagesShowEveryRow
<1>1. PICK b \in Openable, v \in Nat \ {0} :
        /\ Len(viewed) \in 1..RowCount(b)
        /\ viewed = SubSeq(Rows(b, v), 1, Len(viewed))
        /\ pane # Nothing /\ ~pane.busy /\ pane.result.kind = "table" =>
             /\ pane.result = Page(b, v, Last.offset, Last.limit)
             /\ pane.result.rows # <<>>
             /\ Len(viewed) = Last.offset + Len(pane.result.rows)
  BY DEF PInv, ViewedInv
<1>2. /\ RowCount(b) \in Nat /\ Len(Rows(b, v)) = RowCount(b)
      /\ Rows(b, v) \in Seq(RowsOf(b, v)) /\ (~IsCut(b) => RowCount(b) = Pieces[b])
      /\ Rows(b, v)[1][1] = b /\ Rows(b, v)[1][2] = v
  BY <1>1, RowsOfAVersion
<1>3. viewed[1] = Rows(b, v)[1]
  <2>1. PICK m : m = Len(viewed)
    OBVIOUS
  <2>2. m \in Nat /\ m > 0 /\ viewed = SubSeq(Rows(b, v), 0 + 1, m)
    BY <1>1, <2>1
  <2>3. SubSeq(Rows(b, v), 0 + 1, m)[1] = Rows(b, v)[0 + 1]
    BY <2>2, Stretch
  <2> QED
    BY <2>2, <2>3
<1>4. viewed[1][1] = b /\ viewed[1][2] = v
  BY <1>2, <1>3
<1>5. ASSUME pane # Nothing, ~pane.busy, pane.result.kind = "table", ~pane.result.next
      PROVE  /\ viewed = Rows(b, v)
             /\ pane.result.total # Nothing => Len(viewed) = Pieces[b]
  <2>1. PICK o, l, end : o = Last.offset /\ l = Last.limit /\ end = PageEnd(b, o, l)
    OBVIOUS
  <2>2. o \in Nat /\ l \in Nat \ {0}
    BY <1>5, <2>1, ShownTable DEF PInv, Request
  <2>3. /\ pane.result = Page(b, v, o, l) /\ pane.result.rows # <<>>
        /\ Len(viewed) = o + Len(pane.result.rows)
    BY <1>1, <1>5, <2>1
  <2>4. end \in Nat /\ end <= RowCount(b)
    BY <2>1, <2>2, PageEnds
  <2>5. end > o
    BY <2>1, <2>2, <2>3, <2>4, PageLength
  <2>6. Len(pane.result.rows) = end - o
    BY <2>1, <2>2, <2>3, <2>5, PageLength
  <2>7. ~(end < RowCount(b))
    BY <1>5, <2>1, <2>2, <2>3, <2>5, PageNext
  <2>8. Len(viewed) = RowCount(b)
    BY <1>2, <2>2, <2>3, <2>4, <2>6, <2>7
  <2>9. viewed = Rows(b, v)
    BY <1>1, <1>2, <2>8, SubSeqFull
  <2>10. pane.result.total # Nothing => ~IsCut(b)
    BY <2>2, <2>3, PageFields
  <2> QED
    BY <1>2, <2>8, <2>9, <2>10
<1> QED
  BY <1>1, <1>4, <1>5 DEF PagesShowEveryRow

LEMMA PreviewsInvariant == PSpec => []PInv
<1>1. PInit => PInv
  BY InitPInv
<1>2. PInv /\ [PNext]_pvars => PInv'
  BY PNextKeeps
<1> QED
  BY <1>1, <1>2, PTL DEF PSpec

(* A download that says it is done has each of its files whole, of one     *)
(* version of its blob, unless another used its place (stream_blob_to_file *)
(* and cp), whatever other clients write meanwhile.                        *)
THEOREM PSpecDoneIsWhole == PSpec => []DoneIsWhole
<1>1. PInv => DoneIsWhole
  BY DInvImpliesWhole DEF PInv
<1> QED
  BY <1>1, PreviewsInvariant, PTL

(* No file that was there when a download of the desktop chose its name is *)
(* touched by it (unique_download_path, unique_download_dir), and cp       *)
(* empties one only once the service has begun to send the blob.           *)
THEOREM PSpecKeepsWhatWasThere == PSpec => KeepsWhatWasThere
<1> DEFINE Kept ==
      \A p \in DOMAIN disk :
        /\ p \in DOMAIN disk'
        /\ disk'[p] # disk[p] =>
             \E d \in Downloads :
               /\ at[d] \in {"creating", "reading"} /\ Place(d, item[d]) = p
               /\ p \in there[d] => d \in Copies /\ version[d] > 0
<1>1. PInv /\ [PNext]_pvars => [Kept]_dvars
  <2> SUFFICES ASSUME PInv, [PNext]_pvars PROVE Kept
    OBVIOUS
  <2>1. [DNext]_dvars
    BY DEF PNext, pvars, Open, NextPage, PreviousPage, JumpTo, Close, AskFor, Answer, Receive
  <2> QED
    BY <2>1, DInvKeepsFiles DEF PInv
<1>2. PSpec => [][Kept]_dvars
  BY <1>1, PreviewsInvariant, PTL DEF PSpec
<1> QED
  BY <1>2 DEF KeepsWhatWasThere

(* A pane that does not wait shows the answer to what was asked last *)
(* (handlePreviewBlob and its previewRequestId).                     *)
THEOREM PSpecShowsWhatWasAsked == PSpec => []ShowsWhatWasAsked
BY PInvShows, PreviewsInvariant, PTL

(* Paging forward through a version of a blob shows each of its rows that *)
(* is loaded once and in order, and all of them when there is no next     *)
(* page (preview_delimited_blob, BlobPreviewPane).                        *)
THEOREM PSpecPagesShowEveryRow == PSpec => []PagesShowEveryRow
BY PInvPages, PreviewsInvariant, PTL
=============================================================================
