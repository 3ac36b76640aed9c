--------------------------- MODULE OperationsProofs ---------------------------
(* What holds of HttpPipeline::send, and of the commands built on it, for any *)
(* number of calls, any limit on the attempts and any cap on the pauses.      *)
EXTENDS Operations, TLAPS

(* The service's doings so far, and what the attempt in hand may add, fit in *)
(* the attempts made: none before the call begins, and one is left whenever  *)
(* it waits for the next.                                                    *)
Counted(r) ==
  /\ effects[r] + strays[r] + (IF pc[r] \in {"building", "sent"} THEN 1 ELSE 0) <= attempt[r]
  /\ pc[r] = "waiting" => attempt[r] < MaxAttempts
  /\ pc[r] = "idle" => attempt[r] = 0

(* An attempt that has ended has an outcome; a success that was answered, or *)
(* returned, was carried out.                                                *)
Founded(r) ==
  /\ pc[r] = "answered" => answer[r].kind # "none"
  /\ pc[r] = "answered" /\ answer[r].kind = "success" => effects[r] > 0
  /\ result[r] = "ok" => effects[r] > 0

(* While nothing is in doubt, nothing strays and nothing has been carried out *)
(* but by an attempt that was answered with success, which is the last.       *)
Settled(r) ==
  ~doubtful[r] =>
    /\ strays[r] = 0
    /\ pc[r] \in {"idle", "building", "sent", "waiting"} => effects[r] = 0
    /\ pc[r] = "answered" =>
         effects[r] = IF answer[r].kind = "success" THEN 1 ELSE 0
    /\ pc[r] = "returned" => effects[r] = IF result[r] = "ok" THEN 1 ELSE 0

Types ==
  /\ pc \in [Requests -> {"idle", "building", "sent", "answered", "waiting", "returned"}]
  /\ attempt \in [Requests -> 0..MaxAttempts]
  /\ answer \in [Requests -> Outcome]
  /\ delay \in [Requests -> 0..MaxBackoff]
  /\ result \in [Requests -> Errors \cup {"none", "ok"}]
  /\ effects \in [Requests -> Nat]
  /\ strays \in [Requests -> Nat]
  /\ doubtful \in [Requests -> BOOLEAN]

IInv == Types /\ \A r \in Requests : Counted(r) /\ Founded(r) /\ Settled(r)

(* Every outcome of an attempt is a result send can return; only a success is *)
(* returned as one, and it is not retried.                                    *)
LEMMA Classified ==
  ASSUME NEW o \in Outcome
  PROVE  /\ o.kind # "none" => ErrorOf(o.kind) \in Errors \cup {"ok"}
         /\ o.kind # "none" /\ ErrorOf(o.kind) = "ok" => o.kind = "success"
         /\ ErrorOf("success") = "ok"
         /\ ~IsRetryable("ok")
<1>1. o.kind \in {"success", "busy", "failed", "missing", "forbidden", "expired",
                  "exists", "rejected", "none", "broken", "unconnected", "unsigned", "unbuilt"}
  BY DEF Outcome, Answers, Refusals
<1> QED BY <1>1 DEF ErrorOf, Errors, IsRetryable

LEMMA InitEstablishes == Init => IInv
<1> SUFFICES ASSUME Init PROVE IInv
  OBVIOUS
<1>1. NoOutcome \in Outcome
  BY DEF NoOutcome, Outcome
<1>2. Types
  BY <1>1, PipelineAssumption DEF Init, Types
<1>3. ASSUME NEW r \in Requests PROVE Counted(r) /\ Founded(r) /\ Settled(r)
  BY DEF Init, Counted, Founded, Settled
<1> QED BY <1>2, <1>3 DEF IInv

(* The pauses backoff_for chooses stay within the cap. *)
LEMMA BackoffCapped ==
  ASSUME NEW o \in Outcome PROVE Backoffs(o) \subseteq 0..MaxBackoff
<1> DEFINE kinds == Answers \cup {"none", "broken", "unconnected", "unsigned", "unbuilt"}
           pauses == Pauses \cup {0}
<1>a. o \in [kind : kinds, pause : pauses]
  BY DEF Outcome
<1> HIDE DEF kinds, pauses
<1>0. o.pause \in pauses
  BY <1>a
<1>b. \A p \in Pauses : p \in Nat
  BY PipelineAssumption
<1>1. o.pause \in Nat
  BY <1>0, <1>b DEF pauses
<1> QED BY <1>1, PipelineAssumption DEF Backoffs

LEMMA CallPreserves ==
  ASSUME IInv, NEW r \in Requests, Begin(r) \/ CallStep(r) \/ Arrive(r)
  PROVE  IInv'
<1> USE PipelineAssumption DEF IInv
<1>0. /\ Types
      /\ Counted(r) /\ Founded(r) /\ Settled(r)
      /\ \A s \in Requests : effects[s] \in Nat /\ strays[s] \in Nat /\ attempt[s] \in Nat
  BY DEF Types
<1>end. ASSUME NEW kind \in Answers \cup {"broken", "unconnected", "unsigned", "unbuilt"},
               NEW pause \in Pauses \cup {0}
        PROVE  [kind |-> kind, pause |-> pause] \in Outcome
  BY DEF Outcome
<1>a. CASE Begin(r)
  <2>1. Types'
    BY <1>0, <1>a DEF Types, Begin, Goto
  <2>2. ASSUME NEW s \in Requests PROVE Counted(s)' /\ Founded(s)' /\ Settled(s)'
    <3>1. CASE s = r
      BY <1>0, <1>a, <3>1 DEF Types, Begin, Goto, Counted, Founded, Settled
    <3>2. CASE s # r
      BY <1>0, <1>a, <3>2 DEF Types, Begin, Goto, Counted, Founded, Settled
    <3> QED BY <3>1, <3>2
  <2> QED BY <2>1, <2>2
<1>b. CASE Unsent(r)
  <2>0. PICK kind \in {"unbuilt", "unsigned", "unconnected"} : EndAttempt(r, kind, 0)
    BY <1>b DEF Unsent
  <2>1. Types'
    BY <1>0, <1>b, <2>0, <1>end DEF Types, Unsent, EndAttempt, Goto
  <2>2. ASSUME NEW s \in Requests PROVE Counted(s)' /\ Founded(s)' /\ Settled(s)'
    <3>1. CASE s = r
      BY <1>0, <1>b, <2>0, <3>1 DEF Types, Unsent, EndAttempt, Goto, Counted, Founded, Settled
    <3>2. CASE s # r
      BY <1>0, <1>b, <2>0, <3>2 DEF Types, Unsent, EndAttempt, Goto, Counted, Founded, Settled
    <3> QED BY <3>1, <3>2
  <2> QED BY <2>1, <2>2
<1>c. CASE Transmit(r)
  <2>1. Types'
    BY <1>0, <1>c DEF Types, Transmit, Goto
  <2>2. ASSUME NEW s \in Requests PROVE Counted(s)' /\ Founded(s)' /\ Settled(s)'
    BY <1>0, <1>c DEF Types, Transmit, Goto, Counted, Founded, Settled
  <2> QED BY <2>1, <2>2
<1>d. CASE Serve(r)
  <2>0. PICK kind \in {"success", "failed"} :
          /\ EndAttempt(r, kind, 0)
          /\ doubtful' = IF kind = "failed" THEN [doubtful EXCEPT ![r] = TRUE] ELSE doubtful
    BY <1>d DEF Serve
  <2>1. Types'
    BY <1>0, <1>d, <2>0, <1>end DEF Types, Serve, EndAttempt, Goto, Answers
  <2>2. ASSUME NEW s \in Requests PROVE Counted(s)' /\ Founded(s)' /\ Settled(s)'
    <3>1. CASE s = r
      BY <1>0, <1>d, <2>0, <3>1 DEF Types, Serve, EndAttempt, Goto, Counted, Founded, Settled
    <3>2. CASE s # r
      BY <1>0, <1>d, <2>0, <3>2 DEF Types, Serve, EndAttempt, Goto, Counted, Founded, Settled
    <3> QED BY <3>1, <3>2
  <2> QED BY <2>1, <2>2
<1>e. CASE Refuse(r)
  <2>0. PICK kind \in Answers \ {"success"}, pause \in Pauses \cup {0} :
          /\ EndAttempt(r, kind, pause)
          /\ doubtful' = IF kind = "failed" THEN [doubtful EXCEPT ![r] = TRUE] ELSE doubtful
    BY <1>e DEF Refuse, Refusals, Answers
  <2>k. kind # "none"
    BY DEF Answers, Refusals
  <2>1. Types'
    BY <1>0, <1>e, <2>0, <1>end DEF Types, Refuse, EndAttempt, Goto
  <2>2. ASSUME NEW s \in Requests PROVE Counted(s)' /\ Founded(s)' /\ Settled(s)'
    <3>1. CASE s = r
      BY <1>0, <1>e, <2>0, <2>k, <3>1 DEF Types, Refuse, EndAttempt, Goto, Counted, Founded, Settled
    <3>2. CASE s # r
      BY <1>0, <1>e, <2>0, <3>2 DEF Types, Refuse, EndAttempt, Goto, Counted, Founded, Settled
    <3> QED BY <3>1, <3>2
  <2> QED BY <2>1, <2>2
<1>f. CASE Break(r)
  <2>1. Types'
    BY <1>0, <1>f, <1>end DEF Types, Break, EndAttempt, Goto
  <2>2. ASSUME NEW s \in Requests PROVE Counted(s)' /\ Founded(s)' /\ Settled(s)'
    <3>1. CASE s = r
      BY <1>0, <1>f, <3>1 DEF Types, Break, EndAttempt, Goto, Counted, Founded, Settled
    <3>2. CASE s # r
      BY <1>0, <1>f, <3>2 DEF Types, Break, EndAttempt, Goto, Counted, Founded, Settled
    <3> QED BY <3>1, <3>2
  <2> QED BY <2>1, <2>2
<1>g. CASE Arrive(r)
  <2>1. Types'
    BY <1>0, <1>g DEF Types, Arrive
  <2>2. ASSUME NEW s \in Requests PROVE Counted(s)' /\ Founded(s)' /\ Settled(s)'
    <3>1. CASE s = r
      BY <1>0, <1>g, <3>1 DEF Types, Arrive, Counted, Founded, Settled
    <3>2. CASE s # r
      BY <1>0, <1>g, <3>2 DEF Types, Arrive, Counted, Founded, Settled
    <3> QED BY <3>1, <3>2
  <2> QED BY <2>1, <2>2
<1>h. CASE Return(r)
  <2>0. answer[r] \in Outcome
    BY <1>0 DEF Types
  <2>k. answer[r].kind # "none"
    BY <1>0, <1>h DEF Founded, Return
  <2>1. Types'
    BY <1>0, <1>h, <2>0, <2>k, Classified DEF Types, Return, Goto
  <2>2. ASSUME NEW s \in Requests PROVE Counted(s)' /\ Founded(s)' /\ Settled(s)'
    <3>1. CASE s = r
      BY <1>0, <1>h, <2>0, <2>k, <3>1, Classified
         DEF Types, Return, Goto, Counted, Founded, Settled
    <3>2. CASE s # r
      BY <1>0, <1>h, <3>2 DEF Types, Return, Goto, Counted, Founded, Settled
    <3> QED BY <3>1, <3>2
  <2> QED BY <2>1, <2>2
<1>i. CASE BackOff(r)
  <2>0. answer[r] \in Outcome
    BY <1>0 DEF Types
  <2>1. PICK d \in 0..MaxBackoff : delay' = [delay EXCEPT ![r] = d]
    BY <1>i, <2>0, BackoffCapped DEF BackOff
  <2>2. answer[r].kind # "success"
    BY <1>i, <2>0, Classified DEF BackOff
  <2>3. Types'
    BY <1>0, <1>i, <2>1 DEF Types, BackOff, Goto
  <2>4. ASSUME NEW s \in Requests PROVE Counted(s)' /\ Founded(s)' /\ Settled(s)'
    <3>1. CASE s = r
      BY <1>0, <1>i, <2>2, <3>1
         DEF Types, BackOff, Exhausted, Goto, Counted, Founded, Settled
    <3>2. CASE s # r
      BY <1>0, <1>i, <3>2 DEF Types, BackOff, Goto, Counted, Founded, Settled
    <3> QED BY <3>1, <3>2
  <2> QED BY <2>3, <2>4
<1>j. CASE Retry(r)
  <2>1. Types'
    BY <1>0, <1>j DEF Types, Retry, Goto, Counted
  <2>2. ASSUME NEW s \in Requests PROVE Counted(s)' /\ Founded(s)' /\ Settled(s)'
    <3>1. CASE s = r
      BY <1>0, <1>j, <3>1 DEF Types, Retry, Goto, Counted, Founded, Settled
    <3>2. CASE s # r
      BY <1>0, <1>j, <3>2 DEF Types, Retry, Goto, Counted, Founded, Settled
    <3> QED BY <3>1, <3>2
  <2> QED BY <2>1, <2>2
<1> QED
  BY <1>a, <1>b, <1>c, <1>d, <1>e, <1>f, <1>g, <1>h, <1>i, <1>j DEF CallStep

LEMMA NextPreserves == IInv /\ [Next]_vars => IInv'
<1> SUFFICES ASSUME IInv, [Next]_vars PROVE IInv'
  OBVIOUS
<1>1. CASE Next
  BY <1>1, CallPreserves DEF Next
<1>2. CASE UNCHANGED vars
  BY <1>2 DEF vars, IInv, Types, Counted, Founded, Settled
<1> QED BY <1>1, <1>2

LEMMA Invariance == Spec => []IInv
<1> QED BY InitEstablishes, NextPreserves, PTL DEF Spec

-----------------------------------------------------------------------------
(* No call has its request carried out more often than it may attempt it. *)
THEOREM SpecEffectsBounded == Spec => []EffectsBounded
<1>1. IInv => EffectsBounded
  BY PipelineAssumption DEF IInv, Types, Counted, EffectsBounded
<1> QED BY <1>1, Invariance, PTL

(* Every variable of the pipeline keeps its type; attempts and pauses keep *)
(* their limits.                                                           *)
THEOREM SpecTypeOK == Spec => []TypeOK
<1>1. IInv => TypeOK
  <2> SUFFICES ASSUME IInv PROVE TypeOK
    OBVIOUS
  <2>1. ASSUME NEW r \in Requests
        PROVE  effects[r] \in 0..MaxAttempts /\ strays[r] \in 0..MaxAttempts
    BY PipelineAssumption DEF IInv, Types, Counted
  <2> QED BY <2>1 DEF IInv, Types, TypeOK
<1> QED BY <1>1, Invariance, PTL

(* What send reports as a success was carried out by the service. *)
THEOREM SpecOkTookEffect == Spec => []OkTookEffect
<1>1. IInv => OkTookEffect
  BY DEF IInv, Founded, OkTookEffect
<1> QED BY <1>1, Invariance, PTL

(* While no answer was lost or unclear, send tells exactly what happened. *)
THEOREM SpecExactWhenCertain == Spec => []ExactWhenCertain
<1>1. IInv => ExactWhenCertain
  BY DEF IInv, Settled, ExactWhenCertain
<1> QED BY <1>1, Invariance, PTL

-----------------------------------------------------------------------------
(* The commands over it *)

(* No command makes more than two requests *)
OneOrTwo(x) ==
  (\E op : x.ops = <<op>>) \/ x.ops = <<"get_properties", "set_properties">>

LEMMA Made ==
  ASSUME NEW by, NEW asks, NEW op
  PROVE  OneOrTwo(Command(by, asks, <<op>>))
<1>1. Command(by, asks, <<op>>).ops = <<op>>
  BY DEF Command
<1> QED BY <1>1 DEF OneOrTwo

LEMMA CommandsMake ==
  ASSUME NEW x \in Commands
  PROVE  OneOrTwo(x)
<1>1. ASSUME NEW op
      PROVE  OneOrTwo(Cli(op)) /\ OneOrTwo(Free(op)) /\ OneOrTwo(Approved(op))
             /\ OneOrTwo(Desktop(op))
  BY Made DEF Cli, Free, Approved, Desktop
<1>2. OneOrTwo(SetProps)
  <2>1. SetProps.ops = <<"get_properties", "set_properties">>
    BY DEF SetProps, Command
  <2> QED BY <2>1 DEF OneOrTwo
<1>3. ASSUME x \in CliCommands PROVE OneOrTwo(x)
  BY <1>1, <1>2, <1>3 DEF CliCommands, CliReads, CliCopies, CliBlobs, CliContainers,
     CliMetadata, CliVersions, CliLeases, CliShows, CliQueues
<1>4. ASSUME x \in McpTools PROVE OneOrTwo(x)
  BY <1>1, <1>4 DEF McpTools, McpReads, McpWrites, McpElevated, McpVersions, McpQueues
<1>5. ASSUME x \in DesktopCommands PROVE OneOrTwo(x)
  BY <1>1, <1>5 DEF DesktopCommands, DesktopDeletes, DesktopElevated, DesktopMetadata,
     DesktopTags, DesktopLeases, DesktopAccess, DesktopContainers
<1>6. ASSUME x \in Embedders PROVE OneOrTwo(x)
  BY <1>6, Made DEF Embedders
<1> QED BY <1>3, <1>4, <1>5, <1>6 DEF Commands

LEMMA CommandsShort ==
  ASSUME NEW x \in Commands
  PROVE  Len(x.ops) \in {1, 2} /\ DOMAIN x.ops = 1..Len(x.ops)
<1>1. ASSUME NEW op
      PROVE  Len(<<op>>) = 1 /\ DOMAIN <<op>> = 1..1
  OBVIOUS
<1>2. /\ Len(<<"get_properties", "set_properties">>) = 2
      /\ DOMAIN <<"get_properties", "set_properties">> = 1..2
  OBVIOUS
<1> QED BY CommandsMake, <1>1, <1>2 DEF OneOrTwo

Stages == {"new", "asking", "ready", "allowed", "sending", "over"}

(* The parts a call has *)
IsCall(k) ==
  k = [command |-> k.command, at |-> k.at, stage |-> k.stage, consent |-> k.consent,
       arg |-> k.arg, outcome |-> k.outcome, earlier |-> k.earlier]

(* Requests follow one another: those before the one in hand have succeeded, *)
(* those after it have not begun, and neither has that one until it is sent. *)
Ordered(c) ==
  LET k == call[c]
  IN  /\ IsCall(k)
      /\ k.command \in Commands
      /\ k.at \in 1..Len(k.command.ops)
      /\ k.stage \in Stages
      /\ \A i \in 1..Len(k.command.ops) :
           /\ i < k.at => pc[<<c, i>>] = "returned" /\ result[<<c, i>>] = "ok"
           /\ i > k.at => pc[<<c, i>>] = "idle"
      /\ k.stage \notin {"sending", "over"} => pc[<<c, k.at>>] = "idle"
      /\ k.stage = "sending" => pc[<<c, k.at>>] # "idle"

(* What a command says is what its last request came to: it has succeeded with *)
(* all of them, or it has stopped at one that failed or was not sent.          *)
Truthful(c) ==
  LET k == call[c]
  IN  k.stage = "over" /\ Operation(c) # "generate_sas" =>
        IF k.outcome = "ok"
        THEN /\ k.at = Len(k.command.ops)
             /\ pc[<<c, k.at>>] = "returned" /\ result[<<c, k.at>>] = "ok"
        ELSE \/ pc[<<c, k.at>>] = "idle"
             \/ pc[<<c, k.at>>] = "returned" /\ result[<<c, k.at>>] # "ok"

ResultsReturned == \A r \in Requests : result[r] # "none" => pc[r] = "returned"

CallInv ==
  /\ DOMAIN call = Calls
  /\ ResultsReturned
  /\ \A c \in Calls : Ordered(c) /\ Truthful(c)

(* g is f but for c, where it is n *)
Alters(f, g, c, n) ==
  DOMAIN g = Calls /\ g[c] = n /\ \A d \in Calls \ {c} : g[d] = f[d]

(* An update of one field of a call *)
LEMMA StageSet ==
  ASSUME NEW f, NEW g, NEW c \in Calls, NEW v, DOMAIN f = Calls, IsCall(f[c]),
         g = [f EXCEPT ![c].stage = v]
  PROVE  Alters(f, g, c, [command |-> f[c].command, at |-> f[c].at, stage |-> v,
                          consent |-> f[c].consent, arg |-> f[c].arg, outcome |-> f[c].outcome, earlier |-> f[c].earlier])
BY DEF Alters, IsCall

LEMMA AtSet ==
  ASSUME NEW f, NEW g, NEW c \in Calls, NEW v, DOMAIN f = Calls, IsCall(f[c]),
         g = [f EXCEPT ![c].at = v]
  PROVE  Alters(f, g, c, [command |-> f[c].command, at |-> v, stage |-> f[c].stage,
                          consent |-> f[c].consent, arg |-> f[c].arg, outcome |-> f[c].outcome, earlier |-> f[c].earlier])
BY DEF Alters, IsCall

LEMMA ConsentSet ==
  ASSUME NEW f, NEW g, NEW c \in Calls, NEW v, DOMAIN f = Calls, IsCall(f[c]),
         g = [f EXCEPT ![c].consent = v]
  PROVE  Alters(f, g, c, [command |-> f[c].command, at |-> f[c].at, stage |-> f[c].stage,
                          consent |-> v, arg |-> f[c].arg, outcome |-> f[c].outcome, earlier |-> f[c].earlier])
BY DEF Alters, IsCall

LEMMA ArgSet ==
  ASSUME NEW f, NEW g, NEW c \in Calls, NEW v, DOMAIN f = Calls, IsCall(f[c]),
         g = [f EXCEPT ![c].arg = v]
  PROVE  Alters(f, g, c, [command |-> f[c].command, at |-> f[c].at, stage |-> f[c].stage,
                          consent |-> f[c].consent, arg |-> v, outcome |-> f[c].outcome, earlier |-> f[c].earlier])
BY DEF Alters, IsCall

LEMMA OutcomeSet ==
  ASSUME NEW f, NEW g, NEW c \in Calls, NEW v, DOMAIN f = Calls, IsCall(f[c]),
         g = [f EXCEPT ![c].outcome = v]
  PROVE  Alters(f, g, c, [command |-> f[c].command, at |-> f[c].at, stage |-> f[c].stage,
                          consent |-> f[c].consent, arg |-> f[c].arg, outcome |-> v, earlier |-> f[c].earlier])
BY DEF Alters, IsCall

LEMMA EarlierSet ==
  ASSUME NEW f, NEW g, NEW c \in Calls, NEW v, DOMAIN f = Calls, IsCall(f[c]),
         g = [f EXCEPT ![c].earlier = v]
  PROVE  Alters(f, g, c, [command |-> f[c].command, at |-> f[c].at, stage |-> f[c].stage,
                          consent |-> f[c].consent, arg |-> f[c].arg, outcome |-> f[c].outcome, earlier |-> v])
BY DEF Alters, IsCall

LEMMA AltersTwice ==
  ASSUME NEW f, NEW g, NEW h, NEW c \in Calls, NEW m, NEW n,
         Alters(f, g, c, m), Alters(g, h, c, n)
  PROVE  Alters(f, h, c, n)
BY DEF Alters

(* Call c goes on: what it is afterwards, as far as its arguments do not matter *)
Turns(c, at, stage, consent, outcome) ==
  /\ DOMAIN call' = Calls
  /\ IsCall(call'[c]) /\ call'[c].command = call[c].command
  /\ call'[c].at = at /\ call'[c].stage = stage
  /\ call'[c].consent = consent /\ call'[c].outcome = outcome
  /\ \A d \in Calls \ {c} : call'[d] = call[d]

LEMMA StageTurns ==
  ASSUME NEW c \in Calls, DOMAIN call = Calls, IsCall(call[c]), NEW stage, Stage(c, stage)
  PROVE  Turns(c, call[c].at, stage, call[c].consent, call[c].outcome)
<1>1. Alters(call, call', c, [command |-> call[c].command, at |-> call[c].at, stage |-> stage,
                              consent |-> call[c].consent, arg |-> call[c].arg,
                              outcome |-> call[c].outcome, earlier |-> call[c].earlier])
  BY StageSet DEF Stage
<1> QED BY <1>1 DEF Alters, Turns, IsCall

LEMMA EndTurns ==
  ASSUME NEW c \in Calls, DOMAIN call = Calls, IsCall(call[c]),
         NEW outcome, End(c, outcome)
  PROVE  Turns(c, call[c].at, "over", call[c].consent, outcome)
<1> DEFINE k == call[c]
           g == [call EXCEPT ![c].stage = "over"]
           m == [command |-> k.command, at |-> k.at, stage |-> "over",
                 consent |-> k.consent, arg |-> k.arg, outcome |-> k.outcome,
                 earlier |-> k.earlier]
<1>1. call' = [g EXCEPT ![c].outcome = outcome]
  BY DEF End
<1>2. Alters(call, g, c, m)
  BY StageSet
<1>3. DOMAIN g = Calls /\ g[c] = m
  BY <1>2 DEF Alters
<1> HIDE DEF g
<1>4. IsCall(g[c])
  BY <1>3 DEF IsCall
<1>5. Alters(g, call', c, [command |-> g[c].command, at |-> g[c].at, stage |-> g[c].stage,
                           consent |-> g[c].consent, arg |-> g[c].arg, outcome |-> outcome,
                           earlier |-> g[c].earlier])
  BY <1>1, <1>3, <1>4, OutcomeSet
<1>6. Alters(call, call', c, [command |-> g[c].command, at |-> g[c].at, stage |-> g[c].stage,
                              consent |-> g[c].consent, arg |-> g[c].arg, outcome |-> outcome,
                              earlier |-> g[c].earlier])
  BY <1>2, <1>5, AltersTwice
<1> QED BY <1>3, <1>6 DEF Alters, Turns, IsCall

LEMMA ConsentTurns ==
  ASSUME NEW c \in Calls, DOMAIN call = Calls, IsCall(call[c]),
         NEW stage, NEW consent,
         call' = [call EXCEPT ![c].stage = stage, ![c].consent = consent]
  PROVE  Turns(c, call[c].at, stage, consent, call[c].outcome)
<1> DEFINE k == call[c]
           g == [call EXCEPT ![c].stage = stage]
           m == [command |-> k.command, at |-> k.at, stage |-> stage,
                 consent |-> k.consent, arg |-> k.arg, outcome |-> k.outcome,
                 earlier |-> k.earlier]
<1>1. call' = [g EXCEPT ![c].consent = consent]
  OBVIOUS
<1>2. Alters(call, g, c, m)
  BY StageSet
<1>3. DOMAIN g = Calls /\ g[c] = m
  BY <1>2 DEF Alters
<1> HIDE DEF g
<1>4. IsCall(g[c])
  BY <1>3 DEF IsCall
<1>5. Alters(g, call', c, [command |-> g[c].command, at |-> g[c].at, stage |-> g[c].stage,
                           consent |-> consent, arg |-> g[c].arg, outcome |-> g[c].outcome,
                           earlier |-> g[c].earlier])
  BY <1>1, <1>3, <1>4, ConsentSet
<1>6. Alters(call, call', c, [command |-> g[c].command, at |-> g[c].at, stage |-> g[c].stage,
                              consent |-> consent, arg |-> g[c].arg, outcome |-> g[c].outcome,
                              earlier |-> g[c].earlier])
  BY <1>2, <1>5, AltersTwice
<1> QED BY <1>3, <1>6 DEF Alters, Turns, IsCall

LEMMA NextTurns ==
  ASSUME NEW c \in Calls, DOMAIN call = Calls, IsCall(call[c]),
         NEW stage, call' = [call EXCEPT ![c].stage = stage, ![c].at = @ + 1]
  PROVE  Turns(c, call[c].at + 1, stage, call[c].consent, call[c].outcome)
<1> DEFINE k == call[c]
           g == [call EXCEPT ![c].stage = stage]
           m == [command |-> k.command, at |-> k.at, stage |-> stage,
                 consent |-> k.consent, arg |-> k.arg, outcome |-> k.outcome,
                 earlier |-> k.earlier]
<1>1. call' = [g EXCEPT ![c].at = k.at + 1]
  OBVIOUS
<1>2. Alters(call, g, c, m)
  BY StageSet
<1>3. DOMAIN g = Calls /\ g[c] = m
  BY <1>2 DEF Alters
<1> HIDE DEF g
<1>4. IsCall(g[c])
  BY <1>3 DEF IsCall
<1>5. Alters(g, call', c, [command |-> g[c].command, at |-> k.at + 1, stage |-> g[c].stage,
                           consent |-> g[c].consent, arg |-> g[c].arg, outcome |-> g[c].outcome,
                           earlier |-> g[c].earlier])
  BY <1>1, <1>3, <1>4, AtSet
<1>6. Alters(call, call', c, [command |-> g[c].command, at |-> k.at + 1, stage |-> g[c].stage,
                              consent |-> g[c].consent, arg |-> g[c].arg, outcome |-> g[c].outcome,
                              earlier |-> g[c].earlier])
  BY <1>2, <1>5, AltersTwice
<1> QED BY <1>3, <1>6 DEF Alters, Turns, IsCall

LEMMA StartTurns ==
  ASSUME NEW c \in Calls, DOMAIN call = Calls, IsCall(call[c]), Start(c)
  PROVE  Turns(c, call[c].at, IF call[c].command.asks THEN "asking" ELSE "ready",
               call[c].consent, call[c].outcome)
<1> DEFINE k == call[c]
           stage == IF k.command.asks THEN "asking" ELSE "ready"
           before == {d \in Calls : Over(d)}
           g == [call EXCEPT ![c].stage = stage]
           m == [command |-> k.command, at |-> k.at, stage |-> stage, consent |-> k.consent,
                 arg |-> k.arg, outcome |-> k.outcome, earlier |-> k.earlier]
<1>1. PICK arg : call' = [call EXCEPT ![c].stage = stage, ![c].arg = arg, ![c].earlier = before]
  BY DEF Start
<1> DEFINE h == [g EXCEPT ![c].arg = arg]
<1>2. call' = [h EXCEPT ![c].earlier = before]
  BY <1>1
<1> HIDE DEF before
<1>3. Alters(call, g, c, m)
  BY StageSet
<1>4. DOMAIN g = Calls /\ g[c] = m
  BY <1>3 DEF Alters
<1>5. IsCall(g[c])
  BY <1>4 DEF IsCall
<1> HIDE DEF g
<1>6. Alters(g, h, c, [command |-> g[c].command, at |-> g[c].at, stage |-> g[c].stage,
                       consent |-> g[c].consent, arg |-> arg, outcome |-> g[c].outcome,
                       earlier |-> g[c].earlier])
  BY <1>4, <1>5, ArgSet
<1>7. DOMAIN h = Calls /\ IsCall(h[c])
  BY <1>6 DEF Alters, IsCall
<1> HIDE DEF h
<1>8. Alters(h, call', c, [command |-> h[c].command, at |-> h[c].at, stage |-> h[c].stage,
                           consent |-> h[c].consent, arg |-> h[c].arg,
                           outcome |-> h[c].outcome, earlier |-> before])
  BY <1>2, <1>7, EarlierSet
<1>9. /\ h[c].command = k.command /\ h[c].at = k.at /\ h[c].stage = stage
      /\ h[c].consent = k.consent /\ h[c].outcome = k.outcome
  BY <1>4, <1>6 DEF Alters
<1> QED BY <1>3, <1>6, <1>8, <1>9 DEF Alters, Turns, IsCall

-----------------------------------------------------------------------------
(* Every step of the commands is one of the pipeline, or none *)

(* The operation in hand is a request *)
LEMMA InHand ==
  ASSUME CallInv, NEW c \in Calls
  PROVE  /\ DOMAIN call[c].command.ops = 1..Len(call[c].command.ops)
         /\ Len(call[c].command.ops) \in {1, 2}
         /\ <<c, call[c].at>> \in Requests
         /\ \A i \in 1..Len(call[c].command.ops) : <<c, i>> \in Requests
<1>1. /\ DOMAIN call[c].command.ops = 1..Len(call[c].command.ops)
      /\ Len(call[c].command.ops) \in {1, 2}
  BY CommandsShort DEF CallInv, Ordered
<1>2. call[c].at \in 1..Len(call[c].command.ops)
  BY DEF CallInv, Ordered
<1>3. Requests = Calls \X {1, 2}
  BY OperationsAssumption
<1>4. ASSUME NEW n \in {1, 2}, NEW i \in 1..n PROVE i \in {1, 2}
  OBVIOUS
<1> QED BY <1>1, <1>2, <1>3, <1>4

LEMMA OfThePipeline == CallInv /\ [ONext]_ovars => [Next]_vars
<1> SUFFICES ASSUME CallInv, [ONext]_ovars PROVE [Next]_vars
  OBVIOUS
<1>1. CASE UNCHANGED ovars
  BY <1>1 DEF ovars
<1>2. ASSUME NEW c \in Calls,
             Start(c) \/ Approve(c) \/ Confirm(c) \/ LackKey(c) \/ Sign(c) \/ Conclude(c)
      PROVE  UNCHANGED vars
  BY <1>2 DEF Start, Approve, Confirm, LackKey, Sign, Conclude
<1>3. ASSUME NEW c \in Calls, Send(c) PROVE Next
  BY <1>3, InHand DEF Send, Next
<1>4. ASSUME NEW r \in Requests, RequestStep(r) \/ ArriveOperation(r) PROVE Next
  BY <1>4 DEF RequestStep, ServeOperation, RefuseOperation, BreakOperation, SendStep,
              ArriveOperation, CallStep, Next
<1>5. CASE Lapse
  BY <1>5 DEF Lapse
<1>6. ASSUME NEW c \in Calls,
             Start(c) \/ Approve(c) \/ Confirm(c) \/ LackKey(c) \/ Sign(c)
               \/ Send(c) \/ Conclude(c)
      PROVE  [Next]_vars
  BY <1>2, <1>3, <1>6
<1>7. ASSUME NEW r \in Requests, RequestStep(r) \/ ArriveOperation(r) PROVE [Next]_vars
  BY <1>4, <1>7
<1> QED BY <1>1, <1>5, <1>6, <1>7 DEF ONext

-----------------------------------------------------------------------------
(* A call of which neither the command nor a request moves stays as it was *)
LEMMA Elsewhere ==
  ASSUME CallInv, NEW c \in Calls, call'[c] = call[c],
         \A i \in {1, 2} : pc'[<<c, i>>] = pc[<<c, i>>] /\ result'[<<c, i>>] = result[<<c, i>>]
  PROVE  Ordered(c)' /\ Truthful(c)'
<1>1. Ordered(c) /\ Truthful(c)
  BY DEF CallInv
<1>2. call[c].at \in {1, 2} /\ \A i \in 1..Len(call[c].command.ops) : i \in {1, 2}
  <2>1. <<c, call[c].at>> \in Calls \X {1, 2}
        /\ \A i \in 1..Len(call[c].command.ops) : <<c, i>> \in Calls \X {1, 2}
    BY InHand, OperationsAssumption
  <2> QED BY <2>1
<1> QED BY <1>1, <1>2 DEF Ordered, Truthful, Operation

(* A call goes on by itself *)
LEMMA TurnsKeep ==
  ASSUME CallInv, NEW c \in Calls, NEW at, NEW stage, NEW consent, NEW outcome,
         Turns(c, at, stage, consent, outcome), UNCHANGED vars, Ordered(c)', Truthful(c)'
  PROVE  CallInv'
<1>1. ASSUME NEW d \in Calls \ {c} PROVE Ordered(d)' /\ Truthful(d)'
  BY Elsewhere DEF Turns, vars
<1>2. ResultsReturned'
  BY DEF CallInv, ResultsReturned, vars
<1> QED BY <1>1, <1>2 DEF CallInv, Turns

(* ... to a stage before the next request, or of it *)
LEMMA ReadyKeeps ==
  ASSUME CallInv, NEW c \in Calls, NEW stage \in {"asking", "ready", "allowed"}, NEW consent,
         Turns(c, call[c].at, stage, consent, call[c].outcome), UNCHANGED vars,
         call[c].stage \notin {"sending", "over"}
  PROVE  CallInv'
<1>1. Ordered(c)' /\ Truthful(c)'
  BY DEF CallInv, Ordered, Truthful, Turns, Stages, vars
<1> QED BY <1>1, TurnsKeep

(* ... to its end before the next request *)
LEMMA EndKeeps ==
  ASSUME CallInv, NEW c \in Calls, NEW outcome,
         Turns(c, call[c].at, "over", call[c].consent, outcome), UNCHANGED vars,
         call[c].stage \notin {"sending", "over"},
         outcome # "ok" \/ Operation(c) = "generate_sas"
  PROVE  CallInv'
<1>1. Ordered(c)'
  BY DEF CallInv, Ordered, Turns, Stages, vars
<1>2. pc[<<c, call[c].at>>] = "idle"
  BY DEF CallInv, Ordered
<1>3. Operation(c)' = Operation(c)
  BY DEF Operation, Turns
<1>4. Truthful(c)'
  BY <1>2, <1>3 DEF Truthful, Turns, vars
<1> QED BY <1>1, <1>4, TurnsKeep

LEMMA AskingKeeps ==
  ASSUME CallInv, NEW c \in Calls,
         Start(c) \/ Approve(c) \/ Confirm(c) \/ LackKey(c) \/ Sign(c)
  PROVE  CallInv'
<1>0. DOMAIN call = Calls /\ IsCall(call[c])
  BY DEF CallInv, Ordered
<1>1. CASE Start(c)
  <2>1. (IF call[c].command.asks THEN "asking" ELSE "ready") \in {"asking", "ready", "allowed"}
    OBVIOUS
  <2>2. call[c].stage \notin {"sending", "over"} /\ UNCHANGED vars
    BY <1>1 DEF Start
  <2> QED BY <1>0, <1>1, <2>1, <2>2, StartTurns, ReadyKeeps
<1>2. CASE Approve(c)
  <2>1. call[c].stage \notin {"sending", "over"} /\ UNCHANGED vars
    BY <1>2 DEF Approve
  <2>2. CASE call' = [call EXCEPT ![c].stage = "ready", ![c].consent = "person"]
    BY <1>0, <2>1, <2>2, ConsentTurns, ReadyKeeps
  <2>3. CASE End(c, "refused")
    BY <1>0, <2>1, <2>3, EndTurns, EndKeeps
  <2> QED BY <1>2, <2>2, <2>3 DEF Approve
<1>3. CASE Confirm(c)
  <2>1. call[c].stage \notin {"sending", "over"} /\ UNCHANGED vars
    BY <1>3 DEF Confirm
  <2>2. ASSUME NEW who, call' = [call EXCEPT ![c].stage = "allowed", ![c].consent = who]
        PROVE  CallInv'
    BY <1>0, <2>1, <2>2, ConsentTurns, ReadyKeeps
  <2>3. CASE End(c, "refused")
    BY <1>0, <2>1, <2>3, EndTurns, EndKeeps
  <2>4. CASE Stage(c, "allowed")
    BY <1>0, <2>1, <2>4, StageTurns, ReadyKeeps
  <2> QED BY <1>3, <2>2, <2>3, <2>4 DEF Confirm
<1>4. CASE LackKey(c)
  <2>1. call[c].stage \notin {"sending", "over"} /\ UNCHANGED vars /\ End(c, "Backend")
    BY <1>4 DEF LackKey
  <2> QED BY <1>0, <2>1, EndTurns, EndKeeps
<1>5. CASE Sign(c)
  <2>1. /\ call[c].stage \notin {"sending", "over"} /\ UNCHANGED vars /\ End(c, "ok")
        /\ Operation(c) = "generate_sas"
    BY <1>5 DEF Sign
  <2> QED BY <1>0, <2>1, EndTurns, EndKeeps
<1> QED BY <1>1, <1>2, <1>3, <1>4, <1>5

(* The request in hand is sent *)
LEMMA SendKeeps ==
  ASSUME IInv, CallInv, NEW c \in Calls, Send(c)
  PROVE  CallInv'
<1> DEFINE r == <<c, call[c].at>>
<1>0. DOMAIN call = Calls /\ IsCall(call[c]) /\ r \in Requests
  BY InHand DEF CallInv, Ordered
<1>1. Turns(c, call[c].at, "sending", call[c].consent, call[c].outcome)
  BY <1>0, StageTurns DEF Send
<1>2. Begin(r)
  BY DEF Send
<1>3. /\ pc'[r] = "building" /\ pc[r] = "idle" /\ result' = result
      /\ \A s \in Requests \ {r} : pc'[s] = pc[s]
  BY <1>0, <1>2 DEF Begin, Goto, IInv, Types
<1>4. Ordered(c)'
  <2>1. \A i \in 1..Len(call[c].command.ops) :
          i # call[c].at => <<c, i>> \in Requests \ {r}
    BY InHand
  <2> QED BY <1>1, <1>3, <2>1 DEF CallInv, Ordered, Turns, Stages
<1>5. Truthful(c)'
  BY <1>1 DEF Truthful, Turns
<1>6. ASSUME NEW d \in Calls \ {c} PROVE Ordered(d)' /\ Truthful(d)'
  <2>1. \A i \in {1, 2} : <<d, i>> \in Requests \ {r}
    BY OperationsAssumption
  <2> QED BY <1>1, <1>3, <2>1, Elsewhere DEF Turns
<1>7. ResultsReturned'
  BY <1>3 DEF CallInv, ResultsReturned
<1> QED BY <1>1, <1>4, <1>5, <1>6, <1>7 DEF CallInv, Turns

(* A request has returned: the command goes on to the next, or ends *)
LEMMA ConcludeKeeps ==
  ASSUME CallInv, NEW c \in Calls, Conclude(c)
  PROVE  CallInv'
<1> DEFINE r == <<c, call[c].at>>
           n == Len(call[c].command.ops)
<1>0. /\ DOMAIN call = Calls /\ IsCall(call[c]) /\ r \in Requests
      /\ Ordered(c) /\ UNCHANGED vars /\ call[c].stage = "sending"
      /\ n \in {1, 2} /\ call[c].at \in 1..n
  BY InHand DEF CallInv, Ordered, Conclude
<1>1. pc[r] = "returned"
  BY <1>0 DEF Conclude, CallInv, ResultsReturned
<1>2. CASE result[r] = "ok" /\ call[c].at < n
  <2>1. call' = [call EXCEPT ![c].stage = "ready", ![c].at = @ + 1]
    BY <1>2 DEF Conclude
  <2>2. Turns(c, call[c].at + 1, "ready", call[c].consent, call[c].outcome)
    BY <1>0, <2>1, NextTurns
  <2>3. call[c].at + 1 \in 1..n /\ \A i \in 1..n : i < call[c].at + 1 => i <= call[c].at
    BY <1>0, <1>2
  <2>4. Ordered(c)'
    BY <1>0, <1>1, <1>2, <2>2, <2>3 DEF Ordered, Turns, Stages, vars
  <2>5. Truthful(c)'
    BY <2>2 DEF Truthful, Turns
  <2> QED BY <1>0, <2>2, <2>4, <2>5, TurnsKeep
<1>3. CASE ~(result[r] = "ok" /\ call[c].at < n)
  <2>1. End(c, result[r])
    BY <1>3 DEF Conclude
  <2>2. Turns(c, call[c].at, "over", call[c].consent, result[r])
    BY <1>0, <2>1, EndTurns
  <2>3. Ordered(c)'
    BY <1>0, <2>2 DEF Ordered, Turns, Stages, vars
  <2>4. result[r] = "ok" => call[c].at = n
    BY <1>0, <1>3
  <2>5. Truthful(c)'
    BY <1>1, <1>0, <2>2, <2>4 DEF Truthful, Turns, vars
  <2> QED BY <1>0, <2>2, <2>3, <2>5, TurnsKeep
<1> QED BY <1>2, <1>3

(* A request goes on, or a copy of it arrives late *)
LEMMA RequestMoves ==
  ASSUME IInv, ResultsReturned, NEW r \in Requests, CallStep(r) \/ Arrive(r)
  PROVE  /\ \A s \in Requests \ {r} : pc'[s] = pc[s] /\ result'[s] = result[s]
         /\ pc[r] = "idle" <=> pc'[r] = "idle"
         /\ pc[r] = "returned" => pc'[r] = "returned" /\ result'[r] = result[r]
         /\ ResultsReturned'
<1>0. /\ DOMAIN pc = Requests /\ DOMAIN result = Requests
      /\ pc[r] # "returned" => result[r] = "none"
  BY DEF IInv, Types, ResultsReturned
<1>1. CASE Arrive(r)
  BY <1>1 DEF Arrive, ResultsReturned
<1>2. CASE Unsent(r) \/ Transmit(r) \/ Serve(r) \/ Refuse(r) \/ Break(r) \/ BackOff(r) \/ Retry(r)
  <2>1. /\ pc[r] \notin {"idle", "returned"} /\ result' = result
        /\ \E next \in {"answered", "sent", "waiting", "building"} :
             pc' = [pc EXCEPT ![r] = next]
    BY <1>2 DEF Unsent, Transmit, Serve, Refuse, Break, BackOff, Retry, EndAttempt, Goto
  <2> QED BY <1>0, <2>1 DEF ResultsReturned
<1>3. CASE Return(r)
  <2>1. /\ pc[r] = "answered" /\ pc' = [pc EXCEPT ![r] = "returned"]
        /\ \E e : result' = [result EXCEPT ![r] = e]
    BY <1>3 DEF Return, Goto
  <2> QED BY <1>0, <2>1 DEF ResultsReturned
<1> QED BY <1>1, <1>2, <1>3 DEF CallStep

LEMMA RequestKeeps ==
  ASSUME IInv, CallInv, NEW r \in Requests, CallStep(r) \/ Arrive(r), UNCHANGED call
  PROVE  CallInv'
<1>1. PICK c \in Calls, j \in {1, 2} : r = <<c, j>>
  BY OperationsAssumption
<1>2. /\ \A s \in Requests \ {r} : pc'[s] = pc[s] /\ result'[s] = result[s]
      /\ pc[r] = "idle" <=> pc'[r] = "idle"
      /\ pc[r] = "returned" => pc'[r] = "returned" /\ result'[r] = result[r]
      /\ ResultsReturned'
  BY RequestMoves DEF CallInv
<1>3. ASSUME NEW d \in Calls PROVE Ordered(d)' /\ Truthful(d)'
  <2>1. \A i \in 1..Len(call[d].command.ops) : <<d, i>> \in Requests
    BY InHand
  <2>2. Ordered(d) /\ Truthful(d) /\ <<d, call[d].at>> \in Requests
    BY InHand DEF CallInv
  <2>3. \A s \in Requests :
          /\ pc[s] = "idle" <=> pc'[s] = "idle"
          /\ pc[s] = "returned" => pc'[s] = "returned" /\ result'[s] = result[s]
    BY <1>2
  <2>4. Ordered(d)'
    BY <2>1, <2>2, <2>3 DEF Ordered
  <2>5. Truthful(d)'
    BY <2>2, <2>3 DEF Truthful, Operation
  <2> QED BY <2>4, <2>5
<1> QED BY <1>2, <1>3 DEF CallInv

LEMMA CommandsKeep == IInv /\ CallInv /\ [ONext]_ovars => CallInv'
<1> SUFFICES ASSUME IInv, CallInv, [ONext]_ovars PROVE CallInv'
  OBVIOUS
<1>1. CASE UNCHANGED ovars
  BY <1>1 DEF ovars, vars, CallInv, ResultsReturned, Ordered, Truthful, Operation
<1>2. ASSUME NEW c \in Calls,
             Start(c) \/ Approve(c) \/ Confirm(c) \/ LackKey(c) \/ Sign(c)
               \/ Send(c) \/ Conclude(c)
      PROVE  CallInv'
  BY <1>2, AskingKeeps, SendKeeps, ConcludeKeeps
<1>3. ASSUME NEW r \in Requests, RequestStep(r) \/ ArriveOperation(r) PROVE CallInv'
  <2>1. (CallStep(r) \/ Arrive(r)) /\ UNCHANGED call
    BY <1>3 DEF RequestStep, ServeOperation, RefuseOperation, BreakOperation, SendStep,
                ArriveOperation, CallStep
  <2> QED BY <2>1, RequestKeeps
<1>4. CASE Lapse
  BY <1>4 DEF Lapse, vars, CallInv, ResultsReturned, Ordered, Truthful, Operation
<1> QED BY <1>1, <1>2, <1>3, <1>4 DEF ONext

LEMMA CommandsBegin == OInit => CallInv
<1> SUFFICES ASSUME OInit PROVE CallInv
  OBVIOUS
<1>1. PICK start \in Starts : call = [c \in Calls |-> NewCall(start.commands[c])]
  BY DEF OInit
<1>2. ResultsReturned
  BY DEF OInit, Init, ResultsReturned
<1>3. ASSUME NEW c \in Calls PROVE Ordered(c) /\ Truthful(c)
  <2>1. start.commands[c] \in Commands
    BY OperationsAssumption
  <2>2. Len(start.commands[c].ops) \in {1, 2}
    BY <2>1, CommandsShort
  <2>3. /\ call[c].command = start.commands[c] /\ call[c].at = 1 /\ call[c].stage = "new"
        /\ IsCall(call[c])
    BY <1>1 DEF NewCall, IsCall
  <2>4. \A i \in 1..Len(start.commands[c].ops) : pc[<<c, i>>] = "idle" /\ ~(i < 1)
    <3>1. ASSUME NEW n \in {1, 2}, NEW i \in 1..n PROVE i \in {1, 2} /\ ~(i < 1)
      OBVIOUS
    <3> QED BY <2>2, <3>1, OperationsAssumption DEF OInit, Init
  <2>5. 1 \in 1..Len(start.commands[c].ops)
    <3>1. \A n \in {1, 2} : 1 \in 1..n
      OBVIOUS
    <3> QED BY <2>2, <3>1
  <2> QED BY <2>1, <2>3, <2>4, <2>5 DEF Ordered, Truthful, Stages
<1> QED BY <1>1, <1>2, <1>3 DEF CallInv

LEMMA OInvariance == OSpec => [](IInv /\ CallInv)
<1>1. OInit => IInv /\ CallInv
  BY InitEstablishes, CommandsBegin DEF OInit
<1>2. IInv /\ CallInv /\ [ONext]_ovars => (IInv /\ CallInv)'
  BY OfThePipeline, NextPreserves, CommandsKeep
<1> QED BY <1>1, <1>2, PTL DEF OSpec

-----------------------------------------------------------------------------
(* What send tells when nothing was in doubt is what happened, also under *)
(* commands that run together: the property of the run.                   *)
THEOREM OSpecExactWhenCertain == OSpec => []ExactWhenCertain
<1>1. IInv => ExactWhenCertain
  BY DEF IInv, Settled, ExactWhenCertain
<1> QED BY <1>1, OInvariance, PTL

LEMMA OutcomesExact == IInv /\ CallInv => OutcomeIsExact
<1> SUFFICES ASSUME IInv, CallInv, NEW c \in Calls,
                    Over(c), Certain(c), Operation(c) # "generate_sas",
                    NEW i \in DOMAIN call[c].command.ops
             PROVE  effects[<<c, i>>] =
                      IF call[c].outcome = "ok" \/ i < call[c].at THEN 1 ELSE 0
  BY DEF OutcomeIsExact
<1> DEFINE r == <<c, i>>
<1>1. /\ i \in 1..Len(call[c].command.ops) /\ r \in Requests
      /\ Ordered(c) /\ Truthful(c)
      /\ Len(call[c].command.ops) \in {1, 2} /\ call[c].at \in 1..Len(call[c].command.ops)
  BY InHand DEF CallInv, Ordered
<1>2. ~doubtful[r]
  BY <1>1, OperationsAssumption DEF Certain
<1>3. Settled(r) /\ Counted(r) /\ effects[r] \in Nat /\ strays[r] \in Nat
  BY <1>1 DEF IInv, Types
<1>4. /\ pc[r] = "idle" => effects[r] = 0
      /\ pc[r] = "returned" => effects[r] = IF result[r] = "ok" THEN 1 ELSE 0
  BY <1>2, <1>3 DEF Settled
<1>5. CASE i < call[c].at
  BY <1>1, <1>4, <1>5 DEF Ordered
<1>6. CASE i = call[c].at
  BY <1>1, <1>4, <1>6 DEF Truthful, Over
<1>7. CASE i > call[c].at
  BY <1>1, <1>4, <1>7 DEF Ordered, Truthful, Over
<1> QED BY <1>1, <1>5, <1>6, <1>7

(* A command of which no request was in doubt says what it has done: with  *)
(* success each of its operations was carried out once, without success    *)
(* those before the one it stopped at, and nothing else.                   *)
THEOREM OSpecOutcomeIsExact == OSpec => []OutcomeIsExact
BY OInvariance, OutcomesExact, PTL

-----------------------------------------------------------------------------
(* The account: what each operation of StorageAccount may do to it *)

(* A blob is not the lack of one *)
LEMMA BlobThere ==
  ASSUME NEW b, IsBlob(b)
  PROVE  b # NoBlob
<1>1. "type" \in DOMAIN b
  BY DEF IsBlob
<1>2. "type" \notin DOMAIN NoBlob
  BY DEF NoBlob
<1> QED BY <1>1, <1>2

(* The parts of an account that a request changes *)
LEMMA ContainerSet ==
  ASSUME NEW a, NEW v, NEW b, IsAccount(a), b = [a EXCEPT !.container = v]
  PROVE  /\ IsAccount(b) /\ b.container = v
         /\ b.blob = a.blob /\ b.queue = a.queue
         /\ b.visible = a.visible /\ b.hidden = a.hidden
BY DEF IsAccount

LEMMA BlobSet ==
  ASSUME NEW a, NEW v, NEW b, IsAccount(a), b = [a EXCEPT !.blob = v], v = NoBlob \/ IsBlob(v)
  PROVE  /\ IsAccount(b) /\ b.blob = v
         /\ b.container = a.container /\ b.queue = a.queue
         /\ b.visible = a.visible /\ b.hidden = a.hidden
BY DEF IsAccount

LEMMA TrashSet ==
  ASSUME NEW a, NEW v, NEW b, IsAccount(a), b = [a EXCEPT !.trash = v], v = NoBlob \/ IsBlob(v)
  PROVE  /\ IsAccount(b) /\ b.blob = a.blob
         /\ b.container = a.container /\ b.queue = a.queue
         /\ b.visible = a.visible /\ b.hidden = a.hidden
BY DEF IsAccount

LEMMA QueueSet ==
  ASSUME NEW a, NEW v, NEW b, IsAccount(a), b = [a EXCEPT !.queue = v]
  PROVE  /\ IsAccount(b) /\ b.queue = v
         /\ b.container = a.container /\ b.blob = a.blob
         /\ b.visible = a.visible /\ b.hidden = a.hidden
BY DEF IsAccount

LEMMA VisibleSet ==
  ASSUME NEW a, NEW v, NEW b, IsAccount(a), b = [a EXCEPT !.visible = v]
  PROVE  /\ IsAccount(b) /\ b.visible = v
         /\ b.container = a.container /\ b.blob = a.blob
         /\ b.queue = a.queue /\ b.hidden = a.hidden
BY DEF IsAccount

LEMMA HiddenSet ==
  ASSUME NEW a, NEW v, NEW b, IsAccount(a), b = [a EXCEPT !.hidden = v]
  PROVE  /\ IsAccount(b) /\ b.hidden = v
         /\ b.container = a.container /\ b.blob = a.blob
         /\ b.queue = a.queue /\ b.visible = a.visible
BY DEF IsAccount

(* The parts of a blob *)
BlobParts == {"content", "type", "cache", "metadata", "tags", "tier", "lease", "snapshots"}

BlobWith(b, part, v) == [b EXCEPT ![part] = v]

LEMMA PartSet ==
  ASSUME NEW b, NEW v, NEW part \in BlobParts, IsBlob(b)
  PROVE  /\ IsBlob(BlobWith(b, part, v)) /\ BlobWith(b, part, v)[part] = v
         /\ \A other \in BlobParts \ {part} : BlobWith(b, part, v)[other] = b[other]
<1> DEFINE n == BlobWith(b, part, v)
<1>1. DOMAIN b = BlobParts
  BY DEF IsBlob, BlobParts
<1>2. DOMAIN n = BlobParts /\ n[part] = v /\ \A other \in BlobParts \ {part} : n[other] = b[other]
  BY <1>1 DEF BlobWith
<1>3. n = [p \in BlobParts |-> n[p]]
  BY <1>1 DEF BlobWith
<1>4. IsBlob(n)
  BY <1>3 DEF IsBlob, BlobParts
<1> QED BY <1>2, <1>4

-----------------------------------------------------------------------------
(* Whatever is missing, nothing is lost of what is not touched *)
LEMMA Kept ==
  ASSUME NEW a, NEW b, IsAccount(a),
         HasContainer(a) => b.container = a.container,
         HasBlob(a) =>
           /\ IsBlob(b.blob)
           /\ \A part \in BlobParts \ {"lease", "snapshots"} : b.blob[part] = a.blob[part]
           /\ a.blob.snapshots \subseteq b.blob.snapshots,
         a.queue => b.queue,
         Messages(a) \subseteq Messages(b)
  PROVE  ~Loses(a, b)
<1>1. HasBlob(a) => HasBlob(b)
  BY BlobThere DEF HasBlob
<1> QED BY <1>1 DEF Loses, BlobParts

LEMMA Same == ASSUME NEW a, IsAccount(a) PROVE ~Loses(a, a)
BY DEF Loses

(* Carried out, it leaves an account ... *)
Sound(a, outcome) == outcome.kind = "success" => IsAccount(outcome.account)

(* ... or loses something of it *)
Harms(a, outcome) == outcome.kind = "success" /\ Loses(a, outcome.account)

-----------------------------------------------------------------------------
(* What does not touch the account *)
LEMMA Guards ==
  ASSUME NEW a, NEW o, Sound(a, o)
  PROVE  /\ Sound(a, OnContainer(a, o)) /\ Sound(a, OnBlob(a, o))
         /\ Sound(a, OnQueue(a, o)) /\ Sound(a, Unleased(a, o))
         /\ ~(HasContainer(a) /\ Harms(a, o)) => ~Harms(a, OnContainer(a, o))
         /\ ~(HasBlob(a) /\ Harms(a, o)) => ~Harms(a, OnBlob(a, o))
         /\ ~(a.queue /\ Harms(a, o)) => ~Harms(a, OnQueue(a, o))
         /\ ~Harms(a, o) => ~Harms(a, Unleased(a, o))
BY DEF Sound, Harms, OnContainer, OnBlob, OnQueue, Unleased, Refused

LEMMA RefusedSound ==
  ASSUME NEW a, NEW kind \in {"missing", "exists", "rejected"}
  PROVE  Sound(a, Refused(a, kind)) /\ ~Harms(a, Refused(a, kind))
BY DEF Sound, Harms, Refused

LEMMA DoneSound ==
  ASSUME NEW a, NEW b, NEW v
  PROVE  /\ IsAccount(b) => Sound(a, Done(b, v))
         /\ ~Loses(a, b) => ~Harms(a, Done(b, v))
BY DEF Sound, Harms, Done

LEMMA Reads ==
  ASSUME NEW a, IsAccount(a), NEW v
  PROVE  /\ Sound(a, Done(a, v)) /\ ~Harms(a, Done(a, v))
BY DoneSound, Same

Good(a, o) == Sound(a, o) /\ ~Harms(a, o)

LEMMA ReadOperations ==
  ASSUME NEW a, IsAccount(a)
  PROVE  /\ Good(a, ListContainers(a)) /\ Good(a, ListBlobs(a)) /\ Good(a, ReadBlob(a))
         /\ Good(a, GetProperties(a)) /\ Good(a, GetMetadata(a)) /\ Good(a, GetTags(a))
         /\ Good(a, ListQueues(a)) /\ Good(a, PeekMessages(a))
BY Reads, Guards DEF Good, ListContainers, ListBlobs, ReadBlob, GetProperties, GetMetadata,
   GetTags, ListQueues, PeekMessages

LEMMA NewBlobIs ==
  ASSUME NEW m
  PROVE  IsBlob(NewBlob(m))
BY DEF IsBlob, NewBlob

LEMMA ContainerOperations ==
  ASSUME NEW a, IsAccount(a), NEW access
  PROVE  /\ Good(a, CreateContainer(a, access))
         /\ Sound(a, DeleteContainer(a))
         /\ Sound(a, SetContainerPublicAccess(a, access))
<1> DEFINE b == [a EXCEPT !.container = access]
<1>1. /\ IsAccount(b) /\ b.blob = a.blob /\ b.queue = a.queue
      /\ b.visible = a.visible /\ b.hidden = a.hidden
  BY ContainerSet
<1> HIDE DEF b
<1>2. HasContainer(a) \/ ~Loses(a, b)
  BY <1>1, BlobThere DEF Loses, HasBlob, HasContainer, Messages
<1>3. Good(a, CreateContainer(a, access))
  BY <1>1, <1>2, DoneSound, RefusedSound DEF Good, CreateContainer, b
<1>4. Sound(a, SetContainerPublicAccess(a, access))
  BY <1>1, DoneSound, Guards DEF SetContainerPublicAccess, b
<1>5. IsAccount([a EXCEPT !.container = "absent", !.blob = NoBlob, !.trash = NoBlob])
  <2> DEFINE f == [a EXCEPT !.container = "absent"]
             g == [f EXCEPT !.blob = NoBlob]
  <2>1. [a EXCEPT !.container = "absent", !.blob = NoBlob, !.trash = NoBlob]
          = [g EXCEPT !.trash = NoBlob]
    OBVIOUS
  <2>2. IsAccount(f)
    BY ContainerSet
  <2> HIDE DEF f
  <2>3. IsAccount(g)
    BY <2>2, BlobSet
  <2> HIDE DEF g
  <2> QED BY <2>1, <2>3, TrashSet
<1>6. Sound(a, DeleteContainer(a))
  BY <1>5, DoneSound, Guards DEF DeleteContainer
<1> QED BY <1>3, <1>4, <1>6

LEMMA WriteOperations ==
  ASSUME NEW a, IsAccount(a), NEW m
  PROVE  /\ Good(a, WriteBlob(a, m, FALSE))
         /\ Sound(a, WriteBlob(a, m, TRUE))
         /\ Sound(a, CopyBlob(a, m))
<1> DEFINE b == [a EXCEPT !.blob = NewBlob(m)]
<1>1. /\ IsAccount(b) /\ b.container = a.container /\ b.queue = a.queue
      /\ b.visible = a.visible /\ b.hidden = a.hidden
  BY BlobSet, NewBlobIs
<1> HIDE DEF b
<1>2. HasBlob(a) \/ ~Loses(a, b)
  BY <1>1 DEF Loses, Messages
<1>3. Sound(a, Done(b, Nothing)) /\ (HasBlob(a) \/ ~Harms(a, Done(b, Nothing)))
  BY <1>1, <1>2, DoneSound
<1>4. Sound(a, Unleased(a, Done(b, Nothing)))
      /\ (HasBlob(a) \/ ~Harms(a, Unleased(a, Done(b, Nothing))))
  BY <1>3, Guards
<1>5. Good(a, WriteBlob(a, m, FALSE))
  <2> DEFINE o == IF HasBlob(a) THEN Refused(a, "exists") ELSE Unleased(a, Done(b, Nothing))
  <2>1. Sound(a, o) /\ ~Harms(a, o)
    BY <1>4, RefusedSound
  <2>2. WriteBlob(a, m, FALSE) = OnContainer(a, o)
    BY DEF WriteBlob, b
  <2> HIDE DEF o
  <2> QED BY <2>1, <2>2, Guards DEF Good
<1>6. WriteBlob(a, m, TRUE) = OnContainer(a, Unleased(a, Done(b, Nothing)))
  BY DEF WriteBlob, b
<1>7. Sound(a, WriteBlob(a, m, TRUE))
  BY <1>4, <1>6, Guards
<1> QED BY <1>5, <1>7 DEF CopyBlob

LEMMA DeleteOperations ==
  ASSUME NEW a, IsAccount(a), NEW s \in BOOLEAN
  PROVE  /\ Sound(a, DeleteBlob(a, s))
         /\ Good(a, UndeleteBlob(a))
<1>1. CASE HasBlob(a)
  <2>1. IsAccount([a EXCEPT !.blob = NoBlob, !.trash = a.blob])
    <3> DEFINE f == [a EXCEPT !.blob = NoBlob]
    <3>1. [a EXCEPT !.blob = NoBlob, !.trash = a.blob] = [f EXCEPT !.trash = a.blob]
      OBVIOUS
    <3>2. IsAccount(f)
      BY BlobSet
    <3>3. a.blob = NoBlob \/ IsBlob(a.blob)
      BY DEF IsAccount
    <3> HIDE DEF f
    <3> QED BY <3>1, <3>2, <3>3, TrashSet
  <2> DEFINE o == IF a.blob.snapshots # {} /\ ~s THEN Refused(a, "rejected")
                  ELSE Done([a EXCEPT !.blob = NoBlob, !.trash = a.blob], Nothing)
  <2>2. Sound(a, o)
    BY <2>1, DoneSound, RefusedSound
  <2>3. DeleteBlob(a, s) = OnBlob(a, Unleased(a, o))
    BY DEF DeleteBlob
  <2> HIDE DEF o
  <2>4. Sound(a, DeleteBlob(a, s))
    BY <2>2, <2>3, Guards
  <2>5. UndeleteBlob(a) = OnBlob(a, Done(a, Nothing))
    BY <1>1 DEF UndeleteBlob
  <2> QED BY <2>4, <2>5, Reads, Guards DEF Good
<1>2. CASE ~HasBlob(a)
  <2>1. DeleteBlob(a, s) = Refused(a, "missing")
    BY <1>2 DEF DeleteBlob, OnBlob
  <2>2. CASE a.trash = NoBlob
    <3>1. UndeleteBlob(a) = Refused(a, "missing")
      BY <1>2, <2>2 DEF UndeleteBlob, OnBlob
    <3> QED BY <2>1, <3>1, RefusedSound DEF Good
  <2>3. CASE a.trash # NoBlob
    <3> DEFINE b == [a EXCEPT !.blob = a.trash, !.trash = NoBlob]
    <3>1. /\ IsAccount(b) /\ b.container = a.container /\ b.queue = a.queue
          /\ b.visible = a.visible /\ b.hidden = a.hidden
      <4> DEFINE f == [a EXCEPT !.blob = a.trash]
      <4>1. b = [f EXCEPT !.trash = NoBlob]
        OBVIOUS
      <4>2. /\ IsAccount(f) /\ f.container = a.container /\ f.queue = a.queue
            /\ f.visible = a.visible /\ f.hidden = a.hidden
        <5>1. IsBlob(a.trash)
          BY <2>3 DEF IsAccount
        <5> QED BY <5>1, BlobSet
      <4> HIDE DEF f, b
      <4> QED BY <4>1, <4>2, TrashSet
    <3>2. UndeleteBlob(a) = Done(b, Nothing)
      BY <1>2, <2>3 DEF UndeleteBlob
    <3> HIDE DEF b
    <3>3. ~Loses(a, b)
      BY <1>2, <3>1 DEF Loses, Messages
    <3> QED BY <2>1, <3>1, <3>2, <3>3, DoneSound, RefusedSound DEF Good
  <2> QED BY <2>2, <2>3
<1> QED BY <1>1, <1>2

LEMMA NoBlobRefused ==
  ASSUME NEW a, NEW o, ~HasBlob(a)
  PROVE  Good(a, OnBlob(a, o))
BY RefusedSound DEF Good, OnBlob

(* One part of the blob changes *)
With(a, part, v) == [a EXCEPT !.blob = BlobWith(a.blob, part, v)]

LEMMA PartChange ==
  ASSUME NEW a, IsAccount(a), HasBlob(a), NEW part \in BlobParts, NEW v
  PROVE  /\ IsAccount(With(a, part, v)) /\ HasBlob(With(a, part, v))
         /\ part = "lease" \/ (part = "snapshots" /\ a.blob.snapshots \subseteq v)
              => ~Loses(a, With(a, part, v))
<1> DEFINE b == With(a, part, v)
           n == BlobWith(a.blob, part, v)
<1>1. IsBlob(a.blob)
  BY DEF IsAccount, HasBlob
<1>2. /\ IsBlob(n) /\ n[part] = v
      /\ \A other \in BlobParts \ {part} : n[other] = a.blob[other]
  BY <1>1, PartSet
<1> HIDE DEF n
<1>3. b = [a EXCEPT !.blob = n]
  BY DEF With, n
<1> HIDE DEF b
<1>4. /\ IsAccount(b) /\ b.blob = n
      /\ b.container = a.container /\ b.queue = a.queue
      /\ b.visible = a.visible /\ b.hidden = a.hidden
  BY <1>2, <1>3, BlobSet
<1>5. HasBlob(b)
  BY <1>2, <1>4, BlobThere DEF HasBlob
<1>6. ASSUME part = "lease" \/ (part = "snapshots" /\ a.blob.snapshots \subseteq v)
      PROVE  ~Loses(a, b)
  <2>1. \A other \in BlobParts \ {"lease", "snapshots"} : b.blob[other] = a.blob[other]
    BY <1>2, <1>4, <1>6
  <2>2. a.blob.snapshots \subseteq b.blob.snapshots
    BY <1>2, <1>4, <1>6 DEF BlobParts
  <2>3. Messages(a) \subseteq Messages(b)
    BY <1>4 DEF Messages
  <2> QED BY <1>2, <1>4, <2>1, <2>2, <2>3, Kept
<1> QED BY <1>4, <1>5, <1>6 DEF b

LEMMA PartOperations ==
  ASSUME NEW a, IsAccount(a), NEW v, NEW id
  PROVE  /\ Good(a, CreateSnapshot(a, v)) /\ Sound(a, DeleteSnapshot(a, id))
         /\ Sound(a, SetMetadata(a, v)) /\ Sound(a, SetTags(a, v))
         /\ Sound(a, SetAccessTier(a, v)) /\ Sound(a, RehydrateBlob(a, v))
         /\ Good(a, AcquireLease(a, v)) /\ Good(a, ReleaseLease(a, id)) /\ Sound(a, BreakLease(a))
<1>1. CASE ~HasBlob(a)
  BY <1>1, NoBlobRefused DEF Good, CreateSnapshot, DeleteSnapshot, SetMetadata, SetTags,
     SetAccessTier, RehydrateBlob, AcquireLease, ReleaseLease, BreakLease
<1>2. CASE HasBlob(a)
  <2>1. ASSUME NEW part \in BlobParts, NEW x, NEW y
        PROVE  /\ Sound(a, Done(With(a, part, x), y))
               /\ part = "lease" \/ (part = "snapshots" /\ a.blob.snapshots \subseteq x)
                    => Good(a, Done(With(a, part, x), y))
    BY <1>2, PartChange, DoneSound DEF Good
  <2>2. /\ CreateSnapshot(a, v) = OnBlob(a, Done(With(a, "snapshots", a.blob.snapshots \cup {v}), v))
        /\ SetMetadata(a, v) = OnBlob(a, Unleased(a, Done(With(a, "metadata", v), Nothing)))
        /\ SetTags(a, v) = OnBlob(a, Unleased(a, Done(With(a, "tags", v), Nothing)))
        /\ SetAccessTier(a, v) = OnBlob(a, Unleased(a, Done(With(a, "tier", v), Nothing)))
        /\ DeleteSnapshot(a, id) =
             OnBlob(a, IF id \in a.blob.snapshots
                       THEN Done(With(a, "snapshots", a.blob.snapshots \ {id}), Nothing)
                       ELSE Refused(a, "missing"))
        /\ AcquireLease(a, v) =
             OnBlob(a, IF a.blob.lease # Nothing THEN Refused(a, "rejected")
                       ELSE Done(With(a, "lease", v), v))
        /\ ReleaseLease(a, id) =
             OnBlob(a, IF a.blob.lease # id THEN Refused(a, "rejected")
                       ELSE Done(With(a, "lease", Nothing), Nothing))
        /\ BreakLease(a) =
             OnBlob(a, IF a.blob.lease = Nothing THEN Refused(a, "rejected")
                       ELSE Done(With(a, "lease", Nothing), Nothing))
    BY DEF CreateSnapshot, SetMetadata, SetTags, SetAccessTier, DeleteSnapshot,
           AcquireLease, ReleaseLease, BreakLease, With, BlobWith
  <2>3. {"snapshots", "metadata", "tags", "tier", "lease"} \subseteq BlobParts
    BY DEF BlobParts
  <2>4. Good(a, CreateSnapshot(a, v))
    BY <2>1, <2>2, <2>3, Guards DEF Good
  <2>5. Sound(a, SetMetadata(a, v)) /\ Sound(a, SetTags(a, v)) /\ Sound(a, SetAccessTier(a, v))
    BY <2>1, <2>2, <2>3, Guards
  <2>6. Sound(a, DeleteSnapshot(a, id))
    BY <2>1, <2>2, <2>3, Guards, RefusedSound
  <2>7. Sound(a, RehydrateBlob(a, v))
    BY <2>5, Guards, RefusedSound DEF RehydrateBlob
  <2>8. Good(a, AcquireLease(a, v)) /\ Good(a, ReleaseLease(a, id)) /\ Sound(a, BreakLease(a))
    BY <2>1, <2>2, <2>3, Guards, RefusedSound DEF Good
  <2> QED BY <2>4, <2>5, <2>6, <2>7, <2>8
<1> QED BY <1>1, <1>2

LEMMA PropertyOperations ==
  ASSUME NEW a, IsAccount(a), NEW u
  PROVE  Sound(a, SetProperties(a, u))
<1>1. CASE ~HasBlob(a)
  BY <1>1, NoBlobRefused DEF Good, SetProperties
<1>2. CASE HasBlob(a)
  <2> DEFINE f == With(a, "type", u.type)
             g == With(f, "cache", u.cache)
  <2>1. SetProperties(a, u) = OnBlob(a, Unleased(a, Done(g, Nothing)))
    BY DEF SetProperties, With, BlobWith
  <2>2. "type" \in BlobParts /\ "cache" \in BlobParts
    BY DEF BlobParts
  <2> HIDE DEF f
  <2>3. IsAccount(f) /\ HasBlob(f)
    BY <1>2, <2>2, PartChange DEF f
  <2>4. IsAccount(g)
    BY <2>2, <2>3, PartChange
  <2> HIDE DEF g
  <2> QED BY <2>1, <2>4, DoneSound, Guards
<1> QED BY <1>1, <1>2

(* Queues *)
LEMMA QueueOperations ==
  ASSUME NEW a, IsAccount(a)
  PROVE  Good(a, CreateQueue(a)) /\ Sound(a, DeleteQueue(a))
<1>1. ASSUME NEW q
      PROVE  IsAccount([a EXCEPT !.queue = q]) /\ (q => ~Loses(a, [a EXCEPT !.queue = q]))
  <2> DEFINE b == [a EXCEPT !.queue = q]
  <2>1. /\ IsAccount(b) /\ b.queue = q
        /\ b.container = a.container /\ b.blob = a.blob
        /\ b.visible = a.visible /\ b.hidden = a.hidden
    BY QueueSet
  <2> HIDE DEF b
  <2>2. q => ~Loses(a, b)
    BY <2>1 DEF Loses, Messages, HasBlob, HasContainer
  <2> QED BY <2>1, <2>2 DEF b
<1>2. Good(a, CreateQueue(a))
  BY <1>1, DoneSound DEF Good, CreateQueue
<1>3. Sound(a, DeleteQueue(a))
  <2> DEFINE f == [a EXCEPT !.queue = FALSE]
             g == [f EXCEPT !.visible = {}]
             h == [g EXCEPT !.hidden = {}]
  <2>1. DeleteQueue(a) = OnQueue(a, Done(h, Nothing))
    BY DEF DeleteQueue
  <2>2. IsAccount(f)
    BY <1>1
  <2> HIDE DEF f
  <2>3. IsAccount(g)
    BY <2>2, VisibleSet
  <2> HIDE DEF g
  <2>4. IsAccount(h)
    BY <2>3, HiddenSet
  <2> HIDE DEF h
  <2> QED BY <2>1, <2>4, DoneSound, Guards
<1> QED BY <1>2, <1>3

(* The messages change, and no message gets lost *)
LEMMA MessagesChange ==
  ASSUME NEW a, IsAccount(a), NEW visible, NEW hidden, NEW b,
         b = [a EXCEPT !.visible = visible, !.hidden = hidden]
  PROVE  /\ IsAccount(b)
         /\ Messages(a) \subseteq visible \cup {taken[1] : taken \in hidden} => ~Loses(a, b)
<1> DEFINE g == [a EXCEPT !.visible = visible]
<1>1. b = [g EXCEPT !.hidden = hidden]
  OBVIOUS
<1>2. /\ IsAccount(g) /\ g.visible = visible /\ g.queue = a.queue
      /\ g.container = a.container /\ g.blob = a.blob
  BY VisibleSet
<1> HIDE DEF g
<1>3. /\ IsAccount(b) /\ b.hidden = hidden /\ b.visible = visible /\ b.queue = a.queue
      /\ b.container = a.container /\ b.blob = a.blob
  <2> DEFINE h == [g EXCEPT !.hidden = hidden]
  <2>1. /\ IsAccount(h) /\ h.hidden = hidden /\ h.visible = g.visible /\ h.queue = g.queue
        /\ h.container = g.container /\ h.blob = g.blob
    BY <1>2, HiddenSet
  <2> HIDE DEF h
  <2>2. b = h
    BY <1>1 DEF h
  <2> QED BY <1>2, <2>1, <2>2
<1>4. Messages(b) = visible \cup {taken[1] : taken \in hidden}
  BY <1>3 DEF Messages
<1> QED BY <1>3, <1>4 DEF Loses, HasBlob, HasContainer

LEMMA MessageOperations ==
  ASSUME NEW a, IsAccount(a), NEW m, NEW t
  PROVE  /\ Good(a, PutMessage(a, m)) /\ Good(a, GetMessages(a, m))
         /\ Sound(a, DeleteMessage(a, t)) /\ Sound(a, ClearMessages(a))
<1>1. Good(a, PutMessage(a, m))
  <2> DEFINE b == [a EXCEPT !.visible = @ \cup {m}]
  <2>1. /\ IsAccount(b) /\ b.visible = a.visible \cup {m} /\ b.hidden = a.hidden
        /\ b.container = a.container /\ b.blob = a.blob /\ b.queue = a.queue
    BY VisibleSet
  <2>2. PutMessage(a, m) = OnQueue(a, Done(b, Nothing))
    BY DEF PutMessage
  <2> HIDE DEF b
  <2>3. ~Loses(a, b)
    BY <2>1 DEF Loses, Messages, HasBlob, HasContainer
  <2> QED BY <2>1, <2>2, <2>3, DoneSound, Guards DEF Good
<1>2. Good(a, GetMessages(a, m))
  <2> DEFINE taken == a.visible \X {m}
             b == [a EXCEPT !.visible = {}, !.hidden = a.hidden \cup taken]
  <2>1. GetMessages(a, m) = OnQueue(a, Done(b, taken))
    BY DEF GetMessages
  <2>2. \A x \in a.visible : <<x, m>> \in taken /\ <<x, m>>[1] = x
    OBVIOUS
  <2> HIDE DEF taken
  <2>3. Messages(a) \subseteq {} \cup {x[1] : x \in a.hidden \cup taken}
    BY <2>2 DEF Messages
  <2>4. IsAccount(b) /\ ~Loses(a, b)
    BY <2>3, MessagesChange
  <2> HIDE DEF b
  <2> QED BY <2>1, <2>4, DoneSound, Guards DEF Good
<1>3. Sound(a, DeleteMessage(a, t))
  <2> DEFINE b == [a EXCEPT !.hidden = @ \ {t}]
             o == IF t \in a.hidden THEN Done(b, Nothing) ELSE Refused(a, "missing")
  <2>1. DeleteMessage(a, t) = OnQueue(a, o)
    BY DEF DeleteMessage
  <2>2. IsAccount(b)
    BY HiddenSet
  <2> HIDE DEF b
  <2>3. Sound(a, o)
    BY <2>2, DoneSound, RefusedSound
  <2> HIDE DEF o
  <2> QED BY <2>1, <2>3, Guards
<1>4. Sound(a, ClearMessages(a))
  <2> DEFINE b == [a EXCEPT !.visible = {}, !.hidden = {}]
  <2>1. ClearMessages(a) = OnQueue(a, Done(b, Nothing))
    BY DEF ClearMessages
  <2>2. IsAccount(b)
    BY MessagesChange
  <2> HIDE DEF b
  <2> QED BY <2>1, <2>2, DoneSound, Guards
<1> QED BY <1>1, <1>2, <1>3, <1>4

(* Time *)
LEMMA TimeLosesNothing ==
  ASSUME NEW a, IsAccount(a)
  PROVE  /\ HasBlob(a) => IsAccount(LeaseEnds(a)) /\ ~Loses(a, LeaseEnds(a))
         /\ \A taken \in a.hidden :
              IsAccount(ShowsAgain(a, taken)) /\ ~Loses(a, ShowsAgain(a, taken))
<1>1. ASSUME HasBlob(a)
      PROVE  IsAccount(LeaseEnds(a)) /\ ~Loses(a, LeaseEnds(a))
  <2>1. LeaseEnds(a) = With(a, "lease", Nothing)
    BY DEF LeaseEnds, With, BlobWith
  <2>2. "lease" \in BlobParts
    BY DEF BlobParts
  <2> QED BY <1>1, <2>1, <2>2, PartChange
<1>2. ASSUME NEW taken \in a.hidden
      PROVE  IsAccount(ShowsAgain(a, taken)) /\ ~Loses(a, ShowsAgain(a, taken))
  <2> DEFINE f == [a EXCEPT !.hidden = a.hidden \ {taken}]
             g == [f EXCEPT !.visible = f.visible \cup {taken[1]}]
  <2>1. ShowsAgain(a, taken) = g
    BY DEF ShowsAgain
  <2>2. /\ IsAccount(f) /\ f.hidden = a.hidden \ {taken} /\ f.visible = a.visible
        /\ f.container = a.container /\ f.blob = a.blob /\ f.queue = a.queue
    BY HiddenSet
  <2> HIDE DEF f
  <2>3. /\ IsAccount(g) /\ g.hidden = a.hidden \ {taken} /\ g.visible = a.visible \cup {taken[1]}
        /\ g.container = a.container /\ g.blob = a.blob /\ g.queue = a.queue
    BY <2>2, VisibleSet
  <2> HIDE DEF g
  <2>4. Messages(a) \subseteq Messages(g)
    BY <2>3 DEF Messages
  <2> QED BY <2>1, <2>3, <2>4 DEF Loses, HasBlob, HasContainer
<1> QED BY <1>1, <1>2

-----------------------------------------------------------------------------
(* What each operation may do to the account *)

(* The operations that never lose anything *)
Harmless ==
  {"list_containers", "create_container", "list_blobs", "read_blob", "write_blob",
   "undelete_blob", "create_snapshot", "get_properties", "get_metadata", "get_tags",
   "acquire_lease", "release_lease", "list_queues", "create_queue", "put_message",
   "peek_messages", "get_messages"}

LEMMA HarmlessPerform ==
  ASSUME NEW a, IsAccount(a), NEW r, NEW op \in Harmless
  PROVE  Good(a, Perform(op, r, a))
<1> DEFINE m == <<r, effects[r] + 1>>
           arg == call[r[1]].arg
<1>1. /\ Perform("list_containers", r, a) = ListContainers(a)
      /\ Perform("create_container", r, a) = CreateContainer(a, "private")
      /\ Perform("list_blobs", r, a) = ListBlobs(a)
      /\ Perform("read_blob", r, a) = ReadBlob(a)
      /\ Perform("write_blob", r, a) = WriteBlob(a, r, FALSE)
      /\ Perform("undelete_blob", r, a) = UndeleteBlob(a)
      /\ Perform("create_snapshot", r, a) = CreateSnapshot(a, m)
      /\ Perform("get_properties", r, a) = GetProperties(a)
      /\ Perform("get_metadata", r, a) = GetMetadata(a)
      /\ Perform("get_tags", r, a) = GetTags(a)
  BY DEF Perform
<1>2. /\ Perform("acquire_lease", r, a) = AcquireLease(a, m)
      /\ Perform("release_lease", r, a) = ReleaseLease(a, arg)
      /\ Perform("list_queues", r, a) = ListQueues(a)
      /\ Perform("create_queue", r, a) = CreateQueue(a)
      /\ Perform("put_message", r, a) = PutMessage(a, m)
      /\ Perform("peek_messages", r, a) = PeekMessages(a)
      /\ Perform("get_messages", r, a) = GetMessages(a, m)
  BY DEF Perform
<1>3. ASSUME NEW x
      PROVE  /\ Good(a, CreateContainer(a, x)) /\ Good(a, WriteBlob(a, x, FALSE))
             /\ Good(a, UndeleteBlob(a)) /\ Good(a, CreateSnapshot(a, x))
             /\ Good(a, AcquireLease(a, x)) /\ Good(a, ReleaseLease(a, x))
             /\ Good(a, CreateQueue(a)) /\ Good(a, PutMessage(a, x)) /\ Good(a, GetMessages(a, x))
  BY ContainerOperations, WriteOperations, DeleteOperations, PartOperations,
     QueueOperations, MessageOperations
<1> HIDE DEF m, arg
<1> QED BY <1>1, <1>2, <1>3, ReadOperations DEF Harmless

LEMMA GatedPerform ==
  ASSUME NEW a, IsAccount(a), NEW r, NEW op \in Gated \cup {"copy_blob"}, op # "generate_sas"
  PROVE  Sound(a, Perform(op, r, a))
<1> DEFINE arg == call[r[1]].arg
           update == Update(r)
<1>1. /\ Perform("create_public_container", r, a) = CreateContainer(a, "public")
      /\ Perform("delete_container", r, a) = DeleteContainer(a)
      /\ Perform("set_container_public_access", r, a) = SetContainerPublicAccess(a, "public")
      /\ Perform("overwrite_blob", r, a) = WriteBlob(a, r, TRUE)
      /\ Perform("copy_blob", r, a) = CopyBlob(a, r)
      /\ Perform("delete_blob", r, a) = DeleteBlob(a, FALSE)
      /\ Perform("delete_blob_and_snapshots", r, a) = DeleteBlob(a, TRUE)
      /\ Perform("delete_snapshot", r, a) = DeleteSnapshot(a, arg)
      /\ Perform("set_properties", r, a) = SetProperties(a, update)
  BY DEF Perform
<1>2. /\ Perform("set_metadata", r, a) = SetMetadata(a, r)
      /\ Perform("set_tags", r, a) = SetTags(a, r)
      /\ Perform("set_access_tier", r, a) = SetAccessTier(a, "archive")
      /\ Perform("rehydrate_blob", r, a) = RehydrateBlob(a, "hot")
      /\ Perform("break_lease", r, a) = BreakLease(a)
      /\ Perform("delete_queue", r, a) = DeleteQueue(a)
      /\ Perform("delete_message", r, a) = DeleteMessage(a, arg)
      /\ Perform("clear_messages", r, a) = ClearMessages(a)
  BY DEF Perform
<1> HIDE DEF arg, update
<1>3. ASSUME NEW x
      PROVE  /\ Sound(a, CreateContainer(a, x)) /\ Sound(a, DeleteContainer(a))
             /\ Sound(a, SetContainerPublicAccess(a, x)) /\ Sound(a, WriteBlob(a, x, TRUE))
             /\ Sound(a, CopyBlob(a, x)) /\ Sound(a, DeleteBlob(a, TRUE))
             /\ Sound(a, DeleteBlob(a, FALSE)) /\ Sound(a, DeleteSnapshot(a, x))
             /\ Sound(a, SetProperties(a, x))
  BY ContainerOperations, WriteOperations, DeleteOperations, PartOperations,
     PropertyOperations DEF Good
<1>4. ASSUME NEW x
      PROVE  /\ Sound(a, SetMetadata(a, x)) /\ Sound(a, SetTags(a, x))
             /\ Sound(a, SetAccessTier(a, x)) /\ Sound(a, RehydrateBlob(a, x))
             /\ Sound(a, BreakLease(a)) /\ Sound(a, DeleteQueue(a))
             /\ Sound(a, DeleteMessage(a, x)) /\ Sound(a, ClearMessages(a))
  BY PartOperations, QueueOperations, MessageOperations
<1> QED BY <1>1, <1>2, <1>3, <1>4 DEF Gated

-----------------------------------------------------------------------------
(* Who is asked before a command that may lose something *)

AsksFirst(x, op) ==
  \/ op \in Harmless
  \/ x.by \in {"desktop", "embedder"}
  \/ x = Cli("copy_blob")
  \/ x.asks
  \/ x.by = "cli" /\ op \in Gated

LEMMA CommandsAsk ==
  ASSUME NEW x \in Commands
  PROVE  /\ x.by = "cli" => ~x.asks
         /\ \A i \in 1..Len(x.ops) :
              /\ x.ops[i] \in Harmless \cup Gated \cup {"copy_blob"}
              /\ AsksFirst(x, x.ops[i])
<1> DEFINE Known(op) == op \in Harmless \cup Gated \cup {"copy_blob"}
           Ok(y) == /\ y.by = "cli" => ~y.asks
                    /\ \A i \in 1..Len(y.ops) : Known(y.ops[i]) /\ AsksFirst(y, y.ops[i])
<1>1. ASSUME NEW by, NEW asks, NEW op
      PROVE  /\ Command(by, asks, <<op>>).by = by /\ Command(by, asks, <<op>>).asks = asks
             /\ Command(by, asks, <<op>>).ops = <<op>>
             /\ \A i \in 1..Len(<<op>>) : <<op>>[i] = op
  BY DEF Command
<1>2. ASSUME NEW op, Known(op)
      PROVE  /\ Ok(Cli(op))
             /\ op \in Harmless => Ok(Free(op))
             /\ Ok(Approved(op)) /\ Ok(Desktop(op))
             /\ Ok(Command("embedder", FALSE, <<op>>))
  <2>1. ASSUME NEW by, NEW asks, by = "cli" => ~asks,
               AsksFirst(Command(by, asks, <<op>>), op)
        PROVE  Ok(Command(by, asks, <<op>>))
    <3> DEFINE y == Command(by, asks, <<op>>)
    <3>1. y.by = by /\ y.asks = asks /\ y.ops = <<op>>
      BY <1>1
    <3> HIDE DEF y
    <3>2. \A i \in 1..Len(y.ops) : y.ops[i] = op
      BY <1>1, <3>1
    <3>3. AsksFirst(y, op)
      BY <2>1 DEF y
    <3> HIDE DEF Known
    <3>4. Ok(y)
      BY <1>2, <2>1, <3>1, <3>2, <3>3
    <3> QED BY <3>4 DEF y
  <2>2. Ok(Cli(op))
    <3> DEFINE y == Command("cli", FALSE, <<op>>)
    <3>0. y.by = "cli" /\ y = Cli(op)
      BY DEF Command, Cli
    <3> HIDE DEF y
    <3>2. AsksFirst(y, op)
      BY <1>2, <3>0 DEF AsksFirst
    <3>1. AsksFirst(Command("cli", FALSE, <<op>>), op)
      BY <3>2 DEF y
    <3> HIDE DEF Ok
    <3> QED BY <2>1, <3>1 DEF Cli
  <2>3. op \in Harmless => Ok(Free(op))
    <3> HIDE DEF Ok
    <3> QED BY <2>1 DEF AsksFirst, Free
  <2>4. Ok(Approved(op))
    <3>0. Command("mcp", TRUE, <<op>>).asks = TRUE
      BY DEF Command
    <3>1. AsksFirst(Command("mcp", TRUE, <<op>>), op)
      BY <3>0, Zenon DEF AsksFirst
    <3> HIDE DEF Ok
    <3> QED BY <2>1, <3>1 DEF Approved
  <2>5. Ok(Desktop(op)) /\ Ok(Command("embedder", FALSE, <<op>>))
    <3>1. /\ AsksFirst(Command("desktop", FALSE, <<op>>), op)
          /\ AsksFirst(Command("embedder", FALSE, <<op>>), op)
      <4>1. /\ Command("desktop", FALSE, <<op>>).by = "desktop"
            /\ Command("embedder", FALSE, <<op>>).by = "embedder"
        BY DEF Command
      <4> QED BY <4>1, Zenon DEF AsksFirst
    <3> HIDE DEF Ok
    <3> QED BY <2>1, <3>1 DEF Desktop
  <2> QED BY <2>2, <2>3, <2>4, <2>5
<1>3. Ok(SetProps)
  <2>1. /\ SetProps.by = "cli" /\ SetProps.asks = FALSE
        /\ SetProps.ops = <<"get_properties", "set_properties">>
    BY DEF SetProps, Command
  <2>2. \A i \in 1..2 : <<"get_properties", "set_properties">>[i] \in {"get_properties", "set_properties"}
    OBVIOUS
  <2>3. Len(<<"get_properties", "set_properties">>) = 2
    OBVIOUS
  <2> QED BY <2>1, <2>2, <2>3 DEF AsksFirst, Harmless, Gated
<1> HIDE DEF Ok
<1>4. ASSUME x \in CliCommands PROVE Ok(x)
  BY <1>2, <1>3, <1>4 DEF CliCommands, CliReads, CliCopies, CliBlobs, CliContainers,
     CliMetadata, CliVersions, CliLeases, CliShows, CliQueues, Harmless, Gated
<1>5. ASSUME x \in McpTools PROVE Ok(x)
  BY <1>2, <1>5 DEF McpTools, McpReads, McpWrites, McpElevated, McpVersions, McpQueues,
     Harmless, Gated
<1>6. ASSUME x \in DesktopCommands PROVE Ok(x)
  BY <1>2, <1>6 DEF DesktopCommands, DesktopDeletes, DesktopElevated, DesktopMetadata,
     DesktopTags, DesktopLeases, DesktopAccess, DesktopContainers, Harmless, Gated
<1>7. ASSUME x \in Embedders PROVE Ok(x)
  BY <1>2, <1>7 DEF Embedders, Gated
<1> QED BY <1>4, <1>5, <1>6, <1>7 DEF Commands, Ok

-----------------------------------------------------------------------------
(* Consent *)

Agreed == {"person", "settings"}

Permitted(k) ==
  k.consent \in Agreed \/ k.command.by \in {"desktop", "embedder"} \/ k.command = Cli("copy_blob")

(* Before a request that may lose something is sent, somebody has agreed *)
Consented(c) ==
  LET k == call[c]
  IN  /\ k.command.asks /\ k.stage \in {"ready", "allowed", "sending"} => k.consent \in Agreed
      /\ k.command.by = "cli" /\ k.stage = "allowed" => k.consent \in Agreed
      /\ \A i \in {1, 2} :
           pc[<<c, i>>] # "idle" =>
             i \in 1..Len(k.command.ops) /\ k.command.ops[i] # "generate_sas"
             /\ (k.command.ops[i] \in Harmless \/ Permitted(k))

ConsentInv == IsAccount(account) /\ \A c \in Calls : Consented(c)

LEMMA ConsentBegins == OInit => ConsentInv
<1> SUFFICES ASSUME OInit PROVE ConsentInv
  OBVIOUS
<1>1. PICK start \in Starts :
        call = [c \in Calls |-> NewCall(start.commands[c])] /\ account = start.account
  BY DEF OInit
<1>2. ASSUME NEW c \in Calls PROVE Consented(c)
  <2>1. call[c].command = start.commands[c] /\ call[c].stage = "new"
    BY <1>1 DEF NewCall
  <2>2. start.commands[c] \in Commands
    BY OperationsAssumption
  <2>3. \A i \in {1, 2} : pc[<<c, i>>] = "idle"
    BY OperationsAssumption DEF OInit, Init
  <2> QED BY <2>1, <2>3 DEF Consented
<1> QED BY <1>1, <1>2, OperationsAssumption DEF ConsentInv, IsFound

(* A call goes on by itself *)
LEMMA TurnsConsent ==
  ASSUME ConsentInv, NEW c \in Calls, NEW at, NEW stage, NEW consent, NEW outcome,
         Turns(c, at, stage, consent, outcome), UNCHANGED <<pc, account>>,
         call[c].command.asks /\ stage \in {"ready", "allowed", "sending"} => consent \in Agreed,
         call[c].command.by = "cli" /\ stage = "allowed" => consent \in Agreed,
         consent = call[c].consent \/ consent \in Agreed
  PROVE  ConsentInv'
<1>1. Consented(c)'
  BY DEF ConsentInv, Consented, Turns, Permitted
<1>2. ASSUME NEW d \in Calls \ {c} PROVE Consented(d)'
  BY DEF ConsentInv, Consented, Turns, Permitted
<1> QED BY <1>1, <1>2 DEF ConsentInv

LEMMA AskingConsent ==
  ASSUME CallInv, ConsentInv, NEW c \in Calls,
         Start(c) \/ Approve(c) \/ Confirm(c) \/ LackKey(c) \/ Sign(c) \/ Conclude(c)
  PROVE  ConsentInv'
<1>0. /\ DOMAIN call = Calls /\ IsCall(call[c]) /\ Consented(c)
      /\ call[c].command \in Commands
  BY DEF CallInv, Ordered, ConsentInv
<1>1. UNCHANGED <<pc, account>>
  BY DEF Start, Approve, Confirm, LackKey, Sign, Conclude, vars
<1>2. ASSUME NEW outcome, End(c, outcome) PROVE ConsentInv'
  BY <1>0, <1>1, <1>2, EndTurns, TurnsConsent
<1>3. CASE Start(c)
  <2> DEFINE stage == IF call[c].command.asks THEN "asking" ELSE "ready"
  <2>1. Turns(c, call[c].at, stage, call[c].consent, call[c].outcome)
    BY <1>0, <1>3, StartTurns
  <2>2. stage \in {"asking", "ready"} /\ (stage = "ready" => ~call[c].command.asks)
    OBVIOUS
  <2> HIDE DEF stage
  <2> QED BY <1>1, <2>1, <2>2, TurnsConsent
<1>4. CASE Approve(c)
  <2>1. CASE call' = [call EXCEPT ![c].stage = "ready", ![c].consent = "person"]
    BY <1>0, <1>1, <2>1, ConsentTurns, TurnsConsent DEF Agreed
  <2> QED BY <1>2, <1>4, <2>1 DEF Approve
<1>5. CASE Confirm(c)
  <2>1. ASSUME NEW who \in {"settings", "person", "nobody"}, CliPolicy(who),
               call' = [call EXCEPT ![c].stage = "allowed", ![c].consent = who]
        PROVE  ConsentInv'
    <3>1. who \in Agreed
      BY <2>1 DEF CliPolicy, Agreed
    <3> QED BY <1>0, <1>1, <2>1, <3>1, ConsentTurns, TurnsConsent
  <2>2. CASE Stage(c, "allowed") /\ call[c].command.by # "cli"
    <3>1. call[c].command.asks => call[c].consent \in Agreed
      BY <1>0, <1>5 DEF Confirm, Consented
    <3> QED BY <1>0, <1>1, <2>2, <3>1, StageTurns, TurnsConsent
  <2> QED BY <1>2, <1>5, <2>1, <2>2 DEF Confirm
<1>6. CASE LackKey(c) \/ Sign(c)
  BY <1>2, <1>6 DEF LackKey, Sign
<1>7. CASE Conclude(c)
  <2>1. CASE call' = [call EXCEPT ![c].stage = "ready", ![c].at = @ + 1]
    <3>1. call[c].command.asks => call[c].consent \in Agreed
      BY <1>0, <1>7 DEF Conclude, Consented
    <3> QED BY <1>0, <1>1, <2>1, <3>1, NextTurns, TurnsConsent
  <2> QED BY <1>2, <1>7, <2>1 DEF Conclude
<1> QED BY <1>3, <1>4, <1>5, <1>6, <1>7

LEMMA SendConsent ==
  ASSUME IInv, CallInv, ConsentInv, NEW c \in Calls, Send(c)
  PROVE  ConsentInv'
<1> DEFINE k == call[c]
           r == <<c, k.at>>
<1>0. /\ DOMAIN call = Calls /\ IsCall(k) /\ Consented(c) /\ k.command \in Commands
      /\ r \in Requests /\ k.at \in 1..Len(k.command.ops) /\ UNCHANGED account
  BY InHand DEF CallInv, Ordered, ConsentInv, Send
<1>1. Turns(c, k.at, "sending", k.consent, k.outcome)
  BY <1>0, StageTurns DEF Send
<1>2. \A s \in Requests \ {r} : pc'[s] = pc[s]
  BY <1>0 DEF Send, Begin, Goto, IInv, Types
<1>3. /\ Operation(c) # "generate_sas"
      /\ k.stage = "allowed" \/ (k.stage = "ready" /\ Operation(c) \notin Gated)
  BY DEF Send, MayGoOn
<1>4. AsksFirst(k.command, Operation(c))
  BY <1>0, CommandsAsk DEF Operation
<1>5. Operation(c) \in Harmless \/ Permitted(k)
  BY <1>0, <1>3, <1>4 DEF AsksFirst, Consented, Permitted
<1>6. Consented(c)'
  <2>1. \A i \in {1, 2} : i # k.at => <<c, i>> \in Requests \ {r}
    BY OperationsAssumption
  <2>2. k.command.asks => k.consent \in Agreed
    BY <1>0, <1>3 DEF Consented
  <2> QED BY <1>0, <1>1, <1>2, <1>3, <1>5, <2>1, <2>2 DEF Consented, Turns, Permitted, Operation
<1>7. ASSUME NEW d \in Calls \ {c} PROVE Consented(d)'
  <2>1. \A i \in {1, 2} : <<d, i>> \in Requests \ {r}
    BY OperationsAssumption
  <2>2. Consented(d) /\ call'[d] = call[d]
    BY <1>1 DEF ConsentInv, Turns
  <2> QED BY <1>2, <2>1, <2>2 DEF Consented, Permitted
<1> QED BY <1>0, <1>6, <1>7 DEF ConsentInv

(* A request that is carried out loses only what its call may *)
LEMMA CarriedOut ==
  ASSUME CallInv, ConsentInv, NEW r \in Requests, pc[r] # "idle",
         Outcomes(r).kind = "success", account' = Outcomes(r).account
  PROVE  IsAccount(account') /\ (Loses(account, account') => Permitted(call[r[1]]))
<1>1. PICK c \in Calls, i \in {1, 2} : r = <<c, i>>
  BY OperationsAssumption
<1> DEFINE op == call[c].command.ops[i]
<1>2. /\ i \in 1..Len(call[c].command.ops) /\ call[c].command \in Commands
      /\ Consented(c) /\ IsAccount(account)
  BY <1>1 DEF CallInv, Ordered, ConsentInv, Consented
<1>3. /\ op # "generate_sas" /\ (op \in Harmless \/ Permitted(call[c]))
      /\ op \in Harmless \cup Gated \cup {"copy_blob"}
  BY <1>1, <1>2, CommandsAsk DEF Consented
<1>4. Outcomes(r) = Perform(op, r, account)
  BY <1>1 DEF Outcomes
<1> HIDE DEF op
<1>5. CASE op \in Harmless
  <2>1. Good(account, Outcomes(r))
    BY <1>2, <1>4, <1>5, HarmlessPerform
  <2> QED BY <2>1 DEF Good, Sound, Harms
<1>6. CASE op \notin Harmless
  <2>1. Sound(account, Outcomes(r))
    BY <1>2, <1>3, <1>4, <1>6, GatedPerform
  <2> QED BY <1>1, <1>3, <1>6, <2>1 DEF Sound
<1> QED BY <1>5, <1>6

(* A request goes on, or a copy of it arrives late *)
LEMMA RequestConsent ==
  ASSUME IInv, CallInv, ConsentInv, NEW r \in Requests, RequestStep(r) \/ ArriveOperation(r)
  PROVE  /\ ConsentInv'
         /\ Loses(account, account') =>
              effects'[r] > effects[r] /\ Permitted(call[r[1]])
<1>0. /\ pc[r] \in {"idle", "building", "sent", "answered", "waiting", "returned"}
      /\ effects \in [Requests -> Nat] /\ strays[r] \in Nat /\ attempt[r] \in Nat
      /\ Counted(r) /\ IsAccount(account)
  BY DEF IInv, Types, ConsentInv
<1>1. (CallStep(r) \/ Arrive(r)) /\ UNCHANGED call
  BY DEF RequestStep, ServeOperation, RefuseOperation, BreakOperation, SendStep,
         ArriveOperation, CallStep
<1>2. pc[r] # "idle"
  <2>1. CASE CallStep(r)
    BY <2>1 DEF CallStep, Unsent, Transmit, Serve, Refuse, Break, Return, BackOff, Retry
  <2>2. CASE Arrive(r)
    BY <1>0, <2>2 DEF Arrive, Counted
  <2> QED BY <1>1, <2>1, <2>2
<1>3. \/ UNCHANGED account
      \/ /\ Outcomes(r).kind = "success" /\ account' = Outcomes(r).account
         /\ effects' = [effects EXCEPT ![r] = @ + 1]
  BY DEF RequestStep, ServeOperation, RefuseOperation, BreakOperation, SendStep,
         ArriveOperation, Serve, Break, Arrive
<1>4. IsAccount(account') /\ (Loses(account, account') =>
                                effects'[r] > effects[r] /\ Permitted(call[r[1]]))
  BY <1>0, <1>2, <1>3, CarriedOut, Same
<1>5. \A s \in Requests : pc'[s] # "idle" => pc[s] # "idle"
  BY <1>1, RequestMoves DEF CallInv
<1>6. ASSUME NEW c \in Calls PROVE Consented(c)'
  <2>1. \A i \in {1, 2} : <<c, i>> \in Requests
    BY OperationsAssumption
  <2> QED BY <1>1, <1>5, <2>1 DEF ConsentInv, Consented, Permitted
<1> QED BY <1>4, <1>6 DEF ConsentInv

LEMMA ConsentKeeps ==
  ASSUME IInv, CallInv, ConsentInv, [ONext]_ovars
  PROVE  /\ ConsentInv'
         /\ Loses(account, account') =>
              \E r \in Requests : effects'[r] > effects[r] /\ Permitted(call[r[1]])
<1>0. IsAccount(account)
  BY DEF ConsentInv
<1>1. CASE UNCHANGED ovars
  <2>1. ConsentInv'
    BY <1>1 DEF ovars, vars, ConsentInv, Consented, Permitted
  <2> QED BY <1>0, <1>1, <2>1, Same DEF ovars
<1>2. ASSUME NEW c \in Calls,
             Start(c) \/ Approve(c) \/ Confirm(c) \/ LackKey(c) \/ Sign(c) \/ Conclude(c)
      PROVE  ConsentInv' /\ ~Loses(account, account')
  <2>1. UNCHANGED account
    BY <1>2 DEF Start, Approve, Confirm, LackKey, Sign, Conclude
  <2> QED BY <1>0, <1>2, <2>1, AskingConsent, Same
<1>3. ASSUME NEW c \in Calls, Send(c)
      PROVE  ConsentInv' /\ ~Loses(account, account')
  <2>1. UNCHANGED account
    BY <1>3 DEF Send
  <2> QED BY <1>0, <1>3, <2>1, SendConsent, Same
<1>4. ASSUME NEW r \in Requests, RequestStep(r) \/ ArriveOperation(r)
      PROVE  /\ ConsentInv'
             /\ Loses(account, account') => effects'[r] > effects[r] /\ Permitted(call[r[1]])
  BY <1>4, RequestConsent
<1>5. CASE Lapse
  <2>1. UNCHANGED <<pc, call>>
    BY <1>5 DEF Lapse, vars
  <2>2. IsAccount(account') /\ ~Loses(account, account')
    BY <1>0, <1>5, TimeLosesNothing DEF Lapse
  <2> QED BY <2>1, <2>2 DEF ConsentInv, Consented, Permitted
<1> QED BY <1>1, <1>2, <1>3, <1>4, <1>5 DEF ONext

(* Nothing the account holds is lost but to a request that somebody agreed to *)
(* before it was sent, for any commands that run together: each operation     *)
(* that may lose something calls Policy::confirm, or its surface has asked.   *)
THEOREM OSpecNothingLostUnasked == OSpec => NothingLostUnasked
<1> DEFINE Unasked ==
      Loses(account, account') =>
        \E r \in Requests :
          /\ effects'[r] > effects[r]
          /\ \/ call[r[1]].consent \in {"person", "settings"}
             \/ call[r[1]].command.by \in {"desktop", "embedder"}
             \/ call[r[1]].command = Cli("copy_blob")
<1>1. IInv /\ CallInv /\ ConsentInv /\ [ONext]_ovars => ConsentInv' /\ [Unasked]_ovars
  BY ConsentKeeps DEF Permitted, Agreed
<1> HIDE DEF Unasked
<1>2. OSpec => [][Unasked]_ovars
  BY OInvariance, ConsentBegins, <1>1, PTL DEF OSpec
<1> QED BY <1>2 DEF NothingLostUnasked, Unasked

-----------------------------------------------------------------------------
(* Marks: the names the service gives to snapshots, leases, messages and pop *)
(* receipts                                                                  *)

SnapshotsOf(b) == IF b = NoBlob THEN {} ELSE b.snapshots

LeaseOf(b) == IF b = NoBlob THEN Nothing ELSE b.lease

Snapshots(a) == SnapshotsOf(a.blob) \cup SnapshotsOf(a.trash)

Leases(a) == {LeaseOf(a.blob), LeaseOf(a.trash)}

Receipts(a) == {taken[2] : taken \in a.hidden}

(* b bears no mark that a does not bear, but for some snapshots, leases, *)
(* messages and receipts                                                 *)
Marks(a, b, snapshots, leases, messages, receipts) ==
  /\ Snapshots(b) \subseteq Snapshots(a) \cup snapshots
  /\ Leases(b) \subseteq Leases(a) \cup leases \cup {Nothing}
  /\ Messages(b) \subseteq Messages(a) \cup messages
  /\ Receipts(b) \subseteq Receipts(a) \cup receipts

MarksNothing(a, o) == o.kind = "success" => Marks(a, o.account, {}, {}, {}, {})

(* The parts of an account *)
AccountParts == {"container", "blob", "trash", "queue", "visible", "hidden"}

LEMMA AccountSet ==
  ASSUME NEW a, NEW v, NEW part \in AccountParts, IsAccount(a)
  PROVE  LET b == [a EXCEPT ![part] = v]
         IN  /\ DOMAIN b = AccountParts /\ b[part] = v
             /\ \A other \in AccountParts \ {part} : b[other] = a[other]
<1>1. DOMAIN a = AccountParts
  BY DEF IsAccount, AccountParts
<1> QED BY <1>1

(* Some parts of an account change, the others not *)
LEMMA MarksOf ==
  ASSUME NEW a, NEW b, NEW S, NEW L,
         SnapshotsOf(b.blob) \subseteq Snapshots(a) \cup S,
         SnapshotsOf(b.trash) \subseteq Snapshots(a) \cup S,
         LeaseOf(b.blob) \in Leases(a) \cup L \cup {Nothing},
         LeaseOf(b.trash) \in Leases(a) \cup L \cup {Nothing},
         b.visible = a.visible, b.hidden = a.hidden
  PROVE  Marks(a, b, S, L, {}, {})
BY DEF Marks, Snapshots, Leases, Messages, Receipts

LEMMA RefusedMarks ==
  ASSUME NEW a, NEW kind \in {"missing", "exists", "rejected"}
  PROVE  MarksNothing(a, Refused(a, kind))
BY DEF MarksNothing, Refused

LEMMA GuardsMark ==
  ASSUME NEW a, NEW o, MarksNothing(a, o)
  PROVE  /\ MarksNothing(a, OnContainer(a, o)) /\ MarksNothing(a, OnQueue(a, o))
         /\ MarksNothing(a, Unleased(a, o)) /\ MarksNothing(a, OnBlob(a, o))
BY RefusedMarks DEF OnContainer, OnBlob, OnQueue, Unleased

(* What is done to a blob that is there *)
LEMMA OnBlobMarks ==
  ASSUME NEW a, NEW o, HasBlob(a) => MarksNothing(a, o)
  PROVE  MarksNothing(a, OnBlob(a, o))
BY RefusedMarks DEF OnBlob

LEMMA DoneMarks ==
  ASSUME NEW a, NEW b, NEW v, Marks(a, b, {}, {}, {}, {})
  PROVE  MarksNothing(a, Done(a, v)) /\ MarksNothing(a, Done(b, v))
BY DEF MarksNothing, Done, Marks

LEMMA SameMarks == ASSUME NEW a PROVE Marks(a, a, {}, {}, {}, {})
BY DEF Marks

LEMMA NoBlobMarks == SnapshotsOf(NoBlob) = {} /\ LeaseOf(NoBlob) = Nothing
BY DEF SnapshotsOf, LeaseOf

LEMMA ReadMarks ==
  ASSUME NEW a
  PROVE  /\ MarksNothing(a, ListContainers(a)) /\ MarksNothing(a, ListBlobs(a))
         /\ MarksNothing(a, ReadBlob(a)) /\ MarksNothing(a, GetProperties(a))
         /\ MarksNothing(a, GetMetadata(a)) /\ MarksNothing(a, GetTags(a))
         /\ MarksNothing(a, ListQueues(a)) /\ MarksNothing(a, PeekMessages(a))
BY SameMarks, DoneMarks, GuardsMark DEF ListContainers, ListBlobs, ReadBlob, GetProperties,
   GetMetadata, GetTags, ListQueues, PeekMessages

LEMMA ContainerMarks ==
  ASSUME NEW a, IsAccount(a), NEW access
  PROVE  /\ MarksNothing(a, CreateContainer(a, access))
         /\ MarksNothing(a, SetContainerPublicAccess(a, access))
         /\ MarksNothing(a, DeleteContainer(a))
<1> DEFINE b == [a EXCEPT !.container = access]
<1>1. b.blob = a.blob /\ b.trash = a.trash /\ b.visible = a.visible /\ b.hidden = a.hidden
  BY AccountSet DEF AccountParts
<1>2. Marks(a, b, {}, {}, {}, {})
  BY <1>1 DEF Marks, Snapshots, Leases, Messages, Receipts
<1> HIDE DEF b
<1>3. /\ MarksNothing(a, CreateContainer(a, access))
      /\ MarksNothing(a, SetContainerPublicAccess(a, access))
  BY <1>2, DoneMarks, RefusedMarks, GuardsMark DEF CreateContainer, SetContainerPublicAccess, b
<1> DEFINE c == [a EXCEPT !.container = "absent", !.blob = NoBlob, !.trash = NoBlob]
<1>4. /\ c.blob = NoBlob /\ c.trash = NoBlob
      /\ c.visible = a.visible /\ c.hidden = a.hidden
  BY DEF IsAccount
<1> HIDE DEF c
<1>5. Marks(a, c, {}, {}, {}, {})
  BY <1>4, NoBlobMarks, MarksOf
<1>6. MarksNothing(a, DeleteContainer(a))
  BY <1>5, DoneMarks, GuardsMark DEF DeleteContainer, c
<1> QED BY <1>3, <1>6

(* A blob is written, deleted, restored *)
LEMMA BlobMarks ==
  ASSUME NEW a, IsAccount(a), NEW m, NEW how
  PROVE  /\ MarksNothing(a, WriteBlob(a, m, how)) /\ MarksNothing(a, CopyBlob(a, m))
         /\ MarksNothing(a, DeleteBlob(a, how)) /\ MarksNothing(a, UndeleteBlob(a))
<1> DEFINE b == [a EXCEPT !.blob = NewBlob(m)]
<1>1. /\ b.blob = NewBlob(m) /\ b.trash = a.trash
      /\ b.visible = a.visible /\ b.hidden = a.hidden
  BY AccountSet DEF AccountParts
<1>2. SnapshotsOf(NewBlob(m)) = {} /\ LeaseOf(NewBlob(m)) = Nothing
  BY NewBlobIs, BlobThere DEF SnapshotsOf, LeaseOf, NewBlob
<1> HIDE DEF b
<1>3. Marks(a, b, {}, {}, {}, {})
  BY <1>1, <1>2, MarksOf DEF Snapshots, Leases
<1>4. ASSUME NEW overwrite PROVE MarksNothing(a, WriteBlob(a, m, overwrite))
  BY <1>3, DoneMarks, RefusedMarks, GuardsMark DEF WriteBlob, b
<1> DEFINE d == [a EXCEPT !.blob = NoBlob, !.trash = a.blob]
<1>5. d.blob = NoBlob /\ d.trash = a.blob /\ d.visible = a.visible /\ d.hidden = a.hidden
  BY DEF IsAccount
<1> HIDE DEF d
<1>6. Marks(a, d, {}, {}, {}, {})
  BY <1>5, NoBlobMarks, MarksOf DEF Snapshots, Leases
<1>7. MarksNothing(a, DeleteBlob(a, how))
  BY <1>6, DoneMarks, RefusedMarks, GuardsMark DEF DeleteBlob, d
<1> DEFINE u == [a EXCEPT !.blob = a.trash, !.trash = NoBlob]
<1>8. u.blob = a.trash /\ u.trash = NoBlob /\ u.visible = a.visible /\ u.hidden = a.hidden
  BY DEF IsAccount
<1> HIDE DEF u
<1>9. Marks(a, u, {}, {}, {}, {})
  BY <1>8, NoBlobMarks, MarksOf DEF Snapshots, Leases
<1>10. MarksNothing(a, UndeleteBlob(a))
  BY <1>9, SameMarks, DoneMarks, GuardsMark DEF UndeleteBlob, u
<1> QED BY <1>4, <1>7, <1>10 DEF CopyBlob

(* A part of the blob is set *)
LEMMA PartMarks ==
  ASSUME NEW a, IsAccount(a), HasBlob(a), NEW v, NEW part \in BlobParts
  PROVE  LET b == With(a, part, v)
         IN  /\ IsAccount(b) /\ HasBlob(b)
             /\ Marks(a, b, IF part = "snapshots" THEN v ELSE {},
                            IF part = "lease" THEN {v} ELSE {}, {}, {})
<1> DEFINE n == BlobWith(a.blob, part, v)
           b == [a EXCEPT !.blob = n]
<1>1. IsBlob(a.blob)
  BY DEF IsAccount, HasBlob
<1>2. /\ IsBlob(n) /\ n[part] = v
      /\ \A other \in BlobParts \ {part} : n[other] = a.blob[other]
  BY <1>1, PartSet
<1> HIDE DEF n
<1>3. /\ b.blob = n /\ b.trash = a.trash
      /\ b.visible = a.visible /\ b.hidden = a.hidden
  BY AccountSet DEF AccountParts
<1>4. IsAccount(b)
  BY <1>2, BlobSet
<1> HIDE DEF b
<1>5. n # NoBlob /\ a.blob # NoBlob
  BY <1>1, <1>2, BlobThere
<1>6. /\ SnapshotsOf(n) \subseteq SnapshotsOf(a.blob) \cup IF part = "snapshots" THEN v ELSE {}
      /\ LeaseOf(n) \in {LeaseOf(a.blob)} \cup IF part = "lease" THEN {v} ELSE {}
  BY <1>2, <1>5 DEF SnapshotsOf, LeaseOf, BlobParts
<1>7. Marks(a, b, IF part = "snapshots" THEN v ELSE {},
                  IF part = "lease" THEN {v} ELSE {}, {}, {})
  BY <1>3, <1>6, MarksOf DEF Snapshots, Leases
<1> QED BY <1>3, <1>4, <1>5, <1>7 DEF With, HasBlob, b, n

LEMMA PartsMark ==
  ASSUME NEW a, IsAccount(a), NEW v
  PROVE  /\ MarksNothing(a, SetMetadata(a, v)) /\ MarksNothing(a, SetTags(a, v))
         /\ MarksNothing(a, SetAccessTier(a, v)) /\ MarksNothing(a, RehydrateBlob(a, v))
         /\ MarksNothing(a, ReleaseLease(a, v)) /\ MarksNothing(a, BreakLease(a))
         /\ MarksNothing(a, DeleteSnapshot(a, v)) /\ MarksNothing(a, SetProperties(a, v))
<1>1. ASSUME NEW part \in BlobParts \ {"lease", "snapshots"}, NEW w, HasBlob(a)
      PROVE  IsAccount(With(a, part, w)) /\ HasBlob(With(a, part, w))
             /\ Marks(a, With(a, part, w), {}, {}, {}, {})
  BY <1>1, PartMarks
<1>2. /\ {"type", "cache", "metadata", "tags", "tier"} \subseteq BlobParts \ {"lease", "snapshots"}
      /\ "lease" \in BlobParts /\ "snapshots" \in BlobParts
  BY DEF BlobParts
<1>3. MarksNothing(a, SetMetadata(a, v))
  <2>1. [a EXCEPT !.blob.metadata = v] = With(a, "metadata", v)
    BY DEF With, BlobWith
  <2> QED BY <1>1, <1>2, <2>1, DoneMarks, GuardsMark, OnBlobMarks DEF SetMetadata
<1>4. MarksNothing(a, SetTags(a, v))
  <2>1. [a EXCEPT !.blob.tags = v] = With(a, "tags", v)
    BY DEF With, BlobWith
  <2> QED BY <1>1, <1>2, <2>1, DoneMarks, GuardsMark, OnBlobMarks DEF SetTags
<1>5. MarksNothing(a, SetAccessTier(a, v))
  <2>1. [a EXCEPT !.blob.tier = v] = With(a, "tier", v)
    BY DEF With, BlobWith
  <2> QED BY <1>1, <1>2, <2>1, DoneMarks, GuardsMark, OnBlobMarks DEF SetAccessTier
<1>6. MarksNothing(a, RehydrateBlob(a, v))
  BY <1>5, RefusedMarks, GuardsMark DEF RehydrateBlob
<1>7. MarksNothing(a, ReleaseLease(a, v)) /\ MarksNothing(a, BreakLease(a))
  <2>1. [a EXCEPT !.blob.lease = Nothing] = With(a, "lease", Nothing)
    BY DEF With, BlobWith
  <2>2. HasBlob(a) => Marks(a, With(a, "lease", Nothing), {}, {}, {}, {})
    <3>1. HasBlob(a) => Marks(a, With(a, "lease", Nothing), {}, {Nothing}, {}, {})
      BY <1>2, PartMarks
    <3> QED BY <3>1 DEF Marks
  <2> QED BY <2>1, <2>2, DoneMarks, RefusedMarks, OnBlobMarks DEF ReleaseLease, BreakLease
<1>8. MarksNothing(a, DeleteSnapshot(a, v))
  <2> DEFINE w == a.blob.snapshots \ {v}
  <2>1. [a EXCEPT !.blob.snapshots = @ \ {v}] = With(a, "snapshots", w)
    BY DEF With, BlobWith
  <2>2. HasBlob(a) => Marks(a, With(a, "snapshots", w), {}, {}, {}, {})
    <3>1. HasBlob(a) => Marks(a, With(a, "snapshots", w), w, {}, {}, {})
      BY <1>2, PartMarks
    <3>2. HasBlob(a) => w \subseteq Snapshots(a)
      BY DEF Snapshots, SnapshotsOf, HasBlob
    <3> HIDE DEF w
    <3> QED BY <3>1, <3>2 DEF Marks
  <2> HIDE DEF w
  <2> QED BY <2>1, <2>2, DoneMarks, RefusedMarks, OnBlobMarks DEF DeleteSnapshot, w
<1>9. MarksNothing(a, SetProperties(a, v))
  <2> DEFINE f == With(a, "type", v.type)
             g == With(f, "cache", v.cache)
  <2>1. [a EXCEPT !.blob.type = v.type, !.blob.cache = v.cache] = g
    BY DEF With, BlobWith
  <2>2. HasBlob(a) => IsAccount(f) /\ HasBlob(f) /\ Marks(a, f, {}, {}, {}, {})
    BY <1>1, <1>2
  <2> HIDE DEF f
  <2>3. HasBlob(a) => Marks(f, g, {}, {}, {}, {})
    BY <1>2, <2>2, PartMarks
  <2> HIDE DEF g
  <2>4. HasBlob(a) => Marks(a, g, {}, {}, {}, {})
    BY <2>2, <2>3 DEF Marks
  <2> QED BY <2>1, <2>4, DoneMarks, GuardsMark, OnBlobMarks DEF SetProperties
<1> QED BY <1>3, <1>4, <1>5, <1>6, <1>7, <1>8, <1>9

(* Only the messages change *)
LEMMA MessagesMark ==
  ASSUME NEW a, NEW b, NEW M, NEW R, b.blob = a.blob, b.trash = a.trash,
         b.visible \subseteq Messages(a) \cup M,
         \A t \in b.hidden : t[1] \in Messages(a) \cup M /\ t[2] \in Receipts(a) \cup R
  PROVE  Marks(a, b, {}, {}, M, R)
<1>1. Messages(b) \subseteq Messages(a) \cup M
  BY DEF Messages
<1>2. Receipts(b) \subseteq Receipts(a) \cup R
  BY DEF Receipts
<1> QED BY <1>1, <1>2 DEF Marks, Snapshots, Leases

LEMMA HiddenMarks ==
  ASSUME NEW a
  PROVE  /\ \A t \in a.hidden : t[1] \in Messages(a) /\ t[2] \in Receipts(a)
         /\ a.visible \subseteq Messages(a)
BY DEF Messages, Receipts

LEMMA QueueMarks ==
  ASSUME NEW a, IsAccount(a), NEW t
  PROVE  /\ MarksNothing(a, CreateQueue(a)) /\ MarksNothing(a, DeleteQueue(a))
         /\ MarksNothing(a, DeleteMessage(a, t)) /\ MarksNothing(a, ClearMessages(a))
<1> USE HiddenMarks
<1>1. MarksNothing(a, CreateQueue(a))
  <2> DEFINE b == [a EXCEPT !.queue = TRUE]
  <2>1. /\ b.blob = a.blob /\ b.trash = a.trash
        /\ b.visible = a.visible /\ b.hidden = a.hidden
    BY AccountSet DEF AccountParts
  <2> HIDE DEF b
  <2>2. Marks(a, b, {}, {}, {}, {})
    BY <2>1, MessagesMark
  <2> QED BY <2>2, DoneMarks DEF CreateQueue, b
<1>2. MarksNothing(a, DeleteQueue(a))
  <2> DEFINE b == [a EXCEPT !.queue = FALSE, !.visible = {}, !.hidden = {}]
  <2>1. b.blob = a.blob /\ b.trash = a.trash /\ b.visible = {} /\ b.hidden = {}
    BY DEF IsAccount
  <2> HIDE DEF b
  <2>2. Marks(a, b, {}, {}, {}, {})
    BY <2>1, MessagesMark
  <2> QED BY <2>2, DoneMarks, GuardsMark DEF DeleteQueue, b
<1>3. MarksNothing(a, DeleteMessage(a, t))
  <2> DEFINE b == [a EXCEPT !.hidden = @ \ {t}]
  <2>1. /\ b.blob = a.blob /\ b.trash = a.trash
        /\ b.visible = a.visible /\ b.hidden = a.hidden \ {t}
    BY AccountSet DEF AccountParts
  <2> HIDE DEF b
  <2>2. Marks(a, b, {}, {}, {}, {})
    BY <2>1, MessagesMark
  <2> QED BY <2>2, DoneMarks, RefusedMarks, GuardsMark DEF DeleteMessage, b
<1>4. MarksNothing(a, ClearMessages(a))
  <2> DEFINE b == [a EXCEPT !.visible = {}, !.hidden = {}]
  <2>1. b.blob = a.blob /\ b.trash = a.trash /\ b.visible = {} /\ b.hidden = {}
    BY DEF IsAccount
  <2> HIDE DEF b
  <2>2. Marks(a, b, {}, {}, {}, {})
    BY <2>1, MessagesMark
  <2> QED BY <2>2, DoneMarks, GuardsMark DEF ClearMessages, b
<1> QED BY <1>1, <1>2, <1>3, <1>4

(* The four operations that hand a mark out *)
LEMMA Successes ==
  ASSUME NEW a, NEW o
  PROVE  /\ OnBlob(a, o).kind = "success" => HasBlob(a) /\ OnBlob(a, o) = o
         /\ OnQueue(a, o).kind = "success" => OnQueue(a, o) = o
BY DEF OnBlob, OnQueue, Refused

LEMMA SnapshotMarks ==
  ASSUME NEW a, IsAccount(a), NEW m, NEW o, o = CreateSnapshot(a, m), o.kind = "success"
  PROVE  o.value = m /\ Marks(a, o.account, {m}, {}, {}, {})
<1> DEFINE w == a.blob.snapshots \cup {m}
           b == With(a, "snapshots", w)
<1>1. o = OnBlob(a, Done(b, m))
  BY DEF CreateSnapshot, With, BlobWith
<1>2. HasBlob(a) /\ o = Done(b, m)
  BY <1>1, Successes
<1>3. Marks(a, b, w, {}, {}, {})
  BY <1>2, PartMarks DEF BlobParts
<1>4. w \subseteq Snapshots(a) \cup {m}
  BY <1>2 DEF Snapshots, SnapshotsOf, HasBlob
<1> HIDE DEF w, b
<1>5. Marks(a, b, {m}, {}, {}, {})
  BY <1>3, <1>4 DEF Marks
<1> QED BY <1>2, <1>5 DEF Done

LEMMA LeaseMarks ==
  ASSUME NEW a, IsAccount(a), NEW m, NEW o, o = AcquireLease(a, m), o.kind = "success"
  PROVE  o.value = m /\ Marks(a, o.account, {}, {m}, {}, {})
<1> DEFINE b == With(a, "lease", m)
<1>1. o = OnBlob(a, IF a.blob.lease # Nothing THEN Refused(a, "rejected") ELSE Done(b, m))
  BY DEF AcquireLease, With, BlobWith
<1> HIDE DEF b
<1>2. HasBlob(a) /\ o = Done(b, m)
  BY <1>1, Successes DEF Refused
<1>3. Marks(a, b, {}, {m}, {}, {})
  BY <1>2, PartMarks DEF BlobParts, b
<1> QED BY <1>2, <1>3 DEF Done

LEMMA MessageMarks ==
  ASSUME NEW a, IsAccount(a), NEW m, NEW o, o = PutMessage(a, m), o.kind = "success"
  PROVE  Marks(a, o.account, {}, {}, {m}, {})
<1> DEFINE b == [a EXCEPT !.visible = @ \cup {m}]
<1>1. /\ b.blob = a.blob /\ b.trash = a.trash
      /\ b.visible = a.visible \cup {m} /\ b.hidden = a.hidden
  BY AccountSet DEF AccountParts
<1>2. o = OnQueue(a, Done(b, Nothing))
  BY DEF PutMessage
<1> HIDE DEF b
<1>3. Marks(a, b, {}, {}, {m}, {})
  BY <1>1, HiddenMarks, MessagesMark
<1>4. o = Done(b, Nothing)
  BY <1>2, Successes
<1> QED BY <1>3, <1>4 DEF Done

LEMMA ReceiptMarks ==
  ASSUME NEW a, IsAccount(a), NEW m, NEW o, o = GetMessages(a, m), o.kind = "success"
  PROVE  Marks(a, o.account, {}, {}, {}, {m} \cap {taken[2] : taken \in o.value})
<1> DEFINE taken == a.visible \X {m}
           b == [a EXCEPT !.visible = {}, !.hidden = @ \cup taken]
           R == {m} \cap {t[2] : t \in taken}
<1>1. /\ b.blob = a.blob /\ b.trash = a.trash
      /\ b.visible = {} /\ b.hidden = a.hidden \cup taken
  BY DEF IsAccount
<1>2. o = OnQueue(a, Done(b, taken))
  BY DEF GetMessages
<1>3. \A t \in taken : t[1] \in a.visible /\ t[2] \in R
  OBVIOUS
<1> HIDE DEF b, taken
<1>4. Marks(a, b, {}, {}, {}, R)
  <2> HIDE DEF R
  <2> QED BY <1>1, <1>3, HiddenMarks, MessagesMark
<1>5. o = Done(b, taken)
  BY <1>2, Successes
<1> QED BY <1>4, <1>5 DEF Done

(* Time makes no mark *)
LEMMA TimeMarks ==
  ASSUME NEW a, IsAccount(a)
  PROVE  /\ HasBlob(a) => Marks(a, LeaseEnds(a), {}, {}, {}, {})
         /\ \A taken \in a.hidden : Marks(a, ShowsAgain(a, taken), {}, {}, {}, {})
<1>1. ASSUME HasBlob(a) PROVE Marks(a, LeaseEnds(a), {}, {}, {}, {})
  <2>1. LeaseEnds(a) = With(a, "lease", Nothing)
    BY DEF LeaseEnds, With, BlobWith
  <2>2. Marks(a, With(a, "lease", Nothing), {}, {Nothing}, {}, {})
    BY <1>1, PartMarks DEF BlobParts
  <2> QED BY <2>1, <2>2 DEF Marks
<1>2. ASSUME NEW taken \in a.hidden PROVE Marks(a, ShowsAgain(a, taken), {}, {}, {}, {})
  <2> DEFINE b == ShowsAgain(a, taken)
  <2>1. /\ b.blob = a.blob /\ b.trash = a.trash
        /\ b.visible = a.visible \cup {taken[1]} /\ b.hidden = a.hidden \ {taken}
    BY DEF IsAccount, ShowsAgain
  <2> HIDE DEF b
  <2> QED BY <2>1, HiddenMarks, MessagesMark DEF b
<1> QED BY <1>1, <1>2

(* Who hands out what *)
Gives(op, kinds, m) == IF op \in kinds THEN {m} ELSE {}

LEMMA PerformMarks ==
  ASSUME NEW a, IsAccount(a), NEW r, NEW op \in Harmless \cup Gated \cup {"copy_blob"},
         op # "generate_sas", Perform(op, r, a).kind = "success"
  PROVE  LET m == <<r, effects[r] + 1>>
             o == Perform(op, r, a)
         IN  /\ Marks(a, o.account, Gives(op, {"create_snapshot"}, m),
                      Gives(op, {"acquire_lease"}, m), Gives(op, {"put_message"}, m),
                      Gives(op, {"get_messages"}, m))
             /\ op \in {"create_snapshot", "acquire_lease"} => o.value = m
             /\ op = "get_messages" /\ m \in Receipts(o.account) \ Receipts(a)
                  => m \in {taken[2] : taken \in o.value}
<1> DEFINE m == <<r, effects[r] + 1>>
           arg == call[r[1]].arg
           o == Perform(op, r, a)
<1>1. ASSUME op \notin {"create_snapshot", "acquire_lease", "put_message", "get_messages"}
      PROVE  MarksNothing(a, o)
  <2> USE <1>1, ReadMarks, ContainerMarks, BlobMarks, PartsMark, QueueMarks
  <2>1. CASE op \in {"list_containers", "list_blobs", "read_blob", "get_properties",
                     "get_metadata", "get_tags", "list_queues", "peek_messages"}
    BY <2>1 DEF Perform
  <2>2. CASE op \in {"create_container", "create_public_container", "delete_container",
                     "set_container_public_access"}
    BY <2>2 DEF Perform
  <2>3. CASE op \in {"write_blob", "overwrite_blob", "copy_blob", "delete_blob",
                     "delete_blob_and_snapshots", "undelete_blob"}
    BY <2>3 DEF Perform
  <2>4. CASE op \in {"delete_snapshot", "set_properties", "set_metadata", "set_tags",
                     "set_access_tier", "rehydrate_blob", "release_lease", "break_lease"}
    BY <2>4 DEF Perform
  <2>5. CASE op \in {"create_queue", "delete_queue", "delete_message", "clear_messages"}
    BY <2>5 DEF Perform
  <2> QED BY <2>1, <2>2, <2>3, <2>4, <2>5 DEF Harmless, Gated
<1>2. o.kind = "success"
  OBVIOUS
<1> DEFINE Goal == /\ Marks(a, o.account, Gives(op, {"create_snapshot"}, m),
                            Gives(op, {"acquire_lease"}, m), Gives(op, {"put_message"}, m),
                            Gives(op, {"get_messages"}, m))
                   /\ op \in {"create_snapshot", "acquire_lease"} => o.value = m
                   /\ op = "get_messages" /\ m \in Receipts(o.account) \ Receipts(a)
                        => m \in {taken[2] : taken \in o.value}
<1> SUFFICES Goal
  OBVIOUS
<1>3. op = "create_snapshot" => o = CreateSnapshot(a, m)
  BY DEF Perform
<1>4. op = "acquire_lease" => o = AcquireLease(a, m)
  BY DEF Perform
<1>5. op = "put_message" => o = PutMessage(a, m)
  BY DEF Perform
<1>6. op = "get_messages" => o = GetMessages(a, m)
  BY DEF Perform
<1> HIDE DEF m, o
<1>7. CASE op \notin {"create_snapshot", "acquire_lease", "put_message", "get_messages"}
  BY <1>1, <1>2, <1>7 DEF MarksNothing, Gives
<1>8. CASE op = "create_snapshot"
  <2>1. o.value = m /\ Marks(a, o.account, {m}, {}, {}, {})
    BY <1>2, <1>3, <1>8, SnapshotMarks
  <2> QED BY <1>8, <2>1 DEF Gives
<1>9. CASE op = "acquire_lease"
  <2>1. o.value = m /\ Marks(a, o.account, {}, {m}, {}, {})
    BY <1>2, <1>4, <1>9, LeaseMarks
  <2> QED BY <1>9, <2>1 DEF Gives
<1>10. CASE op = "put_message"
  <2>1. Marks(a, o.account, {}, {}, {m}, {})
    BY <1>2, <1>5, <1>10, MessageMarks
  <2> QED BY <1>10, <2>1 DEF Gives
<1>11. CASE op = "get_messages"
  <2> DEFINE R == {m} \cap {taken[2] : taken \in o.value}
  <2>1. Marks(a, o.account, {}, {}, {}, R)
    BY <1>2, <1>6, <1>11, ReceiptMarks
  <2>2. R \subseteq {m} /\ R \subseteq {taken[2] : taken \in o.value}
    OBVIOUS
  <2> HIDE DEF R
  <2>3. /\ Marks(a, o.account, {}, {}, {}, {m})
        /\ m \in Receipts(o.account) \ Receipts(a) => m \in {taken[2] : taken \in o.value}
    BY <2>1, <2>2 DEF Marks
  <2> QED BY <1>11, <2>3 DEF Gives
<1> QED BY <1>7, <1>8, <1>9, <1>10, <1>11

-----------------------------------------------------------------------------
(* Who holds what was handed out *)

OpOf(r) == call[r[1]].command.ops[r[2]]

(* m is from before, or was made for a request of this run *)
Minted(m) == m = Original \/ \E r \in Requests : \E n \in 1..effects[r] : m = <<r, n>>

(* What names a snapshot or a lease was the answer to the request it was made *)
(* for, unless that request is in doubt ...                                   *)
Held(m) ==
  m # Original => OpOf(m[1]) # "get_messages" /\ (doubtful[m[1]] \/ value[m[1]] = m)

(* ... and a pop receipt was in it *)
Taken(m) ==
  m # Original =>
    /\ OpOf(m[1]) = "get_messages"
    /\ doubtful[m[1]] \/ m \in {taken[2] : taken \in value[m[1]]}

MarkInv ==
  /\ DOMAIN value = Requests
  /\ \A m \in Messages(account) : Minted(m)
  /\ \A m \in Snapshots(account) \cup (Leases(account) \ {Nothing}) : Minted(m) /\ Held(m)
  /\ \A m \in Receipts(account) : Minted(m) /\ Taken(m)

LEMMA MarkBegins == OInit => MarkInv
<1> SUFFICES ASSUME OInit PROVE MarkInv
  OBVIOUS
<1>1. IsFound(account) /\ DOMAIN value = Requests
  BY OperationsAssumption DEF OInit
<1>2. \A m \in Messages(account) \cup Snapshots(account) \cup Receipts(account) : m = Original
  BY <1>1 DEF IsFound, Messages, Snapshots, SnapshotsOf, Receipts
<1>3. \A m \in Leases(account) \ {Nothing} : m = Original
  BY <1>1 DEF IsFound, Leases, LeaseOf
<1> QED BY <1>1, <1>2, <1>3 DEF MarkInv, Minted, Held, Taken

(* A mark that was made stays with who holds it, and so does a new one *)
LEMMA MarksGrow ==
  ASSUME IInv, IInv', MarkInv, DOMAIN value' = Requests,
         \A c \in Calls : call'[c].command = call[c].command,
         \A s \in Requests :
           /\ effects'[s] >= effects[s]
           /\ doubtful[s] => doubtful'[s]
           /\ effects[s] > 0 => doubtful'[s] \/ value'[s] = value[s],
         NEW S, NEW L, NEW M, NEW R, Marks(account, account', S, L, M, R),
         \A m \in S \cup L : Minted(m)' /\ Held(m)',
         \A m \in M : Minted(m)',
         \A m \in R : Minted(m)' /\ (m \in Receipts(account') \ Receipts(account) => Taken(m)')
  PROVE  MarkInv'
<1>1. \A s \in Requests : effects[s] \in Nat /\ effects'[s] \in Nat
  BY DEF IInv, Types
<1>2. ASSUME NEW m, Minted(m)
      PROVE  /\ Minted(m)'
             /\ Held(m) => Held(m)'
             /\ Taken(m) => Taken(m)'
  <2>1. CASE m = Original
    BY <2>1 DEF Minted, Held, Taken
  <2>2. CASE m # Original
    <3>1. PICK s \in Requests : \E n \in 1..effects[s] : m = <<s, n>>
      BY <1>2, <2>2 DEF Minted
    <3>2. m[1] = s /\ effects[s] > 0 /\ \E n \in 1..effects'[s] : m = <<s, n>>
      BY <1>1, <3>1
    <3>3. OpOf(s)' = OpOf(s)
      <4>1. s[1] \in Calls
        BY OperationsAssumption
      <4> QED BY <4>1 DEF OpOf
    <3>4. (doubtful[s] => doubtful'[s]) /\ (doubtful'[s] \/ value'[s] = value[s])
      BY <3>2
    <3>5. Minted(m)'
      BY <3>2 DEF Minted
    <3> QED BY <2>2, <3>2, <3>3, <3>4, <3>5 DEF Held, Taken
  <2> QED BY <2>1, <2>2
<1>3. ASSUME NEW m \in Messages(account') PROVE Minted(m)'
  BY <1>2 DEF Marks, MarkInv
<1>4. ASSUME NEW m \in Snapshots(account') \cup (Leases(account') \ {Nothing})
      PROVE  Minted(m)' /\ Held(m)'
  <2>1. m \in S \cup L \/ m \in Snapshots(account) \cup (Leases(account) \ {Nothing})
    BY DEF Marks
  <2> QED BY <1>2, <2>1 DEF MarkInv
<1>5. ASSUME NEW m \in Receipts(account') PROVE Minted(m)' /\ Taken(m)'
  <2>1. m \in Receipts(account) \/ (m \in R /\ m \in Receipts(account') \ Receipts(account))
    BY DEF Marks
  <2> QED BY <1>2, <2>1 DEF MarkInv
<1>6. /\ Messages(account)' = Messages(account') /\ Snapshots(account)' = Snapshots(account')
      /\ Leases(account)' = Leases(account') /\ Receipts(account)' = Receipts(account')
  OBVIOUS
<1> QED BY <1>3, <1>4, <1>5, <1>6 DEF MarkInv

(* A step that makes no mark *)
LEMMA MarksStay ==
  ASSUME IInv, IInv', MarkInv, value' = value, effects' = effects,
         \A c \in Calls : call'[c].command = call[c].command,
         \A s \in Requests : doubtful[s] => doubtful'[s],
         Marks(account, account', {}, {}, {}, {})
  PROVE  MarkInv'
<1>1. \A s \in Requests : effects[s] \in Nat
  BY DEF IInv, Types
<1>2. DOMAIN value' = Requests
  BY DEF MarkInv
<1>3. \A s \in Requests :
        /\ effects'[s] >= effects[s]
        /\ doubtful[s] => doubtful'[s]
        /\ effects[s] > 0 => doubtful'[s] \/ value'[s] = value[s]
  BY <1>1
<1> QED BY <1>2, <1>3, MarksGrow

(* What a step of a request does outside the pipeline *)
LEMMA Doings ==
  ASSUME IInv, CallInv, MarkInv, NEW r \in Requests, RequestStep(r) \/ ArriveOperation(r)
  PROVE  /\ UNCHANGED call
         /\ \A s \in Requests : doubtful[s] => doubtful'[s]
         /\ \/ UNCHANGED <<account, value, effects>>
            \/ /\ Outcomes(r).kind = "success" /\ account' = Outcomes(r).account
               /\ effects' = [effects EXCEPT ![r] = @ + 1]
               /\ DOMAIN value' = Requests
               /\ \A s \in Requests \ {r} : value'[s] = value[s]
               /\ \/ doubtful'[r]
                  \/ effects[r] = 0 /\ value'[r] = Outcomes(r).value
<1>0. /\ DOMAIN value = Requests /\ DOMAIN effects = Requests /\ DOMAIN doubtful = Requests
      /\ Settled(r) /\ strays[r] \in Nat /\ DOMAIN answer = Requests
  BY DEF MarkInv, IInv, Types
<1>1. CASE ServeOperation(r)
  <2>1. /\ Outcomes(r).kind = "success" /\ account' = Outcomes(r).account
        /\ effects' = [effects EXCEPT ![r] = @ + 1] /\ pc[r] = "sent" /\ UNCHANGED call
        /\ value' = [value EXCEPT ![r] = IF answer'[r].kind = "success" THEN Outcomes(r).value ELSE @]
    BY <1>1 DEF ServeOperation, Serve
  <2>2. DOMAIN value' = Requests /\ \A s \in Requests \ {r} : value'[s] = value[s]
    BY <1>0, <2>1
  <2>3. CASE EndAttempt(r, "success", 0) /\ UNCHANGED doubtful
    <3>1. answer'[r].kind = "success"
      BY <1>0, <2>3 DEF EndAttempt
    <3>2. value'[r] = Outcomes(r).value
      BY <1>0, <2>1, <3>1
    <3> QED BY <1>0, <2>1, <2>2, <2>3, <3>2 DEF Settled
  <2>4. CASE doubtful' = [doubtful EXCEPT ![r] = TRUE]
    BY <1>0, <2>1, <2>2, <2>4
  <2> QED BY <1>1, <2>3, <2>4 DEF ServeOperation, Serve
<1>2. CASE RefuseOperation(r)
  BY <1>0, <1>2 DEF RefuseOperation, Refuse
<1>3. CASE BreakOperation(r)
  <2>1. /\ doubtful' = [doubtful EXCEPT ![r] = TRUE] /\ UNCHANGED <<call, value>>
        /\ effects' = effects \/ effects' = [effects EXCEPT ![r] = @ + 1]
        /\ IF effects' = effects THEN UNCHANGED account
           ELSE Outcomes(r).kind = "success" /\ account' = Outcomes(r).account
    BY <1>3 DEF BreakOperation, Break
  <2> QED BY <1>0, <2>1
<1>4. CASE SendStep(r)
  BY <1>4 DEF SendStep, Unsent, Transmit, Return, BackOff, Retry
<1>5. CASE ArriveOperation(r)
  <2>1. /\ Outcomes(r).kind = "success" /\ account' = Outcomes(r).account
        /\ effects' = [effects EXCEPT ![r] = @ + 1] /\ strays[r] > 0
        /\ UNCHANGED <<call, value, doubtful>>
    BY <1>5 DEF ArriveOperation, Arrive
  <2>2. doubtful[r]
    BY <1>0, <2>1 DEF Settled
  <2> QED BY <1>0, <2>1, <2>2
<1> QED BY <1>1, <1>2, <1>3, <1>4, <1>5 DEF RequestStep

(* The operation a request that has begun is for *)
LEMMA BegunOp ==
  ASSUME IInv, CallInv, ConsentInv, NEW r \in Requests, pc[r] # "idle"
  PROVE  /\ r[1] \in Calls /\ r[2] \in 1..Len(call[r[1]].command.ops)
         /\ OpOf(r) \in Harmless \cup Gated \cup {"copy_blob"} /\ OpOf(r) # "generate_sas"
         /\ Outcomes(r) = Perform(OpOf(r), r, account)
<1>1. PICK c \in Calls, i \in {1, 2} : r = <<c, i>>
  BY OperationsAssumption
<1>2. /\ i \in 1..Len(call[c].command.ops) /\ call[c].command \in Commands
      /\ call[c].command.ops[i] # "generate_sas"
  BY <1>1 DEF CallInv, Ordered, ConsentInv, Consented
<1>3. call[c].command.ops[i] \in Harmless \cup Gated \cup {"copy_blob"}
  BY <1>2, CommandsAsk
<1> QED BY <1>1, <1>2, <1>3 DEF OpOf, Outcomes

(* A request that is not idle: it is in hand, or was, or strays *)
LEMMA Begun ==
  ASSUME IInv, NEW r \in Requests, RequestStep(r) \/ ArriveOperation(r)
  PROVE  pc[r] # "idle" /\ (CallStep(r) \/ Arrive(r))
<1>0. strays[r] \in Nat /\ effects[r] \in Nat /\ attempt[r] \in Nat /\ Counted(r)
  BY DEF IInv, Types
<1>1. CallStep(r) \/ Arrive(r)
  BY DEF RequestStep, ServeOperation, RefuseOperation, BreakOperation, SendStep,
         ArriveOperation, CallStep
<1>2. CASE CallStep(r)
  BY <1>2 DEF CallStep, Unsent, Transmit, Serve, Refuse, Break, Return, BackOff, Retry
<1>3. CASE Arrive(r)
  BY <1>0, <1>3 DEF Arrive, Counted
<1> QED BY <1>1, <1>2, <1>3

LEMMA RequestMarks ==
  ASSUME IInv, IInv', CallInv, ConsentInv, MarkInv, NEW r \in Requests,
         RequestStep(r) \/ ArriveOperation(r)
  PROVE  MarkInv'
<1>m. PICK m : m = <<r, effects[r] + 1>>
  OBVIOUS
<1>op. PICK op : op = OpOf(r)
  OBVIOUS
<1> DEFINE o == Outcomes(r)
<1>1. /\ r[1] \in Calls /\ op \in Harmless \cup Gated \cup {"copy_blob"} /\ op # "generate_sas"
      /\ o = Perform(op, r, account) /\ IsAccount(account)
  BY <1>op, Begun, BegunOp DEF ConsentInv
<1>2. UNCHANGED call /\ \A s \in Requests : doubtful[s] => doubtful'[s]
  BY Doings
<1>3. CASE UNCHANGED <<account, value, effects>>
  BY <1>2, <1>3, MarksStay, SameMarks
<1>4. CASE /\ o.kind = "success" /\ account' = o.account
           /\ effects' = [effects EXCEPT ![r] = @ + 1]
           /\ DOMAIN value' = Requests
           /\ \A s \in Requests \ {r} : value'[s] = value[s]
           /\ \/ doubtful'[r]
              \/ effects[r] = 0 /\ value'[r] = o.value
  <2> DEFINE S == Gives(op, {"create_snapshot"}, m)
             L == Gives(op, {"acquire_lease"}, m)
             M == Gives(op, {"put_message"}, m)
             R == Gives(op, {"get_messages"}, m)
  <2> HIDE DEF o
  <2>1. /\ Marks(account, account', S, L, M, R)
        /\ op \in {"create_snapshot", "acquire_lease"} => o.value = m
        /\ op = "get_messages" /\ m \in Receipts(account') \ Receipts(account)
             => m \in {taken[2] : taken \in o.value}
    BY <1>1, <1>4, <1>m, PerformMarks
  <2>2. \A s \in Requests : effects[s] \in Nat
    BY DEF IInv, Types
  <2>3. effects'[r] = effects[r] + 1 /\ \A s \in Requests \ {r} : effects'[s] = effects[s]
    BY <1>4 DEF IInv, Types
  <2>4. Minted(m)'
    <3>1. effects[r] + 1 \in 1..effects'[r]
      BY <2>2, <2>3
    <3> QED BY <1>m, <3>1 DEF Minted
  <2>5. m[1] = r /\ OpOf(r)' = op
    BY <1>1, <1>2, <1>m, <1>op DEF OpOf
  <2>6. \A s \in Requests :
          /\ effects'[s] >= effects[s]
          /\ doubtful[s] => doubtful'[s]
          /\ effects[s] > 0 => doubtful'[s] \/ value'[s] = value[s]
    BY <1>2, <1>4, <2>2, <2>3
  <2>7. \A n \in S \cup L : Minted(n)' /\ Held(n)'
    <3>1. \A n \in S \cup L : n = m /\ op \in {"create_snapshot", "acquire_lease"}
      BY DEF Gives
    <3>2. op \in {"create_snapshot", "acquire_lease"} => Held(m)'
      BY <1>4, <2>1, <2>5 DEF Held
    <3> QED BY <2>4, <3>1, <3>2
  <2>8. \A n \in M : Minted(n)'
    BY <2>4 DEF Gives
  <2>9. \A n \in R :
          Minted(n)' /\ (n \in Receipts(account') \ Receipts(account) => Taken(n)')
    <3>1. \A n \in R : n = m /\ op = "get_messages"
      BY DEF Gives
    <3>2. op = "get_messages" /\ m \in Receipts(account') \ Receipts(account) => Taken(m)'
      BY <1>4, <2>1, <2>5 DEF Taken
    <3> QED BY <2>4, <3>1, <3>2
  <2> HIDE DEF S, L, M, R
  <2>10. \A c \in Calls : call'[c].command = call[c].command
    BY <1>2
  <2> QED BY <1>4, <2>1, <2>6, <2>7, <2>8, <2>9, <2>10, MarksGrow
<1> QED BY <1>3, <1>4, Doings

(* A call that goes on is not over and keeps its command, and once started its *)
(* argument                                                                    *)
Moves(c) ==
  /\ DOMAIN call' = Calls /\ IsCall(call'[c])
  /\ call'[c].command = call[c].command
  /\ call[c].stage # "over" /\ call'[c].stage # "new"
  /\ \A d \in Calls \ {c} : call'[d] = call[d]

Stands(c) == call'[c].arg = call[c].arg /\ call'[c].earlier = call[c].earlier

LEMMA EndStands ==
  ASSUME NEW c \in Calls, DOMAIN call = Calls, IsCall(call[c]), NEW outcome, End(c, outcome)
  PROVE  Stands(c)
<1> DEFINE k == [call[c] EXCEPT !.stage = "over", !.outcome = outcome]
<1>1. call'[c] = k
  BY DEF End
<1>2. k.arg = call[c].arg /\ k.earlier = call[c].earlier
  BY DEF IsCall
<1> QED BY <1>1, <1>2 DEF Stands

LEMMA StageStands ==
  ASSUME NEW c \in Calls, DOMAIN call = Calls, IsCall(call[c]), NEW stage, Stage(c, stage)
  PROVE  Stands(c)
<1> DEFINE k == [call[c] EXCEPT !.stage = stage]
<1>1. call'[c] = k
  BY DEF Stage
<1>2. k.arg = call[c].arg /\ k.earlier = call[c].earlier
  BY DEF IsCall
<1> QED BY <1>1, <1>2 DEF Stands

LEMMA CallMoves ==
  ASSUME CallInv, NEW c \in Calls,
         Start(c) \/ Approve(c) \/ Confirm(c) \/ LackKey(c) \/ Sign(c)
           \/ Send(c) \/ Conclude(c)
  PROVE  Moves(c) /\ (Start(c) \/ (call[c].stage # "new" /\ Stands(c)))
<1>0. DOMAIN call = Calls /\ IsCall(call[c])
  BY DEF CallInv, Ordered
<1>1. ASSUME NEW at, NEW stage, NEW consent, NEW outcome,
             Turns(c, at, stage, consent, outcome), stage # "new", call[c].stage # "over"
      PROVE  Moves(c)
  BY <1>1 DEF Turns, Moves
<1>2. ASSUME NEW outcome, End(c, outcome), call[c].stage # "over" PROVE Moves(c) /\ Stands(c)
  BY <1>0, <1>1, <1>2, EndTurns, EndStands
<1>3. ASSUME NEW stage, Stage(c, stage), stage # "new", call[c].stage # "over"
      PROVE  Moves(c) /\ Stands(c)
  BY <1>0, <1>1, <1>3, StageTurns, StageStands
<1>4. ASSUME NEW stage, NEW consent,
             call' = [call EXCEPT ![c].stage = stage, ![c].consent = consent],
             stage # "new", call[c].stage # "over"
      PROVE  Moves(c) /\ Stands(c)
  <2> DEFINE k == [call[c] EXCEPT !.stage = stage, !.consent = consent]
  <2>1. call'[c] = k
    BY <1>0, <1>4
  <2>2. k.arg = call[c].arg /\ k.earlier = call[c].earlier
    BY <1>0 DEF IsCall
  <2>3. Stands(c)
    BY <2>1, <2>2 DEF Stands
  <2> QED BY <1>0, <1>1, <1>4, <2>3, ConsentTurns
<1>5. CASE Start(c)
  <2> DEFINE stage == IF call[c].command.asks THEN "asking" ELSE "ready"
  <2>1. Turns(c, call[c].at, stage, call[c].consent, call[c].outcome)
    BY <1>0, <1>5, StartTurns
  <2>2. stage # "new" /\ call[c].stage # "over"
    BY <1>5 DEF Start
  <2> HIDE DEF stage
  <2> QED BY <1>1, <1>5, <2>1, <2>2
<1>6. CASE Approve(c)
  BY <1>2, <1>4, <1>6 DEF Approve
<1>7. CASE Confirm(c)
  BY <1>2, <1>3, <1>4, <1>7 DEF Confirm
<1>8. CASE LackKey(c) \/ Sign(c)
  BY <1>2, <1>8 DEF LackKey, Sign
<1>9. CASE Send(c)
  BY <1>3, <1>9 DEF Send, MayGoOn
<1>10. CASE Conclude(c)
  <2>0. call[c].stage = "sending"
    BY <1>10 DEF Conclude
  <2>1. CASE call' = [call EXCEPT ![c].stage = "ready", ![c].at = @ + 1]
    <3> DEFINE k == [call[c] EXCEPT !.stage = "ready", !.at = @ + 1]
    <3>1. call'[c] = k
      BY <1>0, <2>1
    <3>2. k.arg = call[c].arg /\ k.earlier = call[c].earlier
      BY <1>0 DEF IsCall
    <3>3. Stands(c)
      BY <3>1, <3>2 DEF Stands
    <3> QED BY <1>0, <1>1, <2>0, <2>1, <3>3, NextTurns
  <2> QED BY <1>2, <1>10, <2>0, <2>1 DEF Conclude
<1> QED BY <1>5, <1>6, <1>7, <1>8, <1>9, <1>10

LEMMA MarksKeep ==
  ASSUME IInv, CallInv, ConsentInv, MarkInv, [ONext]_ovars
  PROVE  MarkInv'
<1>0. IInv' /\ IsAccount(account)
  BY OfThePipeline, NextPreserves DEF ConsentInv
<1>1. CASE UNCHANGED ovars
  BY <1>0, <1>1, MarksStay, SameMarks DEF ovars, vars
<1>2. ASSUME NEW c \in Calls,
             Start(c) \/ Approve(c) \/ Confirm(c) \/ LackKey(c) \/ Sign(c)
               \/ Send(c) \/ Conclude(c)
      PROVE  MarkInv'
  <2>1. UNCHANGED <<value, account, effects, doubtful>>
    BY <1>2 DEF Start, Approve, Confirm, LackKey, Sign, Send, Begin, Conclude, vars
  <2>2. \A d \in Calls : call'[d].command = call[d].command
    BY <1>2, CallMoves DEF Moves
  <2> QED BY <1>0, <2>1, <2>2, MarksStay, SameMarks
<1>3. ASSUME NEW r \in Requests, RequestStep(r) \/ ArriveOperation(r) PROVE MarkInv'
  BY <1>0, <1>3, RequestMarks
<1>4. CASE Lapse
  BY <1>0, <1>4, MarksStay, TimeMarks DEF Lapse, vars
<1> QED BY <1>1, <1>2, <1>3, <1>4 DEF ONext

LEMMA MarksInvariance == OSpec => [](IInv /\ CallInv /\ ConsentInv /\ MarkInv)
<1>1. OInit => ConsentInv /\ MarkInv
  BY ConsentBegins, MarkBegins
<1>2. IInv /\ CallInv /\ ConsentInv /\ MarkInv /\ [ONext]_ovars => ConsentInv' /\ MarkInv'
  BY ConsentKeeps, MarksKeep
<1> QED BY <1>1, <1>2, OInvariance, PTL DEF OSpec

(* A request that is not in doubt and was carried out was so once, and its *)
(* answer is read or on its way                                            *)
LEMMA CarriedOutOnce ==
  ASSUME IInv, ResultsReturned, NEW r \in Requests, ~doubtful[r], effects[r] > 0
  PROVE  effects[r] = 1 /\ (pc[r] = "answered" \/ (pc[r] = "returned" /\ result[r] = "ok"))
BY DEF IInv, Types, Settled

(* However often a call was put off and tried again, it has stored at most one *)
(* message and made at most one snapshot, unless it was in doubt: what the     *)
(* pipeline knows of a request holds of what it left in the account.           *)
THEOREM OSpecNoDoubleWork == OSpec => []NoDoubleWork
<1>1. IInv /\ CallInv /\ MarkInv => NoDoubleWork
  <2> SUFFICES ASSUME IInv, CallInv, MarkInv PROVE NoDoubleWork
    OBVIOUS
  <2> DEFINE made == Messages(account)
                       \cup (IF HasBlob(account) THEN account.blob.snapshots ELSE {})
  <2>1. \A m \in made : Minted(m)
    BY DEF MarkInv, Snapshots, SnapshotsOf, HasBlob
  <2>2. ASSUME NEW m \in made \ {Original}, NEW n \in made \ {Original},
               m[1] = n[1], m # n
        PROVE  doubtful[m[1]]
    <3>1. PICK r \in Requests : \E i \in 1..effects[r] : m = <<r, i>>
      BY <2>1 DEF Minted
    <3>2. PICK s \in Requests : \E i \in 1..effects[s] : n = <<s, i>>
      BY <2>1 DEF Minted
    <3>3. r = s /\ m[1] = r
      BY <2>2, <3>1, <3>2
    <3>4. effects[r] > 0 /\ effects[r] # 1
      <4>1. effects[r] \in Nat
        BY DEF IInv, Types
      <4> QED BY <2>2, <3>1, <3>2, <3>3, <4>1
    <3> QED BY <3>3, <3>4, CarriedOutOnce DEF CallInv
  <2> HIDE DEF made
  <2>3. \A m, n \in made \ {Original} : m[1] = n[1] /\ m # n => doubtful[m[1]]
    BY <2>2
  <2> QED BY <2>3 DEF NoDoubleWork, made
<1> QED BY <1>1, MarksInvariance, PTL

(* What the service has handed out -- a lease, a snapshot's name, messages that *)
(* others no longer see -- is in the answer its caller has read or will read,   *)
(* or that request is in doubt.                                                 *)
THEOREM OSpecHandedOutIsHeld == OSpec => []HandedOutIsHeld
<1>1. IInv /\ CallInv /\ ConsentInv /\ MarkInv => HandedOutIsHeld
  <2> SUFFICES ASSUME IInv, CallInv, ConsentInv, MarkInv,
                      NEW m \in HandedOut \ {Nothing, Original}
               PROVE  LET r == m[1]
                      IN  \/ doubtful[r] \/ pc[r] = "answered"
                          \/ result[r] = "ok" /\ IF call[r[1]].command.ops = <<"get_messages">>
                                                 THEN m \in {taken[2] : taken \in value[r]}
                                                 ELSE value[r] = m
    BY DEF HandedOutIsHeld
  <2>1. \/ m \in Snapshots(account) \cup (Leases(account) \ {Nothing})
        \/ m \in Receipts(account)
    BY DEF HandedOut, Snapshots, SnapshotsOf, Leases, LeaseOf, Receipts, HasBlob
  <2>2. Minted(m) /\ (Held(m) \/ Taken(m))
    BY <2>1 DEF MarkInv
  <2>3. PICK r \in Requests : \E n \in 1..effects[r] : m = <<r, n>>
    BY <2>2 DEF Minted
  <2>4. m[1] = r /\ effects[r] > 0
    <3>1. effects[r] \in Nat
      BY DEF IInv, Types
    <3> QED BY <2>3, <3>1
  <2> SUFFICES ASSUME ~doubtful[r], pc[r] # "answered"
               PROVE  result[r] = "ok" /\ IF call[r[1]].command.ops = <<"get_messages">>
                                          THEN m \in {taken[2] : taken \in value[r]}
                                          ELSE value[r] = m
    BY <2>4
  <2>5. pc[r] = "returned" /\ result[r] = "ok"
    BY <2>4, CarriedOutOnce DEF CallInv
  <2>6. r[1] \in Calls /\ r[2] \in 1..Len(call[r[1]].command.ops)
    BY <2>5, BegunOp
  <2>7. call[r[1]].command.ops = <<"get_messages">> <=> OpOf(r) = "get_messages"
    <3> DEFINE ops == call[r[1]].command.ops
    <3>1. OneOrTwo(call[r[1]].command)
      BY <2>6, CommandsMake DEF CallInv, Ordered
    <3>2. CASE \E op : ops = <<op>>
      BY <2>6, <3>2 DEF OpOf
    <3>3. CASE ops = <<"get_properties", "set_properties">>
      <4>1. r[2] \in {1, 2} /\ Len(ops) # Len(<<"get_messages">>)
        BY <2>6, <3>3
      <4> QED BY <3>3, <4>1 DEF OpOf
    <3> QED BY <3>1, <3>2, <3>3 DEF OneOrTwo
  <2> QED BY <2>2, <2>4, <2>5, <2>7 DEF Held, Taken
<1> QED BY <1>1, MarksInvariance, PTL

-----------------------------------------------------------------------------
(* Two set-props, one after the other *)

(* What a call knows of others is of calls that are over; it has an argument *)
(* once it has started                                                       *)
Past(c) ==
  /\ call[c].stage = "new" => call[c].earlier = {} /\ call[c].at = 1
  /\ \A e \in call[c].earlier : e \in Calls /\ Over(e)
  /\ call[c].command = SetProps /\ call[c].stage # "new" => call[c].arg \in {"type", "cache"}

(* The properties have been read *)
Read(c) ==
  LET r == <<c, 1>>
  IN  result[r] = "ok" \/ (pc[r] = "answered" /\ answer[r].kind = "success")

ReadWhole(c) ==
  call[c].command = SetProps /\ Read(c) =>
    LET v == value[<<c, 1>>] IN v = [type |-> v.type, cache |-> v.cache]

(* c has set its property, nobody but those in D might write over it, and it *)
(* is there                                                                  *)
Wrote(c) == call[c].command = SetProps /\ Certain(c) /\ effects[<<c, 2>>] = 1

Undisturbed(c, D) == \A e \in Calls \ D : StaysOut(e, c)

Stored(c) == HasBlob(account) /\ account.blob[call[c].arg] = <<c, 2>>

StoredInv(c) == Wrote(c) /\ Undisturbed(c, {c}) => Stored(c)

(* d came after c and sets the other property: it reads what c has set *)
Follows(d, c) ==
  /\ Wrote(c) /\ call[d].command = SetProps /\ c \in call[d].earlier
  /\ call[c].arg # call[d].arg /\ Undisturbed(c, {c, d})

FollowedInv(c, d) ==
  Follows(d, c) => Stored(c) /\ (Read(d) => value[<<d, 1>>][call[c].arg] = <<c, 2>>)

PropsInv ==
  \A c \in Calls :
    /\ Past(c) /\ ReadWhole(c) /\ StoredInv(c)
    /\ \A d \in Calls : FollowedInv(c, d)

(* What has been shown to hold throughout *)
OInv == IInv /\ CallInv /\ ConsentInv /\ MarkInv

LEMMA PropsBegin == OInit => PropsInv
<1> SUFFICES ASSUME OInit, NEW c \in Calls
             PROVE  /\ Past(c) /\ ReadWhole(c) /\ StoredInv(c)
                    /\ \A d \in Calls : FollowedInv(c, d)
  BY DEF PropsInv
<1>1. \A i \in {1, 2} : <<c, i>> \in Requests
  BY OperationsAssumption
<1>2. /\ result[<<c, 1>>] = "none" /\ pc[<<c, 1>>] = "idle" /\ effects[<<c, 2>>] = 0
  BY <1>1 DEF OInit, Init
<1>3. call[c].earlier = {} /\ call[c].stage = "new" /\ call[c].at = 1
  BY DEF OInit, NewCall
<1>4. ~Read(c) /\ ~Wrote(c)
  BY <1>2 DEF Read, Wrote
<1> QED BY <1>3, <1>4 DEF Past, ReadWhole, StoredInv, FollowedInv, Follows

LEMMA SetPropsMakes ==
  /\ SetProps.ops[1] = "get_properties" /\ SetProps.ops[2] = "set_properties"
  /\ Len(SetProps.ops) = 2
<1>1. SetProps.ops = <<"get_properties", "set_properties">>
  BY DEF SetProps, Command
<1> QED BY <1>1

(* The steps of the system: those of a request, and the others, which lose *)
(* nothing                                                                 *)
LEMMA OtherSteps ==
  ASSUME OInv, [ONext]_ovars,
         ~ \E r \in Requests : RequestStep(r) \/ ArriveOperation(r)
  PROVE  /\ UNCHANGED <<value, effects, doubtful, answer, result>>
         /\ IsAccount(account) /\ ~Loses(account, account') /\ IsAccount(account')
         /\ \A s \in Requests : pc'[s] = pc[s] \/ pc'[s] = "building"
         /\ \/ UNCHANGED call
            \/ \E c \in Calls : Moves(c) /\ UNCHANGED account
                                /\ (Start(c) \/ (call[c].stage # "new" /\ Stands(c)))
<1>0. IsAccount(account) /\ CallInv /\ IInv
  BY DEF OInv, ConsentInv
<1>1. CASE UNCHANGED ovars
  BY <1>0, <1>1, Same DEF ovars, vars
<1>2. ASSUME NEW c \in Calls,
             Start(c) \/ Approve(c) \/ Confirm(c) \/ LackKey(c) \/ Sign(c)
               \/ Send(c) \/ Conclude(c)
      PROVE  /\ UNCHANGED <<value, effects, doubtful, answer, result, account>>
             /\ \A s \in Requests : pc'[s] = pc[s] \/ pc'[s] = "building"
             /\ Moves(c) /\ (Start(c) \/ (call[c].stage # "new" /\ Stands(c)))
  <2>1. /\ UNCHANGED <<value, effects, doubtful, answer, result, account>>
        /\ UNCHANGED pc \/ \E r : pc' = [pc EXCEPT ![r] = "building"]
    BY <1>2 DEF Start, Approve, Confirm, LackKey, Sign, Send, Begin, Goto, Conclude, vars
  <2>2. DOMAIN pc = Requests
    BY <1>0 DEF IInv, Types
  <2>3. \A s \in Requests : pc'[s] = pc[s] \/ pc'[s] = "building"
    BY <2>1, <2>2
  <2> QED BY <1>0, <1>2, <2>1, <2>3, CallMoves
<1>3. CASE Lapse
  <2>1. IsAccount(account') /\ ~Loses(account, account')
    BY <1>0, <1>3, TimeLosesNothing DEF Lapse
  <2> QED BY <1>0, <1>3, <2>1 DEF Lapse, vars
<1>4. CASE \E c \in Calls :
             Start(c) \/ Approve(c) \/ Confirm(c) \/ LackKey(c) \/ Sign(c)
               \/ Send(c) \/ Conclude(c)
  <2>1. ~Loses(account, account)
    BY <1>0, Same
  <2>2. PICK c \in Calls :
          /\ UNCHANGED <<value, effects, doubtful, answer, result, account>>
          /\ \A s \in Requests : pc'[s] = pc[s] \/ pc'[s] = "building"
          /\ Moves(c) /\ (Start(c) \/ (call[c].stage # "new" /\ Stands(c)))
    BY <1>2, <1>4
  <2> QED BY <1>0, <2>1, <2>2
<1> QED BY <1>1, <1>3, <1>4 DEF ONext

(* In all of them a command stays what it is, what is over stays over, what has *)
(* begun has begun, and what is in doubt stays in doubt                         *)
LEMMA Onward ==
  ASSUME OInv, [ONext]_ovars
  PROVE  /\ \A c \in Calls :
              /\ call'[c].command = call[c].command
              /\ Over(c) => call'[c] = call[c]
              /\ call'[c].stage = "new" => call'[c] = call[c]
              /\ call[c].stage # "new" => Stands(c)
              /\ Start(c) \/ Stands(c)
         /\ \A s \in Requests : doubtful[s] => doubtful'[s]
         /\ \A c \in Calls : Certain(c)' => Certain(c)
<1> DEFINE Goes(c) == /\ call'[c].command = call[c].command
                      /\ Over(c) => call'[c] = call[c]
                      /\ call'[c].stage = "new" => call'[c] = call[c]
                      /\ call[c].stage # "new" => Stands(c)
                      /\ Start(c) \/ Stands(c)
<1>1. /\ \A c \in Calls : Goes(c)
      /\ \A s \in Requests : doubtful[s] => doubtful'[s]
  <2>1. ASSUME NEW r \in Requests, RequestStep(r) \/ ArriveOperation(r)
        PROVE  UNCHANGED call /\ \A s \in Requests : doubtful[s] => doubtful'[s]
    BY <2>1, Doings DEF OInv
  <2>2. ASSUME UNCHANGED call, NEW c \in Calls PROVE Goes(c)
    BY <2>2 DEF Stands
  <2>3. ASSUME NEW c \in Calls, Moves(c),
               Start(c) \/ (call[c].stage # "new" /\ Stands(c)),
               NEW d \in Calls
        PROVE  Goes(d)
    <3>1. CASE d = c
      BY <2>3, <3>1 DEF Moves, Over, Start
    <3>2. CASE d # c
      BY <2>3, <3>2 DEF Moves, Stands
    <3> QED BY <3>1, <3>2
  <2> HIDE DEF Goes
  <2> QED BY <2>1, <2>2, <2>3, OtherSteps
<1>2. \A c \in Calls : \A r \in {c} \X {1, 2} : r \in Requests
  BY OperationsAssumption
<1> HIDE DEF Goes
<1>3. \A c \in Calls : Certain(c)' => Certain(c)
  BY <1>1, <1>2 DEF Certain
<1> QED BY <1>1, <1>3 DEF Goes

(* No request of a call that is over, and not in doubt, does anything any more *)
LEMMA OverQuiet ==
  ASSUME OInv, NEW r \in Requests, Over(r[1]), Certain(r[1])
  PROVE  ~(RequestStep(r) \/ ArriveOperation(r))
<1>1. PICK c \in Calls, i \in {1, 2} : r = <<c, i>>
  BY OperationsAssumption
<1> DEFINE k == call[c]
<1>2. Ordered(c) /\ Truthful(c) /\ Consented(c) /\ k.stage = "over" /\ ~doubtful[r]
  BY <1>1 DEF OInv, CallInv, ConsentInv, Over, Certain
<1>3. pc[r] \in {"idle", "returned"}
  <2>1. CASE pc[r] = "idle"
    BY <2>1
  <2>2. CASE pc[r] # "idle"
    <3>1. i \in 1..Len(k.command.ops) /\ k.command.ops[i] # "generate_sas"
      BY <1>1, <1>2, <2>2 DEF Consented
    <3>2. k.at \in 1..Len(k.command.ops) /\ Len(k.command.ops) \in {1, 2}
      BY <1>2, InHand DEF OInv, Ordered
    <3>3. i < k.at => pc[r] = "returned"
      BY <1>1, <1>2, <3>1 DEF Ordered
    <3>4. ~(i > k.at)
      BY <1>1, <1>2, <2>2, <3>1 DEF Ordered
    <3>5. i = k.at => pc[r] \in {"idle", "returned"}
      BY <1>1, <1>2, <3>1 DEF Truthful, Operation
    <3> QED BY <3>2, <3>3, <3>4, <3>5
  <2> QED BY <2>1, <2>2
<1>4. strays[r] = 0
  BY <1>2 DEF OInv, IInv, Settled
<1> QED
  BY <1>3, <1>4 DEF RequestStep, ServeOperation, RefuseOperation, BreakOperation, SendStep,
     ArriveOperation, Serve, Refuse, Break, Unsent, Transmit, Return, BackOff, Retry, Arrive

(* A call that does not write over what c has written did not before *)
LEMMA StaysOutBefore ==
  ASSUME OInv, [ONext]_ovars, NEW c \in Calls, NEW e \in Calls, call[c].stage # "new",
         StaysOut(e, c)'
  PROVE  StaysOut(e, c)
<1>1. /\ call'[e].command = call[e].command
      /\ call'[e].stage = "new" => call'[e] = call[e]
      /\ call'[c].earlier = call[c].earlier
      /\ Certain(e)' => Certain(e)
  BY Onward DEF Stands
<1> QED BY <1>1 DEF StaysOut

LEMMA UndisturbedBefore ==
  ASSUME OInv, [ONext]_ovars, NEW c \in Calls, call[c].stage # "new",
         NEW D, Undisturbed(c, D)'
  PROVE  Undisturbed(c, D)
BY StaysOutBefore DEF Undisturbed

(* What was stored stays, if nothing is lost *)
LEMMA StoredStays ==
  ASSUME IsAccount(account), IsAccount(account'), ~Loses(account, account'), NEW c \in Calls,
         Stored(c), call'[c].arg = call[c].arg, call[c].arg \in {"type", "cache"}
  PROVE  Stored(c)'
BY DEF Stored, Loses, HasBlob

(* A request of a call that stays out loses nothing *)
LEMMA OutLosesNothing ==
  ASSUME OInv, NEW c \in Calls, NEW r \in Requests, RequestStep(r) \/ ArriveOperation(r),
         StaysOut(r[1], c), \A e \in Calls : Past(e)
  PROVE  IsAccount(account') /\ ~Loses(account, account')
<1>1. /\ r[1] \in Calls /\ r[2] \in 1..Len(call[r[1]].command.ops) /\ pc[r] # "idle"
      /\ OpOf(r) \in Harmless \cup Gated \cup {"copy_blob"}
      /\ Outcomes(r) = Perform(OpOf(r), r, account) /\ IsAccount(account)
  BY Begun, BegunOp DEF OInv, ConsentInv
<1>2. OpOf(r) \in Harmless
  <2>1. ~(r[1] \in call[c].earlier /\ Certain(r[1]))
    BY OverQuiet DEF Past
  <2>2. call[r[1]].stage # "new"
    <3>1. PICK d \in Calls, i \in {1, 2} : r = <<d, i>>
      BY OperationsAssumption
    <3>2. Ordered(d) /\ i \in 1..Len(call[d].command.ops) /\ call[d].at \in 1..Len(call[d].command.ops)
          /\ Len(call[d].command.ops) \in {1, 2}
      BY <1>1, <3>1, InHand DEF OInv, CallInv, Ordered
    <3>3. i < call[d].at => call[d].stage # "new"
      BY <3>2 DEF Past
    <3>4. ~(i > call[d].at)
      BY <1>1, <3>1, <3>2 DEF Ordered
    <3>5. i = call[d].at => call[d].stage # "new"
      BY <1>1, <3>1, <3>2 DEF Ordered
    <3> QED BY <3>1, <3>2, <3>3, <3>4, <3>5
  <2>3. OpOf(r) \notin Gated \cup {"copy_blob"}
    <3>1. r[2] \in DOMAIN call[r[1]].command.ops
      BY <1>1, InHand DEF OInv
    <3> QED BY <2>1, <2>2, <3>1 DEF StaysOut, OpOf
  <2> QED BY <1>1, <2>3
<1>3. Good(account, Outcomes(r))
  BY <1>1, <1>2, HarmlessPerform
<1>4. UNCHANGED account \/ (Outcomes(r).kind = "success" /\ account' = Outcomes(r).account)
  BY Doings DEF OInv
<1> QED BY <1>1, <1>3, <1>4, Same DEF Good, Sound, Harms

(* set-props writes what it has read, but for its own property *)
LEMMA SetPropsWrites ==
  ASSUME OInv, NEW c \in Calls, call[c].command = SetProps, Past(c), ReadWhole(c),
         NEW r, r = <<c, 2>>, pc[r] # "idle", Outcomes(r).kind = "success"
  PROVE  LET b == Outcomes(r).account
         IN  /\ Read(c) /\ HasBlob(b)
             /\ \A p \in {"type", "cache"} :
                  b.blob[p] = IF p = call[c].arg THEN r ELSE value[<<c, 1>>][p]
<1> DEFINE k == call[c]
           v == value[<<c, 1>>]
           a == account
<1>0. r \in Requests /\ r[1] = c /\ r[2] = 2 /\ <<r[1], 1>> = <<c, 1>> /\ IsAccount(account)
  BY OperationsAssumption DEF OInv, ConsentInv
<1>1. /\ k.at \in 1..Len(k.command.ops) /\ Len(k.command.ops) = 2
      /\ k.command.ops[2] = "set_properties" /\ Ordered(c)
  BY SetPropsMakes DEF OInv, CallInv, Ordered
<1>2. k.at = 2 /\ result[<<c, 1>>] = "ok" /\ k.stage # "new"
  <2>1. ~(2 > k.at)
    BY <1>1 DEF Ordered
  <2>2. k.at = 2 /\ 1 \in 1..2 /\ 1 < k.at
    BY <1>1, <2>1
  <2>3. result[<<c, 1>>] = "ok"
    BY <1>1, <2>2 DEF Ordered
  <2> QED BY <2>2, <2>3 DEF Past
<1>3. Read(c) /\ v = [type |-> v.type, cache |-> v.cache] /\ k.arg \in {"type", "cache"}
  BY <1>2 DEF Read, ReadWhole, Past
<1>4. PICK u : u = Update(r)
  OBVIOUS
<1>5. \A p \in {"type", "cache"} : u[p] = IF p = k.arg THEN r ELSE v[p]
  <2>1. u = [v EXCEPT ![k.arg] = r]
    BY <1>0, <1>4 DEF Update
  <2>2. DOMAIN v = {"type", "cache"}
    BY <1>3
  <2> QED BY <1>3, <2>1, <2>2
<1>6. Outcomes(r) = SetProperties(a, u)
  BY <1>0, <1>1, <1>4 DEF Outcomes, Perform
<1> DEFINE f == With(a, "type", u.type)
           g == With(f, "cache", u.cache)
<1>7. [a EXCEPT !.blob.type = u.type, !.blob.cache = u.cache] = g
  BY DEF With, BlobWith
<1>8. HasBlob(a) /\ Outcomes(r) = Done(g, Nothing)
  <2> HIDE DEF g
  <2> QED BY <1>6, <1>7 DEF SetProperties, OnBlob, Unleased, Refused
<1>9. IsBlob(a.blob)
  BY <1>0, <1>8 DEF IsAccount, HasBlob
<1>10. /\ f.blob = BlobWith(a.blob, "type", u.type) /\ IsAccount(f)
  BY <1>0, <1>9, PartSet, BlobSet DEF With, BlobParts
<1>11. IsBlob(f.blob) /\ f.blob.type = u.type
  BY <1>9, <1>10, PartSet DEF BlobParts
<1> HIDE DEF f
<1>12. g.blob = BlobWith(f.blob, "cache", u.cache)
  BY <1>10, <1>11, PartSet, BlobSet DEF With, BlobParts
<1>13. IsBlob(g.blob) /\ g.blob.type = u.type /\ g.blob.cache = u.cache
  BY <1>11, <1>12, PartSet DEF BlobParts
<1> HIDE DEF g
<1>14. HasBlob(g) /\ \A p \in {"type", "cache"} : g.blob[p] = u[p]
  BY <1>13, BlobThere DEF HasBlob
<1>15. Outcomes(r).account = g
  BY <1>8 DEF Done
<1> QED BY <1>3, <1>5, <1>14, <1>15

(* Reading the properties changes nothing and answers with both of them *)
LEMMA GetPropertiesIs ==
  ASSUME NEW a, GetProperties(a).kind = "success"
  PROVE  LET v == GetProperties(a).value
         IN  /\ v = [type |-> v.type, cache |-> v.cache]
             /\ v.type = a.blob.type /\ v.cache = a.blob.cache
             /\ HasBlob(a) /\ GetProperties(a).account = a
<1> DEFINE v == [type |-> a.blob.type, cache |-> a.blob.cache]
<1>1. GetProperties(a) = OnBlob(a, Done(a, v))
  BY DEF GetProperties
<1>2. HasBlob(a) /\ GetProperties(a) = Done(a, v)
  BY <1>1, Successes
<1> QED BY <1>2 DEF Done

LEMMA SetPropsReads ==
  ASSUME OInv, NEW c \in Calls, call[c].command = SetProps,
         NEW r, r = <<c, 1>>, Outcomes(r).kind = "success"
  PROVE  LET v == Outcomes(r).value
         IN  /\ v = [type |-> v.type, cache |-> v.cache]
             /\ v.type = account.blob.type /\ v.cache = account.blob.cache
             /\ HasBlob(account) /\ Outcomes(r).account = account
<1>1. call[r[1]].command.ops[r[2]] = "get_properties"
  BY SetPropsMakes
<1>2. Outcomes(r) = GetProperties(account)
  BY <1>1 DEF Outcomes, Perform
<1> QED BY <1>2, GetPropertiesIs

(* The properties count as read once the answer is there, and then they are kept *)
LEMMA ReadStep ==
  ASSUME OInv, NEW c \in Calls, NEW r \in Requests, RequestStep(r) \/ ArriveOperation(r),
         Read(c)'
  PROVE  \/ Read(c) /\ value'[<<c, 1>>] = value[<<c, 1>>]
         \/ /\ r = <<c, 1>> /\ Outcomes(r).kind = "success"
            /\ value'[r] = Outcomes(r).value /\ account' = Outcomes(r).account
<1> DEFINE s == <<c, 1>>
<1>0. /\ s \in Requests /\ DOMAIN pc = Requests /\ DOMAIN result = Requests
      /\ DOMAIN answer = Requests /\ DOMAIN value = Requests
      /\ answer[s] \in Outcome /\ Founded(s) /\ ResultsReturned
  BY OperationsAssumption DEF OInv, IInv, Types, MarkInv, CallInv
<1>1. CASE r # s
  <2>1. pc'[s] = pc[s] /\ result'[s] = result[s]
    BY <1>0, <1>1, Begun, RequestMoves DEF OInv
  <2>2. answer'[s] = answer[s]
    <3>1. UNCHANGED answer \/ \E n : answer' = [answer EXCEPT ![r] = n]
      BY DEF RequestStep, ServeOperation, RefuseOperation, BreakOperation, SendStep,
         ArriveOperation, Serve, Refuse, Break, Unsent, Transmit, Return, BackOff, Retry,
         Arrive, EndAttempt
    <3> QED BY <1>0, <1>1, <3>1
  <2>3. value'[s] = value[s]
    BY <1>0, <1>1, Doings DEF OInv
  <2> QED BY <2>1, <2>2, <2>3 DEF Read
<1>2. CASE r = s
  <2>1. CASE ServeOperation(r)
    <3>1. /\ pc'[r] = "answered" /\ result' = result /\ pc[r] = "sent"
          /\ Outcomes(r).kind = "success" /\ account' = Outcomes(r).account
          /\ value' = [value EXCEPT ![r] = IF answer'[r].kind = "success"
                                           THEN Outcomes(r).value ELSE @]
      BY <1>0, <2>1 DEF ServeOperation, Serve, EndAttempt, Goto
    <3>2. result[r] # "ok"
      BY <3>1 DEF OInv, CallInv, ResultsReturned
    <3>3. answer'[r].kind = "success"
      BY <1>2, <3>1, <3>2 DEF Read
    <3> QED BY <1>0, <1>2, <3>1, <3>3
  <2>2. CASE RefuseOperation(r) \/ BreakOperation(r) \/ Unsent(r)
    <3>1. /\ pc[r] \in {"sent", "building"} /\ result' = result
          /\ \E kind, pause : kind # "success" /\ answer' = [answer EXCEPT ![r] = [kind |-> kind, pause |-> pause]]
      BY <2>2 DEF RefuseOperation, BreakOperation, Refuse, Break, Unsent, EndAttempt, Refusals
    <3>2. result[r] # "ok" /\ answer'[r].kind # "success"
      BY <1>0, <1>2, <3>1 DEF ResultsReturned
    <3> QED BY <1>2, <3>1, <3>2 DEF Read
  <2>3. CASE (Transmit(r) \/ BackOff(r) \/ Retry(r)) /\ UNCHANGED value
    <3>1. pc'[r] \in {"sent", "waiting", "building"} /\ result' = result
      BY <1>0, <2>3 DEF Transmit, BackOff, Retry, Goto
    <3> QED BY <1>2, <2>3, <3>1 DEF Read
  <2>4. CASE Return(r) /\ UNCHANGED value
    <3>1. /\ pc[r] = "answered" /\ result'[r] = ErrorOf(answer[r].kind)
          /\ pc'[r] = "returned"
      BY <1>0, <2>4 DEF Return, Goto
    <3>2. result'[r] = "ok"
      BY <1>2, <3>1 DEF Read
    <3>3. answer[r].kind = "success"
      BY <1>0, <1>2, <3>1, <3>2, Classified DEF Founded
    <3> QED BY <1>2, <2>4, <3>1, <3>3 DEF Read
  <2>5. CASE ArriveOperation(r)
    BY <1>2, <2>5 DEF ArriveOperation, Arrive, Read
  <2> QED BY <2>1, <2>2, <2>3, <2>4, <2>5 DEF RequestStep, SendStep
<1> QED BY <1>1, <1>2

(* A command is given its argument, and remembers who was over *)
LEMMA StartKnows ==
  ASSUME CallInv, NEW c \in Calls, Start(c)
  PROVE  /\ call[c].stage = "new" /\ call'[c].stage # "new" /\ UNCHANGED <<vars, value, account>>
         /\ call'[c].earlier = {d \in Calls : Over(d)}
         /\ call[c].command = SetProps => call'[c].arg \in {"type", "cache"}
<1>1. DOMAIN call = Calls /\ IsCall(call[c])
  BY DEF CallInv, Ordered
<1> DEFINE stage == IF call[c].command.asks THEN "asking" ELSE "ready"
           before == {d \in Calls : Over(d)}
<1>2. PICK arg \in Arguments(c) :
        call' = [call EXCEPT ![c].stage = stage, ![c].arg = arg, ![c].earlier = before]
  BY DEF Start
<1>3. call[c].command = SetProps => arg \in {"type", "cache"}
  <2>1. ASSUME NEW op, call[c].command = SetProps PROVE call[c].command.ops # <<op>>
    <3>1. Len(call[c].command.ops) = 2 /\ Len(<<op>>) = 1
      BY <2>1, SetPropsMakes
    <3> QED BY <3>1
  <2> QED BY <1>2, <2>1 DEF Arguments
<1> HIDE DEF before
<1> DEFINE k == [call[c] EXCEPT !.stage = stage, !.arg = arg, !.earlier = before]
<1>4. call'[c] = k
  BY <1>1, <1>2
<1>5. k.arg = arg /\ k.earlier = before /\ k.stage = stage
  BY <1>1 DEF IsCall
<1> HIDE DEF k
<1> QED BY <1>3, <1>4, <1>5 DEF Start, before

(* What has begun or has been carried out belongs to a call that has started *)
LEMMA NewIdle ==
  ASSUME OInv, NEW c \in Calls, Past(c), NEW i \in {1, 2},
         pc[<<c, i>>] # "idle" \/ effects[<<c, i>>] > 0
  PROVE  call[c].stage # "new" /\ pc[<<c, i>>] # "idle"
<1> DEFINE r == <<c, i>>
<1>1. /\ r \in Requests /\ Ordered(c) /\ Consented(c) /\ Counted(r)
      /\ effects[r] \in Nat /\ strays[r] \in Nat /\ attempt[r] \in Nat
  BY OperationsAssumption DEF OInv, CallInv, ConsentInv, IInv, Types
<1>2. pc[r] # "idle"
  BY <1>1 DEF Counted
<1>3. i \in 1..Len(call[c].command.ops)
  BY <1>1, <1>2 DEF Consented
<1>4. ~(i > call[c].at) /\ (i = call[c].at => call[c].stage # "new")
  BY <1>1, <1>2, <1>3 DEF Ordered
<1>5. call[c].stage # "new"
  BY <1>4 DEF Past
<1> QED BY <1>2, <1>5

(* Without a step of a request nothing is read *)
LEMMA StillRead ==
  ASSUME NEW c \in Calls, UNCHANGED <<value, answer, result>>,
         \A s \in Requests : pc'[s] = pc[s] \/ pc'[s] = "building", Read(c)'
  PROVE  Read(c)
<1>1. <<c, 1>> \in Requests
  BY OperationsAssumption
<1> QED BY <1>1 DEF Read

(* set-props reads before it writes *)
LEMMA ReadLosesNothing ==
  ASSUME OInv, NEW c \in Calls, call[c].command = SetProps,
         NEW r \in Requests, r = <<c, 1>>, RequestStep(r) \/ ArriveOperation(r)
  PROVE  IsAccount(account) /\ account' = account /\ ~Loses(account, account')
<1>1. IsAccount(account)
  BY DEF OInv, ConsentInv
<1>2. account' = account
  BY Doings, SetPropsReads DEF OInv
<1> QED BY <1>1, <1>2, Same

LEMMA PastKeeps ==
  ASSUME OInv, PropsInv, [ONext]_ovars, NEW c \in Calls
  PROVE  Past(c)'
<1>1. Past(c) /\ \A d \in Calls : Over(d) => Over(d)'
  BY Onward DEF PropsInv, Over
<1>2. /\ call'[c].command = call[c].command
      /\ call'[c].stage = "new" => call'[c] = call[c]
      /\ Start(c) \/ Stands(c)
      /\ call[c].stage # "new" => Stands(c)
  BY Onward
<1>3. CASE Start(c)
  BY <1>1, <1>2, <1>3, StartKnows DEF Past, OInv
<1>4. CASE ~Start(c) /\ call[c].stage # "new"
  BY <1>1, <1>2, <1>4 DEF Past, Stands
<1>5. CASE ~Start(c) /\ call[c].stage = "new"
  <2>1. call'[c] = call[c]
    <3>1. CASE \E r \in Requests : RequestStep(r) \/ ArriveOperation(r)
      BY <3>1, Doings DEF OInv
    <3>2. CASE ~ \E r \in Requests : RequestStep(r) \/ ArriveOperation(r)
      BY <1>5, <3>2, OtherSteps DEF Moves
    <3> QED BY <3>1, <3>2
  <2> QED BY <1>1, <1>5, <2>1 DEF Past, Over
<1> QED BY <1>3, <1>4, <1>5

LEMMA ReadWholeKeeps ==
  ASSUME OInv, PropsInv, [ONext]_ovars, NEW c \in Calls
  PROVE  ReadWhole(c)'
<1> SUFFICES ASSUME call'[c].command = SetProps, Read(c)'
             PROVE  LET v == value'[<<c, 1>>] IN v = [type |-> v.type, cache |-> v.cache]
  BY DEF ReadWhole
<1>1. ReadWhole(c) /\ call[c].command = SetProps
  BY Onward DEF PropsInv
<1>2. CASE \E r \in Requests : RequestStep(r) \/ ArriveOperation(r)
  <2>1. PICK r \in Requests : RequestStep(r) \/ ArriveOperation(r)
    BY <1>2
  <2>2. CASE Read(c) /\ value'[<<c, 1>>] = value[<<c, 1>>]
    BY <1>1, <2>2 DEF ReadWhole
  <2>3. CASE r = <<c, 1>> /\ Outcomes(r).kind = "success" /\ value'[r] = Outcomes(r).value
    BY <1>1, <2>3, SetPropsReads
  <2> QED BY <2>1, <2>2, <2>3, ReadStep
<1>3. CASE ~ \E r \in Requests : RequestStep(r) \/ ArriveOperation(r)
  <2>1. Read(c) /\ value' = value
    BY <1>3, OtherSteps, StillRead
  <2> QED BY <1>1, <2>1 DEF ReadWhole
<1> QED BY <1>2, <1>3

(* The property c sets, once set, is there *)
LEMMA StoredKeeps ==
  ASSUME OInv, PropsInv, [ONext]_ovars, NEW c \in Calls
  PROVE  StoredInv(c)'
<1> SUFFICES ASSUME Wrote(c)', Undisturbed(c, {c})' PROVE Stored(c)'
  BY DEF StoredInv
<1> DEFINE w == <<c, 2>>
<1>0. /\ Past(c) /\ ReadWhole(c) /\ StoredInv(c) /\ \A e \in Calls : Past(e)
      /\ w \in Requests /\ <<c, 1>> \in Requests /\ DOMAIN effects = Requests
      /\ effects[w] \in Nat
  BY OperationsAssumption DEF PropsInv, OInv, IInv, Types
<1>1. call[c].command = SetProps /\ Certain(c) /\ ~doubtful[w] /\ ~doubtful'[w]
  BY Onward DEF Wrote, Certain
<1>2. ASSUME effects[w] = 1
      PROVE  Stored(c) /\ call'[c].arg = call[c].arg /\ call[c].arg \in {"type", "cache"}
             /\ \A e \in Calls \ {c} : StaysOut(e, c)
  <2>1. call[c].stage # "new"
    BY <1>0, <1>2, NewIdle
  <2>2. Undisturbed(c, {c})
    BY <2>1, UndisturbedBefore
  <2> QED BY <1>0, <1>1, <1>2, <2>1, <2>2, Onward DEF StoredInv, Wrote, Stands, Past, Undisturbed
<1>3. CASE \E r \in Requests : RequestStep(r) \/ ArriveOperation(r)
  <2>1. PICK r \in Requests : RequestStep(r) \/ ArriveOperation(r)
    BY <1>3
  <2>2. PICK d \in Calls, i \in {1, 2} : r = <<d, i>>
    BY OperationsAssumption
  <2>3. /\ UNCHANGED call /\ pc[r] # "idle" /\ IsAccount(account)
        /\ effects' = effects \/ effects' = [effects EXCEPT ![r] = @ + 1]
    BY <2>1, Doings, Begun DEF OInv, ConsentInv
  <2>4. CASE r = w
    <3>1. effects'[w] = 1
      BY DEF Wrote
    <3>2. CASE effects[w] = 1
      <4>1. effects' = effects
        BY <1>0, <2>3, <2>4, <3>1, <3>2
      <4>2. UNCHANGED account
        BY <1>0, <2>1, <2>4, <3>1, <3>2, Doings DEF OInv
      <4> QED BY <1>2, <2>3, <3>2, <4>2 DEF Stored
    <3>3. CASE effects[w] # 1
      <4>1. Outcomes(r).kind = "success" /\ account' = Outcomes(r).account
        BY <2>1, <2>4, <3>1, <3>3, Doings DEF OInv
      <4>2. HasBlob(account') /\ account'.blob[call[c].arg] = r
        <5>1. call[c].stage # "new"
          BY <1>0, <2>3, <2>4, NewIdle
        <5>2. call[c].arg \in {"type", "cache"}
          BY <1>0, <1>1, <5>1 DEF Past
        <5> QED BY <1>0, <1>1, <2>3, <2>4, <4>1, <5>2, SetPropsWrites
      <4> QED BY <2>3, <2>4, <4>2 DEF Stored, HasBlob
    <3> QED BY <3>2, <3>3
  <2>5. CASE r # w
    <3>1. effects[w] = 1
      BY <1>0, <2>3, <2>5 DEF Wrote
    <3>2. IsAccount(account') /\ ~Loses(account, account')
      <4>1. CASE d = c
        BY <1>1, <2>1, <2>2, <2>3, <2>5, <4>1, ReadLosesNothing
      <4>2. CASE d # c
        BY <1>0, <1>2, <2>1, <2>2, <3>1, <4>2, OutLosesNothing
      <4> QED BY <4>1, <4>2
    <3> QED BY <1>2, <2>3, <3>1, <3>2, StoredStays
  <2> QED BY <2>4, <2>5
<1>4. CASE ~ \E r \in Requests : RequestStep(r) \/ ArriveOperation(r)
  <2>1. effects' = effects /\ IsAccount(account) /\ IsAccount(account') /\ ~Loses(account, account')
    BY <1>4, OtherSteps
  <2>2. effects[w] = 1
    BY <2>1 DEF Wrote
  <2> QED BY <1>2, <2>1, <2>2, StoredStays
<1> QED BY <1>3, <1>4

(* What d has read is what c had set, and d leaves it as it is *)
LEMMA FollowedKeeps ==
  ASSUME OInv, PropsInv, [ONext]_ovars, NEW c \in Calls, NEW d \in Calls
  PROVE  FollowedInv(c, d)'
<1> DEFINE w == <<c, 2>>
           s == <<d, 1>>
<1> SUFFICES ASSUME Follows(d, c)'
             PROVE  Stored(c)' /\ (Read(d)' => value'[s][call'[c].arg] = w)
  BY DEF FollowedInv
<1>0. /\ Past(c) /\ Past(d) /\ StoredInv(c) /\ FollowedInv(c, d) /\ \A e \in Calls : Past(e)
      /\ ReadWhole(d) /\ IsAccount(account)
      /\ w \in Requests /\ s \in Requests /\ DOMAIN effects = Requests
      /\ effects[w] \in Nat
  BY OperationsAssumption DEF PropsInv, OInv, ConsentInv, IInv, Types
<1>1. /\ call[c].command = SetProps /\ call[d].command = SetProps
      /\ Certain(c) /\ effects'[w] = 1 /\ call'[c].arg # call'[d].arg
  BY Onward DEF Follows, Wrote
<1>2. Over(c)
  <2>1. Past(d)' /\ c \in call'[d].earlier
    BY PastKeeps DEF Follows
  <2>2. CASE Start(d)
    BY <2>1, <2>2, StartKnows DEF OInv
  <2>3. CASE ~Start(d)
    <3>1. c \in call[d].earlier
      BY <2>1, <2>3, Onward DEF Stands
    <3> QED BY <1>0, <3>1 DEF Past
  <2> QED BY <2>2, <2>3
<1>3. /\ call'[c] = call[c] /\ call[c].stage # "new" /\ call[c].arg \in {"type", "cache"}
      /\ ~(\E r \in Requests : r[1] = c /\ (RequestStep(r) \/ ArriveOperation(r)))
  BY <1>0, <1>1, <1>2, Onward, OverQuiet DEF Over, Past
<1>4. effects[w] = 1
  <2>1. CASE \E r \in Requests : RequestStep(r) \/ ArriveOperation(r)
    <3>1. PICK r \in Requests : RequestStep(r) \/ ArriveOperation(r)
      BY <2>1
    <3>2. r # w
      BY <1>3, <3>1
    <3> QED BY <1>0, <1>1, <3>1, <3>2, Doings DEF OInv
  <2>2. CASE ~ \E r \in Requests : RequestStep(r) \/ ArriveOperation(r)
    BY <1>1, <2>2, OtherSteps
  <2> QED BY <2>1, <2>2
<1>5. Undisturbed(c, {c, d})
  BY <1>3, UndisturbedBefore DEF Follows
<1>6. CASE Start(d)
  <2>1. call[d].stage = "new" /\ UNCHANGED <<vars, value, account>>
    BY <1>6, StartKnows DEF OInv
  <2>2. Undisturbed(c, {c})
    BY <1>5, <2>1 DEF Undisturbed, StaysOut
  <2>3. Stored(c)
    BY <1>0, <1>1, <1>4, <2>2 DEF StoredInv, Wrote
  <2>4. pc[s] = "idle" /\ result[s] # "ok"
    <3>1. pc[s] = "idle"
      BY <1>0, <2>1, NewIdle
    <3> QED BY <1>0, <3>1 DEF OInv, CallInv, ResultsReturned
  <2>5. ~Read(d)'
    BY <2>1, <2>4 DEF Read, vars
  <2> QED BY <1>3, <2>1, <2>3, <2>5 DEF Stored, HasBlob
<1>7. CASE ~Start(d)
  <2>1. /\ c \in call[d].earlier /\ call'[d].arg = call[d].arg /\ call[d].stage # "new"
    BY <1>0, <1>7, Onward DEF Follows, Stands, Past
  <2>2. Follows(d, c)
    BY <1>1, <1>3, <1>4, <1>5, <2>1 DEF Follows, Wrote
  <2>3. Stored(c) /\ (Read(d) => value[s][call[c].arg] = w)
    BY <1>0, <2>2 DEF FollowedInv
  <2>4. call[c].arg # call[d].arg
    BY <2>2 DEF Follows
  <2>5. CASE ~ \E r \in Requests : RequestStep(r) \/ ArriveOperation(r)
    <3>1. /\ value' = value /\ IsAccount(account') /\ ~Loses(account, account')
          /\ Read(d)' => Read(d)
      BY <2>5, OtherSteps, StillRead
    <3> QED BY <1>0, <1>3, <2>3, <3>1, StoredStays
  <2>6. CASE \E r \in Requests : RequestStep(r) \/ ArriveOperation(r)
    <3>1. PICK r \in Requests : RequestStep(r) \/ ArriveOperation(r)
      BY <2>6
    <3>2. PICK e \in Calls, i \in {1, 2} : r = <<e, i>>
      BY OperationsAssumption
    <3>3. /\ UNCHANGED call /\ pc[r] # "idle" /\ e # c
          /\ UNCHANGED account
             \/ (Outcomes(r).kind = "success" /\ account' = Outcomes(r).account)
      BY <1>3, <3>1, <3>2, Doings, Begun DEF OInv
    <3>4. Read(d)' => value'[s][call[c].arg] = w
      <4>1. CASE Read(d) /\ value'[s] = value[s]
        BY <2>3, <4>1
      <4>2. CASE r = s /\ Outcomes(r).kind = "success" /\ value'[r] = Outcomes(r).value
        <5>1. account.blob[call[c].arg] = w
          BY <2>3 DEF Stored
        <5>2. value'[r].type = account.blob.type /\ value'[r].cache = account.blob.cache
          BY <1>1, <4>2, SetPropsReads
        <5> QED BY <1>3, <4>2, <5>1, <5>2
      <4> QED BY <3>1, <4>1, <4>2, ReadStep
    <3>5. CASE r = <<d, 2>>
      <4>1. CASE UNCHANGED account
        BY <1>3, <2>3, <3>3, <3>4, <4>1 DEF Stored, HasBlob
      <4>2. CASE Outcomes(r).kind = "success" /\ account' = Outcomes(r).account
        <5>1. /\ Read(d) /\ HasBlob(account')
              /\ \A p \in {"type", "cache"} :
                   account'.blob[p] = IF p = call[d].arg THEN r ELSE value[s][p]
          BY <1>0, <1>1, <3>3, <3>5, <4>2, SetPropsWrites
        <5>2. account'.blob[call[c].arg] = w
          BY <1>3, <2>3, <2>4, <5>1
        <5> QED BY <1>3, <3>4, <5>1, <5>2 DEF Stored, HasBlob
      <4> QED BY <3>3, <4>1, <4>2
    <3>6. CASE r # <<d, 2>>
      <4>1. IsAccount(account') /\ ~Loses(account, account')
        <5>1. CASE e = d
          BY <1>1, <3>1, <3>2, <3>6, <5>1, ReadLosesNothing
        <5>2. CASE e # d
          BY <1>0, <1>5, <3>1, <3>2, <3>3, <5>2, OutLosesNothing DEF Undisturbed
        <5> QED BY <5>1, <5>2
      <4> QED BY <1>0, <1>3, <2>3, <3>4, <4>1, StoredStays
    <3> QED BY <3>5, <3>6
  <2> QED BY <2>5, <2>6
<1> QED BY <1>6, <1>7

LEMMA PropsInvariance == OSpec => [](OInv /\ PropsInv)
<1>1. OInit => PropsInv
  BY PropsBegin
<1>2. OInv /\ PropsInv /\ [ONext]_ovars => PropsInv'
  <2> SUFFICES ASSUME OInv, PropsInv, [ONext]_ovars, NEW c \in Calls
               PROVE  /\ Past(c)' /\ ReadWhole(c)' /\ StoredInv(c)'
                      /\ \A d \in Calls : FollowedInv(c, d)'
    BY DEF PropsInv
  <2> QED BY PastKeeps, ReadWholeKeeps, StoredKeeps, FollowedKeeps
<1>3. OSpec => []OInv
  BY MarksInvariance DEF OInv
<1> QED BY <1>1, <1>2, <1>3, PTL DEF OSpec

(* Of two set-props one after the other the second leaves the property the    *)
(* first one set, unless a third command may write to the blob: set-props     *)
(* writes back what it has read, and it has read what the first one set.      *)
THEOREM OSpecPropertiesPreserved == OSpec => []PropertiesPreserved
<1>1. OInv /\ PropsInv => PropertiesPreserved
  <2> SUFFICES ASSUME OInv, PropsInv, NEW c \in Calls, NEW d \in Calls,
                      call[c].command = SetProps, call[d].command = SetProps,
                      c \in call[d].earlier, Certain(c), call[c].outcome = "ok",
                      call[c].arg # call[d].arg,
                      \A e \in Calls \ {c, d} : StaysOut(e, c)
               PROVE  account.blob[call[c].arg] = <<c, 2>>
    BY DEF PropertiesPreserved
  <2>1. Over(c)
    BY DEF PropsInv, Past
  <2>2. effects[<<c, 2>>] = 1
    <3>1. Len(call[c].command.ops) = 2 /\ 2 \in DOMAIN call[c].command.ops
      BY SetPropsMakes, InHand DEF OInv
    <3>2. Operation(c) # "generate_sas"
      <4>1. call[c].at \in 1..2
        BY <3>1 DEF OInv, CallInv, Ordered
      <4> QED BY <4>1, SetPropsMakes DEF Operation
    <3> QED BY <2>1, <3>1, <3>2, OutcomesExact DEF OInv, OutcomeIsExact
  <2>3. Follows(d, c)
    BY <2>2 DEF Follows, Wrote, Undisturbed
  <2> QED BY <2>3 DEF PropsInv, FollowedInv, Stored
<1> QED BY <1>1, PropsInvariance, PTL
=============================================================================
