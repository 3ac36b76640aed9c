----------------------------- MODULE TokensProofs -----------------------------
(***************************************************************************)
(* For any lives, pauses and delays and any number of logins and callers:  *)
(* the tokens handed out are good, and an approval in time is honoured.    *)
(***************************************************************************)
EXTENDS Tokens, TLAPS

(* expires_at is later than the token's real end by no more than the answer was *)
Close(b) ==
  /\ b.real <= b.claimed /\ b.claimed <= b.real + MaxDelay
  /\ b.real <= clock + Lifetime

OnTime(x) ==
  /\ Waiting(x) => x.since <= clock /\ clock <= x.since + MaxDelay
  /\ x.pc = "answered" => x.since <= x.issued /\ x.issued <= clock

CallInv(c) == OnTime(call[c]) /\ call[c].pc # "cheated"

(* A login waits for its answer no longer than MaxDelay, and polls on time *)
Punctual(x) ==
  /\ OnTime(x)
  /\ x.pc = "finishing" => x.issued <= clock /\ clock <= x.issued + MaxDelay
  /\ x.pc = "sleeping" => clock <= x.wake /\ x.wake <= clock + 2 * Interval
  /\ x.pc = "idle" => x.approved = Never
  /\ x.pc = "listening" => x.kind # "device"

(* When the user can have approved the code, by where its login stands: since *)
(* the poll before, for which it was still pending                            *)
Approvable(x) ==
  /\ x.pc \in {"polling", "sleeping", "sent", "answered"} => x.expiry <= x.deadline
  /\ x.pc = "asking" => x.approved = Never
  /\ x.approved # Never =>
       /\ x.pc = "polling"  => x.approved >= clock - 2 * Interval - MaxDelay
       /\ x.pc = "sleeping" => x.approved >= x.wake - 2 * Interval - MaxDelay
       /\ x.pc = "sent"     => x.approved >= x.since - 2 * Interval - MaxDelay
       /\ x.pc = "answered" /\ x.verdict \in {"pending", "slow_down"} => x.approved >= x.since
       /\ x.pc = "answered" /\ x.verdict = "refused" =>
            x.issued >= x.expiry /\ x.approved >= x.since - 2 * Interval - MaxDelay

LoginInv(l) ==
  Punctual(login[l]) /\ (login[l].kind = "device" => Approvable(login[l]))

IInv ==
  /\ TypeOK
  /\ Close(connected) /\ Close(cred)
  /\ \A c \in Callers : CallInv(c)
  /\ \A l \in Logins : LoginInv(l)

-----------------------------------------------------------------------------
LEMMA Numbers ==
  /\ Lead \in Int /\ Lifetime \in Int /\ CodeLifetime \in Int /\ ListenTime \in Int
  /\ MaxDelay \in Int /\ MaxDelay >= 0 /\ Interval \in Int /\ Interval > 0
  /\ MaxDelay <= Lead /\ MaxDelay < Lifetime
  /\ Never \notin Int
BY TokensAssumption

LEMMA Values ==
  /\ {"idle", "asking", "polling", "sleeping", "listening", "sent", "answered", "finishing"}
       \subseteq Places
  /\ Endings \subseteq Places
  /\ {"device", "browser", "cached"} \subseteq Kinds
  /\ {"none", "token", "pending", "slow_down", "refused"} \subseteq Answers
  /\ {"none", "callback", "denial", "other"} \subseteq Connections
  /\ Int \subseteq Times /\ Never \in Times
BY DEF Places, Kinds, Answers, Connections, Times

LEMMA Moments == \A t \in Times : t # Never => t \in Int
BY DEF Times

(* The values that the steps give the fields of a login *)
LEMMA Fields ==
  ASSUME NEW x \in Login, NEW p \in Places, NEW k \in Kinds, NEW v \in Answers,
         NEW s \in Int, NEW t \in Int, NEW u \in Int
  PROVE  /\ [x EXCEPT !.kind = k, !.pc = p, !.deadline = t] \in Login
         /\ [x EXCEPT !.pc = p, !.since = s, !.deadline = t, !.expiry = u] \in Login
         /\ [x EXCEPT !.pc = p, !.issued = t, !.verdict = v] \in Login
         /\ [x EXCEPT !.pc = p, !.since = s, !.issued = u, !.verdict = v, !.wake = t] \in Login
         /\ [x EXCEPT !.pc = p, !.wake = t] \in Login
BY DEF Login

LEMMA CallFields ==
  ASSUME NEW x \in Call, NEW t \in Int
  PROVE  /\ [x EXCEPT !.pc = "sent", !.since = t] \in Call
         /\ [x EXCEPT !.pc = "sent", !.since = t].pc = "sent"
         /\ [x EXCEPT !.pc = "sent", !.since = t].since = t
         /\ [x EXCEPT !.pc = "answered", !.issued = t] \in Call
BY DEF Call

LEMMA NoCallType == NoCall \in Call
<1>1. 0 \in Int
  OBVIOUS
<1> QED BY <1>1, Zenon DEF Call, NoCall

LEMMA NoLoginType == NoLogin \in Login
<1>1. 0 \in Int
  OBVIOUS
<1>2. /\ "idle" \in Places /\ "device" \in Kinds /\ "none" \in Answers
      /\ "none" \in Connections /\ Never \in Times
  BY Values
<1> QED BY <1>1, <1>2, Zenon DEF Login, NoLogin

LEMMA InitIInv == Init => IInv
BY Numbers, Values DEF Init, IInv, TypeOK, Bundle, NoBundle, Login, NoLogin, Call, NoCall, Close,
   CallInv, OnTime, LoginInv, Punctual, Approvable, Waiting, InFlight

LEMMA TickIInv == IInv /\ Tick => IInv'
<1> SUFFICES ASSUME IInv, Tick PROVE IInv'
  OBVIOUS
<1> USE Numbers, Moments DEF IInv, TypeOK
<1>1. /\ clock' = clock + 1 /\ login' = login /\ connected' = connected
      /\ cred' = cred /\ call' = call /\ clock \in Int
  BY DEF Tick, loginVars, tokenVars
<1>2. TypeOK'
  BY <1>1
<1>3. Close(connected)' /\ Close(cred)'
  BY <1>1 DEF Close, Bundle
<1>4. ASSUME NEW c \in Callers PROVE CallInv(c)'
  <2>1. Waiting(call[c]) => clock < call[c].since + MaxDelay
    BY DEF Tick
  <2>2. call[c] \in Call /\ CallInv(c)
    OBVIOUS
  <2> QED BY <1>1, <2>1, <2>2 DEF CallInv, OnTime, Waiting, InFlight, Call
<1>5. ASSUME NEW l \in Logins PROVE LoginInv(l)'
  <2>1. /\ Waiting(login[l]) => clock < login[l].since + MaxDelay
        /\ login[l].pc = "sleeping" => clock < login[l].wake
        /\ login[l].pc \notin {"polling", "finishing"}
    BY DEF Tick
  <2>2. login[l] \in Login /\ LoginInv(l)
    OBVIOUS
  <2>3. Punctual(login[l])'
    BY <1>1, <2>1, <2>2 DEF LoginInv, Punctual, OnTime, Waiting, InFlight, Login
  <2>4. login[l].kind = "device" => Approvable(login[l])'
    BY <1>1, <2>1, <2>2 DEF LoginInv, Approvable, Login
  <2> QED BY <1>1, <2>3, <2>4 DEF LoginInv
<1> QED BY <1>2, <1>3, <1>4, <1>5 DEF IInv

(* What is left to show of a step of a login that changes no bundle *)
LEMMA SetIInv ==
  ASSUME IInv, NEW l \in Logins, NEW x \in Login, Set(l, x), connected' = connected,
         Punctual(x), x.kind = "device" => Approvable(x)
  PROVE  IInv'
<1> USE DEF IInv, TypeOK
<1>1. /\ login' = [login EXCEPT ![l] = x] /\ clock' = clock /\ cred' = cred /\ call' = call
  BY DEF Set, tokenVars
<1>2. TypeOK'
  BY <1>1
<1>3. Close(connected)' /\ Close(cred)'
  BY <1>1 DEF Close
<1>4. ASSUME NEW c \in Callers PROVE CallInv(c)'
  BY <1>1 DEF CallInv, OnTime, Waiting, InFlight
<1>5. ASSUME NEW m \in Logins PROVE LoginInv(m)'
  <2>1. CASE m = l
    BY <1>1, <2>1 DEF LoginInv, Punctual, Approvable, OnTime, Waiting, InFlight
  <2>2. CASE m # l
    <3>1. login'[m] = login[m] /\ LoginInv(m)
      BY <1>1, <2>2
    <3> QED BY <1>1, <3>1 DEF LoginInv, Punctual, Approvable, OnTime, Waiting, InFlight
  <2> QED BY <2>1, <2>2
<1> QED BY <1>2, <1>3, <1>4, <1>5 DEF IInv

LEMMA EndIInv ==
  ASSUME IInv, NEW l \in Logins, NEW e \in Endings, End(l, e)
  PROVE  IInv'
<1> DEFINE x == [NoLogin EXCEPT !.pc = e]
<1>1. x \in Login
  BY Values DEF NoLogin, Login
<1>2. Punctual(x) /\ Approvable(x)
  BY DEF NoLogin, Endings, Punctual, Approvable, OnTime, Waiting, InFlight
<1>3. Set(l, x) /\ connected' = connected
  BY DEF End
<1> QED BY <1>1, <1>2, <1>3, SetIInv

LEMMA LoginIInv ==
  ASSUME IInv, NEW l \in Logins,
         \/ Begin(l) \/ Approve(l) \/ Redirect(l)
         \/ \E kind \in {"denial", "other"} : Connect(l, kind)
         \/ LoginStep(l)
  PROVE  IInv'
<1> DEFINE x == login[l]
<1>0. x \in Login /\ clock \in Int
  BY DEF IInv, TypeOK
<1>a. LoginInv(l)
  BY DEF IInv
<1>1. CASE Begin(l)
  <2>1. CASE Set(l, [x EXCEPT !.kind = "cached", !.pc = "sent", !.since = clock])
    <3> DEFINE y == [x EXCEPT !.kind = "cached", !.pc = "sent", !.since = clock]
    <3>1. y \in Login /\ Punctual(y) /\ y.kind # "device"
      <4>1. y \in Login
        BY <1>0, Values, Numbers DEF Login
      <4>2. Punctual(y)
        BY <1>0, <1>a, Numbers DEF Login, LoginInv, Punctual, OnTime, Waiting, InFlight
      <4>3. y.kind # "device"
        BY <1>0, <1>a, Numbers, Moments DEF Login, LoginInv, Punctual, OnTime, Waiting, InFlight
      <4> QED BY <4>1, <4>2, <4>3
    <3> QED BY <1>1, <2>1, <3>1, SetIInv DEF Begin
  <2>2. CASE Set(l, [x EXCEPT !.kind = "device", !.pc = "asking", !.since = clock])
    <3> DEFINE y == [x EXCEPT !.kind = "device", !.pc = "asking", !.since = clock]
    <3>1. y \in Login /\ Punctual(y)
      <4>1. y \in Login
        BY <1>0, Values, Numbers DEF Login
      <4>2. Punctual(y)
        BY <1>0, <1>a, Numbers DEF Login, LoginInv, Punctual, OnTime, Waiting, InFlight
      <4> QED BY <4>1, <4>2
    <3>2. y.kind = "device" => Approvable(y)
      BY <1>0, <1>a, Numbers, Moments, <1>1 DEF Begin, Approvable, Login, LoginInv, Punctual, OnTime, Waiting, InFlight
    <3> QED BY <1>1, <2>2, <3>1, <3>2, SetIInv DEF Begin
  <2>3. CASE Set(l, [x EXCEPT !.kind = "browser", !.pc = "listening",
                              !.deadline = clock + ListenTime])
    <3> DEFINE y == [x EXCEPT !.kind = "browser", !.pc = "listening",
                              !.deadline = clock + ListenTime]
    <3>1. y \in Login /\ Punctual(y) /\ y.kind # "device"
      <4>0. clock + ListenTime \in Int
        BY <1>0, Numbers
      <4>1. y \in Login
        BY <1>0, <4>0, Values, Fields
      <4>2. Punctual(y)
        BY <1>0, <1>a, Numbers DEF Login, LoginInv, Punctual, OnTime, Waiting, InFlight
      <4>3. y.kind # "device"
        BY <1>0, <1>a, Numbers, Moments DEF Login, LoginInv, Punctual, OnTime, Waiting, InFlight
      <4> QED BY <4>1, <4>2, <4>3
    <3> QED BY <1>1, <2>3, <3>1, SetIInv DEF Begin
  <2> QED BY <1>1, <2>1, <2>2, <2>3 DEF Begin
<1>2. CASE Approve(l)
  <2> DEFINE y == [x EXCEPT !.approved = clock]
  <2>1. y \in Login /\ Punctual(y)
    <3>1. y \in Login
      BY <1>0, Values, Numbers DEF Login
    <3>2. Punctual(y)
      BY <1>0, <1>a, <1>2, Numbers DEF Approve, Asks, Login, LoginInv, Punctual, OnTime, Waiting, InFlight
    <3> QED BY <3>1, <3>2
  <2>2. y.kind = "device" => Approvable(y)
    BY <1>0, <1>a, Numbers, Moments, <1>2 DEF Approve, Asks, Approvable, Login, LoginInv, Punctual, OnTime, Waiting, InFlight
  <2> QED BY <1>2, <2>1, <2>2, SetIInv DEF Approve
<1>3. CASE Redirect(l)
  <2> DEFINE y == [x EXCEPT !.approved = clock, !.first = IF @ = "none" THEN "callback" ELSE @]
  <2>1. y \in Login /\ Punctual(y)
    <3>1. y \in Login
      BY <1>0, Values, Numbers DEF Login
    <3>2. Punctual(y)
      BY <1>0, <1>a, <1>3, Numbers DEF Redirect, Login, LoginInv, Punctual, OnTime, Waiting, InFlight
    <3> QED BY <3>1, <3>2
  <2>2. y.kind = "device" => Approvable(y)
    BY <1>0, <1>a, Numbers, Moments, <1>3 DEF Redirect, Approvable, Login, LoginInv, Punctual, OnTime, Waiting, InFlight
  <2> QED BY <1>3, <2>1, <2>2, SetIInv DEF Redirect
<1>4. ASSUME NEW kind \in {"denial", "other"}, Connect(l, kind) PROVE IInv'
  <2> DEFINE y == [x EXCEPT !.first = kind]
  <2>1. y \in Login /\ Punctual(y)
    <3>1. y \in Login
      BY <1>0, Values, Numbers DEF Login
    <3>2. Punctual(y)
      BY <1>0, <1>a, <1>4, Numbers DEF Connect, Login, LoginInv, Punctual, OnTime, Waiting, InFlight
    <3> QED BY <3>1, <3>2
  <2>2. y.kind = "device" => Approvable(y)
    BY <1>0, <1>a, Numbers, Moments, <1>4 DEF Connect, Approvable, Login, LoginInv, Punctual, OnTime, Waiting, InFlight
  <2> QED BY <1>4, <2>1, <2>2, SetIInv DEF Connect
<1>5. CASE CodeArrives(l)
  <2>1. PICK issued \in x.since..clock :
          Set(l, [x EXCEPT !.pc = "polling", !.since = 0, !.deadline = clock + CodeLifetime,
                           !.expiry = issued + CodeLifetime])
    BY <1>5 DEF CodeArrives
  <2> DEFINE y == [x EXCEPT !.pc = "polling", !.since = 0, !.deadline = clock + CodeLifetime,
                            !.expiry = issued + CodeLifetime]
  <2>0. issued \in Int /\ issued <= clock
    BY <1>0 DEF Login
  <2>2. y \in Login /\ Punctual(y)
    <3>1. y \in Login
      <4>1. 0 \in Int /\ clock + CodeLifetime \in Int /\ issued + CodeLifetime \in Int
        BY <1>0, <2>0, Numbers
      <4> QED BY <1>0, <4>1, Values, Fields
    <3>2. Punctual(y)
      BY <1>0, <2>0, <1>a, Numbers DEF Login, LoginInv, Punctual, OnTime, Waiting, InFlight
    <3> QED BY <3>1, <3>2
  <2>3. y.kind = "device" => Approvable(y)
    BY <1>0, <1>a, Numbers, Moments, <1>5, <2>0 DEF CodeArrives, Approvable, Login, LoginInv, Punctual, OnTime, Waiting, InFlight
  <2> QED BY <1>5, <2>1, <2>2, <2>3, SetIInv DEF CodeArrives
<1>6. CASE NoCode(l)
  BY <1>6, EndIInv DEF NoCode, Endings
<1>7. CASE Poll(l)
  <2> DEFINE y == [x EXCEPT !.pc = "sent", !.since = clock]
  <2>1. y \in Login /\ Punctual(y)
    <3>1. y \in Login
      BY <1>0, Values, Numbers DEF Login
    <3>2. Punctual(y)
      BY <1>0, <1>a, Numbers DEF Login, LoginInv, Punctual, OnTime, Waiting, InFlight
    <3> QED BY <3>1, <3>2
  <2>2. y.kind = "device" => Approvable(y)
    BY <1>0, <1>a, Numbers, Moments, <1>7 DEF Poll, Approvable, Login, LoginInv, Punctual, OnTime, Waiting, InFlight
  <2> QED BY <1>7, <2>1, <2>2, SetIInv, EndIInv DEF Poll, Send, Endings
<1>8. CASE Accept(l)
  <2> DEFINE y == [x EXCEPT !.pc = "sent", !.since = clock]
  <2>1. y \in Login /\ Punctual(y)
    <3>1. y \in Login
      BY <1>0, Values, Numbers DEF Login
    <3>2. Punctual(y)
      BY <1>0, <1>a, Numbers DEF Login, LoginInv, Punctual, OnTime, Waiting, InFlight
    <3> QED BY <3>1, <3>2
  <2>2. y.kind # "device"
    BY <1>0, <1>a, Numbers, Moments, <1>8 DEF Accept, Approvable, Login, LoginInv, Punctual, OnTime, Waiting, InFlight
  <2> QED BY <1>8, <2>1, <2>2, SetIInv, EndIInv DEF Accept, Send, Endings
<1>9. CASE Serve(l)
  <2>1. PICK v \in Verdicts(l) :
          Set(l, [x EXCEPT !.pc = "answered", !.issued = clock, !.verdict = v])
    BY <1>9 DEF Serve
  <2> DEFINE y == [x EXCEPT !.pc = "answered", !.issued = clock, !.verdict = v]
  <2>2. y \in Login /\ Punctual(y)
    <3>1. y \in Login
      <4>1. v \in Answers
        BY DEF Verdicts, Answers
      <4> QED BY <1>0, <4>1, Values, Fields
    <3>2. Punctual(y)
      BY <1>0, <1>9, <1>a, Numbers DEF Login, Verdicts, Serve, LoginInv, Punctual, OnTime, Waiting, InFlight
    <3> QED BY <3>1, <3>2
  <2>3. y.kind = "device" => Approvable(y)
    BY <1>0, <1>a, Numbers, Moments, <1>9 DEF Serve, Verdicts, Approvable, Login, LoginInv, Punctual, OnTime, Waiting, InFlight
  <2> QED BY <1>9, <2>1, <2>2, <2>3, SetIInv DEF Serve
<1>10. CASE Receive(l)
  <2>1. CASE x.verdict = "token"
    <3> DEFINE y == [x EXCEPT !.pc = "finishing"]
    <3>1. y \in Login /\ Punctual(y) /\ (y.kind = "device" => Approvable(y))
      <4>1. y \in Login
        BY <1>0, <1>10, Values, Numbers DEF Login
      <4>2. Punctual(y)
        BY <1>0, <1>10, <1>a, Numbers DEF Receive, Login, LoginInv, Punctual, OnTime, Waiting, InFlight
      <4>3. (y.kind = "device" => Approvable(y))
        BY <1>0, <1>10, <1>a, Numbers, Moments DEF Login, Receive, Approvable, LoginInv, Punctual, OnTime, Waiting, InFlight
      <4> QED BY <4>1, <4>2, <4>3
    <3> QED BY <1>10, <2>1, <3>1, SetIInv DEF Receive
  <2>2. CASE x.verdict = "refused"
    BY <1>10, <2>2, EndIInv DEF Receive, Endings
  <2>3. CASE x.verdict \in {"pending", "slow_down"}
    <3> DEFINE y == [x EXCEPT !.pc = "sleeping", !.since = 0, !.issued = 0, !.verdict = "none",
                              !.wake = clock + Pause(x.verdict)]
    <3>0. Pause(x.verdict) \in Nat /\ Pause(x.verdict) <= 2 * Interval
      BY Numbers DEF Pause
    <3>1. y \in Login /\ Punctual(y)
      <4>1. y \in Login
        <5>1. 0 \in Int /\ clock + Pause(x.verdict) \in Int
          BY <1>0, <3>0
        <5> QED BY <1>0, <5>1, Values, Fields
      <4>2. Punctual(y)
        BY <1>0, <3>0, <1>a, Numbers DEF Login, LoginInv, Punctual, OnTime, Waiting, InFlight
      <4> QED BY <4>1, <4>2
    <3>2. y.kind = "device" => Approvable(y)
      BY <1>0, <1>a, Numbers, Moments, <1>10, <2>3, <3>0 DEF Receive, Login, Approvable, LoginInv, Punctual, OnTime, Waiting, InFlight
    <3> QED BY <1>10, <2>3, <3>1, <3>2, SetIInv DEF Receive
  <2> QED BY <1>10, <2>1, <2>2, <2>3 DEF Receive
<1>11. CASE Wake(l)
  <2> DEFINE y == [x EXCEPT !.pc = "polling", !.wake = 0]
  <2>1. y \in Login /\ Punctual(y)
    <3>1. y \in Login
      <4>1. 0 \in Int
        OBVIOUS
      <4> QED BY <1>0, <4>1, Values, Fields
    <3>2. Punctual(y)
      BY <1>0, <1>a, Numbers DEF Login, LoginInv, Punctual, OnTime, Waiting, InFlight
    <3> QED BY <3>1, <3>2
  <2>2. y.kind = "device" => Approvable(y)
    BY <1>0, <1>a, Numbers, Moments, <1>11 DEF Wake, Approvable, Login, LoginInv, Punctual, OnTime, Waiting, InFlight
  <2> QED BY <1>11, <2>1, <2>2, SetIInv DEF Wake
<1>12. CASE Break(l)
  BY <1>12, EndIInv DEF Break, Endings
<1>13. CASE Finish(l)
  <2>1. CASE End(l, "unsaved")
    BY <2>1, EndIInv DEF Endings
  <2>2. CASE /\ \E refreshable \in BOOLEAN : connected' = Issued(x.issued, refreshable)
             /\ Set(l, [NoLogin EXCEPT !.pc = "complete"])
    <3> DEFINE y == [NoLogin EXCEPT !.pc = "complete"]
    <3>1. y \in Login /\ Punctual(y) /\ Approvable(y)
      <4>1. y \in Login
        BY NoLoginType, Values DEF Login, Endings
      <4>2. Punctual(y)
        BY DEF NoLogin, Punctual, OnTime, Waiting, InFlight
      <4>3. Approvable(y)
        BY <1>0, <1>a, Numbers, Moments DEF Login, NoLogin, Approvable, LoginInv, Punctual, OnTime, Waiting, InFlight
      <4> QED BY <4>1, <4>2, <4>3
    <3>2. /\ login' = [login EXCEPT ![l] = y] /\ clock' = clock /\ cred' = cred /\ call' = call
      BY <2>2 DEF Set, tokenVars
    <3>3. x.issued \in Int /\ x.issued <= clock /\ clock <= x.issued + MaxDelay
      BY <1>0, <1>a, <1>13 DEF Finish, Login, LoginInv, Punctual
    <3>4. connected' \in Bundle /\ Close(connected)'
      BY <1>0, <2>2, <3>2, <3>3, Numbers DEF Issued, Bundle, Close
    <3>5. TypeOK' /\ Close(cred)'
      BY <3>1, <3>2, <3>4 DEF IInv, TypeOK, Close
    <3>6. ASSUME NEW c \in Callers PROVE CallInv(c)'
      BY <3>2 DEF IInv, CallInv, OnTime, Waiting, InFlight
    <3>7. ASSUME NEW m \in Logins PROVE LoginInv(m)'
      <4>1. CASE m = l
        <5>1. login'[m] = y
          BY <3>2, <4>1 DEF IInv, TypeOK
        <5> QED BY <3>1, <3>2, <5>1 DEF Approvable, LoginInv, Punctual, OnTime, Waiting, InFlight
      <4>2. CASE m # l
        <5>1. login'[m] = login[m] /\ LoginInv(m)
          BY <3>2, <4>2 DEF IInv, TypeOK
        <5> QED BY <3>2, <5>1 DEF LoginInv, Punctual, OnTime, Approvable, Waiting, InFlight
      <4> QED BY <4>1, <4>2
    <3> QED BY <3>4, <3>5, <3>6, <3>7 DEF IInv
  <2> QED BY <1>13, <2>1, <2>2 DEF Finish
<1> QED BY <1>1, <1>2, <1>3, <1>4, <1>5, <1>6, <1>7, <1>8, <1>9, <1>10, <1>11, <1>12, <1>13
        DEF LoginStep

-----------------------------------------------------------------------------
(* A step of a caller, which the logins do not see *)
LEMMA CallerIInv ==
  ASSUME IInv, NEW c \in Callers, NEW x \in Call, SetCall(c, x),
         OnTime(x), x.pc # "cheated", cred' \in Bundle, Close(cred)'
  PROVE  IInv'
<1>1. /\ call' = [call EXCEPT ![c] = x] /\ clock' = clock /\ login' = login
      /\ connected' = connected
  BY DEF SetCall, loginVars
<1>2. TypeOK'
  BY <1>1 DEF IInv, TypeOK
<1>3. Close(connected)'
  BY <1>1 DEF IInv, Close
<1>4. ASSUME NEW d \in Callers PROVE CallInv(d)'
  <2>1. CASE d = c
    BY <1>1, <2>1 DEF IInv, TypeOK, CallInv, OnTime, Waiting, InFlight
  <2>2. CASE d # c
    <3>1. call'[d] = call[d] /\ CallInv(d)
      BY <1>1, <2>2 DEF IInv, TypeOK
    <3> QED BY <1>1, <3>1 DEF CallInv, OnTime, Waiting, InFlight
  <2> QED BY <2>1, <2>2
<1>5. ASSUME NEW l \in Logins PROVE LoginInv(l)'
  BY <1>1 DEF IInv, LoginInv, Punctual, Approvable, OnTime, Waiting, InFlight
<1> QED BY <1>2, <1>3, <1>4, <1>5 DEF IInv

(* What get_token may hand out: a bundle that is far from its end, or new *)
LEMMA HandIInv ==
  ASSUME IInv, NEW c \in Callers, NEW b \in Bundle, Hand(c, b),
         b.refreshable => clock < b.real, cred' \in Bundle, Close(cred)'
  PROVE  IInv'
<1>1. SetCall(c, NoCall)
  BY DEF Hand, NoCall, IInv, TypeOK, Bundle
<1>2. NoCall \in Call /\ OnTime(NoCall) /\ NoCall.pc # "cheated"
  BY DEF NoCall, Call, OnTime, Waiting, InFlight
<1> QED BY <1>1, <1>2, CallerIInv

LEMMA CallIInv ==
  ASSUME IInv, NEW c \in Callers, GetToken(c) \/ CallStep(c)
  PROVE  IInv'
<1> USE Numbers, Values, Moments
<1>0. /\ call[c] \in Call /\ CallInv(c) /\ clock \in Int
      /\ cred \in Bundle /\ Close(cred)
  BY DEF IInv, TypeOK
<1>1. CASE GetToken(c)
  <2>1. clock' = clock /\ cred' = cred
    BY <1>1 DEF GetToken, Hand, SetCall
  <2>2. cred' \in Bundle /\ Close(cred)'
    BY <1>0, <2>1 DEF Close
  <2>3. CASE NeedsRefresh /\ cred.refreshable
    <3> DEFINE y == [NoCall EXCEPT !.pc = "sent", !.since = clock]
    <3>1. y \in Call /\ y.pc = "sent" /\ y.since = clock
      BY <1>0, NoCallType, CallFields
    <3>2. OnTime(y) /\ y.pc # "cheated"
      BY <1>0, <3>1 DEF OnTime, Waiting, InFlight
    <3> QED BY <1>1, <2>2, <2>3, <3>1, <3>2, CallerIInv DEF GetToken
  <2>4. CASE ~(NeedsRefresh /\ cred.refreshable)
    <3>1. cred.refreshable => clock < cred.real
      BY <1>0, <2>4 DEF NeedsRefresh, Close, Bundle
    <3> QED BY <1>0, <1>1, <2>2, <2>4, <3>1, HandIInv DEF GetToken
  <2> QED BY <2>3, <2>4
<1>2. CASE ServeRefresh(c)
  <2> DEFINE y == [call[c] EXCEPT !.pc = "answered", !.issued = clock]
  <2>0. y \in Call
    BY <1>0, CallFields
  <2>1. OnTime(y) /\ y.pc # "cheated"
    BY <1>0, <1>2 DEF ServeRefresh, Call, CallInv, OnTime, Waiting, InFlight
  <2>2. cred' \in Bundle /\ Close(cred)'
    BY <1>0, <1>2 DEF ServeRefresh, SetCall, Close
  <2> QED BY <1>2, <2>0, <2>1, <2>2, CallerIInv DEF ServeRefresh
<1>3. CASE TakeRefreshed(c)
  <2>1. /\ cred' = Issued(call[c].issued, TRUE) /\ clock' = clock /\ Hand(c, cred')
    BY <1>3 DEF TakeRefreshed, Hand, SetCall
  <2>2. /\ call[c].issued \in Int /\ call[c].issued <= clock
        /\ clock <= call[c].issued + MaxDelay
    BY <1>0, <1>3 DEF TakeRefreshed, Call, CallInv, OnTime, Waiting, InFlight
  <2>3. cred' \in Bundle /\ Close(cred)' /\ clock < cred'.real
    BY <1>0, <2>1, <2>2 DEF Issued, Bundle, Close
  <2> QED BY <2>1, <2>3, HandIInv
<1>4. CASE RefreshFails(c)
  <2>1. NoCall \in Call /\ OnTime(NoCall) /\ NoCall.pc # "cheated"
    BY DEF NoCall, Call, OnTime, Waiting, InFlight
  <2>2. cred' \in Bundle /\ Close(cred)'
    BY <1>0, <1>4 DEF RefreshFails, SetCall, Close
  <2> QED BY <1>4, <2>1, <2>2, CallerIInv DEF RefreshFails
<1> QED BY <1>1, <1>2, <1>3, <1>4 DEF CallStep

LEMMA BuildIInv == ASSUME IInv, Build PROVE IInv'
<1>1. /\ cred' = connected /\ clock' = clock /\ login' = login /\ connected' = connected
      /\ call' = call
  BY DEF Build, loginVars
<1> QED BY <1>1 DEF IInv, TypeOK, Close, CallInv, OnTime, LoginInv, Punctual, Approvable,
                   Waiting, InFlight

LEMMA NextIInv == IInv /\ [Next]_vars => IInv'
<1> SUFFICES ASSUME IInv, [Next]_vars PROVE IInv'
  OBVIOUS
<1>1. CASE UNCHANGED vars
  BY <1>1 DEF vars, IInv, TypeOK, Close, CallInv, OnTime, LoginInv, Punctual, Approvable,
              Waiting, InFlight
<1>2. CASE Next
  BY <1>2, TickIInv, LoginIInv, CallIInv, BuildIInv DEF Next
<1> QED BY <1>1, <1>2

LEMMA SpecIInv == Spec => []IInv
<1>1. Init => IInv
  BY InitIInv
<1>2. IInv /\ [Next]_vars => IInv'
  BY NextIInv
<1> QED BY <1>1, <1>2, PTL DEF Spec

-----------------------------------------------------------------------------
(* Every reachable state of the logins and the credential is well typed. *)
THEOREM SpecTypeOK == Spec => []TypeOK
<1>1. IInv => TypeOK
  BY DEF IInv
<1> QED BY <1>1, SpecIInv, PTL

(* get_token never hands out a token that has expired while it could be refreshed, *)
(* for any number of callers: it suffices that an answer is never later than       *)
(* REFRESH_LEAD_SECONDS and than the token's life.                                 *)
THEOREM SpecHandedOutIsValid == Spec => []HandedOutIsValid
<1>1. IInv => HandedOutIsValid
  BY DEF IInv, CallInv, HandedOutIsValid
<1> QED BY <1>1, SpecIInv, PTL

(* No refresh takes the credential back to a token that expires earlier than the *)
(* one it has by more than an answer can be late.                                *)
THEOREM SpecRefreshesHardlyGoBack == Spec => RefreshesHardlyGoBack
<1>1. ASSUME IInv, [Next]_vars
      PROVE  [\A c \in Callers : CallStep(c) => cred'.real >= cred.real - MaxDelay]_vars
  <2> SUFFICES ASSUME NEW c \in Callers, CallStep(c) PROVE cred'.real >= cred.real - MaxDelay
    OBVIOUS
  <2>0. /\ call[c] \in Call /\ CallInv(c) /\ clock \in Int /\ cred \in Bundle /\ Close(cred)
    BY <1>1 DEF IInv, TypeOK
  <2>1. CASE cred' = cred
    BY <2>0, <2>1, Numbers DEF Bundle
  <2>2. CASE TakeRefreshed(c)
    <3>1. cred'.real = call[c].issued + Lifetime
      BY <2>2 DEF TakeRefreshed, Issued
    <3>2. call[c].issued \in Int /\ clock <= call[c].issued + MaxDelay
      BY <2>0, <2>2, Numbers DEF TakeRefreshed, Call, CallInv, OnTime, Waiting, InFlight
    <3> QED BY <2>0, <3>1, <3>2, Numbers DEF Bundle, Close
  <2> QED BY <2>1, <2>2 DEF CallStep, ServeRefresh, RefreshFails
<1> QED BY <1>1, SpecIInv, PTL DEF Spec, RefreshesHardlyGoBack

(* Which steps end a login for lack of time or approval, and where they find it *)
LEMMA Refusals ==
  ASSUME TypeOK, NEW l \in Logins, LoginStep(l), login'[l].pc \in {"timed out", "refused"}
  PROVE  \/ login[l].pc = "polling" /\ clock >= login[l].deadline
         \/ login[l].pc = "listening"
         \/ login[l].pc = "answered" /\ login[l].verdict = "refused"
<1>0. login \in [Logins -> Login] /\ login[l] \in Login
  BY DEF TypeOK
<1>1. ASSUME NEW y, Set(l, y) PROVE login'[l] = y
  BY <1>0, <1>1 DEF Set
<1>2. ASSUME NEW e, End(l, e) PROVE login'[l].pc = e
  <2>1. login'[l] = [NoLogin EXCEPT !.pc = e]
    BY <1>1, <1>2 DEF End
  <2> QED BY <2>1 DEF NoLogin
<1>3. CASE CodeArrives(l)
  <2>1. PICK issued \in login[l].since..clock :
          Set(l, [login[l] EXCEPT !.pc = "polling", !.since = 0,
                                  !.deadline = clock + CodeLifetime,
                                  !.expiry = issued + CodeLifetime])
    BY <1>3 DEF CodeArrives
  <2>2. login'[l].pc = "polling"
    BY <1>0, <1>1, <2>1 DEF Login
  <2> QED BY <2>2
<1>4. CASE NoCode(l) \/ Break(l)
  BY <1>2, <1>4 DEF NoCode, Break
<1>5. CASE Poll(l)
  <2>1. CASE Send(l, login[l])
    <3>1. login'[l].pc = "sent"
      BY <1>0, <1>1, <2>1 DEF Send, Login
    <3> QED BY <3>1
  <2> QED BY <1>5, <2>1 DEF Poll
<1>6. CASE Accept(l)
  BY <1>6 DEF Accept
<1>7. CASE Serve(l)
  <2>1. PICK v \in Verdicts(l) :
          Set(l, [login[l] EXCEPT !.pc = "answered", !.issued = clock, !.verdict = v])
    BY <1>7 DEF Serve
  <2>2. login'[l].pc = "answered"
    BY <1>0, <1>1, <2>1 DEF Login
  <2> QED BY <2>2
<1>8. CASE Receive(l)
  <2>1. CASE Set(l, [login[l] EXCEPT !.pc = "finishing"])
    <3>1. login'[l].pc = "finishing"
      BY <1>0, <1>1, <2>1 DEF Login
    <3> QED BY <3>1
  <2>2. CASE Set(l, [login[l] EXCEPT !.pc = "sleeping", !.since = 0, !.issued = 0,
                                     !.verdict = "none", !.wake = clock + Pause(login[l].verdict)])
    <3>1. login'[l].pc = "sleeping"
      BY <1>0, <1>1, <2>2 DEF Login
    <3> QED BY <3>1
  <2> QED BY <1>8, <2>1, <2>2 DEF Receive
<1>9. CASE Wake(l)
  <2>1. login'[l].pc = "polling"
    BY <1>0, <1>1, <1>9 DEF Wake, Login
  <2> QED BY <2>1
<1>10. CASE Finish(l)
  <2>1. CASE Set(l, [NoLogin EXCEPT !.pc = "complete"])
    <3>1. login'[l].pc = "complete"
      BY <1>1, <2>1 DEF NoLogin
    <3> QED BY <3>1
  <2> QED BY <1>2, <1>10, <2>1 DEF Finish
<1> QED BY <1>3, <1>4, <1>5, <1>6, <1>7, <1>8, <1>9, <1>10 DEF LoginStep

(* No other step changes where a login stands to one of these two *)
LEMMA RefusedByItself ==
  ASSUME TypeOK, Next, NEW l \in Logins
  PROVE  \/ LoginStep(l)
         \/ login'[l].pc \in {login[l].pc, "sent", "asking", "listening"}
<1>0. login \in [Logins -> Login] /\ login[l] \in Login /\ clock \in Int
  BY DEF TypeOK
<1> SUFFICES ASSUME login' # login, ~LoginStep(l)
             PROVE  login'[l].pc \in {login[l].pc, "sent", "asking", "listening"}
  OBVIOUS
<1>1. PICK m \in Logins : \/ Begin(m) \/ Approve(m) \/ Redirect(m)
                          \/ \E kind \in {"denial", "other"} : Connect(m, kind)
                          \/ LoginStep(m)
  BY DEF Next, GetToken, CallStep, ServeRefresh, TakeRefreshed, RefreshFails, Hand, SetCall,
         Build, Tick, loginVars
<1>2. ASSUME NEW y, Set(m, y) PROVE login'[l] = IF m = l THEN y ELSE login[l]
  BY <1>0, <1>2 DEF Set
<1> SUFFICES ASSUME m = l PROVE login'[l].pc \in {login[l].pc, "sent", "asking", "listening"}
  <2>1. \E y : Set(m, y)
    BY <1>1 DEF Begin, Approve, Redirect, Connect, LoginStep, CodeArrives, NoCode, Poll, Accept,
                Serve, Receive, Wake, Break, Finish, Send, End
  <2> QED BY <1>2, <2>1
<1>3. CASE Begin(m)
  <2>1. CASE Set(m, [login[m] EXCEPT !.kind = "cached", !.pc = "sent", !.since = clock])
    <3>1. login'[l] = [login[l] EXCEPT !.kind = "cached", !.pc = "sent", !.since = clock]
      BY <1>2, <2>1
    <3>2. login'[l].pc = "sent"
      BY <1>0, <3>1 DEF Login
    <3> QED BY <3>2
  <2>2. CASE Set(m, [login[m] EXCEPT !.kind = "device", !.pc = "asking", !.since = clock])
    <3>1. login'[l] = [login[l] EXCEPT !.kind = "device", !.pc = "asking", !.since = clock]
      BY <1>2, <2>2
    <3>2. login'[l].pc = "asking"
      BY <1>0, <3>1 DEF Login
    <3> QED BY <3>2
  <2>3. CASE Set(m, [login[m] EXCEPT !.kind = "browser", !.pc = "listening",
                                    !.deadline = clock + ListenTime])
    <3>1. login'[l] = [login[l] EXCEPT !.kind = "browser", !.pc = "listening",
                                          !.deadline = clock + ListenTime]
      BY <1>2, <2>3
    <3>2. login'[l].pc = "listening"
      BY <1>0, <3>1 DEF Login
    <3> QED BY <3>2
  <2> QED BY <1>3, <2>1, <2>2, <2>3 DEF Begin
<1>4. CASE Approve(m)
  <2>1. Set(m, [login[m] EXCEPT !.approved = clock])
    BY <1>4 DEF Approve
  <2>2. login'[l] = [login[l] EXCEPT !.approved = clock]
    BY <1>2, <2>1
  <2>3. login'[l].pc = login[l].pc
    BY <1>0, <2>2 DEF Login
  <2> QED BY <2>3
<1>5. CASE Redirect(m)
  <2>1. Set(m, [login[m] EXCEPT !.approved = clock,
                                !.first = IF @ = "none" THEN "callback" ELSE @])
    BY <1>5 DEF Redirect
  <2>2. login'[l] = [login[l] EXCEPT !.approved = clock,
                                     !.first = IF @ = "none" THEN "callback" ELSE @]
    BY <1>2, <2>1
  <2>3. login'[l].pc = login[l].pc
    BY <1>0, <2>2 DEF Login
  <2> QED BY <2>3
<1>6. ASSUME NEW kind \in {"denial", "other"}, Connect(m, kind) PROVE login'[l].pc = login[l].pc
  <2>1. Set(m, [login[m] EXCEPT !.first = kind])
    BY <1>6 DEF Connect
  <2>2. login'[l].pc = login[l].pc
    BY <1>0, <1>2, <2>1 DEF Login
  <2> QED BY <2>2
<1> QED BY <1>1, <1>3, <1>4, <1>5, <1>6

(* A device sign-in that was approved two pauses and two requests before its code *)
(* expires does not end for lack of time, however often the authority asks the     *)
(* client to slow down.                                                            *)
THEOREM SpecApprovalIsHonoured == Spec => ApprovalIsHonoured
<1> DEFINE A(l) ==
      /\ login[l].kind = "device" /\ login[l].approved # Never
      /\ login'[l].pc \in {"timed out", "refused"} \ {login[l].pc}
      => login[l].approved >= login[l].expiry - 2 * Interval - 2 * MaxDelay
<1>1. ASSUME IInv, Next, NEW l \in Logins PROVE A(l)
  <2>0. TypeOK /\ LoginInv(l)
    BY <1>1 DEF IInv
  <2>1. login[l] \in Login /\ clock \in Int
    BY <2>0 DEF TypeOK
  <2>2. CASE login'[l].pc \in {"timed out", "refused"} \ {login[l].pc}
    <3>1. \/ login[l].pc = "polling" /\ clock >= login[l].deadline
          \/ login[l].pc = "listening"
          \/ login[l].pc = "answered" /\ login[l].verdict = "refused"
      BY <1>1, <2>0, <2>2, RefusedByItself, Refusals
    <3>2. login[l].approved # Never => login[l].approved \in Int
      BY <2>1, Moments DEF Login
    <3>3. ASSUME login[l].kind = "device" /\ login[l].approved # Never
          PROVE  login[l].approved >= login[l].expiry - 2 * Interval - 2 * MaxDelay
      <4>1. Punctual(login[l]) /\ Approvable(login[l])
        BY <2>0, <3>3 DEF LoginInv
      <4>2. /\ login[l].expiry \in Int /\ login[l].deadline \in Int /\ login[l].since \in Int
            /\ login[l].issued \in Int /\ login[l].approved \in Int
        BY <2>1, <3>2, <3>3 DEF Login
      <4>3. CASE login[l].pc = "polling" /\ clock >= login[l].deadline
        <5>1. /\ login[l].expiry <= login[l].deadline
              /\ login[l].approved >= clock - 2 * Interval - MaxDelay
          BY <3>3, <4>1, <4>3 DEF Approvable
        <5> QED BY <2>1, <4>2, <4>3, <5>1, Numbers, SMT
      <4>4. CASE login[l].pc = "listening"
        BY <3>3, <4>1, <4>4 DEF Punctual
      <4>5. CASE login[l].pc = "answered" /\ login[l].verdict = "refused"
        <5>1. /\ clock <= login[l].since + MaxDelay /\ login[l].issued <= clock
              /\ login[l].issued >= login[l].expiry
              /\ login[l].approved >= login[l].since - 2 * Interval - MaxDelay
          BY <3>3, <4>1, <4>5 DEF Punctual, OnTime, Waiting, InFlight, Approvable
        <5> QED BY <2>1, <4>2, <5>1, Numbers
      <4> QED BY <3>1, <4>3, <4>4, <4>5
    <3> QED BY <3>3
  <2> QED BY <2>2
<1>2. ASSUME IInv, [Next]_vars PROVE [\A l \in Logins : A(l)]_vars
  BY <1>1, <1>2
<1> QED BY <1>2, SpecIInv, PTL DEF Spec, ApprovalIsHonoured
=============================================================================
