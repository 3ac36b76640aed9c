-------------------------------- MODULE Tokens --------------------------------
(***************************************************************************)
(* Signing in to Microsoft Entra and the access tokens that come of it     *)
(* (crates/arkived-core/src/auth/entra, the logins of                      *)
(* app/src-tauri/src/commands.rs).  A login asks the user for approval by  *)
(* a device code, which it polls for, or in the browser, whose redirection *)
(* it listens for; or it resumes from a refresh token in the keychain.     *)
(* Its bundle becomes the connection's, and every command makes a          *)
(* credential of that bundle, whose get_token hands tokens out and         *)
(* refreshes them when they are about to expire.                           *)
(*                                                                         *)
(* Time is a clock that ticks.  The client learns how long a token lives   *)
(* when the answer arrives, later than the authority issued it: MaxDelay   *)
(* bounds how long a request takes, and timers fire on time.               *)
(***************************************************************************)
EXTENDS Integers

CONSTANTS
  Logins,
  Callers,       \* of get_token, at the same time
  Lead,          \* REFRESH_LEAD_SECONDS (300)
  Lifetime,      \* of an access token (about an hour)
  CodeLifetime,  \* of a device code (900 seconds)
  ListenTime,    \* of the listener (900 seconds)
  Interval,      \* between two polls (5 seconds)
  MaxDelay,      \* of a request and its answer
  LastStart,     \* no login begins later
  MaxTime,       \* the clock stops here
  Never

ASSUME TokensAssumption ==
  /\ {Lead, Lifetime, CodeLifetime, ListenTime, MaxDelay, LastStart, MaxTime} \subseteq Nat
  /\ Interval \in Nat \ {0}
  /\ MaxDelay <= Lead /\ MaxDelay < Lifetime
  /\ Never \notin Int

VARIABLES
  clock,
  login,     \* each login
  connected, \* the bundle of the connection
  cred,      \* the bundle of the credential that the running command made
  call       \* each caller of get_token

loginVars == <<login, connected>>
tokenVars == <<cred, call>>
vars == <<clock, login, connected, cred, call>>

(* TokenBundle: when the token really expires, expires_at, refresh_token *)
Bundle == [real : Int, claimed : Int, refreshable : BOOLEAN]

NoBundle == [real |-> -1, claimed |-> -1, refreshable |-> FALSE]

(* A token issued at one time, of which the client learns at another *)
Issued(at, refreshable) ==
  [real |-> at + Lifetime, claimed |-> clock + Lifetime, refreshable |-> refreshable]

Kinds == {"device", "browser", "cached"}

Endings == {"complete", "timed out", "refused", "broken", "misled", "unsaved"}

Places == {"idle", "asking", "polling", "sleeping", "listening", "sent", "answered",
           "finishing"} \cup Endings

Answers == {"none", "token", "pending", "slow_down", "refused"}

Connections == {"none", "callback", "denial", "other"}

Times == Int \cup {Never}

Login == [pc : Places,
          kind : Kinds,
          since : Int,         \* when its request was sent
          issued : Int,        \* when the authority answered it
          verdict : Answers,
          wake : Int,          \* when it polls again
          deadline : Int,      \* when it stops asking
          expiry : Int,        \* when the authority forgets its device code
          approved : Times,
          first : Connections] \* the listener's first one

NoLogin ==
  [pc |-> "idle", kind |-> "device", since |-> 0, issued |-> 0, verdict |-> "none", wake |-> 0,
   deadline |-> 0, expiry |-> 0, approved |-> Never, first |-> "none"]

Call == [pc : {"idle", "sent", "answered",
               "cheated"},  \* history: it was handed an expired token that could be refreshed
         since : Int, issued : Int]

NoCall == [pc |-> "idle", since |-> 0, issued |-> 0]

TypeOK ==
  /\ clock \in Nat
  /\ login \in [Logins -> Login]
  /\ connected \in Bundle /\ cred \in Bundle
  /\ call \in [Callers -> Call]

Init ==
  /\ clock = 0
  /\ login = [l \in Logins |-> NoLogin]
  /\ connected = NoBundle /\ cred = NoBundle
  /\ call = [c \in Callers |-> NoCall]

InFlight(x) == x.pc \in {"sent", "answered"}

Waiting(x) == x.pc = "asking" \/ InFlight(x)

Tick ==
  /\ clock < MaxTime
  /\ \A x \in {login[l] : l \in Logins} \cup {call[c] : c \in Callers} :
       Waiting(x) => clock < x.since + MaxDelay
  /\ \A l \in Logins : /\ login[l].pc = "sleeping" => clock < login[l].wake
                       /\ login[l].pc \notin {"polling", "finishing"}
  /\ clock' = clock + 1
  /\ UNCHANGED <<loginVars, tokenVars>>

-----------------------------------------------------------------------------
(* Logins.                                                                 *)

Set(l, state) ==
  /\ login' = [login EXCEPT ![l] = state]
  /\ UNCHANGED <<clock, tokenVars>>

Send(l, state) == Set(l, [state EXCEPT !.pc = "sent", !.since = clock])

End(l, ending) == Set(l, [NoLogin EXCEPT !.pc = ending]) /\ UNCHANGED connected

(* EntraDeviceCodeProvider::resolve tries the cached token and asks the user   *)
(* only when there is none; a listener is bound before the browser is opened   *)
Begin(l) ==
  /\ login[l].pc = "idle" /\ clock <= LastStart
  /\ \/ Set(l, [login[l] EXCEPT !.kind = "cached", !.pc = "sent", !.since = clock])
     \/ Set(l, [login[l] EXCEPT !.kind = "device", !.pc = "asking", !.since = clock])
     \/ Set(l, [login[l] EXCEPT !.kind = "browser", !.pc = "listening",
                                !.deadline = clock + ListenTime])
  /\ UNCHANGED connected

(* start_device_code: the code was issued some time ago and is shown now *)
CodeArrives(l) ==
  /\ login[l].pc = "asking"
  /\ \E issued \in login[l].since..clock :
       Set(l, [login[l] EXCEPT !.pc = "polling", !.since = 0,
                               !.deadline = clock + CodeLifetime,
                               !.expiry = issued + CodeLifetime])
  /\ UNCHANGED connected

NoCode(l) == login[l].pc = "asking" /\ End(l, "broken")

Asks(l) ==
  login[l].kind = "device" /\ login[l].pc \in {"polling", "sleeping", "sent", "answered"}

(* The user enters the code and approves; who has denied cannot *)
Approve(l) ==
  /\ Asks(l) /\ clock < login[l].expiry
  /\ login[l].approved = Never /\ login[l].verdict # "refused"
  /\ Set(l, [login[l] EXCEPT !.approved = clock])
  /\ UNCHANGED connected

(* The user signs in, and the browser is redirected to the listener *)
Redirect(l) ==
  /\ login[l].pc = "listening"
  /\ login[l].approved = Never
  /\ Set(l, [login[l] EXCEPT !.approved = clock,
                             !.first = IF @ = "none" THEN "callback" ELSE @])
  /\ UNCHANGED connected

(* Another connection reaches the listener first: the browser opens one before *)
(* it needs it, or the user denies                                             *)
Connect(l, kind) ==
  /\ login[l].pc = "listening" /\ login[l].first = "none"
  /\ Set(l, [login[l] EXCEPT !.first = kind])
  /\ UNCHANGED connected

(* The top of the loop of poll_for_token *)
Poll(l) ==
  /\ login[l].pc = "polling"
  /\ IF clock >= login[l].deadline THEN End(l, "timed out")
     ELSE Send(l, login[l]) /\ UNCHANGED connected

(* Mutant: no connection, no end. *)
AcceptForever(l) ==
  /\ login[l].pc = "listening"
  /\ \/ login[l].first = "callback" /\ Send(l, login[l]) /\ UNCHANGED connected
     \/ login[l].first = "denial" /\ End(l, "refused")
     \/ login[l].first = "other" /\ End(l, "misled")

(* wait_for_authorization_code takes the first connection, whatever it is *)
Accept(l) ==
  /\ login[l].pc = "listening"
  /\ \/ login[l].first = "callback" /\ Send(l, login[l]) /\ UNCHANGED connected
     \/ login[l].first = "denial" /\ End(l, "refused")
     \/ login[l].first = "other" /\ End(l, "misled")
     \/ login[l].first = "none" /\ clock >= login[l].deadline /\ End(l, "timed out")

(* What the authority says of a device code, an authorization code or a *)
(* refresh token                                                        *)
Verdicts(l) ==
  IF login[l].kind # "device" THEN {"token", "refused"}
  ELSE IF clock >= login[l].expiry THEN {"refused"}
  ELSE IF login[l].approved # Never THEN {"token"}
  ELSE {"pending", "slow_down", "refused"}

Serve(l) ==
  /\ login[l].pc = "sent"
  /\ \E v \in Verdicts(l) :
       Set(l, [login[l] EXCEPT !.pc = "answered", !.issued = clock, !.verdict = v])
  /\ UNCHANGED connected

(* Mutant: every slow_down doubles the pause that is doubled already. *)
PauseGrowing(v) == IF v = "slow_down" THEN 4 * Interval ELSE Interval

Pause(v) == IF v = "slow_down" THEN 2 * Interval ELSE Interval

Receive(l) ==
  /\ login[l].pc = "answered"
  /\ LET v == login[l].verdict
     IN  \/ v = "token" /\ Set(l, [login[l] EXCEPT !.pc = "finishing"]) /\ UNCHANGED connected
         \/ v = "refused" /\ End(l, "refused")
         \/ /\ v \in {"pending", "slow_down"}
            /\ Set(l, [login[l] EXCEPT !.pc = "sleeping", !.since = 0, !.issued = 0,
                                       !.verdict = "none", !.wake = clock + Pause(v)])
            /\ UNCHANGED connected

Wake(l) ==
  /\ login[l].pc = "sleeping" /\ clock >= login[l].wake
  /\ Set(l, [login[l] EXCEPT !.pc = "polling", !.wake = 0])
  /\ UNCHANGED connected

(* A poll, an exchange or a refresh whose connection breaks ends the login *)
Break(l) == InFlight(login[l]) /\ End(l, "broken")

(* The session is discovered and stored, and is the connection's, or the login *)
(* fails in the end                                                            *)
Finish(l) ==
  /\ login[l].pc = "finishing"
  /\ \/ /\ \E refreshable \in BOOLEAN : connected' = Issued(login[l].issued, refreshable)
        /\ Set(l, [NoLogin EXCEPT !.pc = "complete"])
     \/ End(l, "unsaved")

LoginStep(l) ==
  \/ CodeArrives(l) \/ NoCode(l) \/ Poll(l) \/ Accept(l) \/ Serve(l) \/ Receive(l)
  \/ Wake(l) \/ Break(l) \/ Finish(l)

-----------------------------------------------------------------------------
(* Credentials.                                                            *)

SetCall(c, state) ==
  /\ call' = [call EXCEPT ![c] = state]
  /\ UNCHANGED <<clock, loginVars>>

(* build_backend: a command makes a credential of the connection's bundle *)
Build ==
  /\ connected # NoBundle
  /\ \A c \in Callers : ~InFlight(call[c])
  /\ cred' = connected
  /\ UNCHANGED <<clock, loginVars, call>>

(* Mutant: a token is refreshed when it has expired. *)
NeedsRefreshLate == cred.claimed <= clock

NeedsRefresh == cred.claimed <= clock + Lead

(* The call returns the bundle's access token *)
Hand(c, bundle) ==
  SetCall(c, [NoCall EXCEPT !.pc =
    IF bundle.refreshable /\ bundle.real <= clock THEN "cheated" ELSE "idle"])

(* get_token, to its only wait *)
GetToken(c) ==
  /\ cred # NoBundle
  /\ ~InFlight(call[c])
  /\ IF NeedsRefresh /\ cred.refreshable
     THEN SetCall(c, [NoCall EXCEPT !.pc = "sent", !.since = clock])
     ELSE Hand(c, cred)
  /\ UNCHANGED cred

ServeRefresh(c) ==
  /\ call[c].pc = "sent"
  /\ SetCall(c, [call[c] EXCEPT !.pc = "answered", !.issued = clock])
  /\ UNCHANGED cred

(* The answer replaces the bundle, whatever another caller has put there *)
TakeRefreshed(c) ==
  /\ call[c].pc = "answered"
  /\ cred' = Issued(call[c].issued, TRUE)
  /\ Hand(c, cred')

(* Mutant: the bundle is put back as the command found it. *)
RefreshFailsBack(c) ==
  /\ InFlight(call[c])
  /\ SetCall(c, NoCall)
  /\ cred' = connected

(* Refused or not answered: the call fails, though the token may be good still *)
RefreshFails(c) ==
  /\ InFlight(call[c])
  /\ SetCall(c, NoCall)
  /\ UNCHANGED cred

CallStep(c) == ServeRefresh(c) \/ TakeRefreshed(c) \/ RefreshFails(c)

-----------------------------------------------------------------------------
Next ==
  \/ \E l \in Logins : \/ Begin(l) \/ Approve(l) \/ Redirect(l)
                       \/ \E kind \in {"denial", "other"} : Connect(l, kind)
                       \/ LoginStep(l)
  \/ \E c \in Callers : GetToken(c) \/ CallStep(c)
  \/ Build \/ Tick

(* Time passes, the runtime polls its tasks, and a request is answered or its *)
(* connection breaks; a connection to the listener sends something or closes. *)
Fairness ==
  /\ WF_vars(Tick)
  /\ \A l \in Logins : WF_vars(LoginStep(l))
  /\ \A c \in Callers : WF_vars(CallStep(c))

Spec == Init /\ [][Next]_vars /\ Fairness
-----------------------------------------------------------------------------
(* Properties.                                                             *)

(* A token that get_token hands out has not expired at the authority, though    *)
(* the client counts its life from the answer and several callers replace the   *)
(* bundle at the same time: REFRESH_LEAD_SECONDS makes up for the answer's way. *)
(* A bundle without a refresh token is handed out as it is.                     *)
HandedOutIsValid == \A c \in Callers : call[c].pc # "cheated"

(* A refresh whose answer comes after that of a later one takes the credential   *)
(* back to an older token, but to none that expires earlier by more than the     *)
(* answer was late.                                                              *)
RefreshesHardlyGoBack ==
  [][\A c \in Callers : CallStep(c) => cred'.real >= cred.real - MaxDelay]_vars

(* A login that ends without a session although the user approved it was cut by  *)
(* a broken connection, met another connection at its listener, could not be     *)
(* stored, was refused the exchange, or was approved too late for the last poll, *)
(* which is at most two pauses and two requests before its end.                  *)
ApprovalIsHonoured ==
  [][\A l \in Logins :
       /\ login[l].kind = "device" /\ login[l].approved # Never
       /\ login'[l].pc \in {"timed out", "refused"} \ {login[l].pc}
       => login[l].approved >= login[l].expiry - 2 * Interval - 2 * MaxDelay]_vars

(* poll_entra_device_login, poll_entra_browser_login: what the interface is told *)
Told(l) ==
  IF login[l].pc = "complete" THEN "complete"
  ELSE IF login[l].pc \in Endings THEN "error" ELSE "pending"

(* Every login ends: the interface does not ask for its state for ever. *)
LoginEnds == \A l \in Logins : login[l].pc # "idle" ~> Told(l) # "pending"
=============================================================================
