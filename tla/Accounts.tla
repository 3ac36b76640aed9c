------------------------------ MODULE Accounts ------------------------------
(***************************************************************************)
(* The accounts and sign-ins of the command line tool                      *)
(* (crates/arkived-cli/src/account.rs, discover.rs and                     *)
(* crates/arkived-core/src/auth/entra/login.rs) over the SQLite store and  *)
(* the keychain.  Each process is one invocation of `arkived`; a step is   *)
(* one SQL statement or one operation of the credential store.  There is   *)
(* no transaction over them, and any step may fail or be the last.         *)
(***************************************************************************)
EXTENDS Connections, Integers, FiniteSets

CONSTANTS Processes, SignIns, Subs,
          Given,    \* what users pass to `account add`
          Rounds    \* bound: commands run in all

Row == [endpoint : Endpoints, sub : Subs \cup {None}, attached : BOOLEAN]

ASSUME AccountsAssumption ==
    /\ Given \subseteq Parts
    /\ SignIns \cap AccountNames = {}
    /\ None \notin SignIns \cup Subs
    /\ None \notin Parts /\ None \notin Row
    /\ Rounds \in Nat

VARIABLES
    secret,     \* keychain "account:<name>"
    tokens,     \* sign-ins with a refresh token in the keychain
    signIns,    \* table sign_in
    owner,      \* table subscription: its sign-in, None when there is no row
    row,        \* table storage_account
    current,    \* table context
    job,        \* what each process is doing
    left,       \* commands that may still be run
    unsettled,  \* observed: failed or overlapped, and not yet put right
    keyless     \* observed: accounts that discovery last listed without their key

vars == <<secret, tokens, signIns, owner, row, current, job, left, unsettled, keyless>>
store == <<signIns, owner, row, current>>
keychain == <<secret, tokens>>

Stages == {"idle", "put", "upsert", "check", "select", "erase", "drop", "look",
           "deselect", "cache", "lookup", "replace", "insert", "activate", "who",
           "revoke", "remove", "reread", "clear", "session", "mint", "rotate",
           "subs", "accounts", "row", "key"}
Job == [at : Stages, name : AccountNames \cup {None}, parts : Parts \cup {None},
        signIn : SignIns \cup {None}, sub : Subs \cup {None}, alone : BOOLEAN]
Idle == [at |-> "idle", name |-> None, parts |-> None, signIn |-> None,
         sub |-> None, alone |-> TRUE]

TypeOK ==
    /\ secret \in [AccountNames -> Parts \cup {None}]
    /\ tokens \subseteq SignIns
    /\ signIns \subseteq SignIns
    /\ owner \in [Subs -> SignIns \cup {None}]
    /\ row \in [AccountNames -> Row \cup {None}]
    /\ current \in [signIn : SignIns \cup {None}, account : AccountNames \cup {None}]
    /\ job \in [Processes -> Job]
    /\ left \in 0 .. Rounds
    /\ unsettled \subseteq AccountNames \cup SignIns
    /\ keyless \subseteq AccountNames

Init ==
    /\ secret = [n \in AccountNames |-> None]
    /\ tokens = {} /\ signIns = {}
    /\ owner = [s \in Subs |-> None]
    /\ row = [n \in AccountNames |-> None]
    /\ current = [signIn |-> None, account |-> None]
    /\ job = [p \in Processes |-> Idle]
    /\ left = Rounds
    /\ unsettled = {} /\ keyless = {}

\* What a process works on: an account, a sign-in, for discovery both.
Works(j) == {j.name, j.signIn} \ {None}

\* p goes on with job j.  Whoever works on the same thing is not alone from now on.
Proceed(p, j) ==
    LET shared == {q \in Processes \ {p} : Works(job[q]) \cap Works(j) # {}}
    IN  /\ job' = [q \in Processes |->
                     IF q = p THEN [j EXCEPT !.alone = @ /\ shared = {}]
                     ELSE IF q \in shared THEN [job[q] EXCEPT !.alone = FALSE]
                     ELSE job[q]]
        /\ unsettled' = unsettled \cup
                          UNION {Works(job[q]) \cap Works(j) : q \in shared}

Step(p, stage) == Proceed(p, [job[p] EXCEPT !.at = stage])

\* p's command has returned Ok; what it alone has stored or removed is settled.
Done(p) ==
    /\ job' = [job EXCEPT ![p] = Idle]
    /\ unsettled' = IF job[p].alone THEN unsettled \ Works(job[p]) ELSE unsettled

\* p's command ends without a claim about what it worked on.
Leave(p) == job' = [job EXCEPT ![p] = Idle] /\ UNCHANGED unsettled

At(p, stage) == job[p].at = stage

Begin(p, j) ==
    /\ At(p, "idle") /\ left > 0
    /\ left' = left - 1
    /\ Proceed(p, j)
    /\ UNCHANGED <<store, keychain, keyless>>

-----------------------------------------------------------------------------
(* account add, use, forget *)

BeginAdd(p, n, parts) ==
    ~IsEmpty(parts) /\ Begin(p, [Idle EXCEPT !.at = "put", !.name = n, !.parts = parts])

PutSecret(p) ==
    /\ At(p, "put")
    /\ secret' = [secret EXCEPT ![job[p].name] = job[p].parts]
    /\ Step(p, "upsert")
    /\ UNCHANGED <<store, tokens, left, keyless>>

UpsertAttached(p) ==
    /\ At(p, "upsert")
    /\ row' = [row EXCEPT ![job[p].name] =
                 [endpoint |-> Summary(job[p].parts), sub |-> None, attached |-> TRUE]]
    /\ Done(p)
    /\ UNCHANGED <<signIns, owner, current, keychain, left, keyless>>

BeginUse(p, n) == Begin(p, [Idle EXCEPT !.at = "check", !.name = n])

CheckListed(p) ==
    /\ At(p, "check")
    /\ IF row[job[p].name] = None THEN Leave(p) ELSE Step(p, "select")
    /\ UNCHANGED <<store, keychain, left, keyless>>

Select(p) ==
    /\ At(p, "select")
    /\ current' = [current EXCEPT !.account = job[p].name]
    /\ Leave(p)
    /\ UNCHANGED <<signIns, owner, row, keychain, left, keyless>>

BeginForget(p, n) == Begin(p, [Idle EXCEPT !.at = "erase", !.name = n])

EraseSecret(p) ==
    /\ At(p, "erase")
    /\ secret' = [secret EXCEPT ![job[p].name] = None]
    /\ Step(p, "drop")
    /\ UNCHANGED <<store, tokens, left, keyless>>

DropRow(p) ==
    /\ At(p, "drop")
    /\ row' = [row EXCEPT ![job[p].name] = None]
    /\ Step(p, "look")
    /\ UNCHANGED <<signIns, owner, current, keychain, left, keyless>>

LookSelected(p) ==
    /\ At(p, "look")
    /\ IF current.account = job[p].name THEN Step(p, "deselect") ELSE Done(p)
    /\ UNCHANGED <<store, keychain, left, keyless>>

Deselect(p) ==
    /\ At(p, "deselect")
    /\ current' = [current EXCEPT !.account = None]
    /\ Done(p)
    /\ UNCHANGED <<signIns, owner, row, keychain, left, keyless>>

-----------------------------------------------------------------------------
(* login and logout *)

\* Rows that refer to a deleted one: a subscription goes with its sign-in, an
\* account stays without its subscription.
OwnerWithout(i) == [s \in Subs |-> IF owner[s] = i THEN None ELSE owner[s]]
RowWithout(i) ==
    [n \in AccountNames |->
        IF row[n] # None /\ row[n].sub # None /\ owner[row[n].sub] = i
        THEN [row[n] EXCEPT !.sub = None] ELSE row[n]]

\* Mutant: the store is opened with foreign_keys off.
SignInDeleteAlone(i) ==
    signIns' = signIns \ {i} /\ UNCHANGED <<owner, row>>

SignInDelete(i) ==
    /\ signIns' = signIns \ {i}
    /\ owner' = OwnerWithout(i)
    /\ row' = RowWithout(i)

\* The device flow has ended in a token for i, which comes with a refresh
\* token when the authority grants one.
BeginLogin(p, i, refreshable) ==
    Begin(p, [Idle EXCEPT !.at = IF refreshable THEN "cache" ELSE "lookup",
                          !.signIn = i])

CacheToken(p) ==
    /\ At(p, "cache")
    /\ tokens' = tokens \cup {job[p].signIn}
    /\ Step(p, "lookup")
    /\ UNCHANGED <<store, secret, left, keyless>>

Lookup(p) ==
    /\ At(p, "lookup")
    /\ Step(p, IF job[p].signIn \in signIns THEN "replace" ELSE "insert")
    /\ UNCHANGED <<store, keychain, left, keyless>>

Replace(p) ==
    /\ At(p, "replace")
    /\ SignInDelete(job[p].signIn)
    /\ Step(p, "insert")
    /\ UNCHANGED <<current, keychain, left, keyless>>

\* The primary key refuses a second row.
Insert(p) ==
    /\ At(p, "insert") /\ job[p].signIn \notin signIns
    /\ signIns' = signIns \cup {job[p].signIn}
    /\ Step(p, "activate")
    /\ UNCHANGED <<owner, row, current, keychain, left, keyless>>

Activate(p) ==
    /\ At(p, "activate")
    /\ current' = [current EXCEPT !.signIn = job[p].signIn]
    /\ Done(p)
    /\ UNCHANGED <<signIns, owner, row, keychain, left, keyless>>

BeginLogout(p) == Begin(p, [Idle EXCEPT !.at = "who"])

Who(p) ==
    /\ At(p, "who")
    /\ IF current.signIn = None THEN Leave(p)
       ELSE Proceed(p, [job[p] EXCEPT !.at = "revoke", !.signIn = current.signIn])
    /\ UNCHANGED <<store, keychain, left, keyless>>

\* Mutant: logout forgets the refresh token.
RevokeNothing(p) ==
    /\ At(p, "revoke")
    /\ Step(p, "remove")
    /\ UNCHANGED <<store, keychain, left, keyless>>

Revoke(p) ==
    /\ At(p, "revoke")
    /\ tokens' = tokens \ {job[p].signIn}
    /\ Step(p, "remove")
    /\ UNCHANGED <<store, secret, left, keyless>>

Remove(p) ==
    /\ At(p, "remove")
    /\ SignInDelete(job[p].signIn)
    /\ Step(p, "reread")
    /\ UNCHANGED <<current, keychain, left, keyless>>

Reread(p) ==
    /\ At(p, "reread")
    /\ IF current.signIn = job[p].signIn THEN Step(p, "clear") ELSE Done(p)
    /\ UNCHANGED <<store, keychain, left, keyless>>

Clear(p) ==
    /\ At(p, "clear")
    /\ current' = [current EXCEPT !.signIn = None]
    /\ Done(p)
    /\ UNCHANGED <<signIns, owner, row, keychain, left, keyless>>

-----------------------------------------------------------------------------
(* account discover *)

BeginDiscover(p) == Begin(p, [Idle EXCEPT !.at = "session"])

Session(p) ==
    /\ At(p, "session")
    /\ IF current.signIn = None THEN Leave(p)
       ELSE Proceed(p, [job[p] EXCEPT !.at = "mint", !.signIn = current.signIn])
    /\ UNCHANGED <<store, keychain, left, keyless>>

\* arm_token_for: the authority answers with a new refresh token or without one.
Mint(p) ==
    /\ At(p, "mint")
    /\ IF job[p].signIn \notin tokens THEN Leave(p)
       ELSE \E stage \in {"rotate", "subs"} : Step(p, stage)
    /\ UNCHANGED <<store, keychain, left, keyless>>

Rotate(p) ==
    /\ At(p, "rotate")
    /\ tokens' = tokens \cup {job[p].signIn}
    /\ Step(p, "subs")
    /\ UNCHANGED <<store, secret, left, keyless>>

\* The next subscription of the listing.  Its sign-in must still have a row.
UpsertSub(p, s) ==
    /\ At(p, "subs") /\ job[p].signIn \in signIns
    /\ owner' = [owner EXCEPT ![s] = job[p].signIn]
    /\ Proceed(p, [job[p] EXCEPT !.at = "accounts", !.sub = s])
    /\ UNCHANGED <<signIns, row, current, keychain, left, keyless>>

\* The next account listed in the subscription.
ListAccount(p, n) ==
    /\ At(p, "accounts")
    /\ Proceed(p, [job[p] EXCEPT !.at = "row", !.name = n])
    /\ UNCHANGED <<store, keychain, left, keyless>>

\* ARM may report the account's endpoint or not.
UpsertDiscovered(p, url) ==
    /\ At(p, "row") /\ owner[job[p].sub] # None
    /\ row' = [row EXCEPT ![job[p].name] =
                 [endpoint |-> IF url = None THEN NoEndpoint ELSE Explicit(url),
                  sub |-> job[p].sub, attached |-> FALSE]]
    /\ Proceed(p, [job[p] EXCEPT !.at = "key", !.parts = KeyOf(job[p].name, url)])
    /\ UNCHANGED <<signIns, owner, current, keychain, left, keyless>>

\* Back to the listing, with the account set aside.
NextAccount(p) ==
    job' = [job EXCEPT ![p].at = "accounts", ![p].name = None, ![p].parts = None]

SaveKey(p) ==
    /\ At(p, "key")
    /\ secret' = [secret EXCEPT ![job[p].name] = job[p].parts]
    /\ keyless' = keyless \ {job[p].name}
    /\ NextAccount(p)
    /\ UNCHANGED <<store, tokens, left, unsettled>>

\* list_keys was refused or failed: what the keychain holds is left as it is.
NoKey(p) ==
    /\ At(p, "key")
    /\ keyless' = keyless \cup {job[p].name}
    /\ NextAccount(p)
    /\ UNCHANGED <<store, keychain, left, unsettled>>

NextSub(p) ==
    /\ At(p, "accounts")
    /\ Step(p, "subs")
    /\ UNCHANGED <<store, keychain, left, keyless>>

EndDiscover(p) ==
    /\ At(p, "subs")
    /\ Leave(p)
    /\ UNCHANGED <<store, keychain, left, keyless>>

-----------------------------------------------------------------------------
\* A step fails, a constraint refuses it, or the process ends: the command
\* stops where it is.  A put or delete of the keychain may have been half done,
\* after which the entry is the old one, the new one or useless.
Fail(p) ==
    /\ ~At(p, "idle")
    /\ job' = [job EXCEPT ![p] = Idle]
    /\ unsettled' = unsettled \cup
         (IF job[p].at \in {"check", "select", "who", "session"} THEN {} ELSE Works(job[p]))
    /\ secret' \in
         {secret} \cup (IF job[p].at \in {"put", "key", "erase"}
                        THEN {[secret EXCEPT ![job[p].name] = s] :
                                s \in {job[p].parts, None}}
                        ELSE {})
    /\ tokens' \in
         {tokens} \cup (IF job[p].at \in {"cache", "rotate", "revoke"}
                        THEN {tokens \ {job[p].signIn}} ELSE {})
    /\ UNCHANGED <<store, left, keyless>>

Next ==
    \E p \in Processes :
        \/ \E n \in AccountNames :
              \/ \E g \in Given : BeginAdd(p, n, g)
              \/ BeginUse(p, n) \/ BeginForget(p, n) \/ ListAccount(p, n)
        \/ PutSecret(p) \/ UpsertAttached(p) \/ CheckListed(p) \/ Select(p)
        \/ EraseSecret(p) \/ DropRow(p) \/ LookSelected(p) \/ Deselect(p)
        \/ \E i \in SignIns, r \in BOOLEAN : BeginLogin(p, i, r)
        \/ CacheToken(p) \/ Lookup(p) \/ Replace(p) \/ Insert(p) \/ Activate(p)
        \/ BeginLogout(p) \/ Who(p) \/ Revoke(p) \/ Remove(p) \/ Reread(p) \/ Clear(p)
        \/ BeginDiscover(p) \/ Session(p) \/ Mint(p) \/ Rotate(p)
        \/ \E s \in Subs : UpsertSub(p, s)
        \/ \E url \in Urls \cup {None} : UpsertDiscovered(p, url)
        \/ SaveKey(p) \/ NoKey(p) \/ NextSub(p) \/ EndDiscover(p)
        \/ Fail(p)

Spec == Init /\ [][Next]_vars

-----------------------------------------------------------------------------
\* The tables refer to what is there: whatever discovery, a login and a
\* logout of several processes do, no subscription outlives its sign-in and no
\* account points to a subscription that is gone (store/mod.rs, foreign keys).
CatalogConsistent ==
    /\ \A s \in Subs : owner[s] # None => owner[s] \in signIns
    /\ \A n \in AccountNames :
          row[n] # None /\ row[n].sub # None => owner[row[n].sub] # None

\* Where an account that discovery lists with endpoint e is reached.
Discovered(n, e) == IF e = NoEndpoint THEN PublicBlob(n) ELSE e

WorkedOn == UNION {Works(job[p]) : p \in Processes}
Settled(x) == x \notin unsettled \cup WorkedOn

\* Of an account that no failed or overlapping command has left half done, its
\* credentials are listed, and it is selected only while it is listed; a
\* completed add or forget alone makes it so again after any failure (account.rs).
\*   Attached: the list names what its credentials open, unless they are refused.
\*   Discovered, with its key: it has credentials, and they open what the list
\* names, or the public endpoint of that account when ARM gave none (discover.rs).
\*   Discovered without its key: discovery has renewed the entry and kept the
\* credentials there were, none, an earlier key or what was attached under the
\* name; they may open another endpoint than the list names, and nothing is said.
SettledNamesAgree ==
    \A n \in AccountNames : Settled(n) =>
        /\ secret[n] # None => row[n] # None
        /\ row[n] # None /\ row[n].attached =>
              /\ secret[n] # None
              /\ Materialize(secret[n]) \in {row[n].endpoint, NoEndpoint}
        /\ row[n] # None /\ ~row[n].attached /\ n \notin keyless =>
              /\ secret[n] # None
              /\ Materialize(secret[n]) = Discovered(n, row[n].endpoint)
        /\ current.account = n => row[n] # None

\* Of a sign-in that is settled likewise, a refresh token is kept only while
\* the sign-in has a row, and it is active only while it has one: after a
\* logout nothing of it is left (login.rs).
SettledSignInsAgree ==
    \A i \in SignIns : Settled(i) =>
        /\ i \in tokens => i \in signIns
        /\ current.signIn = i => i \in signIns
=============================================================================
