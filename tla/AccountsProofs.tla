--------------------------- MODULE AccountsProofs ---------------------------
(***************************************************************************)
(* For any processes, accounts, sign-ins and subscriptions: the tables     *)
(* refer to what is there wherever a command stops, and what no failed or  *)
(* overlapping command has touched agrees.                                 *)
(***************************************************************************)
EXTENDS Accounts, TLAPS

\* A job carries what its stage works on and nothing else.
SignInStages == {"cache", "lookup", "replace", "insert", "activate", "revoke", "remove",
                 "reread", "clear", "mint", "rotate", "subs", "accounts", "row", "key"}
NameStages == {"put", "upsert", "check", "select", "erase", "drop", "look", "deselect",
               "row", "key"}
PartsStages == {"put", "upsert", "key"}

Equipped(j) ==
    /\ j.signIn # None <=> j.at \in SignInStages
    /\ j.name # None <=> j.at \in NameStages
    /\ j.at \in PartsStages => j.parts # None

Jobs ==
    /\ job \in [Processes -> Job]
    /\ \A q \in Processes : Equipped(job[q])
    /\ unsettled \subseteq AccountNames \cup SignIns

\* Whoever is alone shares nothing, and what is shared is unsettled.
Apart ==
    \A q, r \in Processes : q # r =>
        /\ job[q].alone => Works(job[q]) \cap Works(job[r]) = {}
        /\ Works(job[q]) \cap Works(job[r]) \subseteq unsettled

Tables ==
    /\ secret \in [AccountNames -> Parts \cup {None}]
    /\ tokens \subseteq SignIns
    /\ signIns \subseteq SignIns
    /\ owner \in [Subs -> SignIns \cup {None}]
    /\ row \in [AccountNames -> Row \cup {None}]
    /\ current \in [signIn : SignIns \cup {None}, account : AccountNames \cup {None}]
    /\ left \in 0 .. Rounds
    /\ keyless \subseteq AccountNames

IInv == Jobs /\ Apart /\ Tables /\ CatalogConsistent

\* q works on x, and no one else has since it was put right or q began.
Held(q, x) == x \in Works(job[q]) /\ (job[q].alone \/ x \notin unsettled)

\* What a step of p leaves of the others' jobs, and of p's.
Turn(p) ==
    /\ \A q \in Processes \ {p} :
          /\ Works(job'[q]) = Works(job[q])
          /\ job'[q].at = job[q].at
          /\ job'[q].name = job[q].name
          /\ job'[q].signIn = job[q].signIn
          /\ job'[q].parts = job[q].parts
          /\ job'[q].alone => job[q].alone
    /\ \A x : x \notin unsettled' /\ x \notin Works(job[p]) => x \notin unsettled
    /\ \A x \in Works(job[p]) :
          \/ x \notin unsettled'
          \/ x \in Works(job'[p]) /\ job'[p].alone
          => Held(p, x)

Turned(p) == Jobs' /\ Apart' /\ Turn(p)

\* What SettledSignInsAgree and SettledNamesAgree say of one of them.
SignInAgrees(i) ==
    /\ i \in tokens => i \in signIns
    /\ current.signIn = i => i \in signIns

NameAgrees(n) ==
    /\ secret[n] # None => row[n] # None
    /\ row[n] # None /\ row[n].attached =>
          /\ secret[n] # None
          /\ Materialize(secret[n]) \in {row[n].endpoint, NoEndpoint}
    /\ row[n] # None /\ ~row[n].attached /\ n \notin keyless =>
          /\ secret[n] # None
          /\ Materialize(secret[n]) = Discovered(n, row[n].endpoint)
    /\ current.account = n => row[n] # None

\* What q has stored and removed so far of the sign-in, and of the account, it
\* works on.
SignInFact(q) ==
    LET i == job[q].signIn IN
    /\ job[q].at \in {"cache", "revoke", "mint", "rotate", "subs", "accounts", "row", "key"}
         => (i \notin unsettled => SignInAgrees(i))
    /\ job[q].at = "rotate" => (i \notin unsettled => i \in tokens)
    /\ job[q].at = "activate" => i \in signIns
    /\ job[q].at \in {"remove", "reread", "clear"} => i \notin tokens
    /\ job[q].at \in {"reread", "clear"} => i \notin signIns

NameFact(q) ==
    LET n == job[q].name IN
    /\ job[q].at \in {"put", "check", "select", "row"}
         => (n \notin unsettled => NameAgrees(n))
    /\ job[q].at = "select" => (n \notin unsettled => row[n] # None)
    /\ job[q].at = "upsert" => secret[n] = job[q].parts
    /\ job[q].at \in {"drop", "look", "deselect"} => secret[n] = None
    /\ job[q].at \in {"look", "deselect"} => row[n] = None
    /\ job[q].at = "key" =>
          /\ row[n] # None /\ ~row[n].attached
          /\ job[q].parts # None
          /\ Materialize(job[q].parts) = Discovered(n, row[n].endpoint)

SignInSound(i) ==
    /\ Settled(i) => SignInAgrees(i)
    /\ \A q \in Processes : job[q].signIn = i /\ Held(q, i) => SignInFact(q)

NameSound(n) ==
    /\ Settled(n) => NameAgrees(n)
    /\ \A q \in Processes : job[q].name = n /\ Held(q, n) => NameFact(q)

Sound ==
    /\ \A i \in SignIns : SignInSound(i)
    /\ \A n \in AccountNames : NameSound(n)

\* A step of p touches only what p works on, except that another may be
\* selected or active in its place, and a row may lose its subscription.
Elsewhere(p) ==
    /\ \A i \in SignIns \ {job[p].signIn} :
          /\ i \in tokens' <=> i \in tokens
          /\ i \in signIns' <=> i \in signIns
          /\ current'.signIn = i => current.signIn = i
    /\ \A n \in AccountNames \ {job[p].name} :
          /\ secret'[n] = secret[n]
          /\ n \in keyless' <=> n \in keyless
          /\ row'[n] = None <=> row[n] = None
          /\ row[n] # None => /\ row'[n].endpoint = row[n].endpoint
                              /\ row'[n].attached = row[n].attached
          /\ current'.account = n => current.account = n

OwnSignIn(p) ==
    \A i \in SignIns : job[p].signIn = i /\ Held(p, i) /\ SignInFact(p) =>
       /\ job'[p].signIn = i => SignInFact(p)'
       /\ job'[p].signIn # i /\ i \notin unsettled' => SignInAgrees(i)'

OwnName(p) ==
    \A n \in AccountNames : job[p].name = n /\ Held(p, n) /\ NameFact(p) =>
       /\ job'[p].name = n => NameFact(p)'
       /\ job'[p].name # n /\ n \notin unsettled' => NameAgrees(n)'

\* A command takes up a sign-in or an account before it changes anything of it.
Fresh(p) ==
    /\ job'[p].signIn \notin {None, job[p].signIn}
         => job'[p].at \in {"cache", "lookup", "revoke", "mint"}
    /\ job'[p].name \notin {None, job[p].name}
         => job'[p].at \in {"put", "check", "erase", "row"}

\* What each step of a command is shown to do.
Acts(p) ==
    /\ Turned(p) /\ Tables' /\ CatalogConsistent'
    /\ Elsewhere(p) /\ OwnSignIn(p) /\ OwnName(p) /\ Fresh(p)

-----------------------------------------------------------------------------
(* Records *)

LEMMA AtSet ==
    ASSUME NEW j \in Job, NEW s \in Stages
    PROVE  /\ [j EXCEPT !.at = s] \in Job
           /\ [j EXCEPT !.at = s].at = s
           /\ [j EXCEPT !.at = s].parts = j.parts
           /\ [j EXCEPT !.at = s].signIn = j.signIn
           /\ [j EXCEPT !.at = s].name = j.name
           /\ [j EXCEPT !.at = s].alone = j.alone
           /\ Works([j EXCEPT !.at = s]) = Works(j)
    BY DEF Job, Works

LEMMA SignInSet ==
    ASSUME NEW j \in Job, NEW i \in SignIns, NEW s \in {"revoke", "mint"},
           j.name = None
    PROVE  LET k == [j EXCEPT !.at = s, !.signIn = i]
           IN  k \in Job /\ Equipped(k) /\ k.at = s /\ k.signIn = i /\ k.alone = j.alone
<1> DEFINE k == [j EXCEPT !.at = s, !.signIn = i]
<1>1. k \in Job
    BY DEF Job, Stages
<1>2. k.at = s /\ k.signIn = i /\ k.name = None /\ k.alone = j.alone
    BY DEF Job
<1> HIDE DEF k
<1>3. Equipped(k)
    BY <1>2, AccountsAssumption DEF Equipped, SignInStages, NameStages, PartsStages
<1> QED BY <1>1, <1>2, <1>3 DEF k

LEMMA AloneSet ==
    ASSUME NEW j \in Job, NEW b \in BOOLEAN
    PROVE  /\ [j EXCEPT !.alone = b] \in Job
           /\ [j EXCEPT !.alone = b].alone = b
           /\ [j EXCEPT !.alone = b].at = j.at
           /\ [j EXCEPT !.alone = b].parts = j.parts
           /\ [j EXCEPT !.alone = b].signIn = j.signIn
           /\ [j EXCEPT !.alone = b].name = j.name
           /\ Works([j EXCEPT !.alone = b]) = Works(j)
    BY DEF Job, Works

LEMMA IdleJob == Idle \in Job /\ Equipped(Idle) /\ Works(Idle) = {}
    BY DEF Idle, Job, Stages, Equipped, SignInStages, NameStages, PartsStages, Works

LEMMA WorksTyped ==
    ASSUME NEW j \in Job
    PROVE  Works(j) \subseteq AccountNames \cup SignIns
    BY DEF Job, Works

\* A sign-in is worked on by those that carry it, and so is an account.
LEMMA WorksOn ==
    ASSUME NEW j \in Job
    PROVE  /\ \A i \in SignIns : i \in Works(j) <=> j.signIn = i
           /\ \A n \in AccountNames : n \in Works(j) <=> j.name = n
    BY AccountsAssumption, NoneAssumption DEF Job, Works

-----------------------------------------------------------------------------
(* How a process goes on *)

LEMMA ProceedTurns ==
    ASSUME Jobs, Apart, NEW p \in Processes, NEW j \in Job, Equipped(j), Proceed(p, j),
           j.alone = job[p].alone \/ Works(job[p]) = {}
    PROVE  /\ Turned(p) /\ unsettled \subseteq unsettled'
           /\ job'[p].at = j.at /\ job'[p].name = j.name
           /\ job'[p].signIn = j.signIn /\ job'[p].parts = j.parts
<1> DEFINE shared == {q \in Processes \ {p} : Works(job[q]) \cap Works(j) # {}}
           mine == [j EXCEPT !.alone = j.alone /\ shared = {}]
<1>1. /\ job' = [q \in Processes |->
                     IF q = p THEN mine
                     ELSE IF q \in shared THEN [job[q] EXCEPT !.alone = FALSE]
                     ELSE job[q]]
      /\ unsettled' = unsettled \cup UNION {Works(job[q]) \cap Works(j) : q \in shared}
    BY DEF Proceed
<1>2. (j.alone /\ shared = {}) \in BOOLEAN
    OBVIOUS
<1>3. /\ mine \in Job /\ mine.at = j.at /\ mine.name = j.name /\ mine.signIn = j.signIn
      /\ mine.parts = j.parts /\ Works(mine) = Works(j)
      /\ mine.alone = (j.alone /\ shared = {})
    <2> DEFINE b == j.alone /\ shared = {}
    <2>1. b \in BOOLEAN BY <1>2
    <2> HIDE DEF b
    <2>2. LET m == [j EXCEPT !.alone = b]
          IN  /\ m \in Job /\ m.at = j.at /\ m.name = j.name /\ m.signIn = j.signIn
              /\ m.parts = j.parts /\ Works(m) = Works(j) /\ m.alone = b
        BY <2>1, AloneSet
    <2> QED BY <2>2 DEF b
<1>4. ASSUME NEW q \in Processes \ {p}
      PROVE  /\ job'[q] \in Job /\ Works(job'[q]) = Works(job[q])
             /\ job'[q].at = job[q].at /\ job'[q].name = job[q].name
             /\ job'[q].signIn = job[q].signIn /\ job'[q].parts = job[q].parts
             /\ job'[q].alone => job[q].alone /\ q \notin shared
    <2> HIDE DEF shared, mine
    <2>1. job[q] \in Job BY DEF Jobs
    <2>2. CASE q \in shared
        <3>1. job'[q] = [job[q] EXCEPT !.alone = FALSE] BY <1>1, <2>2
        <3> QED BY <2>1, <3>1, AloneSet
    <2>3. CASE q \notin shared
        BY <1>1, <2>1, <2>3
    <2> QED BY <2>2, <2>3
<1>5. job'[p] = mine BY <1>1
<1>6. Jobs'
    <2>1. job' \in [Processes -> Job]
        <3> HIDE DEF shared, mine
        <3>1. DOMAIN job' = Processes /\ job' = [q \in Processes |-> job'[q]]
            BY <1>1
        <3> QED BY <1>3, <1>4, <1>5, <3>1
    <2>2. ASSUME NEW q \in Processes PROVE Equipped(job'[q])
        <3> HIDE DEF shared, mine
        <3> QED BY <1>3, <1>4, <1>5 DEF Equipped, Jobs
    <2>3. unsettled' \subseteq AccountNames \cup SignIns
        BY <1>1, WorksTyped DEF Jobs
    <2> QED BY <2>1, <2>2, <2>3 DEF Jobs, Equipped
<1>7. Apart'
    <2> SUFFICES ASSUME NEW q \in Processes, NEW r \in Processes, q # r
                 PROVE  /\ job'[q].alone => Works(job'[q]) \cap Works(job'[r]) = {}
                        /\ Works(job'[q]) \cap Works(job'[r]) \subseteq unsettled'
        BY DEF Apart, Works
    <2>1. ASSUME NEW t \in Processes \ {p}
          PROVE  /\ Works(j) \cap Works(job[t]) \subseteq unsettled'
                 /\ t \notin shared => Works(j) \cap Works(job[t]) = {}
        BY <1>1
    <2>2. CASE q = p
        BY <1>3, <1>4, <1>5, <2>1, <2>2
    <2>3. CASE r = p
        BY <1>3, <1>4, <1>5, <2>1, <2>3
    <2>4. CASE q # p /\ r # p
        <3> HIDE DEF shared, mine
        <3>1. unsettled \subseteq unsettled' BY <1>1
        <3> QED BY <1>4, <2>4, <3>1 DEF Apart
    <2> QED BY <2>2, <2>3, <2>4
<1>8. Turn(p)
    <2> HIDE DEF shared, mine
    <2>1. unsettled \subseteq unsettled' BY <1>1
    <2> QED BY <1>3, <1>4, <1>5, <2>1 DEF Turn, Held
<1>9. unsettled \subseteq unsettled'
    BY <1>1
<1> HIDE DEF mine, shared
<1> QED BY <1>3, <1>5, <1>6, <1>7, <1>8, <1>9 DEF Turned

LEMMA BeginTurns ==
    ASSUME Jobs, Apart, NEW p \in Processes, NEW j \in Job, Equipped(j), Begin(p, j)
    PROVE  /\ Turned(p) /\ Works(job[p]) = {}
           /\ job'[p].at = j.at /\ job'[p].name = j.name
           /\ job'[p].signIn = j.signIn /\ job'[p].parts = j.parts
<1>1. Works(job[p]) = {}
    BY DEF Begin, At, Jobs, Equipped, SignInStages, NameStages, Works
<1> QED BY <1>1, ProceedTurns DEF Begin

Alike(s, t) ==
    /\ s \in SignInStages <=> t \in SignInStages
    /\ s \in NameStages <=> t \in NameStages
    /\ t \in PartsStages => s \in PartsStages

LEMMA StepTurns ==
    ASSUME Jobs, Apart, NEW p \in Processes, NEW s \in Stages, Step(p, s),
           Alike(job[p].at, s)
    PROVE  /\ Turned(p) /\ unsettled \subseteq unsettled'
           /\ job'[p].at = s /\ job'[p].name = job[p].name
           /\ job'[p].signIn = job[p].signIn /\ job'[p].parts = job[p].parts
<1>1. job[p] \in Job /\ Equipped(job[p]) BY DEF Jobs
<1> DEFINE j == [job[p] EXCEPT !.at = s]
<1>2. /\ j \in Job /\ j.at = s /\ j.name = job[p].name /\ j.signIn = job[p].signIn
      /\ j.parts = job[p].parts /\ j.alone = job[p].alone
    BY <1>1, AtSet
<1>3. Proceed(p, j) BY DEF Step
<1> HIDE DEF j
<1>4. Equipped(j)
    BY <1>1, <1>2 DEF Equipped, Alike
<1> QED BY <1>2, <1>3, <1>4, ProceedTurns

LEMMA StopTurns ==
    ASSUME Jobs, Apart, NEW p \in Processes, job' = [job EXCEPT ![p] = Idle],
           unsettled' \subseteq AccountNames \cup SignIns,
           unsettled \ (IF job[p].alone THEN Works(job[p]) ELSE {}) \subseteq unsettled'
    PROVE  Turned(p) /\ job'[p] = Idle
<1>1. job'[p] = Idle /\ \A q \in Processes \ {p} : job'[q] = job[q]
    BY DEF Jobs
<1>2. Jobs'
    BY IdleJob DEF Jobs, Equipped
<1>3. Apart'
    BY <1>1, IdleJob DEF Apart, Works
<1>4. Turn(p)
    BY <1>1, IdleJob DEF Turn, Held
<1> QED BY <1>1, <1>2, <1>3, <1>4 DEF Turned

LEMMA DoneTurns ==
    ASSUME Jobs, Apart, NEW p \in Processes, Done(p)
    PROVE  Turned(p) /\ job'[p] = Idle
    BY StopTurns DEF Done, Jobs

LEMMA LeaveTurns ==
    ASSUME Jobs, Apart, NEW p \in Processes, Leave(p)
    PROVE  Turned(p) /\ job'[p] = Idle
    BY StopTurns DEF Leave, Jobs

LEMMA NextAccountTurns ==
    ASSUME Jobs, Apart, NEW p \in Processes, job[p].at = "key",
           NextAccount(p), UNCHANGED unsettled
    PROVE  /\ Turned(p) /\ job'[p].at = "accounts"
           /\ job'[p].name = None /\ job'[p].signIn = job[p].signIn
<1>1. job[p] \in Job /\ Equipped(job[p]) BY DEF Jobs
<1> DEFINE j == [job[p] EXCEPT !.at = "accounts", !.name = None, !.parts = None]
<1>2. /\ j \in Job /\ j.at = "accounts" /\ j.name = None /\ j.signIn = job[p].signIn
      /\ j.alone = job[p].alone
    BY <1>1 DEF Job, Stages
<1>3. job' = [job EXCEPT ![p] = j]
    BY DEF NextAccount, Jobs
<1> HIDE DEF j
<1>4. Equipped(j)
    BY <1>1, <1>2 DEF Equipped, SignInStages, NameStages, PartsStages
<1>5. job'[p] = j /\ \A q \in Processes \ {p} : job'[q] = job[q]
    BY <1>3 DEF Jobs
<1>6. Jobs'
    BY <1>2, <1>3, <1>4 DEF Jobs, Equipped
<1>7. Works(j) \subseteq Works(job[p])
    BY <1>2 DEF Works
<1>8. Apart'
    <2> SUFFICES ASSUME NEW q \in Processes, NEW r \in Processes, q # r
                 PROVE  /\ job'[q].alone => Works(job'[q]) \cap Works(job'[r]) = {}
                        /\ Works(job'[q]) \cap Works(job'[r]) \subseteq unsettled'
        BY DEF Apart, Works
    <2>1. \A t \in Processes : Works(job'[t]) \subseteq Works(job[t])
                               /\ job'[t].alone = job[t].alone
        BY <1>2, <1>5, <1>7
    <2> QED BY <2>1 DEF Apart
<1>9. Turn(p)
    BY <1>2, <1>5 DEF Turn, Held
<1> QED BY <1>2, <1>5, <1>6, <1>8, <1>9 DEF Turned

-----------------------------------------------------------------------------
(* The tables *)

LEMMA CatalogSame ==
    ASSUME CatalogConsistent, UNCHANGED <<signIns, owner, row>>
    PROVE  CatalogConsistent'
    BY DEF CatalogConsistent

\* Nothing is written.
LEMMA Unwritten ==
    ASSUME IInv, NEW p \in Processes, UNCHANGED <<store, keychain, left, keyless>>
    PROVE  /\ Tables' /\ CatalogConsistent' /\ Elsewhere(p)
           /\ \A i : SignInAgrees(i)' <=> SignInAgrees(i)
           /\ \A n : NameAgrees(n)' <=> NameAgrees(n)
    BY DEF IInv, Tables, CatalogConsistent, store, keychain, Elsewhere,
           SignInAgrees, NameAgrees

LEMMA RowsWithout ==
    ASSUME Tables, NEW i, NEW n \in AccountNames
    PROVE  /\ RowWithout(i)[n] \in Row \cup {None}
           /\ RowWithout(i)[n] = None <=> row[n] = None
           /\ row[n] # None => /\ RowWithout(i)[n].endpoint = row[n].endpoint
                               /\ RowWithout(i)[n].attached = row[n].attached
           /\ row[n] # None /\ RowWithout(i)[n].sub # None =>
                /\ row[n].sub # None /\ owner[row[n].sub] # i
                /\ RowWithout(i)[n] = row[n]
<1>1. CASE row[n] # None /\ row[n].sub # None /\ owner[row[n].sub] = i
    <2>1. RowWithout(i)[n] = [row[n] EXCEPT !.sub = None]
        BY <1>1 DEF RowWithout
    <2>2. row[n] \in Row
        BY <1>1 DEF Tables
    <2>3. LET r == [row[n] EXCEPT !.sub = None]
          IN  /\ r \in Row /\ r.endpoint = row[n].endpoint
              /\ r.attached = row[n].attached /\ r.sub = None
        BY <2>2 DEF Row
    <2>4. [row[n] EXCEPT !.sub = None] # None
        BY <2>3, AccountsAssumption
    <2> QED BY <1>1, <2>1, <2>3, <2>4
<1>2. CASE ~(row[n] # None /\ row[n].sub # None /\ owner[row[n].sub] = i)
    BY <1>2 DEF RowWithout, Tables
<1> QED BY <1>1, <1>2

LEMMA DeleteActs ==
    ASSUME IInv, NEW p \in Processes, SignInDelete(job[p].signIn),
           UNCHANGED <<secret, tokens, current, left, keyless>>
    PROVE  /\ Tables' /\ CatalogConsistent' /\ Elsewhere(p)
           /\ signIns' = signIns \ {job[p].signIn}
<1> DEFINE i == job[p].signIn
<1> USE DEF SignInDelete, IInv
<1>1. \A n \in AccountNames : row'[n] = RowWithout(i)[n]
    OBVIOUS
<1>2. Tables'
    <2>1. row' \in [AccountNames -> Row \cup {None}]
        BY RowsWithout DEF RowWithout
    <2>2. owner' \in [Subs -> SignIns \cup {None}]
        BY DEF OwnerWithout, Tables
    <2> QED BY <2>1, <2>2 DEF Tables
<1>3. ASSUME NEW s \in Subs, owner'[s] # None PROVE owner'[s] \in signIns'
    BY <1>3 DEF CatalogConsistent, OwnerWithout
<1>4. ASSUME NEW n \in AccountNames, row'[n] # None, row'[n].sub # None
      PROVE  owner'[row'[n].sub] # None
    <2>1. row[n] # None /\ row[n].sub # None /\ owner[row[n].sub] # i /\ row'[n] = row[n]
        BY <1>1, <1>4, RowsWithout
    <2>2. row[n].sub \in Subs
        BY <2>1 DEF Row, Tables
    <2> QED BY <2>1, <2>2 DEF CatalogConsistent, OwnerWithout
<1>5. CatalogConsistent'
    BY <1>3, <1>4 DEF CatalogConsistent
<1>6. Elsewhere(p)
    BY <1>1, RowsWithout DEF Elsewhere
<1> QED BY <1>2, <1>5, <1>6

\* The key that discovery saves opens what the list says.
LEMMA KeyOpensWhatIsListed ==
    ASSUME NEW n \in AccountNames, NEW url \in Urls \cup {None}
    PROVE  Materialize(KeyOf(n, url)) =
             Discovered(n, IF url = None THEN NoEndpoint ELSE Explicit(url))
<1>1. n # None /\ Explicit(url) # NoEndpoint
    BY NoneAssumption DEF Explicit, NoEndpoint
<1>2. Materialize(KeyOf(n, url)) = EndpointForAccount(KeyOf(n, url))
    BY <1>1, UnparsableAssumption DEF Materialize, KeyOf
<1> QED BY <1>1, <1>2 DEF EndpointForAccount, KeyOf, Discovered

\* What is opened is what the list says, or nothing.
LEMMA OpensWhatIsListed ==
    ASSUME NEW g \in Parts
    PROVE  Summary(g) \in Endpoints /\ Materialize(g) \in {Summary(g), NoEndpoint}
    BY DEF Summary, Materialize, EndpointOfString, EndpointForAccount, BlobEndpointOf,
           HasParsed, Endpoints, Parts, Strings

LEMMA NoSignIn ==
    ASSUME IInv, NEW p \in Processes, job[p].at \notin SignInStages
    PROVE  OwnSignIn(p)
    BY AccountsAssumption DEF OwnSignIn, IInv, Jobs, Equipped

LEMMA NoName ==
    ASSUME IInv, NEW p \in Processes, job[p].at \notin NameStages
    PROVE  OwnName(p)
    BY NoneAssumption DEF OwnName, IInv, Jobs, Equipped

LEMMA NothingNew ==
    ASSUME NEW p \in Processes,
           job'[p].signIn \in {None, job[p].signIn}, job'[p].name \in {None, job[p].name}
    PROVE  Fresh(p)
    BY DEF Fresh

LEMMA IdleFields == Idle.signIn = None /\ Idle.name = None /\ Idle.at = "idle"
    BY DEF Idle

-----------------------------------------------------------------------------
(* The steps of the commands *)

LEMMA Beginnings ==
    ASSUME IInv, NEW p \in Processes, NEW j \in Job, Equipped(j), Begin(p, j),
           j.signIn # None => j.at \in {"cache", "lookup"},
           j.name # None => j.at \in {"put", "check", "erase"}
    PROVE  Acts(p)
<1>1. Jobs /\ Apart /\ Tables /\ CatalogConsistent BY DEF IInv
<1>2. /\ Turned(p) /\ job'[p].at = j.at /\ job'[p].name = j.name
      /\ job'[p].signIn = j.signIn
    BY <1>1, BeginTurns
<1>3. Tables' /\ CatalogConsistent' /\ Elsewhere(p)
    <2>1. Tables'
        BY <1>1, AccountsAssumption DEF Begin, Tables, store, keychain
    <2>2. CatalogConsistent'
        BY <1>1, CatalogSame DEF Begin, store
    <2>3. Elsewhere(p)
        BY DEF Begin, Elsewhere, store, keychain
    <2> QED BY <2>1, <2>2, <2>3
<1>4. job[p].at \notin SignInStages /\ job[p].at \notin NameStages
    BY DEF Begin, At, SignInStages, NameStages
<1>5. Fresh(p)
    BY <1>2 DEF Fresh
<1> QED BY <1>2, <1>3, <1>4, <1>5, NoSignIn, NoName DEF Acts

LEMMA CommandsBegin ==
    ASSUME IInv, NEW p \in Processes,
           \/ \E n \in AccountNames :
                 (\E g \in Given : BeginAdd(p, n, g)) \/ BeginUse(p, n) \/ BeginForget(p, n)
           \/ \E i \in SignIns, r \in BOOLEAN : BeginLogin(p, i, r)
           \/ BeginLogout(p) \/ BeginDiscover(p)
    PROVE  Acts(p)
<1> USE AccountsAssumption, NoneAssumption
    DEF Idle, Job, Stages, Equipped, SignInStages, NameStages, PartsStages
<1>1. ASSUME NEW n \in AccountNames, NEW g \in Given, BeginAdd(p, n, g) PROVE Acts(p)
    <2> DEFINE j == [Idle EXCEPT !.at = "put", !.name = n, !.parts = g]
    <2>1. j \in Job /\ Equipped(j) /\ j.at = "put" /\ j.signIn = None OBVIOUS
    <2>2. Begin(p, j) BY <1>1 DEF BeginAdd
    <2> HIDE DEF j
    <2> QED BY <2>1, <2>2, Beginnings
<1>2. ASSUME NEW n \in AccountNames, BeginUse(p, n) PROVE Acts(p)
    <2> DEFINE j == [Idle EXCEPT !.at = "check", !.name = n]
    <2>1. j \in Job /\ Equipped(j) /\ j.at = "check" /\ j.signIn = None OBVIOUS
    <2>2. Begin(p, j) BY <1>2 DEF BeginUse
    <2> HIDE DEF j
    <2> QED BY <2>1, <2>2, Beginnings
<1>3. ASSUME NEW n \in AccountNames, BeginForget(p, n) PROVE Acts(p)
    <2> DEFINE j == [Idle EXCEPT !.at = "erase", !.name = n]
    <2>1. j \in Job /\ Equipped(j) /\ j.at = "erase" /\ j.signIn = None OBVIOUS
    <2>2. Begin(p, j) BY <1>3 DEF BeginForget
    <2> HIDE DEF j
    <2> QED BY <2>1, <2>2, Beginnings
<1>4. ASSUME NEW i \in SignIns, NEW r \in BOOLEAN, BeginLogin(p, i, r) PROVE Acts(p)
    <2> DEFINE j == [Idle EXCEPT !.at = IF r THEN "cache" ELSE "lookup", !.signIn = i]
    <2>1. j \in Job /\ Equipped(j) /\ j.at \in {"cache", "lookup"} /\ j.name = None OBVIOUS
    <2>2. Begin(p, j) BY <1>4 DEF BeginLogin
    <2> HIDE DEF j
    <2> QED BY <2>1, <2>2, Beginnings
<1>5. CASE BeginLogout(p)
    <2> DEFINE j == [Idle EXCEPT !.at = "who"]
    <2>1. j \in Job /\ Equipped(j) /\ j.signIn = None /\ j.name = None OBVIOUS
    <2>2. Begin(p, j) BY <1>5 DEF BeginLogout
    <2> HIDE DEF j
    <2> QED BY <2>1, <2>2, Beginnings
<1>6. CASE BeginDiscover(p)
    <2> DEFINE j == [Idle EXCEPT !.at = "session"]
    <2>1. j \in Job /\ Equipped(j) /\ j.signIn = None /\ j.name = None OBVIOUS
    <2>2. Begin(p, j) BY <1>6 DEF BeginDiscover
    <2> HIDE DEF j
    <2> QED BY <2>1, <2>2, Beginnings
<1> QED BY <1>1, <1>2, <1>3, <1>4, <1>5, <1>6

LEMMA AddActs ==
    ASSUME IInv, NEW p \in Processes, PutSecret(p) \/ UpsertAttached(p)
    PROVE  Acts(p)
<1>0. /\ Jobs /\ Apart /\ Tables /\ CatalogConsistent
      /\ job[p] \in Job /\ Equipped(job[p])
    BY DEF IInv, Jobs
<1>1. CASE PutSecret(p)
    <2>0. /\ job[p].at = "put" /\ Step(p, "upsert") /\ UNCHANGED <<store, tokens, left, keyless>>
          /\ secret' = [secret EXCEPT ![job[p].name] = job[p].parts]
        BY <1>1 DEF PutSecret, At
    <2>1. /\ Turned(p) /\ job'[p].at = "upsert" /\ job'[p].name = job[p].name
          /\ job'[p].signIn = job[p].signIn /\ job'[p].parts = job[p].parts
        BY <1>0, <2>0, StepTurns DEF Stages, Alike, SignInStages, NameStages, PartsStages
    <2>2. job[p].parts \in Parts /\ job[p].name \in AccountNames
        BY <1>0, <2>0 DEF Equipped, Job, NameStages, PartsStages
    <2>3. Tables' BY <1>0, <2>0, <2>2 DEF Tables, store
    <2>4. CatalogConsistent' BY <1>0, <2>0, CatalogSame DEF store
    <2>5. Elsewhere(p) BY <1>0, <2>0 DEF Elsewhere, store, Tables
    <2>6. OwnName(p)
        BY <1>0, <2>0, <2>1, <2>2 DEF OwnName, NameFact, Tables
    <2>7. OwnSignIn(p) BY <2>0, NoSignIn DEF SignInStages
    <2> QED BY <2>1, <2>3, <2>4, <2>5, <2>6, <2>7, NothingNew DEF Acts
<1>2. CASE UpsertAttached(p)
    <2> DEFINE entry == [endpoint |-> Summary(job[p].parts), sub |-> None, attached |-> TRUE]
    <2>0. /\ job[p].at = "upsert" /\ Done(p)
          /\ UNCHANGED <<signIns, owner, current, secret, tokens, left, keyless>>
          /\ row' = [row EXCEPT ![job[p].name] = entry]
        BY <1>2 DEF UpsertAttached, At, keychain
    <2>1. Turned(p) /\ job'[p] = Idle
        BY <1>0, <2>0, DoneTurns
    <2>2. job[p].parts \in Parts /\ job[p].parts # None /\ job[p].name \in AccountNames
        BY <1>0, <2>0 DEF Equipped, Job, NameStages, PartsStages
    <2>3. /\ entry \in Row /\ entry.sub = None /\ entry.attached /\ entry # None
          /\ Materialize(job[p].parts) \in {entry.endpoint, NoEndpoint}
        <3>1. Summary(job[p].parts) \in Endpoints
              /\ Materialize(job[p].parts) \in {Summary(job[p].parts), NoEndpoint}
            BY <2>2, OpensWhatIsListed
        <3>2. entry \in Row BY <3>1 DEF Row
        <3> QED BY <3>1, <3>2, AccountsAssumption
    <2> HIDE DEF entry
    <2>4. Tables' BY <1>0, <2>0, <2>3 DEF Tables
    <2>5. CatalogConsistent' BY <1>0, <2>0, <2>3 DEF CatalogConsistent, Tables
    <2>6. Elsewhere(p) BY <1>0, <2>0 DEF Elsewhere, Tables
    <2>7. OwnName(p)
        <3> SUFFICES ASSUME NEW n \in AccountNames, job[p].name = n, NameFact(p)
                     PROVE  NameAgrees(n)'
            BY <2>1, <2>2, IdleFields, NoneAssumption DEF OwnName
        <3>1. secret'[n] = job[p].parts BY <2>0 DEF NameFact
        <3>2. row'[n] = entry BY <1>0, <2>0 DEF Tables
        <3> QED BY <2>2, <2>3, <3>1, <3>2 DEF NameAgrees
    <2>8. OwnSignIn(p) BY <2>0, NoSignIn DEF SignInStages
    <2> QED BY <2>1, <2>4, <2>5, <2>6, <2>7, <2>8, NothingNew, IdleFields DEF Acts
<1> QED BY <1>1, <1>2

LEMMA UseActs ==
    ASSUME IInv, NEW p \in Processes, CheckListed(p) \/ Select(p)
    PROVE  Acts(p)
<1>0. /\ Jobs /\ Apart /\ Tables /\ CatalogConsistent
      /\ job[p] \in Job /\ Equipped(job[p])
    BY DEF IInv, Jobs
<1>1. CASE CheckListed(p)
    <2>0. /\ job[p].at = "check" /\ UNCHANGED <<store, keychain, left, keyless>>
          /\ (row[job[p].name] = None /\ Leave(p)) \/ (row[job[p].name] # None /\ Step(p, "select"))
        BY <1>1 DEF CheckListed, At
    <2>2. Tables' /\ CatalogConsistent' /\ Elsewhere(p) BY <2>0, Unwritten
    <2>7. OwnSignIn(p) BY <2>0, NoSignIn DEF SignInStages
    <2>3. CASE row[job[p].name] # None /\ Step(p, "select")
        <3>1. /\ Turned(p) /\ job'[p].at = "select" /\ job'[p].name = job[p].name
              /\ job'[p].signIn = job[p].signIn /\ unsettled \subseteq unsettled'
            BY <1>0, <2>0, <2>3, StepTurns DEF Stages, Alike, SignInStages, NameStages, PartsStages
        <3>2. OwnName(p)
            BY <2>0, <2>3, <3>1, Unwritten DEF OwnName, NameFact, store
        <3> QED BY <2>2, <2>7, <3>1, <3>2, NothingNew DEF Acts
    <2>4. CASE Leave(p)
        <3>1. Turned(p) /\ job'[p] = Idle /\ unsettled' = unsettled
            BY <1>0, <2>4, LeaveTurns DEF Leave
        <3>2. OwnName(p)
            BY <2>0, <3>1, Unwritten, IdleFields, NoneAssumption DEF OwnName, NameFact
        <3> QED BY <2>2, <2>7, <3>1, <3>2, NothingNew, IdleFields DEF Acts
    <2> QED BY <2>0, <2>3, <2>4
<1>2. CASE Select(p)
    <2>0. /\ job[p].at = "select" /\ Leave(p) /\ UNCHANGED <<signIns, owner, row, secret, tokens, left, keyless>>
          /\ current' = [current EXCEPT !.account = job[p].name]
        BY <1>2 DEF Select, At, keychain
    <2>1. Turned(p) /\ job'[p] = Idle /\ unsettled' = unsettled
        BY <1>0, <2>0, LeaveTurns DEF Leave
    <2>2. Tables' BY <1>0, <2>0 DEF Tables, Job
    <2>3. CatalogConsistent' BY <1>0, <2>0, CatalogSame
    <2>4. current'.account = job[p].name /\ current'.signIn = current.signIn
        BY <1>0, <2>0 DEF Tables
    <2>5. Elsewhere(p) BY <2>0, <2>4 DEF Elsewhere
    <2>6. OwnName(p)
        BY <2>0, <2>1, <2>4, IdleFields, NoneAssumption DEF OwnName, NameFact, NameAgrees
    <2>7. OwnSignIn(p) BY <2>0, NoSignIn DEF SignInStages
    <2> QED BY <2>1, <2>2, <2>3, <2>5, <2>6, <2>7, NothingNew, IdleFields DEF Acts
<1> QED BY <1>1, <1>2

LEMMA ForgetActs ==
    ASSUME IInv, NEW p \in Processes, EraseSecret(p) \/ DropRow(p) \/ LookSelected(p) \/ Deselect(p)
    PROVE  Acts(p)
<1>0. /\ Jobs /\ Apart /\ Tables /\ CatalogConsistent
      /\ job[p] \in Job /\ Equipped(job[p])
    BY DEF IInv, Jobs
<1>1. CASE EraseSecret(p)
    <2>0. /\ job[p].at = "erase" /\ Step(p, "drop") /\ UNCHANGED <<signIns, owner, row, current, tokens, left, keyless>>
          /\ secret' = [secret EXCEPT ![job[p].name] = None]
        BY <1>1 DEF EraseSecret, At, store
    <2>1. /\ Turned(p) /\ job'[p].at = "drop" /\ job'[p].name = job[p].name
          /\ job'[p].signIn = job[p].signIn /\ unsettled \subseteq unsettled'
        BY <1>0, <2>0, StepTurns DEF Stages, Alike, SignInStages, NameStages, PartsStages
    <2>2. Tables' BY <1>0, <2>0 DEF Tables
    <2>3. CatalogConsistent' BY <1>0, <2>0, CatalogSame
    <2>5. Elsewhere(p) BY <1>0, <2>0 DEF Elsewhere, Tables
    <2>6. OwnName(p) BY <1>0, <2>0, <2>1 DEF OwnName, NameFact, Tables
    <2>7. OwnSignIn(p) BY <2>0, NoSignIn DEF SignInStages
    <2> QED BY <2>1, <2>2, <2>3, <2>5, <2>6, <2>7, NothingNew DEF Acts
<1>2. CASE DropRow(p)
    <2>0. /\ job[p].at = "drop" /\ Step(p, "look") /\ UNCHANGED <<signIns, owner, current, secret, tokens, left, keyless>>
          /\ row' = [row EXCEPT ![job[p].name] = None]
        BY <1>2 DEF DropRow, At, keychain
    <2>1. /\ Turned(p) /\ job'[p].at = "look" /\ job'[p].name = job[p].name
          /\ job'[p].signIn = job[p].signIn /\ unsettled \subseteq unsettled'
        BY <1>0, <2>0, StepTurns DEF Stages, Alike, SignInStages, NameStages, PartsStages
    <2>2. Tables' BY <1>0, <2>0 DEF Tables
    <2>3. CatalogConsistent' BY <1>0, <2>0 DEF CatalogConsistent, Tables
    <2>5. Elsewhere(p) BY <1>0, <2>0 DEF Elsewhere, Tables
    <2>6. OwnName(p) BY <1>0, <2>0, <2>1 DEF OwnName, NameFact, Tables
    <2>7. OwnSignIn(p) BY <2>0, NoSignIn DEF SignInStages
    <2> QED BY <2>1, <2>2, <2>3, <2>5, <2>6, <2>7, NothingNew DEF Acts
<1>3. CASE LookSelected(p)
    <2>0. /\ job[p].at = "look" /\ UNCHANGED <<store, keychain, left, keyless>>
          /\ Step(p, "deselect") \/ (current.account # job[p].name /\ Done(p))
        BY <1>3 DEF LookSelected, At
    <2>2. Tables' /\ CatalogConsistent' /\ Elsewhere(p) BY <2>0, Unwritten
    <2>7. OwnSignIn(p) BY <2>0, NoSignIn DEF SignInStages
    <2>3. CASE Step(p, "deselect")
        <3>1. /\ Turned(p) /\ job'[p].at = "deselect" /\ job'[p].name = job[p].name
              /\ job'[p].signIn = job[p].signIn
            BY <1>0, <2>0, <2>3, StepTurns DEF Stages, Alike, SignInStages, NameStages, PartsStages
        <3>2. OwnName(p)
            BY <2>0, <3>1 DEF OwnName, NameFact, store, keychain
        <3> QED BY <2>2, <2>7, <3>1, <3>2, NothingNew DEF Acts
    <2>4. CASE current.account # job[p].name /\ Done(p)
        <3>1. Turned(p) /\ job'[p] = Idle BY <1>0, <2>4, DoneTurns
        <3>2. OwnName(p)
            BY <2>0, <2>4, <3>1, IdleFields, NoneAssumption
            DEF OwnName, NameFact, NameAgrees, store, keychain
        <3> QED BY <2>2, <2>7, <3>1, <3>2, NothingNew, IdleFields DEF Acts
    <2> QED BY <2>0, <2>3, <2>4
<1>4. CASE Deselect(p)
    <2>0. /\ job[p].at = "deselect" /\ Done(p) /\ UNCHANGED <<signIns, owner, row, secret, tokens, left, keyless>>
          /\ current' = [current EXCEPT !.account = None]
        BY <1>4 DEF Deselect, At, keychain
    <2>1. Turned(p) /\ job'[p] = Idle BY <1>0, <2>0, DoneTurns
    <2>2. Tables' BY <1>0, <2>0 DEF Tables
    <2>3. CatalogConsistent' BY <1>0, <2>0, CatalogSame
    <2>4. current'.account = None /\ current'.signIn = current.signIn
        BY <1>0, <2>0 DEF Tables
    <2>5. Elsewhere(p) BY <2>0, <2>4, NoneAssumption DEF Elsewhere
    <2>6. OwnName(p)
        BY <2>0, <2>1, <2>4, IdleFields, NoneAssumption DEF OwnName, NameFact, NameAgrees
    <2>7. OwnSignIn(p) BY <2>0, NoSignIn DEF SignInStages
    <2> QED BY <2>1, <2>2, <2>3, <2>5, <2>6, <2>7, NothingNew, IdleFields DEF Acts
<1> QED BY <1>1, <1>2, <1>3, <1>4

LEMMA LoginActs ==
    ASSUME IInv, NEW p \in Processes, CacheToken(p) \/ Lookup(p) \/ Replace(p) \/ Insert(p) \/ Activate(p)
    PROVE  Acts(p)
<1>0. /\ Jobs /\ Apart /\ Tables /\ CatalogConsistent
      /\ job[p] \in Job /\ Equipped(job[p])
    BY DEF IInv, Jobs
<1>1. CASE CacheToken(p)
    <2>0. /\ job[p].at = "cache" /\ Step(p, "lookup") /\ UNCHANGED <<signIns, owner, row, current, secret, left, keyless>>
          /\ tokens' = tokens \cup {job[p].signIn}
        BY <1>1 DEF CacheToken, At, store
    <2>1. /\ Turned(p) /\ job'[p].at = "lookup" /\ job'[p].name = job[p].name
          /\ job'[p].signIn = job[p].signIn /\ unsettled \subseteq unsettled'
        BY <1>0, <2>0, StepTurns DEF Stages, Alike, SignInStages, NameStages, PartsStages
    <2>4. job[p].signIn \in SignIns BY <1>0, <2>0 DEF Equipped, Job, SignInStages
    <2>2. Tables' BY <1>0, <2>0, <2>4 DEF Tables
    <2>3. CatalogConsistent' BY <1>0, <2>0, CatalogSame
    <2>5. Elsewhere(p) BY <2>0 DEF Elsewhere
    <2>6. OwnSignIn(p) BY <2>1 DEF OwnSignIn, SignInFact
    <2>7. OwnName(p) BY <2>0, NoName DEF NameStages
    <2> QED BY <2>1, <2>2, <2>3, <2>5, <2>6, <2>7, NothingNew DEF Acts
<1>2. CASE Lookup(p)
    <2> DEFINE s == IF job[p].signIn \in signIns THEN "replace" ELSE "insert"
    <2>0. job[p].at = "lookup" /\ Step(p, s) /\ UNCHANGED <<store, keychain, left, keyless>>
        BY <1>2 DEF Lookup, At
    <2>4. s \in {"replace", "insert"} OBVIOUS
    <2> HIDE DEF s
    <2>1. /\ Turned(p) /\ job'[p].at = s /\ job'[p].name = job[p].name
          /\ job'[p].signIn = job[p].signIn
        BY <1>0, <2>0, <2>4, StepTurns DEF Stages, Alike, SignInStages, NameStages, PartsStages
    <2>2. Tables' /\ CatalogConsistent' /\ Elsewhere(p) BY <2>0, Unwritten
    <2>6. OwnSignIn(p) BY <2>1, <2>4 DEF OwnSignIn, SignInFact
    <2>7. OwnName(p) BY <2>0, NoName DEF NameStages
    <2> QED BY <2>1, <2>2, <2>6, <2>7, NothingNew DEF Acts
<1>3. CASE Replace(p)
    <2>0. /\ job[p].at = "replace" /\ Step(p, "insert") /\ SignInDelete(job[p].signIn)
          /\ UNCHANGED <<secret, tokens, current, left, keyless>>
        BY <1>3 DEF Replace, At, keychain
    <2>1. /\ Turned(p) /\ job'[p].at = "insert" /\ job'[p].name = job[p].name
          /\ job'[p].signIn = job[p].signIn /\ unsettled \subseteq unsettled'
        BY <1>0, <2>0, StepTurns DEF Stages, Alike, SignInStages, NameStages, PartsStages
    <2>2. Tables' /\ CatalogConsistent' /\ Elsewhere(p) BY <2>0, DeleteActs
    <2>6. OwnSignIn(p) BY <2>1 DEF OwnSignIn, SignInFact
    <2>7. OwnName(p) BY <2>0, NoName DEF NameStages
    <2> QED BY <2>1, <2>2, <2>6, <2>7, NothingNew DEF Acts
<1>4. CASE Insert(p)
    <2>0. /\ job[p].at = "insert" /\ Step(p, "activate") /\ UNCHANGED <<owner, row, current, secret, tokens, left, keyless>>
          /\ signIns' = signIns \cup {job[p].signIn}
        BY <1>4 DEF Insert, At, keychain
    <2>1. /\ Turned(p) /\ job'[p].at = "activate" /\ job'[p].name = job[p].name
          /\ job'[p].signIn = job[p].signIn /\ unsettled \subseteq unsettled'
        BY <1>0, <2>0, StepTurns DEF Stages, Alike, SignInStages, NameStages, PartsStages
    <2>4. job[p].signIn \in SignIns BY <1>0, <2>0 DEF Equipped, Job, SignInStages
    <2>2. Tables' BY <1>0, <2>0, <2>4 DEF Tables
    <2>3. CatalogConsistent' BY <1>0, <2>0 DEF CatalogConsistent
    <2>5. Elsewhere(p) BY <2>0 DEF Elsewhere
    <2>6. OwnSignIn(p) BY <2>0, <2>1 DEF OwnSignIn, SignInFact
    <2>7. OwnName(p) BY <2>0, NoName DEF NameStages
    <2> QED BY <2>1, <2>2, <2>3, <2>5, <2>6, <2>7, NothingNew DEF Acts
<1>5. CASE Activate(p)
    <2>0. /\ job[p].at = "activate" /\ Done(p) /\ UNCHANGED <<signIns, owner, row, secret, tokens, left, keyless>>
          /\ current' = [current EXCEPT !.signIn = job[p].signIn]
        BY <1>5 DEF Activate, At, keychain
    <2>1. Turned(p) /\ job'[p] = Idle BY <1>0, <2>0, DoneTurns
    <2>2. Tables' BY <1>0, <2>0 DEF Tables, Job
    <2>3. CatalogConsistent' BY <1>0, <2>0, CatalogSame
    <2>4. current'.account = current.account /\ current'.signIn = job[p].signIn
        BY <1>0, <2>0 DEF Tables
    <2>5. Elsewhere(p) BY <2>0, <2>4 DEF Elsewhere
    <2>6. OwnSignIn(p)
        BY <2>0, <2>1, <2>4, IdleFields, AccountsAssumption DEF OwnSignIn, SignInFact, SignInAgrees
    <2>7. OwnName(p) BY <2>0, NoName DEF NameStages
    <2> QED BY <2>1, <2>2, <2>3, <2>5, <2>6, <2>7, NothingNew, IdleFields DEF Acts
<1> QED BY <1>1, <1>2, <1>3, <1>4, <1>5

LEMMA LogoutActs ==
    ASSUME IInv, NEW p \in Processes, Who(p) \/ Revoke(p) \/ Remove(p) \/ Reread(p) \/ Clear(p)
    PROVE  Acts(p)
<1>0. /\ Jobs /\ Apart /\ Tables /\ CatalogConsistent
      /\ job[p] \in Job /\ Equipped(job[p])
    BY DEF IInv, Jobs
<1>1. CASE Who(p)
    <2>0. /\ job[p].at = "who" /\ UNCHANGED <<store, keychain, left, keyless>>
          /\ \/ Leave(p)
             \/ /\ current.signIn # None
                /\ Proceed(p, [job[p] EXCEPT !.at = "revoke", !.signIn = current.signIn])
        BY <1>1 DEF Who, At
    <2>2. Tables' /\ CatalogConsistent' /\ Elsewhere(p) BY <2>0, Unwritten
    <2>6. OwnSignIn(p) BY <2>0, NoSignIn DEF SignInStages
    <2>7. OwnName(p) BY <2>0, NoName DEF NameStages
    <2>3. CASE Leave(p)
        <3>1. Turned(p) /\ job'[p] = Idle BY <1>0, <2>3, LeaveTurns
        <3> QED BY <2>2, <2>6, <2>7, <3>1, NothingNew, IdleFields DEF Acts
    <2>4. CASE /\ current.signIn # None
               /\ Proceed(p, [job[p] EXCEPT !.at = "revoke", !.signIn = current.signIn])
        <3> DEFINE j == [job[p] EXCEPT !.at = "revoke", !.signIn = current.signIn]
        <3>1. current.signIn \in SignIns BY <1>0, <2>4 DEF Tables
        <3>2. job[p].name = None /\ job[p].signIn = None
            BY <1>0, <2>0 DEF Equipped, SignInStages, NameStages
        <3>3. /\ j \in Job /\ Equipped(j) /\ j.at = "revoke" /\ j.signIn = current.signIn
              /\ j.alone = job[p].alone
            BY <1>0, <3>1, <3>2, SignInSet
        <3>4. Proceed(p, j) BY <2>4
        <3> HIDE DEF j
        <3>5. j.name = None BY <3>3 DEF Equipped, NameStages
        <3>6. Turned(p) /\ job'[p].at = "revoke" /\ job'[p].name = None
            BY <1>0, <3>3, <3>4, <3>5, ProceedTurns
        <3>7. Fresh(p) BY <3>6 DEF Fresh
        <3> QED BY <2>2, <2>6, <2>7, <3>6, <3>7 DEF Acts
    <2> QED BY <2>0, <2>3, <2>4
<1>2. CASE Revoke(p)
    <2>0. /\ job[p].at = "revoke" /\ Step(p, "remove") /\ UNCHANGED <<signIns, owner, row, current, secret, left, keyless>>
          /\ tokens' = tokens \ {job[p].signIn}
        BY <1>2 DEF Revoke, At, store
    <2>1. /\ Turned(p) /\ job'[p].at = "remove" /\ job'[p].name = job[p].name
          /\ job'[p].signIn = job[p].signIn /\ unsettled \subseteq unsettled'
        BY <1>0, <2>0, StepTurns DEF Stages, Alike, SignInStages, NameStages, PartsStages
    <2>2. Tables' BY <1>0, <2>0 DEF Tables
    <2>3. CatalogConsistent' BY <1>0, <2>0, CatalogSame
    <2>5. Elsewhere(p) BY <2>0 DEF Elsewhere
    <2>6. OwnSignIn(p) BY <2>0, <2>1 DEF OwnSignIn, SignInFact
    <2>7. OwnName(p) BY <2>0, NoName DEF NameStages
    <2> QED BY <2>1, <2>2, <2>3, <2>5, <2>6, <2>7, NothingNew DEF Acts
<1>3. CASE Remove(p)
    <2>0. /\ job[p].at = "remove" /\ Step(p, "reread") /\ SignInDelete(job[p].signIn)
          /\ UNCHANGED <<secret, tokens, current, left, keyless>>
        BY <1>3 DEF Remove, At, keychain
    <2>1. /\ Turned(p) /\ job'[p].at = "reread" /\ job'[p].name = job[p].name
          /\ job'[p].signIn = job[p].signIn /\ unsettled \subseteq unsettled'
        BY <1>0, <2>0, StepTurns DEF Stages, Alike, SignInStages, NameStages, PartsStages
    <2>2. /\ Tables' /\ CatalogConsistent' /\ Elsewhere(p)
          /\ signIns' = signIns \ {job[p].signIn}
        BY <2>0, DeleteActs
    <2>6. OwnSignIn(p) BY <2>0, <2>1, <2>2 DEF OwnSignIn, SignInFact
    <2>7. OwnName(p) BY <2>0, NoName DEF NameStages
    <2> QED BY <2>1, <2>2, <2>6, <2>7, NothingNew DEF Acts
<1>4. CASE Reread(p)
    <2>0. /\ job[p].at = "reread" /\ UNCHANGED <<store, keychain, left, keyless>>
          /\ Step(p, "clear") \/ (current.signIn # job[p].signIn /\ Done(p))
        BY <1>4 DEF Reread, At
    <2>2. Tables' /\ CatalogConsistent' /\ Elsewhere(p) BY <2>0, Unwritten
    <2>7. OwnName(p) BY <2>0, NoName DEF NameStages
    <2>3. CASE Step(p, "clear")
        <3>1. /\ Turned(p) /\ job'[p].at = "clear" /\ job'[p].name = job[p].name
              /\ job'[p].signIn = job[p].signIn
            BY <1>0, <2>0, <2>3, StepTurns DEF Stages, Alike, SignInStages, NameStages, PartsStages
        <3>2. OwnSignIn(p)
            BY <2>0, <3>1 DEF OwnSignIn, SignInFact, store, keychain
        <3> QED BY <2>2, <2>7, <3>1, <3>2, NothingNew DEF Acts
    <2>4. CASE current.signIn # job[p].signIn /\ Done(p)
        <3>1. Turned(p) /\ job'[p] = Idle BY <1>0, <2>4, DoneTurns
        <3>2. OwnSignIn(p)
            BY <2>0, <2>4, <3>1, IdleFields, AccountsAssumption
            DEF OwnSignIn, SignInFact, SignInAgrees, store, keychain
        <3> QED BY <2>2, <2>7, <3>1, <3>2, NothingNew, IdleFields DEF Acts
    <2> QED BY <2>0, <2>3, <2>4
<1>5. CASE Clear(p)
    <2>0. /\ job[p].at = "clear" /\ Done(p) /\ UNCHANGED <<signIns, owner, row, secret, tokens, left, keyless>>
          /\ current' = [current EXCEPT !.signIn = None]
        BY <1>5 DEF Clear, At, keychain
    <2>1. Turned(p) /\ job'[p] = Idle BY <1>0, <2>0, DoneTurns
    <2>2. Tables' BY <1>0, <2>0 DEF Tables
    <2>3. CatalogConsistent' BY <1>0, <2>0, CatalogSame
    <2>4. current'.account = current.account /\ current'.signIn = None
        BY <1>0, <2>0 DEF Tables
    <2>5. Elsewhere(p) BY <2>0, <2>4, AccountsAssumption DEF Elsewhere
    <2>6. OwnSignIn(p)
        BY <2>0, <2>1, <2>4, IdleFields, AccountsAssumption DEF OwnSignIn, SignInFact, SignInAgrees
    <2>7. OwnName(p) BY <2>0, NoName DEF NameStages
    <2> QED BY <2>1, <2>2, <2>3, <2>5, <2>6, <2>7, NothingNew, IdleFields DEF Acts
<1> QED BY <1>1, <1>2, <1>3, <1>4, <1>5

LEMMA DiscoveryActs ==
    ASSUME IInv, NEW p \in Processes, Session(p) \/ Mint(p) \/ Rotate(p) \/ NextSub(p) \/ EndDiscover(p)
    PROVE  Acts(p)
<1>0. /\ Jobs /\ Apart /\ Tables /\ CatalogConsistent
      /\ job[p] \in Job /\ Equipped(job[p])
    BY DEF IInv, Jobs
<1>1. CASE Session(p)
    <2>0. /\ job[p].at = "session" /\ UNCHANGED <<store, keychain, left, keyless>>
          /\ \/ Leave(p)
             \/ /\ current.signIn # None
                /\ Proceed(p, [job[p] EXCEPT !.at = "mint", !.signIn = current.signIn])
        BY <1>1 DEF Session, At
    <2>2. Tables' /\ CatalogConsistent' /\ Elsewhere(p) BY <2>0, Unwritten
    <2>6. OwnSignIn(p) BY <2>0, NoSignIn DEF SignInStages
    <2>7. OwnName(p) BY <2>0, NoName DEF NameStages
    <2>3. CASE Leave(p)
        <3>1. Turned(p) /\ job'[p] = Idle BY <1>0, <2>3, LeaveTurns
        <3> QED BY <2>2, <2>6, <2>7, <3>1, NothingNew, IdleFields DEF Acts
    <2>4. CASE /\ current.signIn # None
               /\ Proceed(p, [job[p] EXCEPT !.at = "mint", !.signIn = current.signIn])
        <3> DEFINE j == [job[p] EXCEPT !.at = "mint", !.signIn = current.signIn]
        <3>1. current.signIn \in SignIns BY <1>0, <2>4 DEF Tables
        <3>2. job[p].name = None /\ job[p].signIn = None
            BY <1>0, <2>0 DEF Equipped, SignInStages, NameStages
        <3>3. /\ j \in Job /\ Equipped(j) /\ j.at = "mint" /\ j.signIn = current.signIn
              /\ j.alone = job[p].alone
            BY <1>0, <3>1, <3>2, SignInSet
        <3>4. Proceed(p, j) BY <2>4
        <3> HIDE DEF j
        <3>5. j.name = None BY <3>3 DEF Equipped, NameStages
        <3>6. Turned(p) /\ job'[p].at = "mint" /\ job'[p].name = None
            BY <1>0, <3>3, <3>4, <3>5, ProceedTurns
        <3>7. Fresh(p) BY <3>6 DEF Fresh
        <3> QED BY <2>2, <2>6, <2>7, <3>6, <3>7 DEF Acts
    <2> QED BY <2>0, <2>3, <2>4
<1>2. CASE Mint(p)
    <2>0. /\ job[p].at = "mint" /\ UNCHANGED <<store, keychain, left, keyless>>
          /\ Leave(p) \/ (job[p].signIn \in tokens /\ \E s \in {"rotate", "subs"} : Step(p, s))
        BY <1>2 DEF Mint, At
    <2>2. Tables' /\ CatalogConsistent' /\ Elsewhere(p) BY <2>0, Unwritten
    <2>7. OwnName(p) BY <2>0, NoName DEF NameStages
    <2>3. ASSUME NEW s \in {"rotate", "subs"}, Step(p, s), job[p].signIn \in tokens
          PROVE  Acts(p)
        <3>1. /\ Turned(p) /\ job'[p].at = s /\ job'[p].name = job[p].name
              /\ job'[p].signIn = job[p].signIn /\ unsettled \subseteq unsettled'
            BY <1>0, <2>0, <2>3, StepTurns DEF Stages, Alike, SignInStages, NameStages, PartsStages
        <3>2. OwnSignIn(p)
            BY <2>0, <2>3, <3>1, Unwritten DEF OwnSignIn, SignInFact, keychain
        <3> QED BY <2>2, <2>7, <3>1, <3>2, NothingNew DEF Acts
    <2>4. CASE Leave(p)
        <3>1. Turned(p) /\ job'[p] = Idle /\ unsettled' = unsettled
            BY <1>0, <2>4, LeaveTurns DEF Leave
        <3>2. OwnSignIn(p)
            BY <2>0, <3>1, Unwritten, IdleFields, AccountsAssumption DEF OwnSignIn, SignInFact
        <3> QED BY <2>2, <2>7, <3>1, <3>2, NothingNew, IdleFields DEF Acts
    <2> QED BY <2>0, <2>3, <2>4
<1>3. CASE Rotate(p)
    <2>0. /\ job[p].at = "rotate" /\ Step(p, "subs") /\ UNCHANGED <<signIns, owner, row, current, secret, left, keyless>>
          /\ tokens' = tokens \cup {job[p].signIn}
        BY <1>3 DEF Rotate, At, store
    <2>1. /\ Turned(p) /\ job'[p].at = "subs" /\ job'[p].name = job[p].name
          /\ job'[p].signIn = job[p].signIn /\ unsettled \subseteq unsettled'
        BY <1>0, <2>0, StepTurns DEF Stages, Alike, SignInStages, NameStages, PartsStages
    <2>4. job[p].signIn \in SignIns BY <1>0, <2>0 DEF Equipped, Job, SignInStages
    <2>2. Tables' BY <1>0, <2>0, <2>4 DEF Tables
    <2>3. CatalogConsistent' BY <1>0, <2>0, CatalogSame
    <2>5. Elsewhere(p) BY <2>0 DEF Elsewhere
    <2>6. OwnSignIn(p) BY <2>0, <2>1 DEF OwnSignIn, SignInFact, SignInAgrees
    <2>7. OwnName(p) BY <2>0, NoName DEF NameStages
    <2> QED BY <2>1, <2>2, <2>3, <2>5, <2>6, <2>7, NothingNew DEF Acts
<1>4. CASE NextSub(p)
    <2>0. job[p].at = "accounts" /\ Step(p, "subs") /\ UNCHANGED <<store, keychain, left, keyless>>
        BY <1>4 DEF NextSub, At
    <2>1. /\ Turned(p) /\ job'[p].at = "subs" /\ job'[p].name = job[p].name
          /\ job'[p].signIn = job[p].signIn /\ unsettled \subseteq unsettled'
        BY <1>0, <2>0, StepTurns DEF Stages, Alike, SignInStages, NameStages, PartsStages
    <2>2. Tables' /\ CatalogConsistent' /\ Elsewhere(p) BY <2>0, Unwritten
    <2>6. OwnSignIn(p)
        BY <2>0, <2>1, Unwritten DEF OwnSignIn, SignInFact
    <2>7. OwnName(p) BY <2>0, NoName DEF NameStages
    <2> QED BY <2>1, <2>2, <2>6, <2>7, NothingNew DEF Acts
<1>5. CASE EndDiscover(p)
    <2>0. job[p].at = "subs" /\ Leave(p) /\ UNCHANGED <<store, keychain, left, keyless>>
        BY <1>5 DEF EndDiscover, At
    <2>1. Turned(p) /\ job'[p] = Idle /\ unsettled' = unsettled
        BY <1>0, <2>0, LeaveTurns DEF Leave
    <2>2. Tables' /\ CatalogConsistent' /\ Elsewhere(p) BY <2>0, Unwritten
    <2>6. OwnSignIn(p)
        BY <2>0, <2>1, Unwritten, IdleFields, AccountsAssumption DEF OwnSignIn, SignInFact
    <2>7. OwnName(p) BY <2>0, NoName DEF NameStages
    <2> QED BY <2>1, <2>2, <2>6, <2>7, NothingNew, IdleFields DEF Acts
<1> QED BY <1>1, <1>2, <1>3, <1>4, <1>5

LEMMA KeyActs ==
    ASSUME IInv, NEW p \in Processes, SaveKey(p) \/ NoKey(p)
    PROVE  Acts(p)
<1>0. /\ Jobs /\ Apart /\ Tables /\ CatalogConsistent
      /\ job[p] \in Job /\ Equipped(job[p])
    BY DEF IInv, Jobs
<1>1. /\ job[p].at = "key" /\ NextAccount(p)
      /\ UNCHANGED <<signIns, owner, row, current, tokens, left, unsettled>>
      /\ \/ /\ secret' = [secret EXCEPT ![job[p].name] = job[p].parts]
            /\ keyless' = keyless \ {job[p].name}
         \/ /\ secret' = secret
            /\ keyless' = keyless \cup {job[p].name}
    BY DEF SaveKey, NoKey, At, store, keychain
<1>2. /\ Turned(p) /\ job'[p].at = "accounts" /\ job'[p].name = None
      /\ job'[p].signIn = job[p].signIn
    BY <1>0, <1>1, NextAccountTurns
<1>3. job[p].name \in AccountNames BY <1>0, <1>1 DEF Equipped, Job, NameStages
<1>4. Tables' BY <1>0, <1>1, <1>3 DEF Tables, Job
<1>5. CatalogConsistent' BY <1>0, <1>1, CatalogSame
<1>6. Elsewhere(p) BY <1>0, <1>1 DEF Elsewhere, Tables
<1>7. OwnSignIn(p) BY <1>1, <1>2 DEF OwnSignIn, SignInFact, SignInAgrees
<1>8. OwnName(p)
    <2> SUFFICES ASSUME NEW n \in AccountNames, job[p].name = n, NameFact(p)
                 PROVE  NameAgrees(n)'
        BY <1>2, NoneAssumption DEF OwnName
    <2>1. /\ row[n] # None /\ ~row[n].attached
          /\ job[p].parts # None
          /\ Materialize(job[p].parts) = Discovered(n, row[n].endpoint)
        BY <1>1 DEF NameFact
    <2>2. \/ secret'[n] = job[p].parts
          \/ n \in keyless'
        BY <1>0, <1>1 DEF Tables
    <2> QED BY <1>1, <2>1, <2>2 DEF NameAgrees
<1> QED BY <1>2, <1>4, <1>5, <1>6, <1>7, <1>8, NothingNew DEF Acts

LEMMA UpsertSubActs ==
    ASSUME IInv, NEW p \in Processes, NEW s \in Subs, UpsertSub(p, s)
    PROVE  Acts(p)
<1>0. /\ Jobs /\ Apart /\ Tables /\ CatalogConsistent
      /\ job[p] \in Job /\ Equipped(job[p])
    BY DEF IInv, Jobs
<1> DEFINE j == [job[p] EXCEPT !.at = "accounts", !.sub = s]
<1>1. /\ job[p].at = "subs" /\ job[p].signIn \in signIns /\ Proceed(p, j)
      /\ owner' = [owner EXCEPT ![s] = job[p].signIn]
      /\ UNCHANGED <<signIns, row, current, secret, tokens, left, keyless>>
    BY DEF UpsertSub, At, keychain
<1>2. /\ j \in Job /\ j.at = "accounts" /\ j.name = job[p].name
      /\ j.signIn = job[p].signIn /\ j.alone = job[p].alone
    BY <1>0 DEF Job, Stages
<1> HIDE DEF j
<1>3. Equipped(j) BY <1>0, <1>1, <1>2 DEF Equipped, SignInStages, NameStages, PartsStages
<1>4. /\ Turned(p) /\ job'[p].at = "accounts" /\ job'[p].name = job[p].name
      /\ job'[p].signIn = job[p].signIn /\ unsettled \subseteq unsettled'
    BY <1>0, <1>1, <1>2, <1>3, ProceedTurns
<1>5. Tables' BY <1>0, <1>1 DEF Tables
<1>6. CatalogConsistent'
    <2>1. job[p].signIn # None BY <1>0, <1>1, AccountsAssumption DEF Tables
    <2>2. ASSUME NEW t \in Subs, owner'[t] # None PROVE owner'[t] \in signIns'
        BY <1>0, <1>1, <2>2 DEF CatalogConsistent, Tables
    <2>3. ASSUME NEW n \in AccountNames, row[n] # None, row[n].sub # None
          PROVE  owner'[row[n].sub] # None
        <3>1. row[n].sub \in Subs BY <1>0, <2>3 DEF Tables, Row
        <3>2. owner[row[n].sub] # None BY <1>0, <2>3 DEF CatalogConsistent
        <3> QED BY <1>0, <1>1, <2>1, <3>1, <3>2 DEF Tables
    <2> QED BY <1>1, <2>2, <2>3 DEF CatalogConsistent
<1>7. Elsewhere(p) BY <1>1 DEF Elsewhere
<1>8. OwnSignIn(p) BY <1>1, <1>4 DEF OwnSignIn, SignInFact, SignInAgrees
<1>9. OwnName(p) BY <1>1, NoName DEF NameStages
<1> QED BY <1>4, <1>5, <1>6, <1>7, <1>8, <1>9, NothingNew DEF Acts

LEMMA ListAccountActs ==
    ASSUME IInv, NEW p \in Processes, NEW n \in AccountNames, ListAccount(p, n)
    PROVE  Acts(p)
<1>0. /\ Jobs /\ Apart /\ Tables /\ CatalogConsistent
      /\ job[p] \in Job /\ Equipped(job[p])
    BY DEF IInv, Jobs
<1> DEFINE j == [job[p] EXCEPT !.at = "row", !.name = n]
<1>1. /\ job[p].at = "accounts" /\ Proceed(p, j) /\ UNCHANGED <<store, keychain, left, keyless>>
    BY DEF ListAccount, At
<1>2. /\ j \in Job /\ j.at = "row" /\ j.name = n
      /\ j.signIn = job[p].signIn /\ j.alone = job[p].alone
    BY <1>0 DEF Job, Stages
<1> HIDE DEF j
<1>3. Equipped(j)
    BY <1>0, <1>1, <1>2, NoneAssumption DEF Equipped, SignInStages, NameStages, PartsStages
<1>4. /\ Turned(p) /\ job'[p].at = "row" /\ job'[p].name = n
      /\ job'[p].signIn = job[p].signIn /\ unsettled \subseteq unsettled'
    BY <1>0, <1>1, <1>2, <1>3, ProceedTurns
<1>5. Tables' /\ CatalogConsistent' /\ Elsewhere(p) BY <1>1, Unwritten
<1>6. OwnSignIn(p) BY <1>1, <1>4, Unwritten DEF OwnSignIn, SignInFact
<1>7. OwnName(p) BY <1>1, NoName DEF NameStages
<1>8. Fresh(p) BY <1>4 DEF Fresh
<1> QED BY <1>4, <1>5, <1>6, <1>7, <1>8 DEF Acts

LEMMA UpsertDiscoveredActs ==
    ASSUME IInv, NEW p \in Processes, NEW url \in Urls \cup {None}, UpsertDiscovered(p, url)
    PROVE  Acts(p)
<1>0. /\ Jobs /\ Apart /\ Tables /\ CatalogConsistent
      /\ job[p] \in Job /\ Equipped(job[p])
    BY DEF IInv, Jobs
<1> DEFINE key == KeyOf(job[p].name, url)
           entry == [endpoint |-> IF url = None THEN NoEndpoint ELSE Explicit(url),
                     sub |-> job[p].sub, attached |-> FALSE]
           j == [job[p] EXCEPT !.at = "key", !.parts = key]
<1>1. /\ job[p].at = "row" /\ owner[job[p].sub] # None /\ Proceed(p, j)
      /\ row' = [row EXCEPT ![job[p].name] = entry]
      /\ UNCHANGED <<signIns, owner, current, secret, tokens, left, keyless>>
    BY DEF UpsertDiscovered, At, keychain
<1>2. job[p].name \in AccountNames BY <1>0, <1>1 DEF Equipped, Job, NameStages
<1>3. /\ key \in Parts /\ key # None
      /\ Materialize(key) = Discovered(job[p].name, entry.endpoint)
    <2>1. key \in Parts BY <1>0 DEF KeyOf, Parts, Job
    <2> QED BY <1>2, <2>1, AccountsAssumption, KeyOpensWhatIsListed
<1>4. entry \in Row /\ entry # None /\ ~entry.attached /\ entry.sub = job[p].sub
    <2>1. (IF url = None THEN NoEndpoint ELSE Explicit(url)) \in Endpoints
        BY DEF Endpoints
    <2>2. entry \in Row BY <1>0, <2>1 DEF Row, Job
    <2> QED BY <2>2, AccountsAssumption
<1> HIDE DEF key, entry
<1>5. /\ j \in Job /\ j.at = "key" /\ j.name = job[p].name /\ j.parts = key
      /\ j.signIn = job[p].signIn /\ j.alone = job[p].alone
    BY <1>0, <1>3 DEF Job, Stages
<1> HIDE DEF j
<1>6. Equipped(j)
    BY <1>0, <1>1, <1>3, <1>5 DEF Equipped, SignInStages, NameStages, PartsStages
<1>7. /\ Turned(p) /\ job'[p].at = "key" /\ job'[p].name = job[p].name
      /\ job'[p].signIn = job[p].signIn /\ job'[p].parts = key
      /\ unsettled \subseteq unsettled'
    BY <1>0, <1>1, <1>5, <1>6, ProceedTurns
<1>8. Tables' BY <1>0, <1>1, <1>4 DEF Tables
<1>9. CatalogConsistent' BY <1>0, <1>1, <1>4 DEF CatalogConsistent, Tables
<1>10. Elsewhere(p) BY <1>0, <1>1 DEF Elsewhere, Tables
<1>11. OwnSignIn(p) BY <1>1, <1>7 DEF OwnSignIn, SignInFact, SignInAgrees
<1>12. OwnName(p)
    <2> SUFFICES ASSUME NEW n \in AccountNames, job[p].name = n
                 PROVE  NameFact(p)'
        BY <1>7 DEF OwnName
    <2>1. row'[n] = entry BY <1>0, <1>1 DEF Tables
    <2> QED BY <1>4, <1>7, <1>3, <2>1 DEF NameFact
<1> QED BY <1>7, <1>8, <1>9, <1>10, <1>11, <1>12, NothingNew DEF Acts

LEMMA FailActs ==
    ASSUME IInv, NEW p \in Processes, Fail(p)
    PROVE  Acts(p)
<1>0. /\ Jobs /\ Apart /\ Tables /\ CatalogConsistent
      /\ job[p] \in Job /\ Equipped(job[p])
    BY DEF IInv, Jobs
<1>1. /\ job' = [job EXCEPT ![p] = Idle]
      /\ unsettled' = unsettled \cup
           (IF job[p].at \in {"check", "select", "who", "session"} THEN {} ELSE Works(job[p]))
      /\ UNCHANGED <<signIns, owner, row, current, left, keyless>>
    BY DEF Fail, store
<1>2. unsettled \subseteq unsettled' /\ unsettled' \subseteq AccountNames \cup SignIns
    BY <1>0, <1>1, WorksTyped DEF Jobs
<1>3. Turned(p) /\ job'[p] = Idle
    BY <1>0, <1>1, <1>2, StopTurns
<1>4. /\ secret' \in [AccountNames -> Parts \cup {None}]
      /\ \A n \in AccountNames \ {job[p].name} : secret'[n] = secret[n]
      /\ job[p].at \in {"check", "select", "who", "session"} => secret' = secret /\ tokens' = tokens
    BY <1>0 DEF Tables, Job, Fail
<1>5. /\ tokens' \subseteq SignIns
      /\ \A i \in SignIns \ {job[p].signIn} : i \in tokens' <=> i \in tokens
    BY <1>0 DEF Tables, Fail
<1>6. Tables' BY <1>0, <1>1, <1>4, <1>5 DEF Tables
<1>7. CatalogConsistent' BY <1>0, <1>1, CatalogSame
<1>8. Elsewhere(p) BY <1>1, <1>4, <1>5 DEF Elsewhere
<1>9. CASE job[p].at \in {"check", "select", "who", "session"}
    <2>1. OwnSignIn(p) BY <1>9, NoSignIn DEF SignInStages
    <2>2. OwnName(p)
        BY <1>1, <1>3, <1>4, <1>9, <1>0, IdleFields, NoneAssumption
        DEF OwnName, NameFact, NameAgrees, Equipped, NameStages
    <2> QED BY <1>3, <1>6, <1>7, <1>8, <2>1, <2>2, NothingNew, IdleFields DEF Acts
<1>10. CASE job[p].at \notin {"check", "select", "who", "session"}
    <2>1. Works(job[p]) \subseteq unsettled' BY <1>1, <1>10
    <2>2. OwnSignIn(p) BY <1>3, <2>1, IdleFields, AccountsAssumption DEF OwnSignIn, Held
    <2>3. OwnName(p) BY <1>3, <2>1, IdleFields, NoneAssumption DEF OwnName, Held
    <2> QED BY <1>3, <1>6, <1>7, <1>8, <2>2, <2>3, NothingNew, IdleFields DEF Acts
<1> QED BY <1>9, <1>10

LEMMA NextActs ==
    ASSUME IInv, Next
    PROVE  \E p \in Processes : Acts(p)
BY CommandsBegin, AddActs, UseActs, ForgetActs, LoginActs, LogoutActs, DiscoveryActs,
   KeyActs, UpsertSubActs, ListAccountActs, UpsertDiscoveredActs, FailActs
DEF Next

-----------------------------------------------------------------------------
(* What a step leaves of every sign-in and account *)

\* What p works on and is settled after its step, p held; nobody else held it.
LEMMA Holding ==
    ASSUME IInv, NEW p \in Processes, Turned(p), NEW x
    PROVE  /\ x \in Works(job[p]) /\ x \notin unsettled' => Held(p, x)
           /\ x \in Works(job[p]) /\ Held(p, x)' => Held(p, x)
           /\ x \notin Works(job[p]) /\ x \notin unsettled' => x \notin unsettled
           /\ \A q \in Processes \ {p} : Held(q, x)' => Held(q, x) /\ x \notin Works(job[p])
           /\ \A q \in Processes \ {p} :
                x \in Works(job'[p]) /\ x \in Works(job[q]) => x \in unsettled'
           /\ \A q \in Processes \ {p} : x \in Works(job'[q]) <=> x \in Works(job[q])
<1> USE DEF Turned, Turn
<1>1. x \in Works(job[p]) /\ x \notin unsettled' => Held(p, x)
    OBVIOUS
<1>2. x \in Works(job[p]) /\ Held(p, x)' => Held(p, x)
    BY DEF Held, Works
<1>3. x \notin Works(job[p]) /\ x \notin unsettled' => x \notin unsettled
    OBVIOUS
<1>4. ASSUME NEW q \in Processes \ {p}
      PROVE  x \in Works(job'[q]) <=> x \in Works(job[q])
    OBVIOUS
<1>5. ASSUME NEW q \in Processes \ {p}, x \in Works(job'[p]), x \in Works(job[q])
      PROVE  x \in unsettled'
    <2>1. Works(job'[p]) \cap Works(job'[q]) \subseteq unsettled'
        BY DEF Apart, Works
    <2> QED BY <1>4, <1>5, <2>1
<1>6. ASSUME NEW q \in Processes \ {p}, Held(q, x)'
      PROVE  Held(q, x) /\ x \notin Works(job[p])
    <2>1. x \in Works(job'[q]) /\ (job'[q].alone \/ x \notin unsettled')
        BY <1>6 DEF Held, Works
    <2>2. x \in Works(job[q]) /\ (job[q].alone \/ x \notin unsettled')
        BY <1>4, <2>1
    <2>3. /\ job[q].alone => Works(job[q]) \cap Works(job[p]) = {}
          /\ job[p].alone => Works(job[p]) \cap Works(job[q]) = {}
          /\ Works(job[q]) \cap Works(job[p]) \subseteq unsettled
        BY DEF IInv, Apart
    <2>4. x \notin Works(job[p])
        BY <1>1, <2>2, <2>3 DEF Held
    <2> QED BY <1>3, <2>2, <2>4 DEF Held
<1> QED BY <1>1, <1>2, <1>3, <1>4, <1>5, <1>6

LEMMA SettledWhen ==
    ASSUME NEW x
    PROVE  Settled(x) <=> x \notin unsettled /\ \A q \in Processes : x \notin Works(job[q])
    BY DEF Settled, WorkedOn

LEMMA SettledThen ==
    ASSUME NEW x
    PROVE  Settled(x)' <=> x \notin unsettled' /\ \A q \in Processes : x \notin Works(job'[q])
    BY DEF Settled, WorkedOn, Works

LEMMA SignInsKeep ==
    ASSUME IInv, NEW p \in Processes, Acts(p), NEW i \in SignIns, SignInSound(i)
    PROVE  SignInSound(i)'
<1>1. Turned(p) /\ Elsewhere(p) /\ OwnSignIn(p) /\ Fresh(p) BY DEF Acts
<1>2. \A q \in Processes : /\ i \in Works(job[q]) <=> job[q].signIn = i
                           /\ i \in Works(job'[q]) <=> job'[q].signIn = i
    <2>1. \A q \in Processes : job[q] \in Job /\ job'[q] \in Job
        BY <1>1 DEF IInv, Turned, Jobs
    <2> QED BY <2>1, WorksOn
<1>3. ASSUME job[p].signIn # i
      PROVE  /\ i \in tokens' <=> i \in tokens
             /\ i \in signIns' <=> i \in signIns
             /\ current'.signIn = i => current.signIn = i
             /\ SignInAgrees(i) => SignInAgrees(i)'
    BY <1>1, <1>3 DEF Elsewhere, SignInAgrees
\* Nobody else works on it after the step.
<1>4. ASSUME i \notin unsettled',
             \A q \in Processes \ {p} : i \notin Works(job[q]),
             job[p].signIn # i
      PROVE  SignInAgrees(i)'
    <2>1. i \notin Works(job[p]) BY <1>2, <1>4
    <2>2. i \notin unsettled BY <1>1, <1>4, <2>1, Holding
    <2>3. Settled(i) BY <1>4, <2>1, <2>2, SettledWhen
    <2> QED BY <1>3, <1>4, <2>3 DEF SignInSound
<1>5. Settled(i)' => SignInAgrees(i)'
    <2> SUFFICES ASSUME Settled(i)' PROVE SignInAgrees(i)' OBVIOUS
    <2>1. i \notin unsettled' /\ \A q \in Processes : i \notin Works(job'[q])
        BY SettledThen
    <2>2. \A q \in Processes \ {p} : i \notin Works(job[q])
        BY <1>1, <2>1, Holding
    <2>3. CASE job[p].signIn = i
        <3>1. Held(p, i) BY <1>1, <1>2, <2>1, <2>3, Holding
        <3>2. SignInFact(p) BY <2>3, <3>1 DEF SignInSound
        <3>3. job'[p].signIn # i BY <1>2, <2>1
        <3> QED BY <1>1, <2>1, <2>3, <3>1, <3>2, <3>3 DEF OwnSignIn
    <2> QED BY <1>4, <2>1, <2>2, <2>3
<1>6. ASSUME NEW q \in Processes, job'[q].signIn = i, Held(q, i)'
      PROVE  SignInFact(q)'
    <2>1. CASE q # p
        <3>1. Held(q, i) /\ i \notin Works(job[p]) BY <1>1, <1>6, <2>1, Holding
        <3>2. job[p].signIn # i BY <1>2, <3>1
        <3>3. job[q].signIn = i /\ job'[q].at = job[q].at
            BY <1>1, <1>6, <2>1 DEF Turned, Turn
        <3>4. SignInFact(q) BY <3>1, <3>3 DEF SignInSound
        <3>5. i \notin unsettled' => i \notin unsettled BY <1>1, <3>1, Holding
        <3> QED BY <1>3, <1>6, <3>2, <3>3, <3>4, <3>5 DEF SignInFact
    <2>2. CASE q = p /\ job[p].signIn = i
        <3>1. Held(p, i) BY <1>1, <1>2, <1>6, <2>2, Holding
        <3>2. SignInFact(p) BY <2>2, <3>1 DEF SignInSound
        <3> QED BY <1>1, <1>6, <2>2, <3>1, <3>2 DEF OwnSignIn
    <2>3. CASE q = p /\ job[p].signIn # i
        <3>1. job'[p].at \in {"cache", "lookup", "revoke", "mint"}
            BY <1>1, <1>6, <2>3, AccountsAssumption DEF Fresh
        <3>2. ASSUME i \notin unsettled' PROVE SignInAgrees(i)'
            <4>1. \A r \in Processes \ {p} : i \notin Works(job[r])
                BY <1>1, <1>2, <1>6, <2>3, <3>2, Holding
            <4> QED BY <1>4, <2>3, <3>2, <4>1
        <3> QED BY <1>6, <2>3, <3>1, <3>2 DEF SignInFact
    <2> QED BY <2>1, <2>2, <2>3
<1> QED BY <1>5, <1>6 DEF SignInSound

LEMMA NamesKeep ==
    ASSUME IInv, NEW p \in Processes, Acts(p), NEW n \in AccountNames, NameSound(n)
    PROVE  NameSound(n)'
<1>1. Turned(p) /\ Elsewhere(p) /\ OwnName(p) /\ Fresh(p) BY DEF Acts
<1>2. \A q \in Processes : /\ n \in Works(job[q]) <=> job[q].name = n
                           /\ n \in Works(job'[q]) <=> job'[q].name = n
    <2>1. \A q \in Processes : job[q] \in Job /\ job'[q] \in Job
        BY <1>1 DEF IInv, Turned, Jobs
    <2> QED BY <2>1, WorksOn
<1>3. ASSUME job[p].name # n
      PROVE  /\ secret'[n] = secret[n]
             /\ n \in keyless' <=> n \in keyless
             /\ row'[n] = None <=> row[n] = None
             /\ row[n] # None => /\ row'[n].endpoint = row[n].endpoint
                                 /\ row'[n].attached = row[n].attached
             /\ NameAgrees(n) => NameAgrees(n)'
    BY <1>1, <1>3 DEF Elsewhere, NameAgrees
\* Nobody else works on it after the step.
<1>4. ASSUME n \notin unsettled',
             \A q \in Processes \ {p} : n \notin Works(job[q]),
             job[p].name # n
      PROVE  NameAgrees(n)'
    <2>1. n \notin Works(job[p]) BY <1>2, <1>4
    <2>2. n \notin unsettled BY <1>1, <1>4, <2>1, Holding
    <2>3. Settled(n) BY <1>4, <2>1, <2>2, SettledWhen
    <2> QED BY <1>3, <1>4, <2>3 DEF NameSound
<1>5. Settled(n)' => NameAgrees(n)'
    <2> SUFFICES ASSUME Settled(n)' PROVE NameAgrees(n)' OBVIOUS
    <2>1. n \notin unsettled' /\ \A q \in Processes : n \notin Works(job'[q])
        BY SettledThen
    <2>2. \A q \in Processes \ {p} : n \notin Works(job[q])
        BY <1>1, <2>1, Holding
    <2>3. CASE job[p].name = n
        <3>1. Held(p, n) BY <1>1, <1>2, <2>1, <2>3, Holding
        <3>2. NameFact(p) BY <2>3, <3>1 DEF NameSound
        <3>3. job'[p].name # n BY <1>2, <2>1
        <3> QED BY <1>1, <2>1, <2>3, <3>1, <3>2, <3>3 DEF OwnName
    <2> QED BY <1>4, <2>1, <2>2, <2>3
<1>6. ASSUME NEW q \in Processes, job'[q].name = n, Held(q, n)'
      PROVE  NameFact(q)'
    <2>1. CASE q # p
        <3>1. Held(q, n) /\ n \notin Works(job[p]) BY <1>1, <1>6, <2>1, Holding
        <3>2. job[p].name # n BY <1>2, <3>1
        <3>3. /\ job[q].name = n /\ job'[q].at = job[q].at
              /\ job'[q].parts = job[q].parts
            BY <1>1, <1>6, <2>1 DEF Turned, Turn
        <3>4. NameFact(q) BY <3>1, <3>3 DEF NameSound
        <3>5. n \notin unsettled' => n \notin unsettled BY <1>1, <3>1, Holding
        <3> QED BY <1>3, <1>6, <3>2, <3>3, <3>4, <3>5 DEF NameFact
    <2>2. CASE q = p /\ job[p].name = n
        <3>1. Held(p, n) BY <1>1, <1>2, <1>6, <2>2, Holding
        <3>2. NameFact(p) BY <2>2, <3>1 DEF NameSound
        <3> QED BY <1>1, <1>6, <2>2, <3>1, <3>2 DEF OwnName
    <2>3. CASE q = p /\ job[p].name # n
        <3>1. job'[p].at \in {"put", "check", "erase", "row"}
            BY <1>1, <1>6, <2>3, NoneAssumption DEF Fresh
        <3>2. ASSUME n \notin unsettled' PROVE NameAgrees(n)'
            <4>1. \A r \in Processes \ {p} : n \notin Works(job[r])
                BY <1>1, <1>2, <1>6, <2>3, <3>2, Holding
            <4> QED BY <1>4, <2>3, <3>2, <4>1
        <3> QED BY <1>6, <2>3, <3>1, <3>2 DEF NameFact
    <2> QED BY <2>1, <2>2, <2>3
<1> QED BY <1>5, <1>6 DEF NameSound

-----------------------------------------------------------------------------
(* The theorems *)

LEMMA InitHolds == Init => IInv /\ Sound
<1> SUFFICES ASSUME Init PROVE IInv /\ Sound OBVIOUS
<1>0. \A q \in Processes : job[q] = Idle BY DEF Init
<1>1. Jobs BY IdleJob DEF Init, Jobs
<1>2. Apart BY <1>0, IdleJob DEF Apart
<1>3. Tables BY AccountsAssumption DEF Init, Tables
<1>4. CatalogConsistent BY DEF Init, CatalogConsistent
<1>5. Sound
    <2>1. \A q \in Processes : Works(job[q]) = {} BY <1>0, IdleJob
    <2>2. \A i \in SignIns : SignInSound(i)
        BY <2>1, AccountsAssumption DEF Init, SignInSound, SignInAgrees, Held
    <2>3. \A n \in AccountNames : NameSound(n)
        BY <2>1, NoneAssumption DEF Init, NameSound, NameAgrees, Held
    <2> QED BY <2>2, <2>3 DEF Sound
<1> QED BY <1>1, <1>2, <1>3, <1>4, <1>5 DEF IInv

LEMMA NextKeeps == IInv /\ Sound /\ [Next]_vars => (IInv /\ Sound)'
<1> SUFFICES ASSUME IInv, Sound, [Next]_vars PROVE (IInv /\ Sound)' OBVIOUS
<1>1. CASE UNCHANGED vars
    <2>1. UNCHANGED <<secret, tokens, signIns, owner, row, current, job, left, unsettled, keyless>>
        BY <1>1 DEF vars
    <2>2. IInv'
        BY <2>1 DEF IInv, Jobs, Apart, Tables, CatalogConsistent, Equipped, Works
    <2>3. (\A i \in SignIns : SignInSound(i))'
        BY <2>1 DEF Sound, SignInSound, Settled, WorkedOn, Works, Held, SignInAgrees, SignInFact
    <2>4. (\A n \in AccountNames : NameSound(n))'
        BY <2>1 DEF Sound, NameSound, Settled, WorkedOn, Works, Held, NameAgrees, NameFact
    <2> QED BY <2>2, <2>3, <2>4 DEF Sound
<1>2. CASE Next
    <2>1. PICK p \in Processes : Acts(p) BY <1>2, NextActs
    <2>2. IInv' BY <2>1 DEF Acts, Turned, IInv
    <2>3. ASSUME NEW i \in SignIns PROVE SignInSound(i)'
        BY <2>1, SignInsKeep DEF Sound
    <2>4. ASSUME NEW n \in AccountNames PROVE NameSound(n)'
        BY <2>1, NamesKeep DEF Sound
    <2> QED BY <2>2, <2>3, <2>4 DEF Sound
<1> QED BY <1>1, <1>2

LEMMA Invariance == Spec => [](IInv /\ Sound)
    BY InitHolds, NextKeeps, PTL DEF Spec

\* Every reachable state of the store, the keychain and the commands is well
\* typed, for any processes, accounts, sign-ins and subscriptions.
THEOREM SpecTypeOK == Spec => []TypeOK
<1>1. IInv => TypeOK
    BY DEF IInv, Jobs, Tables, TypeOK
<1> QED BY <1>1, Invariance, PTL

\* The foreign keys of store/mod.rs hold whatever the commands of any number
\* of processes do and wherever they stop: no subscription outlives its
\* sign-in, no account points to a subscription that is gone.
THEOREM SpecCatalogConsistent == Spec => []CatalogConsistent
<1>1. IInv => CatalogConsistent
    BY DEF IInv
<1> QED BY <1>1, Invariance, PTL

\* What `account add`, `use`, `forget` and discovery leave of an account that
\* no failed or overlapping command has touched since it was last put right
\* agrees, for any number of processes (account.rs, discover.rs): attached, or
\* discovered with its key, the list names what its credentials open, and only
\* what is listed has credentials or is selected.
THEOREM SpecSettledNamesAgree == Spec => []SettledNamesAgree
<1>1. Sound => SettledNamesAgree
    BY DEF Sound, NameSound, NameAgrees, SettledNamesAgree
<1> QED BY <1>1, Invariance, PTL

\* What login, logout and discovery leave of a sign-in agrees likewise: after
\* a logout neither its token nor its row nor its selection is left (login.rs).
THEOREM SpecSettledSignInsAgree == Spec => []SettledSignInsAgree
<1>1. Sound => SettledSignInsAgree
    BY DEF Sound, SignInSound, SignInAgrees, SettledSignInsAgree
<1> QED BY <1>1, Invariance, PTL
=============================================================================
