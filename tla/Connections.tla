---------------------------- MODULE Connections ----------------------------
(***************************************************************************)
(* The credentials a user may give (crates/arkived-core/src/connect.rs)    *)
(* and the two ladders that read them: Summary, which names the endpoint   *)
(* that is written to the list of accounts, and Materialize, which decides *)
(* what is opened.  An account or a URL stands for its text.               *)
(***************************************************************************)
CONSTANTS AccountNames, Urls, None,
          Unparsable   \* a connection string that does not parse

ASSUME NoneAssumption == None \notin AccountNames \cup Urls

\* A parsed connection string by the fields that are read.
Strings == [url : Urls \cup {None}, account : AccountNames \cup {None},
            sas : BOOLEAN, key : BOOLEAN]

ASSUME UnparsableAssumption == Unparsable \notin Strings \cup {None}

Parts == [azurite : BOOLEAN, string : Strings \cup {Unparsable, None},
          sas : BOOLEAN, key : BOOLEAN,
          account : AccountNames \cup {None}, endpoint : Urls \cup {None}]

Emulator == <<"emulator">>
PublicBlob(a) == <<"public", a>>
Explicit(u) == <<"explicit", u>>
NoEndpoint == <<"none">>
Endpoints == {Emulator, NoEndpoint} \cup {PublicBlob(a) : a \in AccountNames}
                                    \cup {Explicit(u) : u \in Urls}

\* An account and an endpoint alone are no credentials.
IsEmpty(p) == ~p.azurite /\ p.string = None /\ ~p.sas /\ ~p.key

BlobEndpointOf(s) ==
    IF s.url # None THEN Explicit(s.url)
    ELSE IF s.account # None THEN PublicBlob(s.account)
    ELSE NoEndpoint

EndpointForAccount(p) ==
    IF p.endpoint # None THEN Explicit(p.endpoint)
    ELSE IF p.account # None THEN PublicBlob(p.account)
    ELSE NoEndpoint

EndpointOfString(p) ==
    IF p.endpoint # None THEN Explicit(p.endpoint) ELSE BlobEndpointOf(p.string)

HasParsed(p) == p.string \notin {None, Unparsable}

\* Mutant: the list names the account although the string overrides it.
SummaryByAccount(p) ==
    IF p.azurite THEN Emulator ELSE EndpointForAccount(p)

Summary(p) ==
    IF p.azurite THEN Emulator
    ELSE IF HasParsed(p) THEN EndpointOfString(p)
    ELSE EndpointForAccount(p)

\* A string is good for a signature or for an account's key, in this order.
Classifies(s) == s.sas \/ (s.key /\ s.account # None)

\* What the parts open, NoEndpoint when they are refused.
Materialize(p) ==
    IF p.azurite THEN Emulator
    ELSE IF p.string = Unparsable THEN NoEndpoint
    ELSE IF p.string # None
         THEN IF Classifies(p.string) THEN EndpointOfString(p) ELSE NoEndpoint
    ELSE IF p.sas THEN EndpointForAccount(p)
    ELSE IF p.key /\ p.account # None THEN EndpointForAccount(p)
    ELSE NoEndpoint

\* Mutant: discovery saves the key without the endpoint that ARM gave.
KeyOfPublic(a, url) ==
    [azurite |-> FALSE, string |-> None, sas |-> FALSE, key |-> TRUE,
     account |-> a, endpoint |-> None]

\* The parts that discovery saves for an account whose key it was given.
KeyOf(a, url) ==
    [azurite |-> FALSE, string |-> None, sas |-> FALSE, key |-> TRUE,
     account |-> a, endpoint |-> url]
=============================================================================
