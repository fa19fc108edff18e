---------------------------- MODULE Authorization -----------------------------
(***************************************************************************)
(* How a report gets its authorization (oauth2.cc, reporter.cc):           *)
(* SendMetadata asks the environment for the project id and OAuth2 for the *)
(* header, which is cached until some time before its token expires, and   *)
(* then sends its requests with that header.  Other threads use the same   *)
(* environment.                                                            *)
(*                                                                         *)
(* A token is when it was issued, when it arrived and how long it is valid *)
(* from the moment it was issued; the header is its token.                 *)
(***************************************************************************)
EXTENDS Environment, Integers

CONSTANTS
  Reporter,   \* the reporter's thread
  Lifetimes,  \* values of expires_in
  Slack,      \* the slack of GetAuthHeaderValue
  MaxTime     \* bound: the clock

ASSUME AuthorizationAssumption ==
  /\ Reporter \in Threads
  /\ Lifetimes \subseteq Nat
  /\ Slack \in Nat
  /\ MaxTime \in Nat
  /\ None \notin [issued: Nat, arrived: Nat, lifetime: Lifetimes]

Tokens == [issued: Nat, arrived: Nat, lifetime: Lifetimes]

VARIABLES
  now,         \* the clock
  rpc,         \* where SendMetadata stands
  header,      \* auth_header_value_
  expiration,  \* token_expiration_
  asked,       \* when the token at hand was asked for
  auth_header, \* auth_header of SendMetadata
  taken        \* ghost: when SendMetadata got it

oauthVars == <<now, rpc, header, expiration, asked, auth_header, taken>>
authVars == <<environmentVars, oauthVars>>

AuthorizationInit ==
  /\ EnvironmentInit
  /\ now = 0
  /\ rpc = "idle"
  /\ header = None
  /\ expiration = 0
  /\ asked = 0
  /\ auth_header = None
  /\ taken = 0

--------------------------------------------------------------------------------
\* The project id comes first.
SendMetadata ==
  /\ rpc = "idle"
  /\ Getter(Reporter, ProjectId)
  /\ rpc' = "project_id"
  /\ UNCHANGED <<now, header, expiration, asked, auth_header, taken>>

\* GetAuthHeaderValue returns.
HeaderReturned(value) ==
  /\ rpc' = "send"
  /\ auth_header' = value
  /\ taken' = now

IsExpired == expiration < now

\* GetAuthHeaderValue with a header that is still good.
HeaderCached ==
  /\ rpc = "project_id"
  /\ Used(Reporter)
  /\ header # None /\ ~IsExpired
  /\ HeaderReturned(header)
  /\ UNCHANGED <<now, header, expiration, asked>>

HeaderExpired ==
  /\ rpc = "project_id"
  /\ Used(Reporter)
  /\ header = None \/ IsExpired
  /\ rpc' = "credentials"
  /\ UNCHANGED <<now, header, expiration, asked, auth_header, taken>>

\* ComputeTokenFromCredentials up to its request: both getters take the lock.
CredentialsRead ==
  /\ rpc = "credentials"
  /\ env_mu = None
  /\ ReadApplicationDefaultCredentials
  /\ rpc' = IF credentials'.email /\ credentials'.key
            THEN "ask_server" ELSE "ask_metadata"
  /\ asked' = now
  /\ UNCHANGED <<now, header, expiration, auth_header, taken>>
  /\ UNCHANGED <<cached, env_mu, gpc, wanted, returned, copy>>

\* The request fails, is rejected, or its answer is not JSON.
TokenRefused ==
  /\ rpc = "ask_server"
  /\ rpc' = "ask_metadata"
  /\ asked' = now
  /\ UNCHANGED <<environmentVars, now, header, expiration, auth_header, taken>>

\* A plausible bug: the header is cached until the token expires.
TokenArrivesNoSlack(issued, lifetime) ==
  /\ rpc \in {"ask_server", "ask_metadata"}
  /\ issued \in asked..now
  /\ header' = [issued |-> issued, arrived |-> now, lifetime |-> lifetime]
  /\ expiration' = now + lifetime
  /\ HeaderReturned(header')
  /\ UNCHANGED <<environmentVars, now, asked>>

\* A token arrives; the server issued it at some moment since it was asked.
TokenArrives(issued, lifetime) ==
  /\ rpc \in {"ask_server", "ask_metadata"}
  /\ issued \in asked..now
  /\ header' = [issued |-> issued, arrived |-> now, lifetime |-> lifetime]
  /\ expiration' = now + lifetime - Slack
  /\ HeaderReturned(header')
  /\ UNCHANGED <<environmentVars, now, asked>>

\* An answer without the fields of a token, or none from the metadata server:
\* the report is sent with an empty header.
TokenUnavailable ==
  /\ rpc \in {"ask_server", "ask_metadata"}
  /\ HeaderReturned(None)
  /\ UNCHANGED <<environmentVars, now, header, expiration, asked>>

\* What the metadata server answers is not JSON: the exception leaves
\* GetAuthHeaderValue and SendMetadata, which does not declare it.
TokenMalformed ==
  /\ rpc = "ask_metadata"
  /\ rpc' = "terminated"
  /\ UNCHANGED <<environmentVars, now, header, expiration, asked, auth_header, taken>>

\* The last request of the report is answered, or one fails.
ReportEnds ==
  /\ rpc = "send"
  /\ rpc' = "idle"
  /\ auth_header' = None
  /\ UNCHANGED <<environmentVars, now, header, expiration, asked, taken>>

GetAuthHeaderValue ==
  \/ HeaderCached \/ HeaderExpired \/ CredentialsRead \/ TokenRefused
  \/ \E issued \in 0..MaxTime, lifetime \in Lifetimes : TokenArrives(issued, lifetime)
  \/ TokenUnavailable \/ TokenMalformed

Tick ==
  /\ now < MaxTime
  /\ now' = now + 1
  /\ UNCHANGED <<environmentVars, rpc, header, expiration, asked, auth_header, taken>>

\* Readers of metadata build resources from the environment.
ReaderStep(t) ==
  /\ \E n \in Names \ {ProjectId} : Getter(t, n)
     \/ Used(t)
  /\ UNCHANGED oauthVars

AuthorizationNext ==
  \/ SendMetadata \/ GetAuthHeaderValue \/ ReportEnds
  \/ \E t \in Threads : GetterStep(t) /\ UNCHANGED oauthVars
  \/ \E t \in Threads \ {Reporter} : ReaderStep(t)
  \/ Tick

AuthorizationSpec == AuthorizationInit /\ [][AuthorizationNext]_authVars

--------------------------------------------------------------------------------
\* The types of the variables.
AuthorizationTypeOK ==
  /\ EnvironmentTypeOK
  /\ now \in 0..MaxTime
  /\ rpc \in {"idle", "project_id", "credentials", "ask_server", "ask_metadata",
              "send", "terminated"}
  /\ header \in Tokens \cup {None}
  /\ expiration \in Int
  /\ asked \in 0..now
  /\ auth_header \in Tokens \cup {None}
  /\ taken \in 0..now

ValidUntil(token) == token.issued + token.lifetime

\* How long the token was on its way.
Delay(token) == token.arrived - token.issued

\* "Build in a 60 second slack to avoid timing problems": a report that is sent
\* within the slack, less the time its token was on the way, carries a token
\* that is valid, be it new or from the cache, after whatever failures to
\* refresh it; a token that lives shorter than that is valid as long as it can.
SentWithValidToken ==
  rpc = "send" /\ auth_header # None =>
    LET age == (now - taken) + Delay(auth_header)
    IN age <= Slack /\ age <= auth_header.lifetime
         => now <= ValidUntil(auth_header)
================================================================================
