----------------------------- MODULE Environment ------------------------------
(***************************************************************************)
(* The cached facts about the machine (environment.h, environment.cc):     *)
(* each getter locks mutex_, fills its member if that is still empty, and  *)
(* returns a reference to the member, which the caller copies without the  *)
(* lock.  A value comes from the configuration, for the project id from    *)
(* the credentials, or from the metadata server; if all fail the member    *)
(* stays empty and the next call tries again.                              *)
(*                                                                         *)
(* A credentials file that can be read gives what ends up in the members:  *)
(* fields after one that is missing are not read.                          *)
(***************************************************************************)
EXTENDS Naturals

CONSTANTS
  Threads,       \* threads that call getters
  Names,         \* cached values
  ProjectId,     \* the one that credentials may give
  Location,      \* the one with a second place to look for it
  Values,        \* non-empty strings
  ConfigValue,   \* values of the configuration, for some of the names
  Credentials,   \* contents of the members that a credentials file may give
  NoCredentials, \* those members when they are empty
  None,          \* the empty string, and no thread
  Torn           \* a string that is overwritten while it is copied

ASSUME EnvironmentAssumption ==
  /\ ProjectId \in Names
  /\ Location \in Names
  /\ DOMAIN ConfigValue \subseteq Names
  /\ \A n \in DOMAIN ConfigValue : ConfigValue[n] \in Values
  /\ NoCredentials \in Credentials
  /\ \A c \in Credentials : /\ c.email \in BOOLEAN /\ c.key \in BOOLEAN
                            /\ c.project \in Values \cup {None}
  /\ None \notin Values \cup Threads
  /\ Torn \notin Values \cup {None}

VARIABLES
  cached,       \* the members
  credentials,  \* client_email_, private_key_ and the project id they give
  read,         \* application_default_credentials_read_
  env_mu,       \* mutex_
  gpc,          \* where the getter of a thread stands
  wanted,       \* the name it was called for
  returned,     \* ghost: the value when the getter returned
  copy          \* the caller's copy

environmentVars == <<cached, credentials, read, env_mu, gpc, wanted, returned, copy>>

EnvironmentInit ==
  /\ cached = [n \in Names |-> None]
  /\ credentials = NoCredentials
  /\ read = FALSE
  /\ env_mu = None
  /\ gpc = [t \in Threads |-> "idle"]
  /\ wanted = [t \in Threads |-> ProjectId]
  /\ returned = [t \in Threads |-> None]
  /\ copy = [t \in Threads |-> None]

--------------------------------------------------------------------------------
\* ReadApplicationDefaultCredentials: once, whatever comes of it.
ReadApplicationDefaultCredentials ==
  /\ read' = TRUE
  /\ IF read THEN UNCHANGED credentials ELSE credentials' \in Credentials

\* The getter of thread t for name n has value v and returns.
Return(t, n, v) ==
  /\ cached' = [cached EXCEPT ![n] = v]
  /\ env_mu' = None
  /\ gpc' = [gpc EXCEPT ![t] = "copy"]
  /\ returned' = [returned EXCEPT ![t] = v]
  /\ UNCHANGED copy

\* The getter keeps the lock and asks the metadata server.
Ask(t, pc) ==
  /\ env_mu' = t
  /\ gpc' = [gpc EXCEPT ![t] = pc]
  /\ UNCHANGED <<cached, returned, copy>>

\* A plausible bug: the configuration is the only thing that is cached.
GetterAsksAgain(t, n) ==
  /\ gpc[t] = "idle"
  /\ env_mu = None
  /\ wanted' = [wanted EXCEPT ![t] = n]
  /\ IF n \in DOMAIN ConfigValue
     THEN Return(t, n, ConfigValue[n])
     ELSE Ask(t, "query")
  /\ UNCHANGED <<credentials, read>>

\* A getter is called: up to the query of the metadata server, if that is needed.
Getter(t, n) ==
  /\ gpc[t] = "idle"
  /\ env_mu = None
  /\ wanted' = [wanted EXCEPT ![t] = n]
  /\ \/ /\ cached[n] # None
        /\ Return(t, n, cached[n])
        /\ UNCHANGED <<credentials, read>>
     \/ /\ cached[n] = None /\ n \in DOMAIN ConfigValue
        /\ Return(t, n, ConfigValue[n])
        /\ UNCHANGED <<credentials, read>>
     \/ /\ cached[n] = None /\ n \notin DOMAIN ConfigValue /\ n = ProjectId
        /\ ReadApplicationDefaultCredentials
        /\ IF credentials'.project # None
           THEN Return(t, n, credentials'.project)
           ELSE Ask(t, "query")
     \/ /\ cached[n] = None /\ n \notin DOMAIN ConfigValue /\ n # ProjectId
        /\ Ask(t, "query")
        /\ UNCHANGED <<credentials, read>>

\* GetMetadataString returns what the server has.
MetadataArrives(t, v) ==
  /\ gpc[t] \in {"query", "query_kube_env"}
  /\ Return(t, wanted[t], v)
  /\ UNCHANGED <<credentials, read, wanted>>

\* GetMetadataString returns nothing: the server has nothing or does not answer
\* in time.  The location is then looked for in kube-env.
MetadataMissing(t) ==
  /\ \/ /\ gpc[t] = "query" /\ wanted[t] = Location
        /\ Ask(t, "query_kube_env")
     \/ /\ gpc[t] = "query" /\ wanted[t] # Location
        /\ Return(t, wanted[t], None)
     \/ /\ gpc[t] = "query_kube_env"
        /\ Return(t, wanted[t], None)
  /\ UNCHANGED <<credentials, read, wanted>>

\* Another thread is about to assign the member that t has a reference to.
Overwritten(t) ==
  \E u \in Threads \ {t} : /\ gpc[u] \in {"query", "query_kube_env"}
                           /\ wanted[u] = wanted[t]

\* The caller copies the member, without the lock.
Copy(t) ==
  /\ gpc[t] = "copy"
  /\ \E v \in {cached[wanted[t]]} \cup (IF Overwritten(t) THEN {Torn} ELSE {}) :
       copy' = [copy EXCEPT ![t] = v]
  /\ gpc' = [gpc EXCEPT ![t] = "copied"]
  /\ UNCHANGED <<cached, credentials, read, env_mu, wanted, returned>>

\* The caller is done with the value.
Used(t) ==
  /\ gpc[t] = "copied"
  /\ gpc' = [gpc EXCEPT ![t] = "idle"]
  /\ wanted' = [wanted EXCEPT ![t] = ProjectId]
  /\ returned' = [returned EXCEPT ![t] = None]
  /\ copy' = [copy EXCEPT ![t] = None]
  /\ UNCHANGED <<cached, credentials, read, env_mu>>

\* A getter that has been called goes on.
GetterStep(t) ==
  \/ \E v \in Values : MetadataArrives(t, v)
  \/ MetadataMissing(t)
  \/ Copy(t)

--------------------------------------------------------------------------------
\* The types of the variables; a thread asks the metadata server only with the
\* lock.
EnvironmentTypeOK ==
  /\ cached \in [Names -> Values \cup {None}]
  /\ credentials \in Credentials
  /\ read \in BOOLEAN
  /\ env_mu \in Threads \cup {None}
  /\ gpc \in [Threads -> {"idle", "query", "query_kube_env", "copy", "copied"}]
  /\ wanted \in [Threads -> Names]
  /\ returned \in [Threads -> Values \cup {None}]
  /\ copy \in [Threads -> Values \cup {None, Torn}]
  /\ \A t \in Threads : gpc[t] \in {"query", "query_kube_env"} <=> env_mu = t

\* The reference that a getter returns is read without the lock, while other
\* threads call getters: a value that was there is copied whole and unchanged.
\* (A member that was empty may be assigned while it is copied.)
CopiedAsReturned ==
  \A t \in Threads :
    gpc[t] = "copied" /\ returned[t] # None => copy[t] = returned[t]
================================================================================
