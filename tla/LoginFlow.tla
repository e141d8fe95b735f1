------------------------------- MODULE LoginFlow -------------------------------
(***************************************************************************)
(* Logins and the S3 keys they leave behind (PostLogin and its helpers in  *)
(* internal/web/handlers/handlers.go, internal/auth, the auth part of      *)
(* internal/store/store.go).  A login signs in, stores session and account, *)
(* and then reconciles, for every project, the key of the remote keyvault  *)
(* with the locally cached one, the only place that has its secret; it     *)
(* makes one S3 client per project and stores the project's bucket list.   *)
(* Login requests, a logout, a kill and a user who deletes keys in the     *)
(* provider's console fall between any two of its calls.                   *)
(*                                                                         *)
(* Every store call and every request to the provider is one step.  Any    *)
(* answer of the provider, also an error, may set a new refresh cookie, and *)
(* that of a signin does: of a copy of it we only know whether it is the    *)
(* latest that the program has ever received ("latest") or not ("old").     *)
(***************************************************************************)
EXTENDS Naturals, Sequences, FiniteSets

CONSTANTS
  Logins,      \* handlers that may process a login request at the same time
  Projects,
  Targets,     \* the <<project, user>> pairs, in the order they are walked
  KeyName,     \* s3KeyName: target -> name of its key, and of its cache entry
  Attempts,    \* of CreateApiKey for one key (3 in the code)
  Faults,      \* what may happen: failing "iam" requests or "store" calls, a
               \*   "kill", a "cookie" with other answers than that of a signin
  MaxLogins, MaxKeys, MaxRevoked,  \* bounds on logins, on keys created per
                                   \*   user and name and on keys revoked,
  MaxMishaps,                      \*   and on what mishaps can hold
  None

ASSUME LoginAssumption ==
  /\ Targets \in Seq(DOMAIN KeyName) /\ Targets # <<>>
  /\ \A t \in DOMAIN KeyName : t[1] \in Projects
  /\ Attempts \in Nat \ {0} /\ MaxKeys \in Nat
  /\ Faults \subseteq {"iam", "store", "kill", "cookie"}

Project(i) == Targets[i][1]
User(i)    == Targets[i][2]
Name(i)    == KeyName[Targets[i]]
Users      == {User(i) : i \in DOMAIN Targets}
Names      == {Name(i) : i \in DOMAIN Targets}
Keys       == [user : Users, name : Names, num : 1..MaxKeys]

ASSUME NoneAssumption == None \notin Keys \cup [key : Keys, project : Projects]

VARIABLES
  remote,    \* keyvault: the keys that exist ...
  minted,    \* ... how many have ever been created, by user and name ...
  revoked,   \* ... and those deleted in the provider's console
  session,   \* store: "none", or the refresh cookie saved with the session
  account,   \* store: "none", or the account, with a "gateway" or without ("bare")
  cache,     \* store: S3Credential by name
  buckets,   \* store: the projects with a bucket list
  clients,   \* Handler.s3Clients: project -> the key of its client
  pc,        \* what each login does next
  at,        \* index of its target
  try,       \* attempt of CreateApiKey, 0 if there is no forged JWT
  key,       \* the remote key it has found or created
  seen,      \* the refresh cookie it has read from the http client
  got,       \* its credentials: project -> key
  out,       \* what the logout does next
  logins,    \* logins so far
  stale,     \* history: the keys revoked before the latest login began
  slips,     \* history: <<user, name>> -> keys lost to a failed request
  mishaps,   \* history: what has happened of "overlap" (two logins at once),
             \*   "logout", "bare" (an account without gateway was saved),
             \*   "store" (a failed store write), "misread" (a failed read)
  adrift     \* history: since a session was last saved, a cookie came with an
             \*   answer after which nothing saves it, or what was to save one
             \*   did not: a login ended before it, the store failed, a kill

keyvault == <<remote, minted, revoked>>
cookie   == <<session, seen, adrift>>
stored   == <<account, cache, buckets>>
local    == <<pc, at, try, key, got>>
history  == <<logins, stale, slips, mishaps>>
vars     == <<keyvault, cookie, stored, clients, local, out, history>>

\* the steps that lead from a request to the session saved after it
CookieSteps == {"signin", "account", "saveLogin", "saveSession", "sync", "syncGet", "syncSave"}
Steps == CookieSteps \cup
         {"idle", "saveAccount", "projects", "noGateway", "clearBuckets", "forge", "list",
          "lookup", "delete", "drop", "create", "saveCred", "clients", "buckets"}
NoKeys    == [p \in Projects |-> None]
Owners    == {<<User(i), Name(i)>> : i \in DOMAIN Targets}
Here(l)   == <<User(at[l]), Name(at[l])>>
KeysOf(o) == {k \in remote : <<k.user, k.name>> = o}
IamFails   == "iam" \in Faults
StoreFails == "store" \in Faults

Init ==
  /\ remote = {} /\ minted = [o \in Owners |-> 0] /\ revoked = {}
  /\ session = "none" /\ account = "none" /\ cache = [n \in Names |-> None] /\ buckets = {}
  /\ clients = NoKeys
  /\ pc = [l \in Logins |-> "idle"]
  /\ at = [l \in Logins |-> 0] /\ try = [l \in Logins |-> 0]
  /\ key = [l \in Logins |-> None] /\ seen = [l \in Logins |-> "old"]
  /\ got = [l \in Logins |-> NoKeys]
  /\ out = "no" /\ logins = 0 /\ stale = {}
  /\ slips = [o \in Owners |-> 0] /\ mishaps = {} /\ adrift = FALSE

Mishaps       == {"overlap", "logout", "bare", "store", "misread"}
Goto(l, step) == pc' = [pc EXCEPT ![l] = step]
Note(kind)    == mishaps' = mishaps \cup {kind} /\ Cardinality(mishaps') <= MaxMishaps

(* doRequest takes a _refresh cookie from the answer, whatever its status: *)
(* every copy is now an old one.                                           *)
Rotate ==
  /\ session' = IF session = "none" THEN "none" ELSE "old"
  /\ seen' = [l \in Logins |-> "old"]
MayRotate == ("cookie" \in Faults /\ Rotate) \/ UNCHANGED <<session, seen>>

(* The answer of a request after which nothing saves the cookie.           *)
Unsaved == ("cookie" \in Faults /\ Rotate /\ adrift' = TRUE) \/ UNCHANGED cookie

(***************************************************************************)
(* Signing in: Login, GetAccount, SaveLogin, GetProjects                   *)
(***************************************************************************)
Challenge(l) ==
  /\ pc[l] = "idle" /\ logins < MaxLogins
  /\ logins' = logins + 1 /\ stale' = revoked
  /\ IF \E m \in Logins : pc[m] # "idle" THEN Note("overlap") ELSE UNCHANGED mishaps
  /\ \/ Goto(l, "signin") /\ MayRotate /\ UNCHANGED adrift
     \/ Unsaved /\ UNCHANGED pc
  /\ UNCHANGED <<keyvault, stored, clients, at, try, key, got, out, slips>>

(* A request of a login that ends here when it fails, before the session   *)
(* is saved.                                                               *)
LoginFails(l) == Goto(l, "idle") /\ MayRotate /\ adrift' = TRUE

SignIn(l) ==
  /\ pc[l] = "signin"
  /\ \/ Goto(l, "account") /\ Rotate /\ UNCHANGED adrift
     \/ LoginFails(l)
  /\ UNCHANGED <<keyvault, stored, clients, at, try, key, got, out, history>>

GetAccount(l) ==
  /\ pc[l] = "account"
  /\ \/ Goto(l, "saveLogin") /\ MayRotate /\ UNCHANGED adrift
     \/ IamFails /\ LoginFails(l)
  /\ UNCHANGED <<keyvault, stored, clients, at, try, key, got, out, history>>

(* CurrentRefreshToken, here and in SyncRefreshToken; on to step next.     *)
ReadCookie(l, next) ==
  /\ Goto(l, next) /\ seen' = [seen EXCEPT ![l] = "latest"]
  /\ UNCHANGED <<keyvault, session, adrift, stored, clients, at, try, key, got, out, history>>

SaveLogin(l) == pc[l] = "saveLogin" /\ ReadCookie(l, "saveSession")

(* The write of the session, here and in SyncRefreshToken; then the login  *)
(* goes on at step ok, or at step failed.                                  *)
WriteSession(l, ok, failed) ==
  /\ \/ session' = seen[l] /\ adrift' = FALSE /\ Goto(l, ok) /\ UNCHANGED mishaps
     \/ /\ StoreFails /\ Note("store") /\ adrift' = TRUE /\ Goto(l, failed)
        /\ UNCHANGED session
  /\ seen' = [seen EXCEPT ![l] = "old"]
  /\ UNCHANGED <<keyvault, stored, clients, at, try, key, got, out, logins, stale, slips>>

SaveSession(l) == pc[l] = "saveSession" /\ WriteSession(l, "saveAccount", "idle")

SaveAccount(l) ==
  /\ pc[l] = "saveAccount"
  /\ \/ account' = "gateway" /\ Goto(l, "projects") /\ UNCHANGED mishaps
     \/ account' = "bare" /\ Goto(l, "noGateway") /\ Note("bare")
     \/ StoreFails /\ Goto(l, "idle") /\ Note("store") /\ UNCHANGED account
  /\ UNCHANGED <<keyvault, cookie, cache, buckets, clients, at, try, key, got, out,
                 logins, stale, slips>>

(* A failure, or an account without projects or gateway, ends the login;  *)
(* the list of projects is stored for the pages only and left out.         *)
GetProjects(l) ==
  /\ \/ pc[l] \in {"projects", "noGateway"} /\ Goto(l, "idle")
     \/ pc[l] = "projects" /\ Goto(l, "clearBuckets")
  /\ Unsaved
  /\ UNCHANGED <<keyvault, stored, clients, at, try, key, got, out, history>>

(* Seeded bug: the bucket lists of earlier logins stay.                    *)
KeepBuckets(l) ==
  /\ pc[l] = "clearBuckets" /\ Goto(l, "forge") /\ at' = [at EXCEPT ![l] = 1]
  /\ UNCHANGED <<keyvault, cookie, stored, clients, try, key, got, out, history>>

ClearAllBuckets(l) ==
  /\ pc[l] = "clearBuckets"
  /\ \/ buckets' = {} /\ UNCHANGED mishaps
     \/ StoreFails /\ Note("store") /\ UNCHANGED buckets
  /\ Goto(l, "forge") /\ at' = [at EXCEPT ![l] = 1]
  /\ UNCHANGED <<keyvault, cookie, account, cache, clients, try, key, got, out,
                 logins, stale, slips>>

(***************************************************************************)
(* reconcileProjectCredential, for one target after the other              *)
(***************************************************************************)
(* On to the next user or project, with credentials g; one credential per  *)
(* project is enough.                                                      *)
Advance(l, g) ==
  LET later == {i \in DOMAIN Targets : i > at[l] /\ g[Project(i)] = None} IN
  /\ got' = [got EXCEPT ![l] = g]
  /\ IF later = {} THEN Goto(l, "clients") /\ at' = [at EXCEPT ![l] = 0]
                   ELSE /\ Goto(l, "forge")
                        /\ \E i \in later : /\ \A j \in later : i <= j
                                            /\ at' = [at EXCEPT ![l] = i]
  /\ try' = [try EXCEPT ![l] = 0] /\ key' = [key EXCEPT ![l] = None]
GiveUp(l)  == Advance(l, got[l])
Take(l, k) == Advance(l, [got[l] EXCEPT ![Project(at[l])] = k])

(* Seeded bug: the cookie is not synced after a failed forge.              *)
ForgeThenSync(l) ==
  /\ pc[l] = "forge"
  /\ \/ try' = [try EXCEPT ![l] = 1] /\ Goto(l, "sync")
     \/ IamFails /\ Goto(l, "list") /\ UNCHANGED try
  /\ MayRotate
  /\ UNCHANGED <<keyvault, adrift, stored, clients, at, key, got, out, history>>

(* The cookie is saved next, also after an error.                          *)
ForgeJWT(l) ==
  /\ pc[l] = "forge" /\ Goto(l, "sync")
  /\ try' = [try EXCEPT ![l] = 1] \/ (IamFails /\ UNCHANGED try)
  /\ MayRotate
  /\ UNCHANGED <<keyvault, adrift, stored, clients, at, key, got, out, history>>

SyncRefreshToken(l) == pc[l] = "sync" /\ ReadCookie(l, "syncGet")

(* Two old cookies may or may not be the same one.                         *)
SyncGetSession(l) ==
  /\ pc[l] = "syncGet"
  /\ \/ session \in {"none", seen[l]} /\ Goto(l, "list") /\ UNCHANGED <<adrift, mishaps>>
     \/ session # "none" /\ (session # seen[l] \/ seen[l] = "old") /\ Goto(l, "syncSave")
        /\ UNCHANGED <<adrift, mishaps>>
     \/ StoreFails /\ Goto(l, "list") /\ Note("misread") /\ adrift' = TRUE
  /\ UNCHANGED <<keyvault, session, seen, stored, clients, at, try, key, got, out,
                 logins, stale, slips>>

SyncSaveSession(l) == pc[l] = "syncSave" /\ WriteSession(l, "list", "list")

(* The first remote key of the user that has the name; without a forged    *)
(* JWT nothing is asked.                                                   *)
ListApiKeys(l) ==
  /\ pc[l] = "list"
  /\ \/ /\ try[l] = 1 /\ Goto(l, "lookup")
        /\ \/ KeysOf(Here(l)) = {} /\ UNCHANGED key
           \/ \E k \in KeysOf(Here(l)) : key' = [key EXCEPT ![l] = k]
        /\ UNCHANGED <<at, try, got>>
     \/ (try[l] = 0 \/ IamFails) /\ GiveUp(l)
  /\ IF try[l] = 1 THEN Unsaved ELSE UNCHANGED cookie
  /\ UNCHANGED <<keyvault, stored, clients, out, history>>

(* Seeded bugs: the remote key is deleted before it is compared; a cached  *)
(* key is taken without a look at the keyvault; an orphan is not deleted.  *)
DeleteFirst(l, cached) ==
  /\ Goto(l, IF key[l] # None THEN "delete" ELSE IF cached # None THEN "drop" ELSE "create")
  /\ UNCHANGED <<at, try, key, got>>
TakeCached(l, cached) ==
  IF cached # None THEN Take(l, cached.key)
  ELSE Goto(l, IF key[l] # None THEN "delete" ELSE "create") /\ UNCHANGED <<at, try, key, got>>
KeepOrphan(l, cached) ==
  IF cached # None /\ key[l] # None /\ cached.key = key[l] THEN Take(l, key[l])
  ELSE Goto(l, IF cached # None THEN "drop" ELSE "create") /\ UNCHANGED <<at, try, key, got>>

(* GetS3Credential, where an error counts as nothing cached, and the four  *)
(* cases of the comment above loadOrCreateS3Credentials.                   *)
Compare(l, cached) ==
  \/ /\ cached # None /\ key[l] # None /\ cached.key = key[l]
     /\ Take(l, key[l])
  \/ /\ key[l] # None /\ (cached # None => cached.key # key[l])
     /\ Goto(l, "delete") /\ UNCHANGED <<at, try, key, got>>
  \/ /\ key[l] = None /\ Goto(l, IF cached # None THEN "drop" ELSE "create")
     /\ UNCHANGED <<at, try, key, got>>
GetCredential(l) ==
  /\ pc[l] = "lookup"
  /\ \/ Compare(l, cache[Name(at[l])]) /\ UNCHANGED mishaps
     \/ StoreFails /\ Compare(l, None) /\ Note("misread")
  /\ UNCHANGED <<keyvault, cookie, stored, clients, out, logins, stale, slips>>

(* A failed request may still have had its effect.                         *)
DeleteApiKey(l) ==
  /\ pc[l] = "delete" /\ Goto(l, "create")
  /\ \/ remote' = remote \ {key[l]} /\ UNCHANGED slips
     \/ /\ IamFails
        /\ slips' = [slips EXCEPT ![Here(l)] = @ + 1] /\ UNCHANGED remote
  /\ key' = [key EXCEPT ![l] = None] /\ Unsaved
  /\ UNCHANGED <<minted, revoked, stored, clients, at, try, got, out, logins, stale, mishaps>>

DropCredential(l) ==
  /\ pc[l] = "drop" /\ Goto(l, "create")
  /\ \/ cache' = [cache EXCEPT ![Name(at[l])] = None] /\ UNCHANGED mishaps
     \/ StoreFails /\ Note("store") /\ UNCHANGED cache
  /\ UNCHANGED <<keyvault, cookie, account, buckets, clients, at, try, key, got, out,
                 logins, stale, slips>>

NewKey(l) == [user |-> User(at[l]), name |-> Name(at[l]), num |-> minted[Here(l)] + 1]
Mint(l)   ==
  /\ minted[Here(l)] < MaxKeys /\ minted' = [minted EXCEPT ![Here(l)] = @ + 1]
  /\ remote' = remote \cup {NewKey(l)}

(* Seeded bug: one attempt too many.                                       *)
RetryOnceMore(l) ==
  IF try[l] <= Attempts
    THEN try' = [try EXCEPT ![l] = @ + 1] /\ UNCHANGED <<pc, at, key, got>>
    ELSE GiveUp(l)

Retry(l) ==
  IF try[l] < Attempts
    THEN try' = [try EXCEPT ![l] = @ + 1] /\ UNCHANGED <<pc, at, key, got>>
    ELSE GiveUp(l)

(* The answer has the secret; or it is lost, or has none, and the key      *)
(* stays; or nothing was created.                                          *)
CreateApiKey(l) ==
  /\ pc[l] = "create"
  /\ \/ /\ Mint(l) /\ key' = [key EXCEPT ![l] = NewKey(l)]
        /\ Goto(l, "saveCred") /\ UNCHANGED <<at, try, got, slips>>
     \/ /\ IamFails
        /\ \/ Mint(l) /\ slips' = [slips EXCEPT ![Here(l)] = @ + 1]
           \/ UNCHANGED <<remote, minted, slips>>
        /\ Retry(l)
  /\ Unsaved
  /\ UNCHANGED <<revoked, stored, clients, out, logins, stale, mishaps>>

SaveCredential(l) ==
  /\ pc[l] = "saveCred"
  /\ \/ /\ cache' = [cache EXCEPT ![Name(at[l])] = [key |-> key[l], project |-> Project(at[l])]]
        /\ UNCHANGED mishaps
     \/ StoreFails /\ Note("store") /\ UNCHANGED cache
  /\ Take(l, key[l])
  /\ UNCHANGED <<keyvault, cookie, account, buckets, clients, out, logins, stale, slips>>

(***************************************************************************)
(* initS3ClientsForProjects                                                *)
(***************************************************************************)
(* The map is ranged over in any order; a project whose client cannot be   *)
(* made is passed over.                                                    *)
SetS3Client(l) ==
  /\ pc[l] = "clients"
  /\ IF got[l] = NoKeys
       THEN Goto(l, "idle") /\ UNCHANGED <<clients, at, got>>
       ELSE \E i \in {j \in DOMAIN Targets : got[l][Project(j)] # None} :
              \/ /\ clients' = [clients EXCEPT ![Project(i)] = got[l][Project(i)]]
                 /\ at' = [at EXCEPT ![l] = i] /\ Goto(l, "buckets") /\ UNCHANGED got
              \/ /\ Faults # {} /\ got' = [got EXCEPT ![l][Project(i)] = None]
                 /\ UNCHANGED <<pc, clients, at>>
  /\ UNCHANGED <<keyvault, cookie, stored, try, key, out, history>>

(* listBucketsWithRetry; when it fails, or SaveBuckets does, on to the     *)
(* next project.                                                           *)
SaveBuckets(l) ==
  /\ pc[l] = "buckets" /\ Goto(l, "clients")
  /\ buckets' = buckets \cup {Project(at[l])} \/ (Faults # {} /\ UNCHANGED buckets)
  /\ got' = [got EXCEPT ![l][Project(at[l])] = None]
  /\ at' = [at EXCEPT ![l] = 0]
  /\ UNCHANGED <<keyvault, cookie, account, cache, clients, try, key, out, history>>

(***************************************************************************)
(* The rest of the world: a logout (ClearAuth, which stops at a failed     *)
(* transaction), a kill and the next start, the provider's console         *)
(***************************************************************************)
PostLogout ==
  /\ out = "no" /\ "logout" \notin mishaps
  /\ out' = "session" /\ Note("logout")
  /\ UNCHANGED <<keyvault, cookie, stored, clients, local, logins, stale, slips>>

ClearAuth ==
  /\ \/ out = "session" /\ session' = "none" /\ out' = "account" /\ UNCHANGED <<account, cache>>
     \/ out = "account" /\ account' = "none" /\ out' = "creds" /\ UNCHANGED <<session, cache>>
     \/ /\ out = "creds" /\ cache' = [n \in Names |-> None] /\ out' = "no"
        /\ UNCHANGED <<session, account>>
     \/ StoreFails /\ out # "no" /\ out' = "no" /\ UNCHANGED <<session, account, cache>>
  /\ UNCHANGED <<keyvault, seen, adrift, buckets, clients, local, history>>

(* RestoreS3Clients: every project with a cached credential gets a client, *)
(* if the stored account has a gateway.  Reading the account or the        *)
(* credentials may fail, and so may making any of the clients.             *)
Restored(p) ==
  IF account = "gateway"
    THEN {cache[n].key : n \in {m \in Names : cache[m] # None /\ cache[m].project = p}}
    ELSE {}
RestoreS3Clients ==
  /\ clients' \in [Projects -> {None} \cup UNION {Restored(p) : p \in Projects}]
  /\ \A p \in Projects : clients'[p] # None => clients'[p] \in Restored(p)
  /\ \/ /\ \A p \in Projects : Restored(p) # {} => clients'[p] # None
        /\ UNCHANGED mishaps
     \/ StoreFails /\ Note("misread")

(* NewSessionManager gives the http client the saved cookie, whichever it  *)
(* is.                                                                     *)
Restart ==
  /\ "kill" \in Faults /\ (out # "no" \/ clients # NoKeys \/ \E l \in Logins : pc[l] # "idle")
  /\ RestoreS3Clients
  /\ adrift' = (adrift \/ \E l \in Logins : pc[l] \in CookieSteps)
  /\ pc' = [l \in Logins |-> "idle"]
  /\ at' = [l \in Logins |-> 0] /\ try' = [l \in Logins |-> 0]
  /\ key' = [l \in Logins |-> None] /\ seen' = [l \in Logins |-> "old"]
  /\ got' = [l \in Logins |-> NoKeys] /\ out' = "no"
  /\ UNCHANGED <<keyvault, session, stored, logins, stale, slips>>

Revoke ==
  /\ Cardinality(revoked) < MaxRevoked
  /\ \E k \in remote : remote' = remote \ {k} /\ revoked' = revoked \cup {k}
  /\ UNCHANGED <<minted, cookie, stored, clients, local, out, history>>

-----------------------------------------------------------------------------
SigningIn(l)  == Challenge(l) \/ SignIn(l) \/ GetAccount(l) \/ SaveLogin(l) \/ SaveSession(l)
                   \/ SaveAccount(l) \/ GetProjects(l) \/ ClearAllBuckets(l)
Reconcile(l)  == ForgeJWT(l) \/ SyncRefreshToken(l) \/ SyncGetSession(l) \/ SyncSaveSession(l)
                   \/ ListApiKeys(l) \/ GetCredential(l) \/ DeleteApiKey(l)
                   \/ DropCredential(l) \/ CreateApiKey(l) \/ SaveCredential(l)
Next == \/ \E l \in Logins : SigningIn(l) \/ Reconcile(l) \/ SetS3Client(l) \/ SaveBuckets(l)
        \/ PostLogout \/ ClearAuth \/ Restart \/ Revoke
Spec == Init /\ [][Next]_vars

-----------------------------------------------------------------------------
(* The variables have their types.                                         *)
TypeOK ==
  /\ remote \subseteq Keys /\ revoked \subseteq Keys /\ minted \in [Owners -> 0..MaxKeys]
  /\ session \in {"none", "latest", "old"} /\ account \in {"none", "bare", "gateway"}
  /\ cache \in [Names -> {None} \cup [key : Keys, project : Projects]]
  /\ buckets \subseteq Projects
  /\ clients \in [Projects -> {None} \cup Keys]
  /\ pc \in [Logins -> Steps]
  /\ at \in [Logins -> 0..Len(Targets)] /\ try \in [Logins -> 0..Attempts]
  /\ key \in [Logins -> {None} \cup Keys]
  /\ seen \in [Logins -> {"latest", "old"}] /\ adrift \in BOOLEAN
  /\ got \in [Logins -> [Projects -> {None} \cup Keys]]
  /\ out \in {"no", "session", "account", "creds"}
  /\ logins \in Nat /\ stale \subseteq revoked /\ slips \in [Owners -> Nat]
  /\ mishaps \subseteq Mishaps

Never(kinds) == mishaps \cap kinds = {}
Live         == remote \cup revoked   \* keys that only the console may have deleted

(* What makes the properties below inductive.  Without an overlap at most  *)
(* one login is under way; the steps of reconcileProjectCredential are at  *)
(* a target; the cache holds existing keys under their own names; a remote *)
(* key about to be deleted is of that name and not the cached one; one     *)
(* about to be cached exists; and up to the creation of a key the keyvault *)
(* has a place left for it.                                                *)
TargetSteps == {"forge", "sync", "syncGet", "syncSave", "list", "lookup", "delete", "drop",
                "create", "saveCred", "buckets"}
OneLogin == \A l, m \in Logins : pc[l] # "idle" /\ pc[m] # "idle" => l = m
AtTarget ==
  \A l \in Logins : /\ pc[l] \in TargetSteps => at[l] \in DOMAIN Targets
                    /\ pc[l] \in {"lookup", "delete", "saveCred"} /\ key[l] # None
                         => key[l].name = Name(at[l])
                    /\ pc[l] \in {"delete", "saveCred"} => key[l] # None
                    /\ pc[l] \notin {"lookup", "delete", "saveCred"} => key[l] = None
CacheSafe ==
  /\ \A n \in Names : cache[n] # None => cache[n].key \in Live /\ cache[n].key.name = n
  /\ \A l \in Logins :
       /\ pc[l] = "delete" => \A n \in Names : cache[n] # None => cache[n].key # key[l]
       /\ pc[l] = "saveCred" => key[l] \in Live
Others(l) == KeysOf(Here(l)) \ {key[l]}
RoomForKey ==
  /\ IsFiniteSet(remote)
  /\ \A o \in Owners : Cardinality(KeysOf(o)) <= 1 + slips[o]
  /\ \A l \in Logins : pc[l] \in {"lookup", "delete", "drop", "create"} =>
                          Cardinality(Others(l)) <= slips[Here(l)]
IInv ==
  /\ TypeOK /\ AtTarget
  /\ Never({"overlap"}) => OneLogin /\ RoomForKey
  /\ Never({"overlap", "misread"}) => CacheSafe

(* A cached credential, the only copy of a secret, is never for a key that *)
(* the program itself has deleted, wherever it was killed and whatever     *)
(* write or request failed: unless two logins overlap, each taking the     *)
(* other's new key for an orphan, or a failed read counts as nothing       *)
(* cached.                                                                 *)
CachedKeyExists ==
  Never({"overlap", "misread"}) => \A n \in Names : cache[n] # None => cache[n].key \in Live

(* s3KeyName lower-cases the names of user and project and replaces their *)
(* blanks, so two projects of a user may share a key name and, with it, a  *)
(* cache entry: a login then deletes the key it has just got for the other *)
(* project, or a restart finds no credential for it.                       *)
NamesApart == \A i, j \in DOMAIN Targets : Name(i) = Name(j) => Project(i) = Project(j)

(* A login makes no client of a key that did not exist when it began, nor  *)
(* of one that it has itself deleted for a later project, whatever fails,  *)
(* as long as projects do not share key names.                             *)
LoginKeysWork ==
  NamesApart /\ Never({"overlap"}) =>
    \A l \in Logins : \A p \in Projects :
      got[l][p] # None => got[l][p] \in remote \cup (revoked \ stale)

(* Logins leave one key per user and name in the keyvault, however often   *)
(* they are repeated or killed; the others are there because a request to  *)
(* create or delete one failed.                                            *)
KeysAccounted ==
  Never({"overlap"}) => \A o \in Owners : Cardinality(KeysOf(o)) <= 1 + slips[o]

(* The cookie stored with the session is the latest that the program has   *)
(* received, so that a restart goes on with it: except inside the steps    *)
(* that save one, and after adrift, a kill or a failure inside these steps *)
(* or a cookie from a request that they do not follow (see the README),    *)
(* until the next time a session is saved.                                 *)
CookieIsPersisted ==
  /\ Never({"overlap"}) /\ ~adrift
  /\ \A l \in Logins : pc[l] \notin CookieSteps
  => session \in {"none", "latest"}

(* Every project whose buckets the dashboard shows has a client to scan    *)
(* them with, also after a restart ("Rebuild per-project S3 clients from   *)
(* cached credentials so the app is usable after restart without forcing a *)
(* re-login", main.go), as long as projects do not share key names, the    *)
(* store does not fail and no account without a gateway has been saved     *)
(* next to the bucket lists of one that has it.                            *)
BucketsHaveClients ==
  NamesApart /\ Never({"overlap", "store", "misread", "logout", "bare"})
  => \A p \in buckets : clients[p] # None

=============================================================================
