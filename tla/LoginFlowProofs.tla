---------------------------- MODULE LoginFlowProofs ----------------------------
(***************************************************************************)
(* Proofs about LoginFlow for any number of login handlers, projects,      *)
(* users and attempts: first what holds also when projects share key       *)
(* names, then the credentials, clients and cookie of a login.             *)
(***************************************************************************)
EXTENDS LoginFlow, FiniteSetTheorems, TLAPS

(* A target has a project, a name and an owner.                            *)
LEMMA TargetTypes ==
  ASSUME NEW i \in DOMAIN Targets
  PROVE  /\ Project(i) \in Projects /\ Name(i) \in Names /\ User(i) \in Users
         /\ <<User(i), Name(i)>> \in Owners
<1>1. Targets[i] \in DOMAIN KeyName
  BY LoginAssumption
<1> QED
  BY <1>1, LoginAssumption DEF Project, Name, User, Names, Users, Owners

(* There is a first target.                                                *)
LEMMA FirstTarget == 1 \in DOMAIN Targets /\ 1 \in 0..Len(Targets) /\ Len(Targets) \in Nat
BY LoginAssumption

(* In a finite keyvault every owner has a finite number of keys, and to    *)
(* take one away or add one changes it by at most one.                     *)
LEMMA Counting ==
  ASSUME NEW R, IsFiniteSet(R), NEW k
  PROVE  /\ Cardinality(R) \in Nat /\ Cardinality(R \ {k}) \in Nat
         /\ Cardinality(R \cup {k}) \in Nat
         /\ IsFiniteSet(R \ {k}) /\ IsFiniteSet(R \cup {k})
         /\ Cardinality(R \ {k}) <= Cardinality(R)
         /\ Cardinality(R) <= Cardinality(R \ {k}) + 1
         /\ Cardinality(R \cup {k}) <= Cardinality(R) + 1
         /\ k \in R => Cardinality(R \ {k}) = Cardinality(R) - 1
<1>1. IsFiniteSet(R \ {k}) /\ IsFiniteSet(R \cup {k})
  BY FS_AddElement, FS_RemoveElement
<1>2. /\ Cardinality(R) \in Nat /\ Cardinality(R \ {k}) \in Nat
      /\ Cardinality(R \cup {k}) \in Nat
  BY <1>1, FS_CardinalityType
<1>3. Cardinality(R \ {k}) = IF k \in R THEN Cardinality(R) - 1 ELSE Cardinality(R)
  BY FS_RemoveElement
<1>4. Cardinality(R \cup {k}) = IF k \in R THEN Cardinality(R) ELSE Cardinality(R) + 1
  BY FS_AddElement
<1> QED
  BY <1>1, <1>2, <1>3, <1>4

LEMMA KeysOfFinite ==
  ASSUME IsFiniteSet(remote), NEW o
  PROVE  IsFiniteSet(KeysOf(o)) /\ Cardinality(KeysOf(o)) \in Nat
<1>1. KeysOf(o) \subseteq remote
  BY DEF KeysOf
<1> QED
  BY <1>1, FS_Subset, FS_CardinalityType

-----------------------------------------------------------------------------
RoomSteps  == {"lookup", "delete", "drop", "create"}
CacheSteps == {"delete", "saveCred"}

(* A step that leaves the keyvault alone keeps the room for new keys, as   *)
(* long as no login enters the steps that need it.                         *)
LEMMA RoomFrame ==
  ASSUME RoomForKey, remote' = remote, slips' = slips,
         \A l \in Logins : pc'[l] \in RoomSteps =>
            pc[l] \in RoomSteps /\ at'[l] = at[l] /\ key'[l] = key[l]
  PROVE  RoomForKey'
BY DEF RoomForKey, RoomSteps, Others, KeysOf, Here, Owners, User, Name

(* A step that leaves the keyvault alone, and at most drops entries of the *)
(* cache, keeps the cache safe, as long as no login comes to delete a key  *)
(* or to cache one.                                                        *)
LEMMA CacheFrame ==
  ASSUME CacheSafe, Live' = Live,
         \A n \in Names : cache'[n] = cache[n] \/ cache'[n] = None,
         \A l \in Logins : pc'[l] \in CacheSteps =>
            pc'[l] = pc[l] /\ key'[l] = key[l]
  PROVE  CacheSafe'
BY DEF CacheSafe, CacheSteps

(* Mishaps are never forgotten.                                            *)
LEMMA NeverFrame ==
  ASSUME mishaps \subseteq mishaps', NEW kinds, Never(kinds)'
  PROVE  Never(kinds)
BY DEF Never

(* A step of one login that leaves the keyvault alone, at most drops       *)
(* entries of the cache and leads to no step that handles a remote key.    *)
QuietSteps == Steps \ (RoomSteps \cup CacheSteps)
LEMMA Quiet ==
  ASSUME IInv, TypeOK', AtTarget', NEW l \in Logins,
         UNCHANGED <<remote, revoked, slips>>, mishaps \subseteq mishaps',
         \A n \in Names : cache'[n] = cache[n] \/ cache'[n] = None,
         \A m \in Logins : m # l => pc'[m] = pc[m] /\ at'[m] = at[m] /\ key'[m] = key[m],
         pc[l] # "idle", pc'[l] \in QuietSteps
  PROVE  IInv'
<1>1. ASSUME Never({"overlap"})' PROVE OneLogin' /\ RoomForKey'
  <2>1. OneLogin /\ RoomForKey
    BY <1>1, NeverFrame DEF IInv
  <2>2. OneLogin'
    BY <2>1 DEF OneLogin
  <2>3. RoomForKey'
    BY <2>1, RoomFrame DEF QuietSteps, RoomSteps
  <2> QED
    BY <2>2, <2>3
<1>2. ASSUME Never({"overlap", "misread"})' PROVE CacheSafe'
  <2>1. CacheSafe
    BY <1>2, NeverFrame DEF IInv
  <2> QED
    BY <2>1, CacheFrame DEF QuietSteps, CacheSteps, Live
<1> QED
  BY <1>1, <1>2 DEF IInv

(* What Advance does to the login's own variables.                         *)
LEMMA AdvanceTypes ==
  ASSUME TypeOK, NEW l \in Logins, NEW g \in [Projects -> {None} \cup Keys], Advance(l, g)
  PROVE  /\ pc' \in [Logins -> Steps] /\ at' \in [Logins -> 0..Len(Targets)]
         /\ try' \in [Logins -> 0..Attempts] /\ key' \in [Logins -> {None} \cup Keys]
         /\ got' \in [Logins -> [Projects -> {None} \cup Keys]]
         /\ pc'[l] \in {"clients", "forge"} /\ key'[l] = None
         /\ pc'[l] = "forge" => at'[l] \in DOMAIN Targets
         /\ \A m \in Logins : m # l => pc'[m] = pc[m] /\ at'[m] = at[m] /\ key'[m] = key[m]
<1> DEFINE later == {i \in DOMAIN Targets : i > at[l] /\ g[Project(i)] = None}
<1>1. /\ got' = [got EXCEPT ![l] = g]
      /\ try' = [try EXCEPT ![l] = 0] /\ key' = [key EXCEPT ![l] = None]
  BY DEF Advance
<1>2. /\ got' \in [Logins -> [Projects -> {None} \cup Keys]]
      /\ try' \in [Logins -> 0..Attempts] /\ key' \in [Logins -> {None} \cup Keys]
      /\ key'[l] = None /\ \A m \in Logins : m # l => key'[m] = key[m]
  BY <1>1, LoginAssumption DEF TypeOK
<1>3. CASE later = {}
  <2>1. pc' = [pc EXCEPT ![l] = "clients"] /\ at' = [at EXCEPT ![l] = 0]
    BY <1>3 DEF Advance, Goto
  <2> QED
    BY <1>2, <2>1, FirstTarget DEF TypeOK, Steps
<1>4. CASE later # {}
  <2>1. PICK i \in DOMAIN Targets : at' = [at EXCEPT ![l] = i]
    BY <1>4 DEF Advance
  <2>2. pc' = [pc EXCEPT ![l] = "forge"]
    BY <1>4 DEF Advance, Goto
  <2>3. i \in 0..Len(Targets)
    BY LoginAssumption
  <2> QED
    BY <1>2, <2>1, <2>2, <2>3 DEF TypeOK, Steps
<1> QED
  BY <1>3, <1>4

LEMMA GotTypes ==
  ASSUME TypeOK, NEW l \in Logins, NEW k \in {None} \cup Keys
  PROVE  /\ got[l] \in [Projects -> {None} \cup Keys]
         /\ [got[l] EXCEPT ![Project(at[l])] = k] \in [Projects -> {None} \cup Keys]
BY DEF TypeOK

(* An answer leaves the copies of the cookie with their types.             *)
CookieTypes == /\ session \in {"none", "latest", "old"}
               /\ seen \in [Logins -> {"latest", "old"}] /\ adrift \in BOOLEAN
LEMMA RotateTypes ==
  ASSUME TypeOK
  PROVE  /\ CookieTypes
         /\ UNCHANGED cookie => CookieTypes'
         /\ Rotate \/ MayRotate => (adrift' \in BOOLEAN => CookieTypes')
         /\ Unsaved => CookieTypes'
<1>1. CookieTypes
  BY DEF TypeOK, CookieTypes
<1>2. UNCHANGED <<session, seen>> => (adrift' \in BOOLEAN => CookieTypes')
  BY <1>1 DEF CookieTypes
<1>3. UNCHANGED cookie => CookieTypes'
  BY <1>1 DEF CookieTypes, cookie
<1>4. Rotate => (adrift' \in BOOLEAN => CookieTypes')
  BY DEF CookieTypes, Rotate
<1> QED
  BY <1>1, <1>2, <1>3, <1>4 DEF MayRotate, Unsaved

-----------------------------------------------------------------------------
LEMMA InitIInv == Init => IInv
<1> SUFFICES ASSUME Init PROVE IInv
  OBVIOUS
<1>1. TypeOK
  <2>1. NoKeys \in [Projects -> {None} \cup Keys]
    BY DEF NoKeys
  <2>2. /\ at \in [Logins -> 0..Len(Targets)] /\ try \in [Logins -> 0..Attempts]
        /\ minted \in [Owners -> 0..MaxKeys] /\ slips \in [Owners -> Nat]
    BY LoginAssumption, FirstTarget DEF Init
  <2>3. /\ cache \in [Names -> {None} \cup [key : Keys, project : Projects]]
        /\ key \in [Logins -> {None} \cup Keys] /\ pc \in [Logins -> Steps]
        /\ seen \in [Logins -> {"latest", "old"}]
    BY DEF Init, Steps
  <2> QED
    BY <2>1, <2>2, <2>3 DEF Init, TypeOK, Mishaps
<1>2. AtTarget
  BY DEF Init, AtTarget, TargetSteps
<1>3. OneLogin /\ CacheSafe
  BY DEF Init, OneLogin, CacheSafe
<1>4. RoomForKey
  <2>1. IsFiniteSet(remote) /\ \A o \in Owners : KeysOf(o) = {}
    BY FS_EmptySet DEF Init, KeysOf
  <2>2. \A o \in Owners : Cardinality(KeysOf(o)) = 0 /\ slips[o] = 0
    BY <2>1, FS_EmptySet DEF Init
  <2>3. \A l \in Logins : pc[l] = "idle"
    BY DEF Init
  <2> QED
    BY <2>1, <2>2, <2>3 DEF RoomForKey
<1> QED
  BY <1>1, <1>2, <1>3, <1>4 DEF IInv

LEMMA WriteTypes ==
  ASSUME IInv, NEW l \in Logins, NEW ok, NEW failed, WriteSession(l, ok, failed)
  PROVE  CookieTypes'
<1>1. /\ session' = session \/ session' = seen[l]
      /\ seen' = [seen EXCEPT ![l] = "old"] /\ adrift' \in BOOLEAN
  BY DEF WriteSession
<1> QED
  BY <1>1 DEF CookieTypes, IInv, TypeOK

(* A step of a login among those before its first target.                  *)
FirstSteps == {"signin", "account", "saveLogin", "saveSession", "saveAccount", "projects",
               "noGateway", "clearBuckets"}
LEMMA SigningQuiet ==
  ASSUME IInv, NEW l \in Logins, pc[l] \in FirstSteps,
         NEW step \in FirstSteps \cup {"idle"}, pc' = [pc EXCEPT ![l] = step],
         UNCHANGED <<keyvault, clients, at, try, key, got, out, logins, stale, slips>>,
         UNCHANGED cache, account' \in {"none", "bare", "gateway"}, buckets' \subseteq Projects,
         mishaps \subseteq mishaps', mishaps' \subseteq Mishaps, CookieTypes'
  PROVE  IInv'
<1>1. TypeOK'
  BY DEF IInv, TypeOK, CookieTypes, keyvault, FirstSteps, Steps, CookieSteps
<1>2. AtTarget'
  BY DEF IInv, TypeOK, AtTarget, TargetSteps, FirstSteps, Name
<1>3. /\ pc[l] # "idle" /\ pc'[l] \in QuietSteps
      /\ \A m \in Logins : m # l => pc'[m] = pc[m] /\ at'[m] = at[m] /\ key'[m] = key[m]
  BY DEF IInv, TypeOK, QuietSteps, Steps, CookieSteps, FirstSteps, RoomSteps, CacheSteps
<1> QED
  BY <1>1, <1>2, <1>3, Quiet DEF keyvault

LEMMA SignInInv ==
  ASSUME IInv, NEW l \in Logins, SignIn(l)
  PROVE  IInv'
<1>1. /\ pc[l] \in FirstSteps
      /\ \E step \in FirstSteps \cup {"idle"} : pc' = [pc EXCEPT ![l] = step]
      /\ UNCHANGED <<keyvault, stored, clients, at, try, key, got, out, history>>
  BY DEF SignIn, LoginFails, Goto, FirstSteps
<1>2. CookieTypes'
  <2>1. TypeOK
    BY DEF IInv
  <2> QED
    BY <2>1, RotateTypes DEF SignIn, LoginFails, CookieTypes
<1>3. /\ UNCHANGED <<account, cache, buckets, mishaps>> /\ mishaps' \subseteq Mishaps
      /\ account' \in {"none", "bare", "gateway"} /\ buckets' \subseteq Projects
  BY <1>1 DEF stored, history, IInv, TypeOK
<1> QED
  BY <1>1, <1>2, <1>3, SigningQuiet DEF history

LEMMA GetAccountInv ==
  ASSUME IInv, NEW l \in Logins, GetAccount(l)
  PROVE  IInv'
<1>1. /\ pc[l] \in FirstSteps
      /\ \E step \in FirstSteps \cup {"idle"} : pc' = [pc EXCEPT ![l] = step]
      /\ UNCHANGED <<keyvault, stored, clients, at, try, key, got, out, history>>
  BY DEF GetAccount, LoginFails, Goto, FirstSteps
<1>2. CookieTypes'
  <2>1. TypeOK
    BY DEF IInv
  <2> QED
    BY <2>1, RotateTypes DEF GetAccount, LoginFails, CookieTypes
<1>3. /\ UNCHANGED <<account, cache, buckets, mishaps>> /\ mishaps' \subseteq Mishaps
      /\ account' \in {"none", "bare", "gateway"} /\ buckets' \subseteq Projects
  BY <1>1 DEF stored, history, IInv, TypeOK
<1> QED
  BY <1>1, <1>2, <1>3, SigningQuiet DEF history

LEMMA SaveLoginInv ==
  ASSUME IInv, NEW l \in Logins, SaveLogin(l)
  PROVE  IInv'
<1>1. /\ pc[l] \in FirstSteps
      /\ \E step \in FirstSteps \cup {"idle"} : pc' = [pc EXCEPT ![l] = step]
      /\ UNCHANGED <<keyvault, session, adrift, stored, clients, at, try, key, got, out, history>>
      /\ seen' = [seen EXCEPT ![l] = "latest"]
  BY DEF SaveLogin, ReadCookie, Goto, FirstSteps
<1>2. CookieTypes'
  BY <1>1 DEF CookieTypes, IInv, TypeOK
<1>3. /\ UNCHANGED <<account, cache, buckets, mishaps>> /\ mishaps' \subseteq Mishaps
      /\ account' \in {"none", "bare", "gateway"} /\ buckets' \subseteq Projects
  BY <1>1 DEF stored, history, IInv, TypeOK
<1> QED
  BY <1>1, <1>2, <1>3, SigningQuiet DEF history

LEMMA SaveSessionInv ==
  ASSUME IInv, NEW l \in Logins, SaveSession(l)
  PROVE  IInv'
<1>1. /\ UNCHANGED <<keyvault, stored, clients, at, try, key, got, out, logins, stale, slips>>
      /\ mishaps' = mishaps \/ mishaps' = mishaps \cup {"store"}
      /\ pc[l] \in FirstSteps
      /\ \E step \in FirstSteps \cup {"idle"} : pc' = [pc EXCEPT ![l] = step]
  BY DEF SaveSession, WriteSession, Goto, Note, FirstSteps
<1>2. CookieTypes'
  BY WriteTypes DEF SaveSession
<1>3. /\ UNCHANGED cache /\ mishaps \subseteq mishaps' /\ mishaps' \subseteq Mishaps
      /\ account' \in {"none", "bare", "gateway"} /\ buckets' \subseteq Projects
  BY <1>1 DEF stored, IInv, TypeOK, Mishaps
<1> QED
  BY <1>1, <1>2, <1>3, SigningQuiet

LEMMA SaveAccountInv ==
  ASSUME IInv, NEW l \in Logins, SaveAccount(l)
  PROVE  IInv'
<1>1. /\ UNCHANGED <<keyvault, cookie, cache, buckets, clients, at, try, key, got, out,
                     logins, stale, slips>>
      /\ mishaps' = mishaps \/ \E kind \in {"bare", "store"} : mishaps' = mishaps \cup {kind}
      /\ account' \in {account, "bare", "gateway"} /\ pc[l] \in FirstSteps
      /\ \E step \in FirstSteps \cup {"idle"} : pc' = [pc EXCEPT ![l] = step]
  BY DEF SaveAccount, Goto, Note, FirstSteps
<1>2. CookieTypes'
  BY <1>1, RotateTypes DEF IInv
<1>3. /\ mishaps \subseteq mishaps' /\ mishaps' \subseteq Mishaps
      /\ account' \in {"none", "bare", "gateway"} /\ buckets' \subseteq Projects
  BY <1>1 DEF IInv, TypeOK, Mishaps
<1> QED
  BY <1>1, <1>2, <1>3, SigningQuiet

LEMMA GetProjectsInv ==
  ASSUME IInv, NEW l \in Logins, GetProjects(l)
  PROVE  IInv'
<1>1. /\ pc[l] \in FirstSteps
      /\ \E step \in FirstSteps \cup {"idle"} : pc' = [pc EXCEPT ![l] = step]
      /\ UNCHANGED <<keyvault, stored, clients, at, try, key, got, out, history>>
  BY DEF GetProjects, Goto, FirstSteps
<1>2. CookieTypes'
  <2>1. TypeOK
    BY DEF IInv
  <2> QED
    BY <2>1, RotateTypes DEF GetProjects, CookieTypes
<1>3. /\ UNCHANGED <<account, cache, buckets, mishaps>> /\ mishaps' \subseteq Mishaps
      /\ account' \in {"none", "bare", "gateway"} /\ buckets' \subseteq Projects
  BY <1>1 DEF stored, history, IInv, TypeOK
<1> QED
  BY <1>1, <1>2, <1>3, SigningQuiet DEF history

LEMMA ClearAllBucketsInv ==
  ASSUME IInv, NEW l \in Logins, ClearAllBuckets(l)
  PROVE  IInv'
<1> USE DEF ClearAllBuckets, Goto, Note, keyvault
<1>1. TypeOK'
  <2>1. CookieTypes'
    BY RotateTypes DEF IInv
  <2> QED
    BY <2>1, FirstTarget DEF IInv, TypeOK, CookieTypes, Steps, Mishaps
<1>2. AtTarget'
  BY FirstTarget DEF IInv, TypeOK, AtTarget, TargetSteps, Name
<1>3. /\ pc[l] # "idle" /\ pc'[l] \in QuietSteps
      /\ \A m \in Logins : m # l => pc'[m] = pc[m] /\ at'[m] = at[m] /\ key'[m] = key[m]
  BY DEF IInv, TypeOK, QuietSteps, Steps, RoomSteps, CacheSteps
<1> QED
  BY <1>1, <1>2, <1>3, Quiet

LEMMA ForgeJWTInv ==
  ASSUME IInv, NEW l \in Logins, ForgeJWT(l)
  PROVE  IInv'
<1> USE DEF ForgeJWT, Goto, keyvault, history
<1>1. try' \in [Logins -> 0..Attempts]
  <2>1. 1 \in 0..Attempts
    BY LoginAssumption
  <2>2. try \in [Logins -> 0..Attempts]
    BY DEF IInv, TypeOK
  <2>3. try' = [try EXCEPT ![l] = 1] \/ try' = try
    OBVIOUS
  <2> QED
    BY <2>1, <2>2, <2>3
<1>2. TypeOK'
  <2>1. CookieTypes'
    <3>1. TypeOK /\ adrift' \in BOOLEAN
      BY DEF IInv, TypeOK
    <3> QED
      BY <3>1, RotateTypes
  <2> QED
    BY <1>1, <2>1 DEF IInv, TypeOK, CookieTypes, Steps, CookieSteps, stored
<1>3. AtTarget'
  BY DEF IInv, TypeOK, AtTarget, TargetSteps, Name
<1> QED
  BY <1>2, <1>3, Quiet, SMTT(40) DEF IInv, TypeOK, QuietSteps, Steps, CookieSteps, stored, RoomSteps, CacheSteps

LEMMA SyncRefreshTokenInv ==
  ASSUME IInv, NEW l \in Logins, SyncRefreshToken(l)
  PROVE  IInv'
<1> USE DEF SyncRefreshToken, ReadCookie, Goto, keyvault, stored, history
<1>1. TypeOK'
  BY FirstTarget, TargetTypes DEF IInv, TypeOK, AtTarget, TargetSteps, Steps, CookieSteps
<1>2. AtTarget'
  BY FirstTarget DEF IInv, TypeOK, AtTarget, TargetSteps, Name
<1>3. /\ pc[l] # "idle" /\ pc'[l] \in QuietSteps
      /\ \A m \in Logins : m # l => pc'[m] = pc[m] /\ at'[m] = at[m] /\ key'[m] = key[m]
  BY DEF IInv, TypeOK, QuietSteps, Steps, CookieSteps, RoomSteps, CacheSteps
<1> QED
  BY <1>1, <1>2, <1>3, Quiet

LEMMA SyncGetSessionInv ==
  ASSUME IInv, NEW l \in Logins, SyncGetSession(l)
  PROVE  IInv'
<1> USE DEF SyncGetSession, Goto, Note, keyvault, stored
<1>1. TypeOK'
  BY FirstTarget, TargetTypes DEF IInv, TypeOK, AtTarget, TargetSteps, Steps, CookieSteps, Mishaps
<1>2. AtTarget'
  BY FirstTarget DEF IInv, TypeOK, AtTarget, TargetSteps, Name
<1>3. /\ pc[l] # "idle" /\ pc'[l] \in QuietSteps
      /\ \A m \in Logins : m # l => pc'[m] = pc[m] /\ at'[m] = at[m] /\ key'[m] = key[m]
  BY DEF IInv, TypeOK, QuietSteps, Steps, CookieSteps, RoomSteps, CacheSteps
<1> QED
  BY <1>1, <1>2, <1>3, Quiet

LEMMA SyncSaveSessionInv ==
  ASSUME IInv, NEW l \in Logins, SyncSaveSession(l)
  PROVE  IInv'
<1>1. /\ UNCHANGED <<keyvault, stored, clients, at, try, key, got, out, logins, stale, slips>>
      /\ mishaps' = mishaps \/ mishaps' = mishaps \cup {"store"}
  BY DEF SyncSaveSession, WriteSession, Note
<1>2. /\ pc' = [pc EXCEPT ![l] = "list"]
      /\ pc[l] = "syncSave"
  BY DEF SyncSaveSession, WriteSession, Goto
<1>3. TypeOK'
  <2>1. CookieTypes'
    BY WriteTypes DEF SyncSaveSession
  <2> QED
    BY <1>1, <1>2, <2>1 DEF IInv, TypeOK, CookieTypes, Steps, CookieSteps, keyvault, stored, Mishaps
<1>4. AtTarget'
  BY <1>1, <1>2 DEF IInv, TypeOK, AtTarget, TargetSteps, Name
<1>5. pc'[l] \in QuietSteps /\ \A m \in Logins : m # l => pc'[m] = pc[m]
  BY <1>2 DEF IInv, TypeOK, QuietSteps, Steps, CookieSteps, RoomSteps, CacheSteps
<1> QED
  BY <1>1, <1>2, <1>3, <1>4, <1>5, Quiet DEF keyvault, stored

LEMMA SetS3ClientInv ==
  ASSUME IInv, NEW l \in Logins, SetS3Client(l)
  PROVE  IInv'
<1> USE DEF SetS3Client, Goto, keyvault, cookie, stored, history
<1>1. CASE got[l] = NoKeys
  <2>1. pc' = [pc EXCEPT ![l] = "idle"] /\ UNCHANGED <<clients, at>>
    BY <1>1
  <2>2. TypeOK'
    BY <2>1 DEF IInv, TypeOK, Steps
  <2>3. AtTarget'
    BY <2>1 DEF IInv, TypeOK, AtTarget, TargetSteps, Name
  <2> QED
    BY <2>1, <2>2, <2>3, Quiet, SMTT(40) DEF IInv, TypeOK, QuietSteps, Steps, RoomSteps, CacheSteps
<1>2. ASSUME NEW i \in DOMAIN Targets,
             clients' = [clients EXCEPT ![Project(i)] = got[l][Project(i)]],
             at' = [at EXCEPT ![l] = i], pc' = [pc EXCEPT ![l] = "buckets"], UNCHANGED got
      PROVE  IInv'
  <2>2. got[l][Project(i)] \in {None} \cup Keys /\ i \in 0..Len(Targets)
    <3>1. Project(i) \in Projects
      BY TargetTypes
    <3>2. got \in [Logins -> [Projects -> {None} \cup Keys]]
      BY DEF IInv, TypeOK
    <3>3. i \in 0..Len(Targets)
      BY LoginAssumption
    <3> QED
      BY <3>1, <3>2, <3>3
  <2>4. TypeOK'
    BY <1>2, <2>2 DEF IInv, TypeOK, Steps
  <2>5. AtTarget'
    BY <1>2 DEF IInv, TypeOK, AtTarget, TargetSteps, Name
  <2> QED
    BY <1>2, <2>4, <2>5, Quiet, SMTT(40) DEF IInv, TypeOK, QuietSteps, Steps, RoomSteps, CacheSteps
<1>3. ASSUME NEW i \in DOMAIN Targets,
             got' = [got EXCEPT ![l] = [got[l] EXCEPT ![Project(i)] = None]],
             UNCHANGED <<pc, clients, at>>
      PROVE  IInv'
  <2>1. got' \in [Logins -> [Projects -> {None} \cup Keys]]
    <3>1. got \in [Logins -> [Projects -> {None} \cup Keys]] /\ Project(i) \in Projects
      BY TargetTypes DEF IInv, TypeOK
    <3>2. [got[l] EXCEPT ![Project(i)] = None] \in [Projects -> {None} \cup Keys]
      BY <3>1
    <3> QED
      BY <1>3, <3>1, <3>2
  <2>2. TypeOK'
    BY <1>3, <2>1 DEF IInv, TypeOK
  <2>3. AtTarget'
    BY <1>3 DEF IInv, AtTarget, Name
  <2>4. pc[l] = "clients" /\ pc'[l] \in QuietSteps
    BY <1>3 DEF QuietSteps, Steps, RoomSteps, CacheSteps
  <2> QED
    BY <1>3, <2>2, <2>3, <2>4, Quiet
<1>4. ASSUME got[l] # NoKeys
      PROVE  \E i \in DOMAIN Targets :
                \/ /\ clients' = [clients EXCEPT ![Project(i)] = got[l][Project(i)]]
                   /\ at' = [at EXCEPT ![l] = i] /\ pc' = [pc EXCEPT ![l] = "buckets"]
                   /\ UNCHANGED got
                \/ /\ got' = [got EXCEPT ![l] = [got[l] EXCEPT ![Project(i)] = None]]
                   /\ UNCHANGED <<pc, clients, at>>
  BY <1>4
<1> QED
  BY <1>1, <1>2, <1>3, <1>4

LEMMA SaveBucketsInv ==
  ASSUME IInv, NEW l \in Logins, SaveBuckets(l)
  PROVE  IInv'
<1> USE DEF SaveBuckets, Goto, keyvault, cookie, history
<1>1. at[l] \in DOMAIN Targets
  BY DEF IInv, AtTarget, TargetSteps
<1>2. got' = [got EXCEPT ![l] = [got[l] EXCEPT ![Project(at[l])] = None]]
  OBVIOUS
<1>3. got' \in [Logins -> [Projects -> {None} \cup Keys]]
  <2>1. [got[l] EXCEPT ![Project(at[l])] = None] \in [Projects -> {None} \cup Keys]
    BY GotTypes DEF IInv
  <2>2. got \in [Logins -> [Projects -> {None} \cup Keys]]
    BY DEF IInv, TypeOK
  <2> QED
    BY <1>2, <2>1, <2>2
<1>4. buckets' \subseteq Projects
  <2>1. Project(at[l]) \in Projects
    BY <1>1, TargetTypes
  <2>2. buckets \subseteq Projects
    BY DEF IInv, TypeOK
  <2> QED
    BY <2>1, <2>2
<1>5. TypeOK'
  BY <1>3, <1>4, FirstTarget DEF IInv, TypeOK, Steps
<1>6. AtTarget'
  BY FirstTarget DEF IInv, TypeOK, AtTarget, TargetSteps, Name
<1> QED
  BY <1>5, <1>6, Quiet, SMTT(40) DEF IInv, TypeOK, QuietSteps, Steps, RoomSteps, CacheSteps

-----------------------------------------------------------------------------
LEMMA Fewer ==
  ASSUME NEW S, IsFiniteSet(S), NEW T \in SUBSET S, NEW n \in Nat, Cardinality(S) <= n
  PROVE  Cardinality(T) <= n
<1>1. Cardinality(T) <= Cardinality(S) /\ IsFiniteSet(T)
  BY FS_Subset
<1>2. Cardinality(T) \in Nat /\ Cardinality(S) \in Nat
  BY <1>1, FS_CardinalityType
<1> QED
  BY <1>1, <1>2

(* A login's handler is at a target while it looks for a key, so it stands *)
(* in for an owner of keys.                                                *)
LEMMA HereTypes ==
  ASSUME TypeOK, AtTarget, NEW l \in Logins, pc[l] \in TargetSteps
  PROVE  /\ at[l] \in DOMAIN Targets /\ Here(l) \in Owners
         /\ Here(l) = <<User(at[l]), Name(at[l])>>
         /\ Name(at[l]) \in Names /\ User(at[l]) \in Users /\ Project(at[l]) \in Projects
         /\ slips[Here(l)] \in Nat
<1>1. at[l] \in DOMAIN Targets
  BY DEF AtTarget
<1>2. Here(l) = <<User(at[l]), Name(at[l])>> /\ Here(l) \in Owners
  BY <1>1, TargetTypes DEF Here
<1> QED
  BY <1>1, <1>2, TargetTypes DEF TypeOK

(* Room for new keys survives any step that adds no key, as long as no     *)
(* login comes to have more keys to take into account.                     *)
LEMMA RoomShrink ==
  ASSUME TypeOK, TypeOK', AtTarget', RoomForKey, remote' \subseteq remote, slips' = slips,
         \A l \in Logins : pc'[l] \in RoomSteps =>
            /\ pc[l] \in RoomSteps /\ at'[l] = at[l]
            /\ Others(l)' \subseteq Others(l)
  PROVE  RoomForKey'
<1>1. IsFiniteSet(remote') /\ \A o : KeysOf(o)' \subseteq KeysOf(o)
  BY FS_Subset DEF RoomForKey, KeysOf
<1>2. ASSUME NEW o \in Owners PROVE Cardinality(KeysOf(o)') <= 1 + slips'[o]
  <2>1. Cardinality(KeysOf(o)) <= 1 + slips[o] /\ IsFiniteSet(KeysOf(o))
    BY KeysOfFinite DEF RoomForKey
  <2>2. 1 + slips[o] \in Nat
    BY DEF TypeOK
  <2> QED
    BY <1>1, <2>1, <2>2, Fewer
<1>3. ASSUME NEW l \in Logins, pc'[l] \in RoomSteps
      PROVE  Cardinality(Others(l)') <= slips'[Here(l)']
  <2>1. Here(l)' = Here(l) /\ pc[l] \in RoomSteps
    BY <1>3 DEF Here
  <2>2. Cardinality(Others(l)) <= slips[Here(l)]
    BY <2>1 DEF RoomForKey, RoomSteps
  <2>3. slips[Here(l)] \in Nat
    <3>1. pc'[l] \in TargetSteps
      BY <1>3 DEF RoomSteps, TargetSteps
    <3>2. at'[l] \in DOMAIN Targets /\ at'[l] = at[l]
      BY <1>3, <3>1 DEF AtTarget
    <3> QED
      BY <3>2, TargetTypes DEF TypeOK, Here
  <2>4. IsFiniteSet(Others(l))
    BY FS_Subset, KeysOfFinite DEF RoomForKey, Others
  <2> QED
    BY <1>3, <2>1, <2>2, <2>3, <2>4, Fewer
<1> QED
  BY <1>1, <1>2, <1>3 DEF RoomForKey, RoomSteps

-----------------------------------------------------------------------------
(* A login goes on to its next target.                                     *)
CredTypes == [Projects -> {None} \cup Keys]
LEMMA AdvanceTypeOK ==
  ASSUME IInv, NEW l \in Logins, NEW g \in CredTypes, Advance(l, g),
         remote' \subseteq Keys, minted' \in [Owners -> 0..MaxKeys], slips' \in [Owners -> Nat],
         cache' \in [Names -> {None} \cup [key : Keys, project : Projects]],
         mishaps' \subseteq Mishaps,
         CookieTypes', UNCHANGED <<revoked, account, buckets, clients, out, logins, stale>>
  PROVE  TypeOK' /\ AtTarget'
<1>1. /\ pc' \in [Logins -> Steps] /\ at' \in [Logins -> 0..Len(Targets)]
      /\ try' \in [Logins -> 0..Attempts] /\ key' \in [Logins -> {None} \cup Keys]
      /\ got' \in [Logins -> [Projects -> {None} \cup Keys]]
      /\ pc'[l] \in {"clients", "forge"} /\ key'[l] = None
      /\ pc'[l] = "forge" => at'[l] \in DOMAIN Targets
      /\ \A m \in Logins : m # l => pc'[m] = pc[m] /\ at'[m] = at[m] /\ key'[m] = key[m]
  BY AdvanceTypes DEF IInv, CredTypes
<1>2. TypeOK'
  BY <1>1 DEF IInv, TypeOK, CookieTypes
<1>3. AtTarget'
  <2>1. ASSUME NEW m \in Logins
        PROVE  /\ pc'[m] \in TargetSteps => at'[m] \in DOMAIN Targets
               /\ pc'[m] \in {"lookup", "delete", "saveCred"} /\ key'[m] # None
                    => key'[m].name = Name(at'[m])
               /\ pc'[m] \in {"delete", "saveCred"} => key'[m] # None
               /\ pc'[m] \notin {"lookup", "delete", "saveCred"} => key'[m] = None
    <3>1. CASE m = l
      BY <1>1, <3>1 DEF TargetSteps
    <3>2. CASE m # l
      BY <1>1, <3>2 DEF IInv, AtTarget
    <3> QED
      BY <3>1, <3>2
  <2> QED
    BY <2>1 DEF AtTarget, Name
<1> QED
  BY <1>2, <1>3

LEMMA AdvanceInv ==
  ASSUME IInv, NEW l \in Logins, NEW g \in CredTypes, Advance(l, g), pc[l] # "idle",
         mishaps' \subseteq Mishaps,
         mishaps \subseteq mishaps',
         CookieTypes',
         UNCHANGED <<remote, minted, slips, cache, revoked, account, buckets, clients, out,
                     logins, stale>>
  PROVE  IInv'
<1>1. TypeOK' /\ AtTarget'
  BY AdvanceTypeOK DEF IInv, TypeOK
<1>2. /\ pc'[l] \in {"clients", "forge"}
      /\ \A m \in Logins : m # l => pc'[m] = pc[m] /\ at'[m] = at[m] /\ key'[m] = key[m]
  BY AdvanceTypes DEF IInv, CredTypes
<1>3. pc'[l] \in QuietSteps
  BY <1>2 DEF QuietSteps, Steps, RoomSteps, CacheSteps
<1> QED
  BY <1>1, <1>2, <1>3, Quiet

-----------------------------------------------------------------------------
LEMMA ChallengeInv ==
  ASSUME IInv, NEW l \in Logins, Challenge(l)
  PROVE  IInv'
<1>1. /\ pc[l] = "idle" /\ (pc' = pc \/ pc' = [pc EXCEPT ![l] = "signin"])
      /\ UNCHANGED <<remote, minted, revoked, stored, clients, at, try, key, got, out, slips>>
      /\ logins' = logins + 1 /\ stale' = revoked
      /\ mishaps' = mishaps \/ mishaps' = mishaps \cup {"overlap"}
  BY DEF Challenge, Goto, Note, keyvault
<1>2. (\E m \in Logins : pc[m] # "idle") => "overlap" \in mishaps'
  BY DEF Challenge, Note
<1>3. TypeOK'
  <2>1. CookieTypes'
    <3>1. TypeOK /\ adrift \in BOOLEAN
      BY DEF IInv, TypeOK
    <3> QED
      BY <3>1, RotateTypes DEF Challenge
  <2> QED
    BY <1>1, <2>1 DEF IInv, TypeOK, CookieTypes, Steps, CookieSteps, Mishaps, stored
<1>4. AtTarget'
  BY <1>1 DEF IInv, TypeOK, AtTarget, TargetSteps, Name
<1>5. ASSUME Never({"overlap"})' PROVE OneLogin' /\ RoomForKey'
  <2>1. RoomForKey
    BY <1>1, <1>5, NeverFrame DEF IInv
  <2>2. \A m \in Logins : pc[m] = "idle"
    BY <1>2, <1>5 DEF Never
  <2>3. \A m \in Logins : pc'[m] = "idle" \/ (m = l /\ pc'[m] = "signin")
    BY <1>1, <2>2 DEF IInv, TypeOK
  <2>4. OneLogin'
    BY <2>3 DEF OneLogin
  <2>5. RoomForKey'
    BY <1>1, <2>1, <2>3, RoomFrame DEF RoomSteps
  <2> QED
    BY <2>4, <2>5
<1>6. ASSUME Never({"overlap", "misread"})' PROVE CacheSafe'
  <2>1. CacheSafe
    BY <1>1, <1>6, NeverFrame DEF IInv
  <2>2. \A m \in Logins : pc'[m] \in CacheSteps => pc'[m] = pc[m]
    BY <1>1 DEF IInv, TypeOK, CacheSteps
  <2> QED
    BY <1>1, <2>1, <2>2, CacheFrame DEF Live, stored
<1> QED
  BY <1>3, <1>4, <1>5, <1>6 DEF IInv

LEMMA ListApiKeysInv ==
  ASSUME IInv, NEW l \in Logins, ListApiKeys(l)
  PROVE  IInv'
<1>1. /\ pc[l] = "list" /\ pc[l] # "idle" /\ mishaps' = mishaps
      /\ UNCHANGED <<remote, minted, revoked, account, cache, buckets, clients, out, logins,
                     stale, slips>>
      /\ CookieTypes'
  <2>1. TypeOK
    BY DEF IInv
  <2>2. CookieTypes'
    BY <2>1, RotateTypes DEF ListApiKeys
  <2> QED
    BY <2>2 DEF ListApiKeys, keyvault, stored, history
<1>2. CASE GiveUp(l)
  BY <1>1, <1>2, GotTypes, AdvanceInv DEF GiveUp, CredTypes, IInv, TypeOK
<1>3. CASE /\ pc' = [pc EXCEPT ![l] = "lookup"] /\ UNCHANGED <<at, try, got>>
           /\ \/ KeysOf(Here(l)) = {} /\ key' = key
              \/ \E k \in KeysOf(Here(l)) : key' = [key EXCEPT ![l] = k]
  <2>1. pc[l] \in TargetSteps /\ key[l] = None
    BY <1>1 DEF TargetSteps, IInv, AtTarget
  <2>2. /\ at[l] \in DOMAIN Targets /\ Here(l) \in Owners /\ slips[Here(l)] \in Nat
        /\ Here(l) = <<User(at[l]), Name(at[l])>>
    BY <2>1, HereTypes DEF IInv
  <2>3. /\ \A m \in Logins : m # l => key'[m] = key[m]
        /\ key'[l] # None => key'[l] \in KeysOf(Here(l))
        /\ key'[l] = None => KeysOf(Here(l)) = {}
        /\ key' \in [Logins -> {None} \cup Keys]
    <3>1. KeysOf(Here(l)) \subseteq Keys
      BY DEF KeysOf, IInv, TypeOK
    <3>2. key \in [Logins -> {None} \cup Keys]
      BY DEF IInv, TypeOK
    <3> QED
      BY <1>3, <2>1, <3>1, <3>2, NoneAssumption
  <2>4. TypeOK'
    BY <1>1, <1>3, <2>3 DEF IInv, TypeOK, CookieTypes, Steps
  <2>5. key'[l] # None => key'[l].name = Name(at[l])
    BY <2>2, <2>3 DEF KeysOf
  <2>6. AtTarget'
    BY <1>1, <1>3, <2>2, <2>3, <2>5 DEF IInv, TypeOK, AtTarget, TargetSteps, Name
  <2>7. ASSUME Never({"overlap"})' PROVE OneLogin' /\ RoomForKey'
    <3>1. OneLogin /\ RoomForKey
      BY <1>1, <2>7, NeverFrame DEF IInv
    <3>2. OneLogin'
      BY <1>1, <1>3, <3>1 DEF OneLogin, IInv, TypeOK
    <3>3. \A m \in Logins : pc'[m] \in RoomSteps => m = l
      BY <1>1, <1>3, <3>1 DEF OneLogin, IInv, TypeOK, RoomSteps
    <3>4. \A o : KeysOf(o)' = KeysOf(o)
      BY <1>1 DEF KeysOf
    <3>5. Here(l)' = Here(l)
      BY <1>3 DEF Here
    <3>6. Cardinality(Others(l)') <= slips[Here(l)]
      <4>1. Others(l)' = KeysOf(Here(l)) \ {key'[l]}
        BY <3>4, <3>5 DEF Others
      <4>2. IsFiniteSet(KeysOf(Here(l))) /\ Cardinality(KeysOf(Here(l))) <= 1 + slips[Here(l)]
        BY <2>2, <3>1, KeysOfFinite DEF RoomForKey
      <4>3. CASE key'[l] = None
        BY <2>2, <2>3, <4>1, <4>3, FS_EmptySet
      <4>4. CASE key'[l] \in KeysOf(Here(l))
        <5>1. /\ Cardinality(KeysOf(Here(l)) \ {key'[l]}) = Cardinality(KeysOf(Here(l))) - 1
              /\ Cardinality(KeysOf(Here(l))) \in Nat
          BY <4>2, <4>4, Counting
        <5> QED
          BY <2>2, <4>1, <4>2, <5>1
      <4> QED
        BY <2>3, <4>3, <4>4
    <3>7. RoomForKey'
      BY <1>1, <3>1, <3>3, <3>4, <3>5, <3>6 DEF RoomForKey, RoomSteps
    <3> QED
      BY <3>2, <3>7
  <2>8. ASSUME Never({"overlap", "misread"})' PROVE CacheSafe'
    <3>1. CacheSafe
      BY <1>1, <2>8, NeverFrame DEF IInv
    <3>2. \A m \in Logins : pc'[m] \in CacheSteps => pc'[m] = pc[m] /\ key'[m] = key[m]
      BY <1>3, <2>3 DEF IInv, TypeOK, CacheSteps
    <3> QED
      BY <1>1, <3>1, <3>2, CacheFrame DEF Live
  <2> QED
    BY <2>4, <2>6, <2>7, <2>8 DEF IInv
<1> QED
  BY <1>2, <1>3 DEF ListApiKeys, Goto

LEMMA GetCredentialInv ==
  ASSUME IInv, NEW l \in Logins, GetCredential(l)
  PROVE  IInv'
<1>1. PICK cached \in {None, cache[Name(at[l])]} :
        /\ Compare(l, cached)
        /\ cached # cache[Name(at[l])] => "misread" \in mishaps'
  BY DEF GetCredential, Note
<1>2. /\ pc[l] = "lookup" /\ (mishaps' = mishaps \/ mishaps' = mishaps \cup {"misread"})
      /\ UNCHANGED <<remote, minted, revoked, account, cache, buckets, clients, out, logins,
                     stale, slips>>
      /\ CookieTypes'
  <2>1. TypeOK
    BY DEF IInv
  <2>2. CookieTypes'
    BY <2>1, RotateTypes DEF GetCredential
  <2> QED
    BY <2>2 DEF GetCredential, Note, keyvault, stored
<1>3. /\ pc[l] # "idle" /\ mishaps \subseteq mishaps'
      /\ mishaps' \subseteq Mishaps
  BY <1>2 DEF IInv, TypeOK, Mishaps
<1>4. CASE Take(l, key[l])
  <2>1. key[l] \in {None} \cup Keys
    BY DEF IInv, TypeOK
  <2> QED
    BY <1>2, <1>3, <1>4, <2>1, GotTypes, AdvanceInv DEF Take, CredTypes, IInv
<1>5. CASE /\ UNCHANGED <<at, try, key, got>>
           /\ \/ /\ pc' = [pc EXCEPT ![l] = "delete"]
                 /\ key[l] # None /\ (cached # None => cached.key # key[l])
              \/ /\ pc' = [pc EXCEPT ![l] = "drop"] \/ pc' = [pc EXCEPT ![l] = "create"]
                 /\ key[l] = None
  <2>1. TypeOK'
    BY <1>2, <1>3, <1>5 DEF IInv, TypeOK, CookieTypes, Steps
  <2>2. AtTarget'
    BY <1>2, <1>5 DEF IInv, TypeOK, AtTarget, TargetSteps, Name
  <2>3. ASSUME Never({"overlap"})' PROVE OneLogin' /\ RoomForKey'
    <3>1. OneLogin /\ RoomForKey
      BY <1>3, <2>3, NeverFrame DEF IInv
    <3>2. OneLogin'
      <4>1. \A m \in Logins : pc'[m] # "idle" => pc[m] # "idle"
        BY <1>2, <1>5 DEF IInv, TypeOK
      <4> QED
        BY <3>1, <4>1 DEF OneLogin
    <3>3. \A m \in Logins : pc'[m] \in RoomSteps => pc[m] \in RoomSteps
      BY <1>2, <1>5 DEF IInv, TypeOK, RoomSteps
    <3> QED
      BY <1>2, <1>5, <3>1, <3>2, <3>3, RoomFrame
  <2>4. ASSUME Never({"overlap", "misread"})' PROVE CacheSafe'
    <3>1. CacheSafe
      BY <1>3, <2>4, NeverFrame DEF IInv
    <3>2. cached = cache[Name(at[l])]
      BY <1>1, <2>4 DEF Never
    <3>3. pc'[l] = "delete" => \A n \in Names : cache[n] # None => cache[n].key # key[l]
      <4>1. pc'[l] = "delete" => /\ key[l].name = Name(at[l])
                                 /\ cached # None => cached.key # key[l]
        BY <1>2, <1>5 DEF IInv, TypeOK, AtTarget
      <4>2. \A n \in Names : cache[n] # None => cache[n].key.name = n
        BY <3>1 DEF CacheSafe
      <4> QED
        BY <3>2, <4>1, <4>2
    <3>4. pc'[l] # "saveCred" /\ \A m \in Logins : m # l => pc'[m] = pc[m]
      BY <1>5 DEF IInv, TypeOK
    <3> QED
      BY <1>2, <1>5, <3>1, <3>3, <3>4 DEF CacheSafe, Live
  <2> QED
    BY <2>1, <2>2, <2>3, <2>4 DEF IInv
<1> QED
  BY <1>1, <1>4, <1>5 DEF Compare, Goto

LEMMA DeleteApiKeyInv ==
  ASSUME IInv, NEW l \in Logins, DeleteApiKey(l)
  PROVE  IInv'
<1>1. /\ pc[l] = "delete" /\ pc' = [pc EXCEPT ![l] = "create"] /\ key' = [key EXCEPT ![l] = None]
      /\ UNCHANGED <<minted, revoked, account, cache, buckets, clients, at, try, got, out,
                     logins, stale, mishaps>>
      /\ \/ remote' = remote \ {key[l]} /\ slips' = slips
         \/ remote' = remote /\ slips' = [slips EXCEPT ![Here(l)] = @ + 1]
  BY DEF DeleteApiKey, Goto, stored
<1>2. /\ Here(l) \in Owners /\ slips[Here(l)] \in Nat /\ at[l] \in DOMAIN Targets
      /\ key[l] # None /\ remote' \subseteq remote
      /\ Here(l)' = Here(l) /\ slips' \in [Owners -> Nat]
  <2>1. pc[l] \in TargetSteps /\ key[l] # None
    BY <1>1 DEF TargetSteps, IInv, AtTarget
  <2>2. Here(l) \in Owners /\ slips[Here(l)] \in Nat /\ at[l] \in DOMAIN Targets
    BY <2>1, HereTypes DEF IInv
  <2>3. slips \in [Owners -> Nat]
    BY DEF IInv, TypeOK
  <2> QED
    BY <1>1, <2>1, <2>2, <2>3 DEF Here
<1>3. TypeOK'
  <2>1. TypeOK
    BY DEF IInv
  <2>2. CookieTypes'
    BY <2>1, RotateTypes DEF DeleteApiKey
  <2> QED
    BY <1>1, <1>2, <2>2 DEF IInv, TypeOK, CookieTypes, Steps
<1>4. AtTarget'
  BY <1>1, <1>2 DEF IInv, TypeOK, AtTarget, TargetSteps, Name
<1>5. ASSUME OneLogin PROVE /\ OneLogin'
                            /\ \A m \in Logins : m # l => pc[m] = "idle" /\ pc'[m] = "idle"
  BY <1>1, <1>5 DEF OneLogin, IInv, TypeOK
<1>6. ASSUME Never({"overlap"})' PROVE OneLogin' /\ RoomForKey'
  <2>1. OneLogin /\ RoomForKey
    BY <1>1, <1>6, NeverFrame DEF IInv
  <2>2. /\ OneLogin' /\ \A m \in Logins : m # l => pc'[m] = "idle"
    BY <1>5, <2>1
  <2>3. Others(l)' \subseteq KeysOf(Here(l))
    BY <1>1, <1>2 DEF Others, KeysOf
  <2>4. CASE remote' = remote \ {key[l]} /\ slips' = slips
    <3>1. Others(l)' \subseteq Others(l)
      BY <1>1, <1>2, <2>4 DEF Others, KeysOf
    <3>2. \A m \in Logins : pc'[m] \in RoomSteps => /\ pc[m] \in RoomSteps /\ at'[m] = at[m]
                                                    /\ Others(m)' \subseteq Others(m)
      BY <1>1, <2>2, <3>1 DEF RoomSteps
    <3>3. RoomForKey'
      BY <1>2, <1>3, <1>4, <2>1, <2>4, <3>2, RoomShrink DEF IInv
    <3> QED
      BY <2>2, <3>3
  <2>5. CASE remote' = remote /\ slips' = [slips EXCEPT ![Here(l)] = @ + 1]
    <3>1. \A o : KeysOf(o)' = KeysOf(o)
      BY <2>5 DEF KeysOf
    <3>2. IsFiniteSet(KeysOf(Here(l))) /\ Cardinality(KeysOf(Here(l))) <= 1 + slips[Here(l)]
      BY <1>2, <2>1, KeysOfFinite DEF RoomForKey
    <3>3. slips'[Here(l)] = 1 + slips[Here(l)]
      BY <1>2, <2>5 DEF IInv, TypeOK
    <3>4. Cardinality(Others(l)') <= slips'[Here(l)']
      BY <1>2, <2>3, <3>2, <3>3, Fewer
    <3>5. ASSUME NEW o \in Owners PROVE Cardinality(KeysOf(o)') <= 1 + slips'[o]
      <4>1. Cardinality(KeysOf(o)) <= 1 + slips[o] /\ Cardinality(KeysOf(o)) \in Nat
        BY <2>1, KeysOfFinite DEF RoomForKey
      <4>2. slips[o] \in Nat /\ slips'[o] \in Nat /\ slips[o] <= slips'[o]
        BY <1>2, <2>5 DEF IInv, TypeOK
      <4> QED
        BY <3>1, <4>1, <4>2
    <3>6. RoomForKey'
      BY <2>1, <2>2, <2>5, <3>4, <3>5 DEF RoomForKey
    <3> QED
      BY <2>2, <3>6
  <2> QED
    BY <1>1, <2>4, <2>5
<1>7. ASSUME Never({"overlap", "misread"})' PROVE CacheSafe'
  <2>1. CacheSafe /\ OneLogin
    BY <1>1, <1>7, NeverFrame DEF IInv, Never
  <2>2. \A n \in Names : cache[n] # None => cache[n].key \in Live'
    BY <1>1, <2>1 DEF CacheSafe, Live
  <2>3. \A m \in Logins : pc'[m] \notin CacheSteps
    BY <1>1, <1>5, <2>1 DEF CacheSteps, IInv, TypeOK
  <2> QED
    BY <1>1, <2>1, <2>2, <2>3 DEF CacheSafe, CacheSteps
<1> QED
  BY <1>3, <1>4, <1>6, <1>7 DEF IInv

LEMMA DropCredentialInv ==
  ASSUME IInv, NEW l \in Logins, DropCredential(l)
  PROVE  IInv'
<1>1. /\ pc[l] = "drop" /\ pc' = [pc EXCEPT ![l] = "create"]
      /\ cache' = cache \/ cache' = [cache EXCEPT ![Name(at[l])] = None]
      /\ mishaps' = mishaps \/ mishaps' = mishaps \cup {"store"}
      /\ UNCHANGED <<remote, minted, revoked, cookie, account, buckets, clients, at, try, key,
                     got, out, logins, stale, slips>>
  BY DEF DropCredential, Goto, Note, keyvault
<1>2. TypeOK'
  BY <1>1 DEF IInv, TypeOK, Steps, Mishaps, cookie
<1>3. AtTarget'
  BY <1>1 DEF IInv, TypeOK, AtTarget, TargetSteps, Name
<1>4. \A n \in Names : cache'[n] = cache[n] \/ cache'[n] = None
  BY <1>1 DEF IInv, TypeOK
<1>5. \A m \in Logins : m # l => pc'[m] = pc[m]
  BY <1>1 DEF IInv, TypeOK
<1>6. pc'[l] = "create"
  BY <1>1 DEF IInv, TypeOK
<1>7. ASSUME Never({"overlap"})' PROVE OneLogin' /\ RoomForKey'
  <2>1. OneLogin /\ RoomForKey
    BY <1>1, <1>7, NeverFrame DEF IInv
  <2>2. OneLogin'
    BY <1>1, <1>5, <2>1 DEF OneLogin
  <2> QED
    BY <1>1, <1>5, <2>1, <2>2, RoomFrame DEF RoomSteps
<1>8. ASSUME Never({"overlap", "misread"})' PROVE CacheSafe'
  <2>1. CacheSafe
    BY <1>1, <1>8, NeverFrame DEF IInv
  <2> QED
    BY <1>1, <1>4, <1>5, <1>6, <2>1, CacheFrame DEF CacheSteps, Live
<1> QED
  BY <1>2, <1>3, <1>7, <1>8 DEF IInv

LEMMA MintTypes ==
  ASSUME IInv, NEW l \in Logins, pc[l] = "create", Mint(l)
  PROVE  /\ NewKey(l) \in Keys /\ NewKey(l).name = Name(at[l])
         /\ remote' = remote \cup {NewKey(l)} /\ remote' \subseteq Keys
         /\ minted' \in [Owners -> 0..MaxKeys]
         /\ \A o : KeysOf(o)' = IF o = Here(l) THEN KeysOf(o) \cup {NewKey(l)} ELSE KeysOf(o)
<1>1. /\ Here(l) \in Owners /\ Here(l) = <<User(at[l]), Name(at[l])>>
      /\ Name(at[l]) \in Names /\ User(at[l]) \in Users
  BY HereTypes DEF IInv, TargetSteps
<1>2. minted[Here(l)] + 1 \in 1..MaxKeys
  <2>1. minted[Here(l)] \in 0..MaxKeys
    BY <1>1 DEF IInv, TypeOK
  <2> QED
    BY <2>1, LoginAssumption DEF Mint
<1>3. NewKey(l) \in Keys
  BY <1>1, <1>2 DEF NewKey, Keys
<1>4. /\ NewKey(l).name = Name(at[l]) /\ <<NewKey(l).user, NewKey(l).name>> = Here(l)
      /\ remote' = remote \cup {NewKey(l)}
  BY <1>1 DEF NewKey, Mint
<1>5. minted' \in [Owners -> 0..MaxKeys]
  <2>1. minted' = [minted EXCEPT ![Here(l)] = minted[Here(l)] + 1]
    BY DEF Mint
  <2>2. minted[Here(l)] + 1 \in 0..MaxKeys
    BY <1>2
  <2>3. minted \in [Owners -> 0..MaxKeys]
    BY DEF IInv, TypeOK
  <2> QED
    BY <2>1, <2>2, <2>3
<1>6. remote' \subseteq Keys
  BY <1>3, <1>4 DEF IInv, TypeOK
<1>7. ASSUME NEW o
      PROVE  KeysOf(o)' = IF o = Here(l) THEN KeysOf(o) \cup {NewKey(l)} ELSE KeysOf(o)
  BY <1>4 DEF KeysOf
<1> QED
  BY <1>3, <1>4, <1>5, <1>6, <1>7

LEMMA CreateApiKeyInv ==
  ASSUME IInv, NEW l \in Logins, CreateApiKey(l)
  PROVE  IInv'
<1>1. /\ pc[l] = "create" /\ pc[l] # "idle" /\ key[l] = None
      /\ Here(l) \in Owners /\ slips[Here(l)] \in Nat /\ at[l] \in DOMAIN Targets
      /\ UNCHANGED <<revoked, account, cache, buckets, clients, out, logins, stale, mishaps>>
      /\ CookieTypes'
  <2>1. pc[l] = "create" /\ pc[l] \in TargetSteps
    BY DEF CreateApiKey, TargetSteps
  <2>2. key[l] = None
    BY <2>1 DEF IInv, AtTarget
  <2>3. TypeOK
    BY DEF IInv
  <2>4. CookieTypes'
    BY <2>3, RotateTypes DEF CreateApiKey
  <2> QED
    BY <2>1, <2>2, <2>4, HereTypes DEF IInv, CreateApiKey, stored
<1>2. ASSUME OneLogin PROVE \A m \in Logins : m # l => pc[m] = "idle"
  BY <1>1, <1>2 DEF OneLogin
<1>3. ASSUME RoomForKey
      PROVE  /\ IsFiniteSet(KeysOf(Here(l))) /\ Cardinality(KeysOf(Here(l))) \in Nat
             /\ Cardinality(KeysOf(Here(l))) <= slips[Here(l)]
  <2>1. None \notin KeysOf(Here(l))
    BY NoneAssumption DEF KeysOf, IInv, TypeOK
  <2>2. Others(l) = KeysOf(Here(l))
    BY <1>1, <2>1 DEF Others
  <2> QED
    BY <1>1, <1>3, <2>2, KeysOfFinite DEF RoomForKey
(* What the attempt does to the login itself.                              *)
<1>4. ASSUME remote' \subseteq Keys, minted' \in [Owners -> 0..MaxKeys],
             slips' \in [Owners -> Nat], Retry(l)
      PROVE  /\ TypeOK' /\ AtTarget'
             /\ \A m \in Logins : m # l => pc'[m] = pc[m] /\ at'[m] = at[m] /\ key'[m] = key[m]
             /\ pc'[l] \notin {"idle", "lookup", "delete", "drop", "saveCred"} /\ key'[l] = None
             /\ pc'[l] = "create" => at'[l] = at[l]
  <2>1. CASE try[l] < Attempts /\ try' = [try EXCEPT ![l] = @ + 1] /\ UNCHANGED <<pc, at, key, got>>
    <3>1. try' \in [Logins -> 0..Attempts]
      <4>1. try[l] + 1 \in 0..Attempts
        BY <2>1, LoginAssumption DEF IInv, TypeOK
      <4>2. try \in [Logins -> 0..Attempts]
        BY DEF IInv, TypeOK
      <4>3. try' = [try EXCEPT ![l] = try[l] + 1]
        BY <2>1
      <4> QED
        BY <4>1, <4>2, <4>3
    <3>2. TypeOK'
      BY <1>1, <1>4, <2>1, <3>1 DEF IInv, TypeOK, CookieTypes
    <3>3. AtTarget'
      BY <1>1, <2>1 DEF IInv, AtTarget, Name
    <3> QED
      BY <1>1, <2>1, <3>2, <3>3
  <2>2. CASE GiveUp(l)
    <3>1. got[l] \in CredTypes
      BY GotTypes DEF IInv, TypeOK, CredTypes
    <3>2. /\ pc'[l] \in {"clients", "forge"} /\ key'[l] = None
          /\ \A m \in Logins : m # l => pc'[m] = pc[m] /\ at'[m] = at[m] /\ key'[m] = key[m]
      BY <2>2, <3>1, AdvanceTypes DEF IInv, GiveUp, CredTypes
    <3>3. TypeOK' /\ AtTarget'
      <4>1. /\ cache' \in [Names -> {None} \cup [key : Keys, project : Projects]]
            /\ mishaps' \subseteq Mishaps
        BY <1>1 DEF IInv, TypeOK
      <4> QED
        BY <1>1, <1>4, <2>2, <3>1, <4>1, AdvanceTypeOK DEF GiveUp
    <3> QED
      BY <3>2, <3>3
  <2> QED
    BY <1>4, <2>1, <2>2 DEF Retry
<1>5. CASE /\ Mint(l) /\ key' = [key EXCEPT ![l] = NewKey(l)]
           /\ pc' = [pc EXCEPT ![l] = "saveCred"] /\ UNCHANGED <<at, try, got, slips>>
  <2>1. TypeOK'
    BY <1>1, <1>5, MintTypes DEF IInv, TypeOK, CookieTypes, Steps
  <2>2. AtTarget'
    <3>1. NewKey(l) # None /\ NewKey(l).name = Name(at[l])
      BY <1>1, <1>5, MintTypes, NoneAssumption
    <3> QED
      BY <1>1, <1>5, <3>1 DEF IInv, TypeOK, AtTarget, TargetSteps, Name
  <2>3. ASSUME Never({"overlap"})' PROVE OneLogin' /\ RoomForKey'
    <3>1. /\ OneLogin /\ RoomForKey
          /\ \A m \in Logins : m # l => pc[m] = "idle"
      BY <1>1, <1>2, <2>3, NeverFrame DEF IInv
    <3>2. \A m \in Logins : pc'[m] = IF m = l THEN "saveCred" ELSE "idle"
      BY <1>5, <3>1 DEF IInv, TypeOK
    <3>3. ASSUME NEW o \in Owners PROVE Cardinality(KeysOf(o)') <= 1 + slips'[o]
      <4>1. CASE o = Here(l)
        <5>1. KeysOf(o)' = KeysOf(o) \cup {NewKey(l)}
          BY <1>1, <1>5, <4>1, MintTypes
        <5>2. /\ IsFiniteSet(KeysOf(o)) /\ Cardinality(KeysOf(o)) \in Nat
              /\ Cardinality(KeysOf(o)) <= slips[o]
          BY <1>3, <3>1, <4>1
        <5>3. /\ Cardinality(KeysOf(o) \cup {NewKey(l)}) <= Cardinality(KeysOf(o)) + 1
              /\ Cardinality(KeysOf(o) \cup {NewKey(l)}) \in Nat
          BY <5>2, Counting
        <5> QED
          BY <1>1, <1>5, <4>1, <5>1, <5>2, <5>3
      <4>2. CASE o # Here(l)
        <5>1. KeysOf(o)' = KeysOf(o)
          BY <1>1, <1>5, <4>2, MintTypes
        <5> QED
          BY <1>5, <3>1, <5>1 DEF RoomForKey
      <4> QED
        BY <4>1, <4>2
    <3>4. IsFiniteSet(remote')
      <4>1. remote' = remote \cup {NewKey(l)}
        BY <1>5 DEF Mint
      <4> QED
        BY <3>1, <4>1, FS_AddElement DEF RoomForKey
    <3> QED
      BY <3>2, <3>3, <3>4 DEF OneLogin, RoomForKey
  <2>4. ASSUME Never({"overlap", "misread"})' PROVE CacheSafe'
    <3>1. CacheSafe /\ OneLogin
      BY <1>1, <2>4, NeverFrame DEF IInv, Never
    <3>2. NewKey(l) \in Live' /\ Live \subseteq Live'
      BY <1>1, <1>5 DEF Live, Mint
    <3>3. \A m \in Logins : pc'[m] # "delete" /\ (pc'[m] = "saveCred" => key'[m] = NewKey(l))
      BY <1>2, <1>5, <3>1 DEF IInv, TypeOK
    <3> QED
      BY <1>1, <3>1, <3>2, <3>3 DEF CacheSafe
  <2> QED
    BY <2>1, <2>2, <2>3, <2>4 DEF IInv
<1>6. CASE Retry(l) /\ Mint(l) /\ slips' = [slips EXCEPT ![Here(l)] = @ + 1]
  <2>1. slips' = [slips EXCEPT ![Here(l)] = slips[Here(l)] + 1] /\ slips \in [Owners -> Nat]
    BY <1>6 DEF IInv, TypeOK
  <2>2. slips' \in [Owners -> Nat] /\ slips'[Here(l)] = slips[Here(l)] + 1
    BY <1>1, <2>1
  <2>3. /\ TypeOK' /\ AtTarget'
        /\ \A m \in Logins : m # l => pc'[m] = pc[m] /\ at'[m] = at[m] /\ key'[m] = key[m]
        /\ pc'[l] \notin {"idle", "lookup", "delete", "drop", "saveCred"} /\ key'[l] = None
        /\ pc'[l] = "create" => at'[l] = at[l]
    BY <1>1, <1>4, <1>6, <2>2, MintTypes
  <2>4. ASSUME Never({"overlap"})' PROVE OneLogin' /\ RoomForKey'
    <3>1. /\ OneLogin /\ RoomForKey
          /\ \A m \in Logins : m # l => pc[m] = "idle" /\ pc'[m] = "idle"
      BY <1>1, <1>2, <2>3, <2>4, NeverFrame DEF IInv
    <3>2. /\ KeysOf(Here(l)) \cup {NewKey(l)} = {k \in remote' : <<k.user, k.name>> = Here(l)}
          /\ \A o : KeysOf(o)' = IF o = Here(l) THEN KeysOf(o) \cup {NewKey(l)} ELSE KeysOf(o)
      <4>1. \A o : KeysOf(o)' = IF o = Here(l) THEN KeysOf(o) \cup {NewKey(l)} ELSE KeysOf(o)
        BY <1>1, <1>6, MintTypes
      <4>2. \A o : KeysOf(o)' = {k \in remote' : <<k.user, k.name>> = o}
        BY DEF KeysOf
      <4> QED
        BY <4>1, <4>2
    <3>3. /\ IsFiniteSet(KeysOf(Here(l)) \cup {NewKey(l)})
          /\ Cardinality(KeysOf(Here(l)) \cup {NewKey(l)}) <= slips'[Here(l)]
          /\ Cardinality(KeysOf(Here(l)) \cup {NewKey(l)}) \in Nat
      <4>1. /\ IsFiniteSet(KeysOf(Here(l))) /\ Cardinality(KeysOf(Here(l))) \in Nat
            /\ Cardinality(KeysOf(Here(l))) <= slips[Here(l)]
        BY <1>3, <3>1
      <4>2. /\ IsFiniteSet(KeysOf(Here(l)) \cup {NewKey(l)})
            /\ Cardinality(KeysOf(Here(l)) \cup {NewKey(l)}) <= Cardinality(KeysOf(Here(l))) + 1
            /\ Cardinality(KeysOf(Here(l)) \cup {NewKey(l)}) \in Nat
        BY <4>1, Counting
      <4> QED
        BY <1>1, <2>2, <4>1, <4>2
    <3>4. ASSUME NEW o \in Owners PROVE Cardinality(KeysOf(o)') <= 1 + slips'[o]
      <4>1. CASE o = Here(l)
        <5>1. KeysOf(o)' = KeysOf(o) \cup {NewKey(l)}
          BY <3>2, <4>1
        <5>2. /\ Cardinality(KeysOf(o) \cup {NewKey(l)}) <= slips'[o]
              /\ Cardinality(KeysOf(o) \cup {NewKey(l)}) \in Nat
          BY <3>3, <4>1
        <5>3. slips'[o] \in Nat
          BY <2>2
        <5> QED
          BY <5>1, <5>2, <5>3
      <4>2. CASE o # Here(l)
        <5>1. KeysOf(o)' = KeysOf(o) /\ slips'[o] = slips[o]
          BY <2>1, <3>2, <4>2
        <5> QED
          BY <3>1, <5>1 DEF RoomForKey
      <4> QED
        BY <4>1, <4>2
    <3>5. ASSUME NEW m \in Logins, pc'[m] \in RoomSteps
          PROVE  Cardinality(Others(m)') <= slips'[Here(m)']
      <4>1. m = l /\ at'[l] = at[l]
        BY <2>3, <3>1, <3>5 DEF RoomSteps
      <4>2. Here(m)' = Here(l)
        BY <4>1 DEF Here
      <4>3. Others(m)' \subseteq KeysOf(Here(l)) \cup {NewKey(l)}
        BY <3>2, <4>2 DEF Others, KeysOf
      <4>4. slips'[Here(l)] \in Nat
        BY <1>1, <2>2
      <4> QED
        BY <3>3, <4>2, <4>3, <4>4, Fewer
    <3>6. IsFiniteSet(remote')
      <4>1. remote' = remote \cup {NewKey(l)}
        BY <1>6 DEF Mint
      <4> QED
        BY <3>1, <4>1, FS_AddElement DEF RoomForKey
    <3>7. OneLogin'
      BY <3>1 DEF OneLogin
    <3> QED
      BY <3>4, <3>5, <3>6, <3>7 DEF RoomForKey, RoomSteps
  <2>5. ASSUME Never({"overlap", "misread"})' PROVE CacheSafe'
    <3>1. CacheSafe /\ OneLogin
      BY <1>1, <2>5, NeverFrame DEF IInv, Never
    <3>2. Live \subseteq Live'
      BY <1>1, <1>6 DEF Live, Mint
    <3>3. \A m \in Logins : pc'[m] # "delete" /\ pc'[m] # "saveCred"
      BY <1>2, <2>3, <3>1
    <3> QED
      BY <1>1, <3>1, <3>2, <3>3 DEF CacheSafe
  <2> QED
    BY <2>3, <2>4, <2>5 DEF IInv
<1>7. CASE Retry(l) /\ UNCHANGED <<remote, minted, slips>>
  <2>1. /\ TypeOK' /\ AtTarget'
        /\ \A m \in Logins : m # l => pc'[m] = pc[m] /\ at'[m] = at[m] /\ key'[m] = key[m]
        /\ pc'[l] \notin {"idle", "lookup", "delete", "drop", "saveCred"} /\ key'[l] = None
        /\ pc'[l] = "create" => at'[l] = at[l]
    <3>1. /\ remote' \subseteq Keys /\ minted' \in [Owners -> 0..MaxKeys]
          /\ slips' \in [Owners -> Nat]
      BY <1>7 DEF IInv, TypeOK
    <3> QED
      BY <1>4, <1>7, <3>1
  <2>2. ASSUME Never({"overlap"})' PROVE OneLogin' /\ RoomForKey'
    <3>1. OneLogin /\ RoomForKey
      BY <1>1, <2>2, NeverFrame DEF IInv
    <3>2. OneLogin'
      BY <1>1, <2>1, <3>1 DEF OneLogin
    <3>3. \A m \in Logins : pc'[m] \in RoomSteps =>
            pc[m] \in RoomSteps /\ at'[m] = at[m] /\ key'[m] = key[m]
      BY <1>1, <2>1 DEF RoomSteps
    <3> QED
      BY <1>7, <3>1, <3>2, <3>3, RoomFrame
  <2>3. ASSUME Never({"overlap", "misread"})' PROVE CacheSafe'
    <3>1. CacheSafe
      BY <1>1, <2>3, NeverFrame DEF IInv
    <3>2. \A m \in Logins : pc'[m] \in CacheSteps => pc'[m] = pc[m] /\ key'[m] = key[m]
      BY <1>1, <2>1 DEF CacheSteps
    <3> QED
      BY <1>1, <1>7, <3>1, <3>2, CacheFrame DEF Live
  <2> QED
    BY <2>1, <2>2, <2>3 DEF IInv
<1> QED
  BY <1>5, <1>6, <1>7 DEF CreateApiKey, Goto

LEMMA SaveCredentialInv ==
  ASSUME IInv, NEW l \in Logins, SaveCredential(l)
  PROVE  IInv'
<1> DEFINE entry == [key |-> key[l], project |-> Project(at[l])]
           g     == [got[l] EXCEPT ![Project(at[l])] = key[l]]
<1>1. /\ pc[l] = "saveCred"
      /\ cache' = cache \/ cache' = [cache EXCEPT ![Name(at[l])] = entry]
      /\ mishaps' = mishaps \/ mishaps' = mishaps \cup {"store"}
      /\ UNCHANGED <<remote, minted, revoked, account, buckets, clients, out, logins, stale, slips>>
      /\ CookieTypes'
      /\ Advance(l, g)
  <2>1. TypeOK
    BY DEF IInv
  <2>2. CookieTypes'
    BY <2>1, RotateTypes DEF SaveCredential
  <2> QED
    BY <2>2 DEF SaveCredential, Take, Note, keyvault
<1>2. /\ at[l] \in DOMAIN Targets /\ Project(at[l]) \in Projects /\ Name(at[l]) \in Names
      /\ key[l] \in Keys /\ key[l].name = Name(at[l])
  <2>1. pc[l] \in TargetSteps
    BY <1>1 DEF TargetSteps
  <2>2. key[l] \in {None} \cup Keys /\ key[l] # None /\ key[l].name = Name(at[l])
    BY <1>1 DEF IInv, TypeOK, AtTarget
  <2> QED
    BY <2>1, <2>2, HereTypes DEF IInv
<1>3. /\ cache' \in [Names -> {None} \cup [key : Keys, project : Projects]]
      /\ \A n \in Names : cache'[n] = cache[n] \/ (n = Name(at[l]) /\ cache'[n] = entry)
  <2>1. entry \in [key : Keys, project : Projects]
    BY <1>2
  <2>2. cache \in [Names -> {None} \cup [key : Keys, project : Projects]]
    BY DEF IInv, TypeOK
  <2> QED
    BY <1>1, <2>1, <2>2
<1>4. g \in CredTypes
  BY <1>2, GotTypes DEF IInv, CredTypes
<1>5. entry.key = key[l]
  OBVIOUS
<1> HIDE DEF entry, g
<1>6. TypeOK' /\ AtTarget'
  <2>1. /\ remote' \subseteq Keys /\ minted' \in [Owners -> 0..MaxKeys]
        /\ slips' \in [Owners -> Nat]
        /\ mishaps' \subseteq Mishaps
    BY <1>1 DEF IInv, TypeOK, Mishaps
  <2> QED
    BY <1>1, <1>3, <1>4, <2>1, AdvanceTypeOK
<1>7. /\ pc'[l] \in {"clients", "forge"}
      /\ \A m \in Logins : m # l => pc'[m] = pc[m] /\ at'[m] = at[m] /\ key'[m] = key[m]
  BY <1>1, <1>4, AdvanceTypes DEF IInv, CredTypes
<1>8. ASSUME Never({"overlap"})' PROVE OneLogin' /\ RoomForKey'
  <2>1. OneLogin /\ RoomForKey
    BY <1>1, <1>8, NeverFrame DEF IInv
  <2>2. OneLogin'
    BY <1>1, <1>7, <2>1 DEF OneLogin
  <2> QED
    BY <1>1, <1>7, <2>1, <2>2, RoomFrame DEF RoomSteps
<1>9. ASSUME Never({"overlap", "misread"})' PROVE CacheSafe'
  <2>1. CacheSafe /\ OneLogin
    BY <1>1, <1>9, NeverFrame DEF IInv, Never
  <2>2. key[l] \in Live /\ Live' = Live
    BY <1>1, <2>1 DEF CacheSafe, Live
  <2>3. \A m \in Logins : pc'[m] \notin CacheSteps
    BY <1>1, <1>7, <2>1 DEF OneLogin, CacheSteps
  <2>4. \A n \in Names : cache'[n] # None => cache'[n].key \in Live' /\ cache'[n].key.name = n
    BY <1>2, <1>3, <1>5, <2>1, <2>2 DEF CacheSafe
  <2> QED
    BY <2>3, <2>4 DEF CacheSafe, CacheSteps
<1> QED
  BY <1>6, <1>8, <1>9 DEF IInv

-----------------------------------------------------------------------------
(* A step in which no login moves and the keyvault is left alone.          *)
LEMMA StoreInv ==
  ASSUME IInv, TypeOK', UNCHANGED local, UNCHANGED <<remote, revoked, slips>>,
         mishaps \subseteq mishaps',
         \A n \in Names : cache'[n] = cache[n] \/ cache'[n] = None
  PROVE  IInv'
<1>1. AtTarget'
  BY DEF IInv, AtTarget, local, Name
<1>2. ASSUME Never({"overlap"})' PROVE OneLogin' /\ RoomForKey'
  <2>1. OneLogin /\ RoomForKey
    BY <1>2, NeverFrame DEF IInv
  <2> QED
    BY <2>1, RoomFrame DEF OneLogin, local
<1>3. ASSUME Never({"overlap", "misread"})' PROVE CacheSafe'
  <2>1. CacheSafe
    BY <1>3, NeverFrame DEF IInv
  <2> QED
    BY <2>1, CacheFrame DEF local, Live
<1> QED
  BY <1>1, <1>2, <1>3 DEF IInv

LEMMA PostLogoutInv == IInv /\ PostLogout => IInv'
<1> SUFFICES ASSUME IInv, PostLogout PROVE IInv'
  OBVIOUS
<1>1. /\ UNCHANGED <<keyvault, cookie, stored, clients, local, logins, stale, slips>>
      /\ out' = "session" /\ mishaps' = mishaps \cup {"logout"}
  BY DEF PostLogout, Note
<1>2. TypeOK'
  BY <1>1 DEF IInv, TypeOK, keyvault, cookie, stored, local, Mishaps
<1> QED
  BY <1>1, <1>2, StoreInv DEF keyvault, stored

LEMMA ClearAuthInv == IInv /\ ClearAuth => IInv'
<1> SUFFICES ASSUME IInv, ClearAuth PROVE IInv'
  OBVIOUS
<1>1. /\ UNCHANGED <<keyvault, seen, adrift, buckets, clients, local, history>>
      /\ cache' = cache \/ cache' = [n \in Names |-> None]
      /\ session' \in {session, "none"} /\ account' \in {account, "none"}
      /\ out' \in {"no", "account", "creds"}
  BY DEF ClearAuth
<1>2. TypeOK'
  BY <1>1 DEF IInv, TypeOK, keyvault, local, history
<1> QED
  BY <1>1, <1>2, StoreInv DEF keyvault, history

LEMMA RestartInv == IInv /\ Restart => IInv'
<1> SUFFICES ASSUME IInv, Restart PROVE IInv'
  OBVIOUS
<1>1. /\ UNCHANGED <<keyvault, session, account, cache, buckets, logins, stale, slips>>
      /\ out' = "no" /\ adrift' \in BOOLEAN
      /\ mishaps' = mishaps \/ mishaps' = mishaps \cup {"misread"}
      /\ pc' = [l \in Logins |-> "idle"]
      /\ at' = [l \in Logins |-> 0] /\ try' = [l \in Logins |-> 0]
      /\ key' = [l \in Logins |-> None] /\ seen' = [l \in Logins |-> "old"]
      /\ got' = [l \in Logins |-> NoKeys]
  <2>1. adrift' \in BOOLEAN
    BY DEF Restart, IInv, TypeOK
  <2> QED
    BY <2>1 DEF Restart, RestoreS3Clients, Note, stored
<1>2. clients' \in [Projects -> {None} \cup Keys]
  <2>1. \A p \in Projects : Restored(p) \subseteq Keys
    BY DEF Restored, IInv, TypeOK
  <2>2. clients' \in [Projects -> {None} \cup UNION {Restored(p) : p \in Projects}]
    BY DEF Restart, RestoreS3Clients
  <2> QED
    BY <2>1, <2>2
<1>3. TypeOK'
  <2>1. /\ pc' \in [Logins -> Steps] /\ at' \in [Logins -> 0..Len(Targets)]
        /\ try' \in [Logins -> 0..Attempts] /\ key' \in [Logins -> {None} \cup Keys]
        /\ seen' \in [Logins -> {"latest", "old"}]
    BY <1>1, LoginAssumption, FirstTarget DEF Steps
  <2>2. got' \in [Logins -> [Projects -> {None} \cup Keys]]
    BY <1>1 DEF NoKeys
  <2>3. /\ remote' \subseteq Keys /\ revoked' \subseteq Keys
        /\ minted' \in [Owners -> 0..MaxKeys]
        /\ session' \in {"none", "latest", "old"} /\ account' \in {"none", "bare", "gateway"}
        /\ cache' \in [Names -> {None} \cup [key : Keys, project : Projects]]
        /\ buckets' \subseteq Projects /\ out' \in {"no", "session", "account", "creds"}
        /\ logins' \in Nat /\ stale' \subseteq revoked' /\ slips' \in [Owners -> Nat]
        /\ mishaps' \subseteq Mishaps
    BY <1>1 DEF IInv, TypeOK, keyvault, Mishaps
  <2> QED
    BY <1>1, <1>2, <2>1, <2>2, <2>3 DEF TypeOK
<1>4. AtTarget'
  BY <1>1 DEF AtTarget, TargetSteps
<1>5. ASSUME Never({"overlap"})' PROVE OneLogin' /\ RoomForKey'
  <2>1. RoomForKey
    BY <1>1, <1>5, NeverFrame DEF IInv
  <2>2. \A l \in Logins : pc'[l] = "idle"
    BY <1>1
  <2> QED
    BY <1>1, <2>1, <2>2, RoomFrame DEF OneLogin, RoomSteps, keyvault
<1>6. ASSUME Never({"overlap", "misread"})' PROVE CacheSafe'
  <2>1. CacheSafe
    BY <1>1, <1>6, NeverFrame DEF IInv
  <2> QED
    BY <1>1, <2>1, CacheFrame DEF CacheSteps, Live, keyvault
<1> QED
  BY <1>3, <1>4, <1>5, <1>6 DEF IInv

LEMMA RevokeInv == IInv /\ Revoke => IInv'
<1> SUFFICES ASSUME IInv, Revoke PROVE IInv'
  OBVIOUS
<1>1. PICK k \in remote : remote' = remote \ {k} /\ revoked' = revoked \cup {k}
  BY DEF Revoke
<1>2. UNCHANGED <<minted, cookie, account, cache, buckets, clients, local, out, logins, stale,
                  slips, mishaps>>
  BY DEF Revoke, stored, history
<1>3. TypeOK'
  BY <1>1, <1>2 DEF IInv, TypeOK, local, cookie
<1>4. AtTarget'
  BY <1>2 DEF IInv, AtTarget, local, Name
<1>5. ASSUME Never({"overlap"})' PROVE OneLogin' /\ RoomForKey'
  <2>1. OneLogin /\ RoomForKey
    BY <1>2, <1>5, NeverFrame DEF IInv
  <2>2. \A l \in Logins : Others(l)' \subseteq Others(l)
    BY <1>1, <1>2 DEF Others, KeysOf, Here, User, Name, local
  <2>3. RoomForKey'
    BY <1>1, <1>2, <1>3, <1>4, <2>1, <2>2, RoomShrink DEF IInv, local
  <2> QED
    BY <1>2, <2>1, <2>3 DEF OneLogin, local
<1>6. ASSUME Never({"overlap", "misread"})' PROVE CacheSafe'
  <2>1. CacheSafe
    BY <1>2, <1>6, NeverFrame DEF IInv
  <2>2. Live' = Live
    BY <1>1 DEF Live
  <2> QED
    BY <1>2, <2>1, <2>2, CacheFrame DEF local
<1> QED
  BY <1>3, <1>4, <1>5, <1>6 DEF IInv

LEMMA StutterInv == IInv /\ UNCHANGED vars => IInv'
<1> SUFFICES ASSUME IInv, UNCHANGED vars PROVE IInv'
  OBVIOUS
<1>1. /\ UNCHANGED local /\ UNCHANGED <<remote, revoked, slips>> /\ mishaps' = mishaps
      /\ cache' = cache
  BY DEF vars, keyvault, stored, history
<1>2. TypeOK'
  BY DEF IInv, TypeOK, vars, keyvault, cookie, stored, local, history
<1> QED
  BY <1>1, <1>2, StoreInv

-----------------------------------------------------------------------------
(* The inductive invariant holds always: every action of a login, of a     *)
(* logout, of a restart and of the console keeps the cache, the keyvault   *)
(* and the program counters in step.                                       *)
THEOREM Invariance == Spec => []IInv
<1>1. Init => IInv
  BY InitIInv
<1>2. IInv /\ [Next]_vars => IInv'
  <2> SUFFICES ASSUME IInv, [Next]_vars PROVE IInv'
    OBVIOUS
  <2>1. ASSUME NEW l \in Logins, SigningIn(l) PROVE IInv'
    BY <2>1, ChallengeInv, SignInInv, GetAccountInv, SaveLoginInv, SaveSessionInv,
       SaveAccountInv, GetProjectsInv, ClearAllBucketsInv DEF SigningIn
  <2>2. ASSUME NEW l \in Logins, Reconcile(l) PROVE IInv'
    BY <2>2, ForgeJWTInv, SyncRefreshTokenInv, SyncGetSessionInv, SyncSaveSessionInv,
       ListApiKeysInv, GetCredentialInv, DeleteApiKeyInv, DropCredentialInv,
       CreateApiKeyInv, SaveCredentialInv DEF Reconcile
  <2>3. ASSUME NEW l \in Logins, SetS3Client(l) \/ SaveBuckets(l) PROVE IInv'
    BY <2>3, SetS3ClientInv, SaveBucketsInv
  <2>4. CASE PostLogout \/ ClearAuth \/ Restart \/ Revoke
    BY <2>4, PostLogoutInv, ClearAuthInv, RestartInv, RevokeInv
  <2>5. CASE UNCHANGED vars
    BY <2>5, StutterInv
  <2> QED
    BY <2>1, <2>2, <2>3, <2>4, <2>5 DEF Next
<1> QED
  BY <1>1, <1>2, PTL DEF Spec

(* The variables keep their types (LoginFlow!TypeOK).                      *)
THEOREM TypeCorrectness == Spec => []TypeOK
<1>1. IInv => TypeOK
  BY DEF IInv
<1> QED
  BY <1>1, Invariance, PTL

(* A cached credential is never for a key that the program has deleted     *)
(* (reconcileProjectCredential), as long as no two logins overlap and no   *)
(* read of the cache fails.                                                *)
THEOREM CacheIsSound == Spec => []CachedKeyExists
<1>1. IInv => CachedKeyExists
  BY DEF IInv, CachedKeyExists, CacheSafe
<1> QED
  BY <1>1, Invariance, PTL

(* Logins that do not overlap leave at most one key per user and name,     *)
(* beyond those lost to failed requests, however many there are and        *)
(* wherever they are interrupted (reconcileProjectCredential).             *)
THEOREM KeysDoNotPileUp == Spec => []KeysAccounted
<1>1. IInv => KeysAccounted
  BY DEF IInv, KeysAccounted, RoomForKey
<1> QED
  BY <1>1, Invariance, PTL

-----------------------------------------------------------------------------
(***************************************************************************)
(* Keys, names and projects.  No two keys are alike; a login holds         *)
(* credentials only while it reconciles or makes clients, none yet for the *)
(* project of its target, and each has a name of its project; a cached     *)
(* credential is for a project with its name; only a logout clears the     *)
(* store.                                                                  *)
(***************************************************************************)
KeysNumbered ==
  /\ \A k \in Live : <<k.user, k.name>> \in Owners /\ k.num <= minted[<<k.user, k.name>>]
  /\ remote \cap revoked = {}
NameOf(n, p) == \E i \in DOMAIN Targets : Name(i) = n /\ Project(i) = p
KeySteps     == TargetSteps \ {"buckets"}
ShapeOf(l)   ==
  /\ pc[l] \notin TargetSteps \cup {"clients"} => got[l] = NoKeys
  /\ pc[l] \in KeySteps => got[l][Project(at[l])] = None
  /\ pc[l] = "buckets" => got[l][Project(at[l])] # None
  /\ \A p \in Projects : got[l][p] # None => NameOf(got[l][p].name, p)
GotShape    == \A l \in Logins : ShapeOf(l)
CacheNamed  == \A n \in Names : cache[n] # None => NameOf(n, cache[n].project)
LogoutNoted == out # "no" => "logout" \in mishaps
ShapeInv    == KeysNumbered /\ GotShape /\ CacheNamed /\ LogoutNoted

(* What the steps of signing in do to a login.                             *)
SignSteps == FirstSteps \cup {"idle"}
LEMMA SigningMoves ==
  ASSUME IInv, NEW l \in Logins, SigningIn(l)
  PROVE  /\ pc[l] \in SignSteps /\ pc'[l] \in SignSteps \cup {"forge"}
         /\ UNCHANGED <<keyvault, cache, clients, key, got, out>> /\ mishaps \subseteq mishaps'
         /\ \A m \in Logins : m # l => pc'[m] = pc[m] /\ at'[m] = at[m]
         /\ pc'[l] = "forge" => pc[l] = "clearBuckets" /\ at'[l] = 1
<1> USE DEF SignSteps, FirstSteps, Goto, Note, IInv, TypeOK
<1>1. CASE Challenge(l)
  BY <1>1 DEF Challenge, stored
<1>2. CASE SignIn(l) \/ GetAccount(l)
  BY <1>2 DEF SignIn, GetAccount, LoginFails, stored, history
<1>3. CASE SaveLogin(l) \/ SaveSession(l)
  BY <1>3 DEF SaveLogin, ReadCookie, SaveSession, WriteSession, stored, history
<1>4. CASE SaveAccount(l)
  BY <1>4 DEF SaveAccount
<1>5. CASE GetProjects(l)
  BY <1>5 DEF GetProjects, stored, history
<1>6. CASE ClearAllBuckets(l)
  <2>1. /\ pc[l] = "clearBuckets" /\ pc' = [pc EXCEPT ![l] = "forge"] /\ at' = [at EXCEPT ![l] = 1]
        /\ UNCHANGED <<keyvault, cache, clients, key, got, out>> /\ mishaps \subseteq mishaps'
    BY <1>6 DEF ClearAllBuckets
  <2> QED
    BY <2>1
<1> QED
  BY <1>1, <1>2, <1>3, <1>4, <1>5, <1>6 DEF SigningIn

(* What the steps of reconcileProjectCredential do to it: it stays at its  *)
(* target, or goes on to the next, with or without a key for the project.  *)
Stays(l) == /\ UNCHANGED <<at, got>> /\ pc'[l] \in KeySteps
            /\ \A m \in Logins : m # l => pc'[m] = pc[m]
Gets(l)  == /\ pc[l] \in {"lookup", "saveCred"} /\ key[l] \in Keys
            /\ Advance(l, [got[l] EXCEPT ![Project(at[l])] = key[l]])
LEMMA ReconcileMoves ==
  ASSUME IInv, NEW l \in Logins, Reconcile(l)
  PROVE  /\ pc[l] \in KeySteps /\ mishaps \subseteq mishaps'
         /\ UNCHANGED <<revoked, account, buckets, clients, out, stale>>
         /\ Stays(l) \/ Advance(l, got[l]) \/ Gets(l)
<1> USE DEF KeySteps, TargetSteps, IInv, TypeOK
<1>1. CASE ForgeJWT(l)
  BY <1>1 DEF ForgeJWT, Stays, Goto, keyvault, stored, history
<1>2. CASE SyncRefreshToken(l)
  BY <1>2 DEF SyncRefreshToken, ReadCookie, Stays, Goto, keyvault, stored, history
<1>3. CASE SyncGetSession(l)
  BY <1>3 DEF SyncGetSession, Stays, Goto, Note, keyvault, stored
<1>4. CASE SyncSaveSession(l)
  BY <1>4 DEF SyncSaveSession, WriteSession, Stays, Goto, Note, keyvault, stored
<1>5. CASE ListApiKeys(l)
  BY <1>5 DEF ListApiKeys, GiveUp, Stays, Goto, keyvault, stored, history
<1>6. CASE GetCredential(l)
  <2>1. PICK cached \in {None, cache[Name(at[l])]} : Compare(l, cached)
    BY <1>6 DEF GetCredential
  <2>2. /\ pc[l] = "lookup" /\ mishaps \subseteq mishaps'
        /\ UNCHANGED <<revoked, account, buckets, clients, out, stale>>
    BY <1>6 DEF GetCredential, Note, keyvault, stored
  <2>3. CASE key[l] # None /\ Take(l, key[l])
    BY <2>2, <2>3 DEF Take, Gets
  <2>4. CASE \/ pc' = [pc EXCEPT ![l] = "delete"] /\ UNCHANGED <<at, try, key, got>>
             \/ pc' = [pc EXCEPT ![l] = "drop"] /\ UNCHANGED <<at, try, key, got>>
             \/ pc' = [pc EXCEPT ![l] = "create"] /\ UNCHANGED <<at, try, key, got>>
    BY <2>2, <2>4 DEF Stays
  <2> QED
    BY <2>1, <2>2, <2>3, <2>4 DEF Compare, Goto
<1>7. CASE DeleteApiKey(l)
  BY <1>7 DEF DeleteApiKey, Stays, Goto, stored
<1>8. CASE DropCredential(l)
  BY <1>8 DEF DropCredential, Stays, Goto, Note, keyvault
<1>9. CASE CreateApiKey(l)
  BY <1>9 DEF CreateApiKey, Retry, GiveUp, Stays, Goto, stored
<1>10. CASE SaveCredential(l)
  BY <1>10 DEF SaveCredential, Take, Gets, Note, keyvault, AtTarget
<1> QED
  BY <1>1, <1>2, <1>3, <1>4, <1>5, <1>6, <1>7, <1>8, <1>9, <1>10 DEF Reconcile

-----------------------------------------------------------------------------
LEMMA GotFrame ==
  ASSUME GotShape, NEW l \in Logins, ShapeOf(l)',
         \A m \in Logins : m # l => pc'[m] = pc[m] /\ at'[m] = at[m] /\ got'[m] = got[m]
  PROVE  GotShape'
BY DEF GotShape, ShapeOf, NameOf, Name, Project

(* The next target is one of a project without a credential.               *)
LEMMA AdvanceShape ==
  ASSUME IInv, GotShape, NEW l \in Logins, NEW g \in CredTypes, Advance(l, g),
         \A p \in Projects : g[p] # None => NameOf(g[p].name, p)
  PROVE  GotShape'
<1>1. /\ got' = [got EXCEPT ![l] = g] /\ got \in [Logins -> CredTypes]
      /\ pc'[l] \in {"clients", "forge"}
      /\ \A m \in Logins : m # l => pc'[m] = pc[m] /\ at'[m] = at[m]
  <2>1. got' = [got EXCEPT ![l] = g] /\ got \in [Logins -> CredTypes]
    BY DEF Advance, IInv, TypeOK, CredTypes
  <2>2. TypeOK /\ g \in [Projects -> {None} \cup Keys]
    BY DEF IInv, CredTypes
  <2> QED
    BY <2>1, <2>2, AdvanceTypes
<1>2. got'[l] = g /\ \A m \in Logins : m # l => got'[m] = got[m]
  BY <1>1
<1>3. pc'[l] = "forge" => g[Project(at'[l])] = None
  <2> DEFINE later == {i \in DOMAIN Targets : i > at[l] /\ g[Project(i)] = None}
  <2>1. CASE later = {}
    BY <2>1 DEF Advance, Goto, IInv, TypeOK
  <2>2. CASE later # {}
    <3>1. PICK i \in later : at' = [at EXCEPT ![l] = i]
      BY <2>2 DEF Advance
    <3>2. at'[l] = i
      BY <3>1 DEF IInv, TypeOK
    <3> QED
      BY <3>1, <3>2
  <2> QED
    BY <2>1, <2>2
<1>4. ShapeOf(l)'
  BY <1>1, <1>2, <1>3 DEF ShapeOf, NameOf, Name, Project, TargetSteps, KeySteps
<1> QED
  BY <1>1, <1>2, <1>4, GotFrame

(* The key of a target has a name of the target's project.                 *)
LEMMA NamesOfTargets ==
  ASSUME IInv, NEW l \in Logins, pc[l] \in KeySteps
  PROVE  /\ at[l] \in DOMAIN Targets /\ Name(at[l]) \in Names /\ Project(at[l]) \in Projects
         /\ NameOf(Name(at[l]), Project(at[l]))
<1>1. pc[l] \in TargetSteps
  BY DEF KeySteps
<1> QED
  BY <1>1, HereTypes DEF IInv, NameOf

LEMMA GetsShape ==
  ASSUME IInv, GotShape, NEW l \in Logins, pc[l] \in KeySteps, Gets(l)
  PROVE  /\ GotShape'
         /\ [got[l] EXCEPT ![Project(at[l])] = key[l]] \in CredTypes
         /\ \A p \in Projects : got'[l][p] = IF p = Project(at[l]) THEN key[l] ELSE got[l][p]
<1> DEFINE g == [got[l] EXCEPT ![Project(at[l])] = key[l]]
<1>1. /\ g \in CredTypes /\ got[l] \in CredTypes
      /\ \A p \in Projects : g[p] = IF p = Project(at[l]) THEN key[l] ELSE got[l][p]
  BY NamesOfTargets, GotTypes DEF IInv, CredTypes, Gets, TypeOK
<1>2. key[l].name = Name(at[l])
  BY NoneAssumption DEF Gets, IInv, AtTarget
<1>3. \A p \in Projects : g[p] # None => NameOf(g[p].name, p)
  BY <1>1, <1>2, NamesOfTargets DEF GotShape, ShapeOf
<1>4. Advance(l, g)
  BY DEF Gets
<1>5. got'[l] = g
  BY <1>4 DEF Advance, IInv, TypeOK
<1> HIDE DEF g
<1>6. GotShape'
  BY <1>1, <1>3, <1>4, AdvanceShape
<1> QED
  BY <1>1, <1>5, <1>6 DEF g

LEMMA GiveUpShape ==
  ASSUME IInv, GotShape, NEW l \in Logins, Advance(l, got[l])
  PROVE  GotShape' /\ got' = got
<1>1. got[l] \in CredTypes /\ \A p \in Projects : got[l][p] # None => NameOf(got[l][p].name, p)
  BY DEF IInv, TypeOK, CredTypes, GotShape, ShapeOf
<1>2. got' = got
  BY DEF Advance, IInv, TypeOK
<1> QED
  BY <1>1, <1>2, AdvanceShape

(* Making the clients, one project after the other.                        *)
ClientsMove(l) ==
  /\ GotShape' /\ UNCHANGED <<keyvault, cache, account, key, out, stale>>
  /\ mishaps' = mishaps
  /\ \A m \in Logins : m # l => pc'[m] = pc[m] /\ at'[m] = at[m] /\ got'[m] = got[m]
  /\ pc[l] \in {"clients", "buckets"} /\ pc'[l] \in {"idle", "clients", "buckets"}
  /\ \A p \in Projects : got'[l][p] \in {None, got[l][p]}
  /\ pc[l] = "clients" => /\ buckets' = buckets
                          /\ \A p \in Projects : clients[p] # None => clients'[p] # None
                          /\ pc'[l] = "buckets" => clients'[Project(at'[l])] # None
  /\ pc[l] = "buckets" => pc'[l] = "clients" /\ UNCHANGED clients
                            /\ buckets' \subseteq buckets \cup {Project(at[l])}

LEMMA ClientsShape ==
  ASSUME IInv, GotShape, NEW l \in Logins, SetS3Client(l) \/ SaveBuckets(l)
  PROVE  ClientsMove(l)
<1> USE DEF IInv, TypeOK
<1>1. CASE SetS3Client(l) /\ got[l] = NoKeys
  <2>1. /\ pc[l] = "clients" /\ pc' = [pc EXCEPT ![l] = "idle"]
        /\ UNCHANGED <<clients, at, keyvault, stored, try, key, got, out, history>>
    BY <1>1 DEF SetS3Client, Goto
  <2>2. ShapeOf(l)'
    <3>1. pc'[l] = "idle" /\ got'[l] = NoKeys /\ got' = got
      BY <1>1, <2>1
    <3>2. \A p \in Projects : got'[l][p] # None => NameOf(got'[l][p].name, p)
      BY <3>1 DEF GotShape, ShapeOf
    <3> QED
      BY <3>1, <3>2 DEF ShapeOf, TargetSteps, KeySteps, NameOf, Name, Project
  <2>3. GotShape'
    BY <2>1, <2>2, GotFrame
  <2> QED
    BY <2>1, <2>3 DEF ClientsMove, stored, history
<1>2. ASSUME SetS3Client(l), NEW i \in DOMAIN Targets, got[l][Project(i)] # None,
             clients' = [clients EXCEPT ![Project(i)] = got[l][Project(i)]],
             at' = [at EXCEPT ![l] = i], pc' = [pc EXCEPT ![l] = "buckets"], UNCHANGED got
      PROVE  ClientsMove(l)
  <2>1. pc[l] = "clients" /\ UNCHANGED <<keyvault, stored, try, key, out, history>>
    BY <1>2 DEF SetS3Client
  <2>2. ShapeOf(l)'
    BY <1>2, <2>1 DEF GotShape, ShapeOf, TargetSteps, KeySteps, NameOf, Name, Project
  <2>3. GotShape'
    BY <1>2, <2>1, <2>2, GotFrame
  <2>4. /\ Project(i) \in Projects /\ Project(at'[l]) = Project(i)
        /\ \A p \in Projects : clients'[p] = IF p = Project(i) THEN got[l][p] ELSE clients[p]
    BY <1>2, TargetTypes DEF Project
  <2> QED
    BY <1>2, <2>1, <2>3, <2>4 DEF ClientsMove, stored, history
<1>3. ASSUME SetS3Client(l), NEW i \in DOMAIN Targets, UNCHANGED <<pc, clients, at>>,
             got' = [got EXCEPT ![l] = [got[l] EXCEPT ![Project(i)] = None]]
      PROVE  ClientsMove(l)
  <2>1. pc[l] = "clients" /\ UNCHANGED <<keyvault, stored, try, key, out, history>>
    BY <1>3 DEF SetS3Client
  <2>2. \A p \in Projects : got'[l][p] \in {None, got[l][p]}
    BY <1>3
  <2>3. ShapeOf(l)'
    BY <1>3, <2>1, <2>2 DEF GotShape, ShapeOf, TargetSteps, KeySteps, NameOf, Name, Project
  <2>4. GotShape'
    BY <1>3, <2>3, GotFrame
  <2> QED
    BY <1>3, <2>1, <2>2, <2>4 DEF ClientsMove, stored, history
<1>4. ASSUME SetS3Client(l), got[l] # NoKeys
      PROVE  \E i \in DOMAIN Targets :
                \/ /\ clients' = [clients EXCEPT ![Project(i)] = got[l][Project(i)]]
                   /\ got[l][Project(i)] # None
                   /\ at' = [at EXCEPT ![l] = i] /\ pc' = [pc EXCEPT ![l] = "buckets"]
                   /\ UNCHANGED got
                \/ /\ got' = [got EXCEPT ![l] = [got[l] EXCEPT ![Project(i)] = None]]
                   /\ UNCHANGED <<pc, clients, at>>
  BY <1>4 DEF SetS3Client, Goto
<1>5. CASE SaveBuckets(l)
  <2>1. /\ pc[l] = "buckets" /\ pc' = [pc EXCEPT ![l] = "clients"] /\ at' = [at EXCEPT ![l] = 0]
        /\ buckets' \subseteq buckets \cup {Project(at[l])}
        /\ UNCHANGED <<keyvault, account, cache, clients, key, out, history>>
        /\ got' = [got EXCEPT ![l] = [got[l] EXCEPT ![Project(at[l])] = None]]
    BY <1>5 DEF SaveBuckets, Goto
  <2>2. \A p \in Projects : got'[l][p] \in {None, got[l][p]}
    BY <2>1
  <2>3. ShapeOf(l)'
    BY <2>1, <2>2 DEF GotShape, ShapeOf, TargetSteps, KeySteps, NameOf, Name, Project
  <2>4. GotShape'
    BY <2>1, <2>3, GotFrame
  <2> QED
    BY <2>1, <2>2, <2>4 DEF ClientsMove, history
<1> QED
  BY <1>1, <1>2, <1>3, <1>4, <1>5

(* The rest of the world leaves a login alone or ends it.                  *)
LEMMA WorldShape ==
  ASSUME IInv, GotShape, PostLogout \/ ClearAuth \/ Restart \/ Revoke
  PROVE  /\ GotShape' /\ mishaps \subseteq mishaps' /\ UNCHANGED <<buckets, stale>>
         /\ \A l \in Logins : \A p \in Projects : got'[l][p] \in {None, got[l][p]}
         /\ \A l \in Logins : \/ pc'[l] = "idle"
                              \/ UNCHANGED <<pc[l], at[l], key[l], got[l]>>
<1>1. CASE Restart
  <2>1. /\ pc' = [l \in Logins |-> "idle"] /\ got' = [l \in Logins |-> NoKeys]
        /\ UNCHANGED <<buckets, stale>> /\ mishaps \subseteq mishaps'
    BY <1>1 DEF Restart, RestoreS3Clients, Note, stored
  <2>2. \A l \in Logins : \A p \in Projects : got'[l][p] = None
    BY <2>1 DEF NoKeys
  <2>3. GotShape'
    BY <2>1, <2>2 DEF GotShape, ShapeOf, TargetSteps, KeySteps
  <2> QED
    BY <2>1, <2>2, <2>3
<1>2. CASE PostLogout \/ ClearAuth \/ Revoke
  <2>1. UNCHANGED <<local, buckets, stale>> /\ mishaps \subseteq mishaps'
    BY <1>2 DEF PostLogout, ClearAuth, Revoke, Note, stored, history
  <2>2. GotShape'
    BY <2>1 DEF GotShape, ShapeOf, local, NameOf, Name, Project
  <2> QED
    BY <2>1, <2>2 DEF local
<1> QED
  BY <1>1, <1>2

LEMMA SigningShape ==
  ASSUME IInv, GotShape, NEW l \in Logins, SigningIn(l)
  PROVE  GotShape' /\ got[l] = NoKeys
<1>1. got[l] = NoKeys
  BY SigningMoves DEF GotShape, ShapeOf, SignSteps, FirstSteps, TargetSteps
<1>2. got' = got /\ pc'[l] \in SignSteps \cup {"forge"}
  BY SigningMoves
<1>3. pc'[l] = "forge" => got'[l][Project(at'[l])] = None
  BY <1>1, <1>2, SigningMoves, FirstTarget, TargetTypes DEF NoKeys
<1>4. \A p \in Projects : got'[l][p] = None
  BY <1>1, <1>2 DEF NoKeys
<1>5. ShapeOf(l)'
  BY <1>1, <1>2, <1>3, <1>4 DEF ShapeOf, SignSteps, FirstSteps, KeySteps, TargetSteps, Project
<1> QED
  BY <1>1, <1>2, <1>5, SigningMoves, GotFrame

LEMMA StaysShape ==
  ASSUME IInv, GotShape, NEW l \in Logins, pc[l] \in KeySteps, Stays(l)
  PROVE  GotShape'
<1>1. ShapeOf(l)'
  BY DEF Stays, GotShape, ShapeOf, KeySteps, TargetSteps, NameOf, Name, Project
<1> QED
  BY <1>1, GotFrame DEF Stays

(* The last step of a login's Reconcile, whatever it is.                   *)
LEMMA ReconcileShape ==
  ASSUME IInv, GotShape, NEW l \in Logins, Reconcile(l)
  PROVE  GotShape'
BY ReconcileMoves, StaysShape, GiveUpShape, GetsShape

LEMMA GotShapeStep == IInv /\ GotShape /\ [Next]_vars => GotShape'
<1> SUFFICES ASSUME IInv, GotShape, [Next]_vars PROVE GotShape'
  OBVIOUS
<1>1. ASSUME NEW l \in Logins, SigningIn(l) \/ Reconcile(l) \/ SetS3Client(l) \/ SaveBuckets(l)
      PROVE  GotShape'
  BY <1>1, SigningShape, ReconcileShape, ClientsShape DEF ClientsMove
<1>2. CASE PostLogout \/ ClearAuth \/ Restart \/ Revoke
  BY <1>2, WorldShape
<1>3. CASE UNCHANGED vars
  BY <1>3 DEF GotShape, ShapeOf, vars, local, NameOf, Name, Project
<1> QED
  BY <1>1, <1>2, <1>3 DEF Next

-----------------------------------------------------------------------------
(* Only three actions change the keyvault: one deletes a key, one creates  *)
(* a key with a number of its own, and one moves a key to the revoked.     *)
LEMMA ReconcileKeyvault ==
  ASSUME NEW l \in Logins, Reconcile(l)
  PROVE  \/ UNCHANGED <<remote, minted, revoked>>
         \/ DeleteApiKey(l)
         \/ CreateApiKey(l) /\ Mint(l)
BY DEF Reconcile, ForgeJWT, SyncRefreshToken, ReadCookie, SyncGetSession, SyncSaveSession,
       WriteSession, ListApiKeys, GetCredential, DropCredential, CreateApiKey, SaveCredential, keyvault

LEMMA OtherKeyvault ==
  /\ IInv /\ (\E l \in Logins : SigningIn(l) \/ SetS3Client(l) \/ SaveBuckets(l))
       => UNCHANGED <<remote, minted, revoked>>
  /\ PostLogout \/ ClearAuth \/ Restart => UNCHANGED <<remote, minted, revoked>>
BY SigningMoves DEF SetS3Client, SaveBuckets, PostLogout, ClearAuth, Restart, keyvault

(* A new key is none that ever existed.                                    *)
LEMMA NewKeyIsNew ==
  ASSUME IInv, KeysNumbered, NEW l \in Logins, pc[l] = "create", Mint(l),
         revoked' = revoked
  PROVE  NewKey(l) \notin Live /\ KeysNumbered'
<1>1. Here(l) \in Owners /\ Here(l) = <<User(at[l]), Name(at[l])>>
  BY HereTypes DEF IInv, TargetSteps
<1>2. /\ minted' = [minted EXCEPT ![Here(l)] = minted[Here(l)] + 1]
      /\ minted \in [Owners -> 0..MaxKeys] /\ minted[Here(l)] \in Nat
      /\ remote' = remote \cup {NewKey(l)}
  BY <1>1, LoginAssumption DEF Mint, IInv, TypeOK
<1>3. /\ <<NewKey(l).user, NewKey(l).name>> = Here(l) /\ NewKey(l).num = minted[Here(l)] + 1
      /\ NewKey(l).num \in Nat
  BY <1>1, <1>2 DEF NewKey
<1>4. NewKey(l) \notin Live
  BY <1>2, <1>3 DEF KeysNumbered
<1>5. KeysNumbered'
  <2>1. ASSUME NEW o \in Owners PROVE minted[o] <= minted'[o] /\ minted[o] \in Nat
    BY <1>2, LoginAssumption
  <2>2. ASSUME NEW k \in Live'
        PROVE  <<k.user, k.name>> \in Owners /\ k.num <= minted'[<<k.user, k.name>>]
    <3>1. CASE k = NewKey(l)
      BY <1>1, <1>2, <1>3, <3>1
    <3>2. CASE k \in Live
      <4>1. k \in Keys
        BY <3>2 DEF Live, IInv, TypeOK
      <4>2. k.num \in Nat
        BY <4>1 DEF Keys
      <4>3. <<k.user, k.name>> \in Owners /\ k.num <= minted[<<k.user, k.name>>]
        BY <3>2 DEF KeysNumbered
      <4>4. minted'[<<k.user, k.name>>] \in Nat
        BY <1>2, <4>3, LoginAssumption
      <4> QED
        BY <2>1, <4>2, <4>3, <4>4
    <3> QED
      BY <1>2, <3>1, <3>2 DEF Live
  <2>3. remote' \cap revoked' = {}
    BY <1>2, <1>4 DEF KeysNumbered, Live
  <2> QED
    BY <2>2, <2>3 DEF KeysNumbered
<1> QED
  BY <1>4, <1>5

LEMMA KeysNumberedStep == IInv /\ KeysNumbered /\ [Next]_vars => KeysNumbered'
<1> SUFFICES ASSUME IInv, KeysNumbered, [Next]_vars PROVE KeysNumbered'
  OBVIOUS
<1>1. CASE UNCHANGED <<remote, minted, revoked>>
  BY <1>1 DEF KeysNumbered, Live
<1>2. ASSUME NEW l \in Logins, Reconcile(l) PROVE KeysNumbered'
  <2>1. CASE DeleteApiKey(l)
    BY <2>1 DEF DeleteApiKey, KeysNumbered, Live
  <2>2. CASE CreateApiKey(l) /\ Mint(l)
    BY <2>2, NewKeyIsNew DEF CreateApiKey
  <2> QED
    BY <1>1, <1>2, <2>1, <2>2, ReconcileKeyvault
<1>3. CASE Revoke
  BY <1>3 DEF Revoke, KeysNumbered, Live
<1>4. CASE UNCHANGED vars
  BY <1>1, <1>4 DEF vars, keyvault
<1> QED
  BY <1>1, <1>2, <1>3, <1>4, OtherKeyvault DEF Next

-----------------------------------------------------------------------------
(* What changes the cache, of the steps of a login: the entry of the       *)
(* target's name is dropped or set.                                        *)
EntryOf(l) == [key |-> key[l], project |-> Project(at[l])]
LEMMA CacheChanges ==
  ASSUME IInv, NEW l \in Logins, SigningIn(l) \/ Reconcile(l) \/ SetS3Client(l) \/ SaveBuckets(l)
  PROVE  \/ cache' = cache
         \/ DropCredential(l) /\ cache' = [cache EXCEPT ![Name(at[l])] = None]
         \/ SaveCredential(l) /\ cache' = [cache EXCEPT ![Name(at[l])] = EntryOf(l)]
<1>1. CASE SigningIn(l)
  BY <1>1, SigningMoves
<1>2. CASE SetS3Client(l) \/ SaveBuckets(l)
  BY <1>2 DEF SetS3Client, SaveBuckets, stored
<1>3. CASE Reconcile(l) /\ ~DropCredential(l) /\ ~SaveCredential(l)
  BY <1>3 DEF Reconcile, ForgeJWT, SyncRefreshToken, ReadCookie, SyncGetSession,
              SyncSaveSession, WriteSession, ListApiKeys, GetCredential, DeleteApiKey,
              CreateApiKey, stored
<1>4. CASE DropCredential(l)
  BY <1>4 DEF DropCredential
<1>5. CASE SaveCredential(l)
  BY <1>5 DEF SaveCredential, EntryOf
<1> QED
  BY <1>1, <1>2, <1>3, <1>4, <1>5

LEMMA CacheNamedStep == IInv /\ CacheNamed /\ [Next]_vars => CacheNamed'
<1> SUFFICES ASSUME IInv, CacheNamed, [Next]_vars PROVE CacheNamed'
  OBVIOUS
<1>1. ASSUME \A n \in Names : cache'[n] \in {None, cache[n]} PROVE CacheNamed'
  BY <1>1 DEF CacheNamed, NameOf, Name, Project
<1>2. ASSUME NEW l \in Logins, SigningIn(l) \/ Reconcile(l) \/ SetS3Client(l) \/ SaveBuckets(l)
      PROVE  CacheNamed'
  <2>1. CASE cache' = cache
    BY <1>1, <2>1
  <2>2. CASE DropCredential(l) /\ cache' = [cache EXCEPT ![Name(at[l])] = None]
    BY <1>1, <2>2 DEF IInv, TypeOK
  <2>3. CASE SaveCredential(l) /\ cache' = [cache EXCEPT ![Name(at[l])] = EntryOf(l)]
    <3>1. NameOf(Name(at[l]), Project(at[l])) /\ Name(at[l]) \in Names
      BY <2>3, NamesOfTargets DEF SaveCredential, KeySteps, TargetSteps
    <3>2. EntryOf(l).project = Project(at[l])
      BY DEF EntryOf
    <3>3. \A n \in Names : cache'[n] = IF n = Name(at[l]) THEN EntryOf(l) ELSE cache[n]
      BY <2>3, <3>1 DEF IInv, TypeOK
    <3> QED
      BY <3>1, <3>2, <3>3 DEF CacheNamed, NameOf, Name, Project
  <2> QED
    BY <1>2, <2>1, <2>2, <2>3, CacheChanges
<1>3. CASE PostLogout \/ Restart \/ Revoke \/ UNCHANGED vars
  BY <1>1, <1>3 DEF PostLogout, Restart, Revoke, stored, vars
<1>4. CASE ClearAuth
  BY <1>1, <1>4 DEF ClearAuth
<1> QED
  BY <1>2, <1>3, <1>4 DEF Next

LEMMA LogoutNotedStep == IInv /\ LogoutNoted /\ [Next]_vars => LogoutNoted'
<1> SUFFICES ASSUME IInv, LogoutNoted, [Next]_vars PROVE LogoutNoted'
  OBVIOUS
<1>1. ASSUME out' = out, mishaps \subseteq mishaps' PROVE LogoutNoted'
  BY <1>1 DEF LogoutNoted
<1>2. ASSUME NEW l \in Logins, SigningIn(l) \/ Reconcile(l) PROVE LogoutNoted'
  BY <1>1, <1>2, SigningMoves, ReconcileMoves
<1>3. ASSUME NEW l \in Logins, SetS3Client(l) \/ SaveBuckets(l) PROVE LogoutNoted'
  BY <1>1, <1>3 DEF SetS3Client, SaveBuckets, history
<1>4. CASE PostLogout
  BY <1>4 DEF PostLogout, Note, LogoutNoted
<1>5. CASE ClearAuth
  BY <1>5 DEF ClearAuth, history, LogoutNoted
<1>6. CASE Restart
  BY <1>6 DEF Restart, LogoutNoted
<1>7. CASE Revoke \/ UNCHANGED vars
  BY <1>1, <1>7 DEF Revoke, vars, history
<1> QED
  BY <1>2, <1>3, <1>4, <1>5, <1>6, <1>7 DEF Next

LEMMA InitShape == Init => ShapeInv
<1> SUFFICES ASSUME Init PROVE ShapeInv
  OBVIOUS
<1>1. KeysNumbered /\ CacheNamed /\ LogoutNoted
  BY DEF Init, KeysNumbered, Live, CacheNamed, LogoutNoted
<1>2. GotShape
  BY DEF Init, GotShape, ShapeOf, NoKeys, KeySteps, TargetSteps
<1> QED
  BY <1>1, <1>2 DEF ShapeInv

LEMMA ShapeStep == IInv /\ ShapeInv /\ [Next]_vars => ShapeInv'
BY GotShapeStep, KeysNumberedStep, CacheNamedStep, LogoutNotedStep DEF ShapeInv

-----------------------------------------------------------------------------
(* What makes LoginKeysWork inductive: also the key that a login has found *)
(* or created for its target is one the keyvault had during this login.    *)
Usable   == remote \cup (revoked \ stale)
WorksFor(l) ==
  /\ \A p \in Projects : got[l][p] # None => got[l][p] \in Usable
  /\ pc[l] \in {"lookup", "saveCred"} /\ key[l] # None => key[l] \in Usable
GotWorks == \A l \in Logins : WorksFor(l)
WorksInv == NamesApart /\ Never({"overlap"}) => GotWorks

(* Credentials stay good while no usable key is lost.                      *)
LEMMA WorksFrame ==
  ASSUME GotWorks, Usable \subseteq Usable', NEW l \in Logins, WorksFor(l)',
         \A m \in Logins : m # l => \/ UNCHANGED <<pc[m], key[m], got[m]>>
                                    \/ pc'[m] = "idle" /\ got'[m] = NoKeys
  PROVE  GotWorks'
<1>1. ASSUME NEW m \in Logins, m # l PROVE WorksFor(m)'
  BY <1>1 DEF GotWorks, WorksFor, NoKeys
<1> QED
  BY <1>1 DEF GotWorks

LEMMA UsableGrows ==
  ASSUME IInv, KeysNumbered, stale' = stale,
         \/ UNCHANGED <<remote, minted, revoked>>
         \/ Revoke
         \/ \E l \in Logins : CreateApiKey(l) /\ Mint(l)
  PROVE  Usable \subseteq Usable'
<1>1. CASE Revoke
  <2>1. remote \cap stale = {}
    BY DEF KeysNumbered, IInv, TypeOK
  <2> QED
    BY <1>1, <2>1 DEF Revoke, Usable
<1>2. ASSUME NEW l \in Logins, CreateApiKey(l), Mint(l) PROVE Usable \subseteq Usable'
  BY <1>2 DEF CreateApiKey, Mint, Usable
<1>3. CASE UNCHANGED <<remote, minted, revoked>>
  BY <1>3 DEF Usable
<1> QED
  BY <1>1, <1>2, <1>3

(* The key a login comes to hold for its target is one of the keyvault.    *)
LEMMA FoundKey ==
  ASSUME IInv, NEW l \in Logins, Reconcile(l), Stays(l),
         pc'[l] \in {"lookup", "saveCred"}, key'[l] # None
  PROVE  key'[l] \in remote'
<1> USE DEF IInv, TypeOK, Stays
<1>1. CASE ListApiKeys(l)
  <2>1. pc[l] = "list" /\ key[l] = None /\ remote' = remote
    BY <1>1 DEF ListApiKeys, AtTarget, keyvault
  <2>2. CASE GiveUp(l)
    <3>1. pc'[l] \in {"clients", "forge"}
      BY <2>2, GotTypes, AdvanceTypes DEF GiveUp, CredTypes
    <3> QED
      BY <3>1
  <2>3. CASE key' = key \/ \E k \in KeysOf(Here(l)) : key' = [key EXCEPT ![l] = k]
    BY <2>1, <2>3 DEF KeysOf
  <2> QED
    BY <1>1, <2>2, <2>3 DEF ListApiKeys
<1>2. CASE CreateApiKey(l)
  <2>1. CASE Mint(l) /\ key' = [key EXCEPT ![l] = NewKey(l)]
    BY <2>1 DEF Mint
  <2>2. CASE Retry(l)
    <3>1. CASE UNCHANGED pc
      BY <1>2, <3>1 DEF CreateApiKey
    <3>2. CASE GiveUp(l)
      <4>1. pc'[l] \in {"clients", "forge"}
        BY <3>2, GotTypes, AdvanceTypes DEF GiveUp, CredTypes
      <4> QED
        BY <4>1
    <3> QED
      BY <2>2, <3>1, <3>2 DEF Retry
  <2> QED
    BY <1>2, <2>1, <2>2 DEF CreateApiKey
<1>3. CASE /\ ~ListApiKeys(l) /\ ~CreateApiKey(l)
           /\ ~GetCredential(l) /\ ~SaveCredential(l)
  BY <1>3 DEF Reconcile, ForgeJWT, SyncRefreshToken, ReadCookie, SyncGetSession,
              SyncSaveSession, WriteSession, DeleteApiKey, DropCredential, Goto
<1>4. CASE GetCredential(l)
  <2>1. PICK cached \in {None, cache[Name(at[l])]} : Compare(l, cached)
    BY <1>4 DEF GetCredential
  <2>2. CASE Take(l, key[l])
    <3>1. pc'[l] \in {"clients", "forge"}
      BY <2>2, GotTypes, AdvanceTypes DEF Take, CredTypes
    <3> QED
      BY <3>1
  <2> QED
    BY <2>1, <2>2 DEF Compare, Goto
<1>5. CASE SaveCredential(l)
  <2>1. pc'[l] \in {"clients", "forge"}
    BY <1>5, GotTypes, AdvanceTypes DEF SaveCredential, Take, CredTypes
  <2> QED
    BY <2>1
<1> QED
  BY <1>1, <1>2, <1>3, <1>4, <1>5

(* Without an overlap a deleted key is none of the login's credentials:    *)
(* its name is that of the present target, whose project has none yet.     *)
LEMMA DeleteSpares ==
  ASSUME IInv, ShapeInv, NamesApart, NEW l \in Logins, pc[l] = "delete",
         NEW p \in Projects, got[l][p] # None
  PROVE  got[l][p] # key[l]
<1>1. /\ NameOf(got[l][p].name, p) /\ got[l][Project(at[l])] = None
      /\ at[l] \in DOMAIN Targets
  BY NamesOfTargets DEF ShapeInv, GotShape, ShapeOf, KeySteps, TargetSteps
<1>2. key[l].name = Name(at[l])
  BY DEF IInv, AtTarget
<1> QED
  BY <1>1, <1>2 DEF NamesApart, NameOf

LEMMA DeleteWorks ==
  ASSUME IInv, ShapeInv, NamesApart, OneLogin, GotWorks, NEW l \in Logins, DeleteApiKey(l)
  PROVE  GotWorks'
<1>1. /\ pc[l] = "delete" /\ pc'[l] = "create" /\ UNCHANGED <<got, revoked, stale>>
      /\ \A m \in Logins : m # l => pc'[m] = pc[m]
      /\ remote \ {key[l]} \subseteq remote'
  BY DEF DeleteApiKey, Goto, IInv, TypeOK
<1>2. Usable \ {key[l]} \subseteq Usable'
  BY <1>1 DEF Usable
<1>3. WorksFor(l)'
  <2>1. \A p \in Projects : got[l][p] # None => got[l][p] \in Usable /\ got[l][p] # key[l]
    BY <1>1, DeleteSpares DEF GotWorks, WorksFor
  <2> QED
    BY <1>1, <1>2, <2>1 DEF WorksFor
<1>4. ASSUME NEW m \in Logins, m # l PROVE WorksFor(m)'
  <2>1. pc[m] = "idle" /\ pc'[m] = "idle"
    BY <1>1, <1>4 DEF OneLogin
  <2>2. got'[m] = NoKeys
    BY <1>1, <2>1 DEF ShapeInv, GotShape, ShapeOf, TargetSteps
  <2> QED
    BY <2>1, <2>2 DEF WorksFor, NoKeys
<1> QED
  BY <1>3, <1>4 DEF GotWorks

LEMMA ReconcileOthers ==
  ASSUME IInv, NEW l \in Logins, Reconcile(l), NEW m \in Logins, m # l
  PROVE  UNCHANGED <<pc[m], key[m], got[m]>>
<1>1. CASE Stays(l)
  <2>1. key'[m] = key[m]
    <3>1. ASSUME NEW g, Advance(l, g) PROVE key'[m] = key[m]
      BY <3>1 DEF Advance, IInv, TypeOK
    <3> QED
      BY <3>1 DEF Reconcile, ForgeJWT, SyncRefreshToken, ReadCookie, SyncGetSession,
              SyncSaveSession, WriteSession, ListApiKeys, GetCredential, Compare, DeleteApiKey,
              DropCredential, CreateApiKey, Retry, GiveUp, Take, SaveCredential, IInv, TypeOK
  <2> QED
    BY <1>1, <2>1 DEF Stays
<1>2. ASSUME NEW g \in CredTypes, Advance(l, g) PROVE UNCHANGED <<pc[m], key[m], got[m]>>
  <2>1. got'[m] = got[m]
    BY <1>2 DEF Advance, IInv, TypeOK
  <2> QED
    BY <1>2, <2>1, AdvanceTypes DEF IInv, CredTypes
<1>3. got[l] \in CredTypes /\ [got[l] EXCEPT ![Project(at[l])] = key[l]] \in CredTypes
  BY GotTypes DEF IInv, TypeOK, CredTypes
<1> QED
  BY <1>1, <1>2, <1>3, ReconcileMoves DEF Gets

LEMMA SigningWorks ==
  ASSUME IInv, ShapeInv, GotWorks, NEW l \in Logins, SigningIn(l),
         \A m \in Logins : Challenge(l) => pc[m] = "idle"
  PROVE  GotWorks'
<1>1. /\ pc'[l] \in SignSteps \cup {"forge"} /\ got[l] = NoKeys
      /\ UNCHANGED <<keyvault, key, got>>
      /\ \A m \in Logins : m # l => pc'[m] = pc[m]
  BY SigningMoves, SigningShape DEF ShapeInv
<1>2. WorksFor(l)'
  BY <1>1 DEF WorksFor, NoKeys, SignSteps, FirstSteps
<1>3. CASE Challenge(l)
  <2>1. \A m \in Logins : m # l => pc'[m] = "idle" /\ got'[m] = NoKeys
    BY <1>1, <1>3 DEF ShapeInv, GotShape, ShapeOf, TargetSteps
  <2> QED
    BY <1>2, <2>1 DEF GotWorks, WorksFor, NoKeys
<1>4. CASE ~Challenge(l)
  <2>1. stale' = stale
    BY <1>4 DEF SigningIn, SignIn, GetAccount, SaveLogin, ReadCookie, SaveSession,
                WriteSession, SaveAccount, GetProjects, ClearAllBuckets, history
  <2>2. Usable' = Usable
    BY <1>1, <2>1 DEF keyvault, Usable
  <2> QED
    BY <1>1, <1>2, <2>2, WorksFrame
<1> QED
  BY <1>3, <1>4

LEMMA ReconcileWorks ==
  ASSUME IInv, ShapeInv, NamesApart, OneLogin, GotWorks, NEW l \in Logins, Reconcile(l)
  PROVE  GotWorks'
<1>1. CASE DeleteApiKey(l)
  BY <1>1, DeleteWorks
<1>2. CASE ~DeleteApiKey(l)
  <2>1. Usable \subseteq Usable'
    BY <1>2, ReconcileKeyvault, ReconcileMoves, UsableGrows DEF ShapeInv
  <2>2. WorksFor(l)'
    <3>1. CASE Stays(l)
      <4>1. \A p \in Projects : got'[l][p] # None => got'[l][p] \in Usable'
        BY <2>1, <3>1 DEF Stays, GotWorks, WorksFor
      <4>2. pc'[l] \in {"lookup", "saveCred"} /\ key'[l] # None => key'[l] \in Usable'
        BY <3>1, FoundKey DEF Usable
      <4> QED
        BY <4>1, <4>2 DEF WorksFor
    <3>2. CASE Advance(l, got[l])
      <4>1. got' = got /\ pc'[l] \in {"clients", "forge"}
        BY <3>2, GiveUpShape, GotTypes, AdvanceTypes DEF ShapeInv, IInv, TypeOK
      <4> QED
        BY <2>1, <4>1 DEF GotWorks, WorksFor
    <3>3. CASE Gets(l)
      <4>1. /\ [got[l] EXCEPT ![Project(at[l])] = key[l]] \in CredTypes
            /\ \A p \in Projects : got'[l][p] = IF p = Project(at[l]) THEN key[l] ELSE got[l][p]
        BY <3>3, ReconcileMoves, GetsShape DEF ShapeInv
      <4>2. pc'[l] \in {"clients", "forge"}
        BY <3>3, <4>1, AdvanceTypes DEF Gets, IInv, CredTypes
      <4>3. key[l] \in Usable
        BY <3>3, NoneAssumption DEF Gets, GotWorks, WorksFor
      <4> QED
        BY <2>1, <4>1, <4>2, <4>3 DEF GotWorks, WorksFor
    <3> QED
      BY <3>1, <3>2, <3>3, ReconcileMoves
  <2> QED
    BY <2>1, <2>2, ReconcileOthers, WorksFrame
<1> QED
  BY <1>1, <1>2

LEMMA ClientsWorks ==
  ASSUME IInv, ShapeInv, GotWorks, NEW l \in Logins, SetS3Client(l) \/ SaveBuckets(l)
  PROVE  GotWorks'
<1>1. /\ UNCHANGED <<keyvault, key, stale>>
      /\ \A m \in Logins : m # l => pc'[m] = pc[m] /\ at'[m] = at[m] /\ got'[m] = got[m]
      /\ pc'[l] \in {"idle", "clients", "buckets"}
      /\ \A p \in Projects : got'[l][p] \in {None, got[l][p]}
  BY ClientsShape DEF ShapeInv, ClientsMove
<1>2. Usable' = Usable
  BY <1>1 DEF Usable, keyvault
<1> QED
  BY <1>1, <1>2 DEF GotWorks, WorksFor

LEMMA WorldWorks ==
  ASSUME IInv, ShapeInv, GotWorks, PostLogout \/ ClearAuth \/ Restart \/ Revoke
  PROVE  GotWorks'
<1>1. /\ stale' = stale
      /\ \A l \in Logins : \A p \in Projects : got'[l][p] \in {None, got[l][p]}
      /\ \A l \in Logins : pc'[l] = "idle" \/ UNCHANGED <<pc[l], at[l], key[l], got[l]>>
  BY WorldShape DEF ShapeInv
<1>2. Usable \subseteq Usable'
  BY <1>1, OtherKeyvault, UsableGrows DEF ShapeInv
<1> QED
  BY <1>1, <1>2 DEF GotWorks, WorksFor

(* Mishaps are never forgotten, and two logins at once are one.            *)
LEMMA MishapsGrow == IInv /\ ShapeInv /\ [Next]_vars => mishaps \subseteq mishaps'
<1> SUFFICES ASSUME IInv, ShapeInv, [Next]_vars PROVE mishaps \subseteq mishaps'
  OBVIOUS
<1>1. CASE UNCHANGED vars
  BY <1>1 DEF vars, history
<1> QED
  BY <1>1, SigningMoves, ReconcileMoves, ClientsShape, WorldShape DEF Next, ShapeInv, ClientsMove

LEMMA ChallengeAlone ==
  ASSUME NEW l \in Logins, Challenge(l), "overlap" \notin mishaps', NEW m \in Logins
  PROVE  pc[m] = "idle"
BY DEF Challenge, Note

LEMMA WorksStep == IInv /\ ShapeInv /\ WorksInv /\ [Next]_vars => WorksInv'
<1> SUFFICES ASSUME IInv, ShapeInv, WorksInv, [Next]_vars, NamesApart, Never({"overlap"})'
             PROVE  GotWorks'
  BY DEF WorksInv, NamesApart, Name, Project
<1>1. GotWorks /\ OneLogin
  BY MishapsGrow, NeverFrame DEF WorksInv, IInv
<1>2. ASSUME NEW l \in Logins, SigningIn(l) PROVE GotWorks'
  BY <1>1, <1>2, SigningWorks, ChallengeAlone DEF Never
<1>3. ASSUME NEW l \in Logins, Reconcile(l) PROVE GotWorks'
  BY <1>1, <1>3, ReconcileWorks
<1>4. ASSUME NEW l \in Logins, SetS3Client(l) \/ SaveBuckets(l) PROVE GotWorks'
  BY <1>1, <1>4, ClientsWorks
<1>5. CASE PostLogout \/ ClearAuth \/ Restart \/ Revoke
  BY <1>1, <1>5, WorldWorks
<1>6. CASE UNCHANGED vars
  BY <1>1, <1>6 DEF vars, keyvault, local, history, GotWorks, WorksFor, Usable
<1> QED
  BY <1>2, <1>3, <1>4, <1>5, <1>6 DEF Next

(* No login makes a client of a key that the provider's console had        *)
(* deleted before it began, or that the login has deleted itself           *)
(* (loadOrCreateS3Credentials, reconcileProjectCredential): for any number *)
(* of projects and users whose projects do not share key names, whatever   *)
(* requests and writes fail and wherever the process is killed.            *)
THEOREM LoginKeys == Spec => []LoginKeysWork
<1>1. Init => WorksInv
  BY DEF Init, WorksInv, GotWorks, WorksFor, NoKeys
<1>2. IInv /\ ShapeInv /\ WorksInv => LoginKeysWork
  BY DEF WorksInv, GotWorks, WorksFor, LoginKeysWork, Usable
<1> QED
  BY <1>1, <1>2, Invariance, InitShape, ShapeStep, WorksStep, PTL DEF Spec

-----------------------------------------------------------------------------
(* What makes BucketsHaveClients inductive: there are no bucket lists      *)
(* while keys are reconciled; a project with a bucket list, or with a      *)
(* credential of the login under way, has a cached one and the store has   *)
(* the account, so that a restart makes a client for it.                   *)
Cached(p)    == \E n \in Names : cache[n] # None /\ cache[n].project = p
AccountSteps == TargetSteps \cup {"projects", "clearBuckets", "clients"}
BackedBy(l)  ==
  /\ pc[l] \in AccountSteps => account = "gateway"
  /\ pc[l] \in KeySteps => buckets = {}
  /\ pc[l] = "buckets" => clients[Project(at[l])] # None
  /\ \A p \in Projects : got[l][p] # None => Cached(p)
Backed    == /\ \A p \in buckets : account = "gateway" /\ Cached(p) /\ clients[p] # None
             /\ \A l \in Logins : BackedBy(l)
Mild      == {"overlap", "store", "misread", "logout", "bare"}
BackedInv == NamesApart /\ Never(Mild) => Backed

(* An entry of the cache under a target's name is for the target's         *)
(* project, so that one of another project outlives what happens to it.    *)
LEMMA CachedKept ==
  ASSUME IInv, ShapeInv, NamesApart, NEW l \in Logins, Reconcile(l), NEW p, Cached(p),
         p # Project(at[l])
  PROVE  Cached(p)'
<1>1. PICK n \in Names : cache[n] # None /\ cache[n].project = p
  BY DEF Cached
<1>2. n # Name(at[l])
  <2>1. NameOf(n, p) /\ at[l] \in DOMAIN Targets
    BY <1>1, ReconcileMoves, NamesOfTargets DEF ShapeInv, CacheNamed
  <2> QED
    BY <2>1 DEF NameOf, NamesApart
<1>3. cache'[n] = cache[n]
  BY <1>2, CacheChanges DEF IInv, TypeOK
<1> QED
  BY <1>1, <1>3 DEF Cached

(* A login that gets a credential finds it in the cache or saves it there. *)
LEMMA GetsCached ==
  ASSUME IInv, ShapeInv, NamesApart, NEW l \in Logins, Reconcile(l), Gets(l),
         "store" \notin mishaps', NEW p, p = Project(at[l])
  PROVE  Cached(p)'
<1>1. /\ pc'[l] \in {"clients", "forge"} /\ Name(at[l]) \in Names
      /\ at[l] \in DOMAIN Targets /\ pc[l] \in {"lookup", "saveCred"}
  BY ReconcileMoves, GetsShape, AdvanceTypes, NamesOfTargets DEF Gets, ShapeInv, IInv, CredTypes
<1>2. CASE GetCredential(l)
  <2>1. PICK cached \in {None, cache[Name(at[l])]} : Compare(l, cached)
    BY <1>2 DEF GetCredential
  <2>2. cached # None /\ cache' = cache
    BY <1>1, <1>2, <2>1 DEF Compare, Goto, GetCredential, stored, IInv, TypeOK
  <2>3. cache[Name(at[l])].project = Project(at[l])
    BY <1>1, <2>1, <2>2 DEF ShapeInv, CacheNamed, NameOf, NamesApart
  <2> QED
    BY <1>1, <2>1, <2>2, <2>3 DEF Cached
<1>3. CASE SaveCredential(l)
  <2>1. cache' = [cache EXCEPT ![Name(at[l])] = EntryOf(l)]
    BY <1>3 DEF SaveCredential, Note, EntryOf
  <2>2. cache'[Name(at[l])] = EntryOf(l) /\ EntryOf(l).project = Project(at[l])
    BY <1>1, <2>1 DEF EntryOf, IInv, TypeOK
  <2>3. EntryOf(l) # None
    BY <1>1, ReconcileMoves, NamesOfTargets, NoneAssumption DEF EntryOf, Gets
  <2> QED
    BY <1>1, <2>2, <2>3 DEF Cached
<1>4. CASE ~GetCredential(l) /\ ~SaveCredential(l)
  BY <1>1, <1>4 DEF Reconcile, ForgeJWT, SyncRefreshToken, ReadCookie, SyncGetSession,
                    SyncSaveSession, WriteSession, ListApiKeys, DeleteApiKey, DropCredential, CreateApiKey
<1> QED
  BY <1>2, <1>3, <1>4

LEMMA SigningBacked ==
  ASSUME IInv, ShapeInv, Backed, NEW l \in Logins, SigningIn(l),
         mishaps' \cap {"store", "bare"} = {}
  PROVE  Backed'
<1>1. /\ pc[l] \in SignSteps /\ pc'[l] \in SignSteps \cup {"forge"}
      /\ UNCHANGED <<cache, clients, got>>
      /\ \A m \in Logins : m # l => pc'[m] = pc[m] /\ at'[m] = at[m]
  BY SigningMoves
<1>2. /\ buckets' \in {buckets, {}} /\ (account = "gateway" => account' = "gateway")
      /\ pc'[l] \in AccountSteps => account' = "gateway"
      /\ pc'[l] = "forge" => buckets' = {}
  <2> USE DEF IInv, TypeOK, AccountSteps, TargetSteps, Goto
  <2>1. CASE Challenge(l) \/ SignIn(l) \/ GetAccount(l) \/ SaveLogin(l) \/ SaveSession(l)
    BY <2>1 DEF Challenge, SignIn, GetAccount, LoginFails, SaveLogin, ReadCookie, SaveSession,
                WriteSession, stored
  <2>2. CASE SaveAccount(l)
    BY <2>2 DEF SaveAccount, Note
  <2>3. CASE GetProjects(l)
    BY <2>3 DEF GetProjects, Backed, BackedBy, stored
  <2>4. CASE ClearAllBuckets(l)
    BY <2>4 DEF ClearAllBuckets, Note, Backed, BackedBy
  <2> QED
    BY <2>1, <2>2, <2>3, <2>4 DEF SigningIn
<1>3. \A p : Cached(p)' = Cached(p)
  BY <1>1 DEF Cached
<1>4. ASSUME NEW m \in Logins PROVE BackedBy(m)'
  <2>1. CASE m = l
    BY <1>1, <1>2, <1>3, <2>1 DEF Backed, BackedBy, SignSteps, FirstSteps, KeySteps, TargetSteps
  <2>2. CASE m # l
    BY <1>1, <1>2, <1>3, <2>2 DEF Backed, BackedBy, Project
  <2> QED
    BY <2>1, <2>2
<1> QED
  BY <1>1, <1>2, <1>3, <1>4 DEF Backed

LEMMA ReconcileBacked ==
  ASSUME IInv, ShapeInv, NamesApart, OneLogin, Backed, NEW l \in Logins, Reconcile(l),
         mishaps' \cap {"store", "bare"} = {}
  PROVE  Backed'
<1>1. /\ pc[l] \in KeySteps /\ UNCHANGED <<account, buckets, clients>>
      /\ account = "gateway" /\ buckets = {} /\ got[l][Project(at[l])] = None
  BY ReconcileMoves DEF Backed, BackedBy, KeySteps, AccountSteps, ShapeInv, GotShape, ShapeOf
<1>2. pc'[l] \in KeySteps \cup {"clients"}
  BY ReconcileMoves, GotTypes, GetsShape, AdvanceTypes
     DEF Stays, Gets, KeySteps, TargetSteps, ShapeInv, IInv, TypeOK, CredTypes
<1>3. ASSUME NEW p \in Projects, got'[l][p] # None PROVE Cached(p)'
  <2>1. CASE got[l][p] # None
    BY <1>1, <2>1, CachedKept DEF Backed, BackedBy
  <2>2. CASE got[l][p] = None
    <3>1. Gets(l) /\ p = Project(at[l])
      BY <1>1, <1>3, <2>2, ReconcileMoves, GiveUpShape, GetsShape DEF Stays, ShapeInv
    <3> QED
      BY <3>1, GetsCached
  <2> QED
    BY <2>1, <2>2
<1>4. ASSUME NEW m \in Logins PROVE BackedBy(m)'
  <2>1. CASE m = l
    BY <1>1, <1>2, <1>3, <2>1 DEF BackedBy, KeySteps
  <2>2. CASE m # l
    <3>1. pc'[m] = "idle" /\ got'[m] = NoKeys
      BY <1>1, <2>2, ReconcileOthers DEF OneLogin, KeySteps, TargetSteps, ShapeInv, GotShape, ShapeOf
    <3> QED
      BY <3>1 DEF BackedBy, NoKeys, AccountSteps, KeySteps, TargetSteps
  <2> QED
    BY <2>1, <2>2
<1> QED
  BY <1>1, <1>4 DEF Backed

LEMMA ClientsBacked ==
  ASSUME IInv, ShapeInv, OneLogin, Backed, NEW l \in Logins, SetS3Client(l) \/ SaveBuckets(l)
  PROVE  Backed'
<1>1. /\ UNCHANGED <<cache, account>> /\ pc[l] \in {"clients", "buckets"}
      /\ \A m \in Logins : m # l => pc'[m] = pc[m] /\ at'[m] = at[m] /\ got'[m] = got[m]
      /\ pc'[l] \in {"idle", "clients", "buckets"}
      /\ \A p \in Projects : got'[l][p] \in {None, got[l][p]}
      /\ pc[l] = "clients" => /\ buckets' = buckets
                              /\ \A p \in Projects : clients[p] # None => clients'[p] # None
                              /\ pc'[l] = "buckets" => clients'[Project(at'[l])] # None
      /\ pc[l] = "buckets" => pc'[l] = "clients" /\ clients' = clients
                                /\ buckets' \subseteq buckets \cup {Project(at[l])}
  BY ClientsShape DEF ShapeInv, ClientsMove
<1>2. account = "gateway" /\ \A p : Cached(p)' = Cached(p)
  BY <1>1 DEF Cached, Backed, BackedBy, AccountSteps, TargetSteps
<1>3. ASSUME NEW p \in buckets' PROVE Cached(p)' /\ clients'[p] # None
  <2>1. CASE p \in buckets
    BY <1>1, <1>2, <2>1 DEF Backed, IInv, TypeOK
  <2>2. CASE p \notin buckets
    <3>1. pc[l] = "buckets" /\ p = Project(at[l]) /\ clients' = clients
      BY <1>1, <1>3, <2>2
    <3>2. Project(at[l]) \in Projects /\ got[l][Project(at[l])] # None
      BY <3>1, HereTypes DEF ShapeInv, GotShape, ShapeOf, IInv, TargetSteps
    <3> QED
      BY <1>2, <3>1, <3>2 DEF Backed, BackedBy
  <2> QED
    BY <2>1, <2>2
<1>4. ASSUME NEW m \in Logins PROVE BackedBy(m)'
  <2>1. CASE m = l
    <3>1. \A p \in Projects : got'[l][p] # None => Cached(p)'
      BY <1>1, <1>2 DEF Backed, BackedBy
    <3> QED
      BY <1>1, <1>2, <2>1, <3>1 DEF BackedBy, KeySteps, TargetSteps
  <2>2. CASE m # l
    <3>1. pc'[m] = "idle" /\ got'[m] = NoKeys
      BY <1>1, <2>2 DEF OneLogin, ShapeInv, GotShape, ShapeOf, TargetSteps
    <3> QED
      BY <3>1 DEF BackedBy, NoKeys, AccountSteps, KeySteps, TargetSteps
  <2> QED
    BY <2>1, <2>2
<1> QED
  BY <1>1, <1>2, <1>3, <1>4 DEF Backed

(* A restart makes a client for every project with a cached credential.    *)
LEMMA RestartBacked ==
  ASSUME IInv, Backed, Restart, "misread" \notin mishaps'
  PROVE  Backed'
<1>1. /\ UNCHANGED <<account, cache, buckets>> /\ pc' = [l \in Logins |-> "idle"]
      /\ got' = [l \in Logins |-> NoKeys]
  BY DEF Restart, stored
<1>2. ASSUME NEW p \in buckets PROVE clients'[p] # None
  <2>1. /\ p \in Projects /\ account = "gateway" /\ Cached(p)
    BY DEF Backed, IInv, TypeOK
  <2>2. Restored(p) # {} /\ Restored(p) \subseteq Keys
    <3>1. PICK n \in Names : cache[n] # None /\ cache[n].project = p
      BY <2>1 DEF Cached
    <3>2. cache[n].key \in Restored(p)
      BY <2>1, <3>1 DEF Restored
    <3>3. Restored(p) \subseteq Keys
      BY DEF Restored, IInv, TypeOK
    <3> QED
      BY <3>2, <3>3
  <2>3. clients'[p] \in Restored(p)
    BY <2>1, <2>2 DEF Restart, RestoreS3Clients, Note
  <2> QED
    BY <2>2, <2>3, NoneAssumption
<1>3. \A l \in Logins : BackedBy(l)'
  BY <1>1 DEF BackedBy, NoKeys, AccountSteps, KeySteps, TargetSteps
<1> QED
  BY <1>1, <1>2, <1>3 DEF Backed, Cached

LEMMA BackedStep == IInv /\ ShapeInv /\ BackedInv /\ [Next]_vars => BackedInv'
<1> SUFFICES ASSUME IInv, ShapeInv, BackedInv, [Next]_vars, NamesApart, Never(Mild)'
             PROVE  Backed'
  BY DEF BackedInv, NamesApart, Name, Project
<1>1. /\ Backed /\ OneLogin /\ out = "no"
      /\ mishaps' \cap {"store", "bare"} = {} /\ "misread" \notin mishaps'
  BY MishapsGrow, NeverFrame DEF BackedInv, IInv, Never, Mild, ShapeInv, LogoutNoted
<1>2. ASSUME NEW l \in Logins, SigningIn(l) PROVE Backed'
  BY <1>1, <1>2, SigningBacked
<1>3. ASSUME NEW l \in Logins, Reconcile(l) PROVE Backed'
  BY <1>1, <1>3, ReconcileBacked
<1>4. ASSUME NEW l \in Logins, SetS3Client(l) \/ SaveBuckets(l) PROVE Backed'
  BY <1>1, <1>4, ClientsBacked
<1>5. CASE PostLogout \/ ClearAuth
  BY <1>1, <1>5 DEF PostLogout, ClearAuth, Note, Never, Mild
<1>6. CASE Restart
  BY <1>1, <1>6, RestartBacked
<1>7. CASE Revoke \/ UNCHANGED vars
  <2>1. UNCHANGED <<stored, clients, local>>
    BY <1>7 DEF Revoke, vars
  <2> QED
    BY <1>1, <2>1 DEF stored, local, Backed, BackedBy, Cached, Project
<1> QED
  BY <1>2, <1>3, <1>4, <1>5, <1>6, <1>7 DEF Next

(* Every project with a bucket list has an S3 client, after any number of  *)
(* logins and restarts (initS3ClientsForProjects, RestoreS3Clients), for   *)
(* any number of projects and users whose projects do not share key names. *)
THEOREM ClientsForBuckets == Spec => []BucketsHaveClients
<1>1. Init => BackedInv
  BY DEF Init, BackedInv, Backed, BackedBy, NoKeys, AccountSteps, KeySteps, TargetSteps
<1>2. BackedInv => BucketsHaveClients
  BY DEF BackedInv, Backed, BucketsHaveClients, Mild
<1> QED
  BY <1>1, <1>2, Invariance, InitShape, ShapeStep, BackedStep, PTL DEF Spec

-----------------------------------------------------------------------------
(* What makes CookieIsPersisted inductive: a cookie about to be stored is  *)
(* the latest one.                                                         *)
ReadSteps   == {"saveSession", "syncGet", "syncSave"}
CookieHeld  ==
  /\ \A l \in Logins : pc[l] \in ReadSteps => seen[l] = "latest"
  /\ ~adrift /\ (\A l \in Logins : pc[l] \notin CookieSteps) => session \in {"none", "latest"}
CookieInv   == Never({"overlap"}) => CookieHeld

(* A step of the only login under way: it has read the latest cookie, or   *)
(* it or a later one will save the session, or the stored one is good.     *)
LEMMA CookieFrame ==
  ASSUME NEW l \in Logins, \A m \in Logins : m # l => pc'[m] = "idle",
         pc'[l] \in ReadSteps => seen'[l] = "latest",
         pc'[l] \notin CookieSteps => adrift' \/ session' \in {"none", "latest"}
  PROVE  CookieHeld'
BY DEF CookieHeld, ReadSteps, CookieSteps

(* So does one whose cookies nothing saves.                                *)
LEMMA UnsavedCookie ==
  ASSUME CookieHeld, NEW l \in Logins,
         \A m \in Logins : m # l => pc'[m] = "idle" /\ pc[m] = "idle",
         pc[l] \notin CookieSteps, pc'[l] \notin ReadSteps, Unsaved \/ UNCHANGED cookie
  PROVE  CookieHeld'
<1>1. adrift' \/ (session' = session /\ adrift' = adrift)
  BY DEF Unsaved, cookie
<1>2. adrift' \/ session' \in {"none", "latest"}
  <2>1. \A m \in Logins : pc[m] \notin CookieSteps
    BY DEF CookieSteps
  <2> QED
    BY <1>1, <2>1 DEF CookieHeld
<1> QED
  BY <1>2, CookieFrame

LEMMA SigningCookie ==
  ASSUME IInv, ShapeInv, OneLogin, CookieHeld, NEW l \in Logins, SigningIn(l),
         Never({"overlap"})'
  PROVE  CookieHeld'
<1>1. \A m \in Logins : m # l => pc'[m] = "idle" /\ pc[m] = "idle"
  <2>1. CASE Challenge(l)
    BY <2>1, ChallengeAlone, SigningMoves DEF Never
  <2>2. CASE ~Challenge(l)
    <3>1. pc[l] # "idle"
      BY <2>2 DEF SigningIn, SignIn, GetAccount, SaveLogin, SaveSession, SaveAccount,
                  GetProjects, ClearAllBuckets
    <3> QED
      BY <3>1, SigningMoves DEF OneLogin
  <2> QED
    BY <2>1, <2>2
<1> USE DEF Goto, ReadSteps, CookieSteps, IInv, TypeOK
<1>2. CASE Challenge(l)
  <2>1. CASE Goto(l, "signin")
    BY <1>1, <2>1, CookieFrame
  <2>2. CASE Unsaved /\ UNCHANGED pc
    BY <1>1, <1>2, <2>2, UnsavedCookie DEF Challenge
  <2> QED
    BY <1>2, <2>1, <2>2 DEF Challenge
<1>3. CASE SignIn(l) \/ GetAccount(l)
  <2>1. pc'[l] \in {"account", "saveLogin"} \/ (pc'[l] = "idle" /\ adrift')
    BY <1>3 DEF SignIn, GetAccount, LoginFails
  <2> QED
    BY <1>1, <2>1, CookieFrame
<1>4. CASE SaveLogin(l)
  <2>1. pc'[l] = "saveSession" /\ seen'[l] = "latest"
    BY <1>4 DEF SaveLogin, ReadCookie
  <2> QED
    BY <1>1, <2>1, CookieFrame
<1>5. CASE SaveSession(l)
  <2>1. pc'[l] \notin CookieSteps /\ (adrift' \/ session' = seen[l]) /\ seen[l] = "latest"
    BY <1>5 DEF SaveSession, WriteSession, CookieHeld
  <2> QED
    BY <1>1, <2>1, CookieFrame
<1>6. CASE SaveAccount(l) \/ GetProjects(l) \/ ClearAllBuckets(l)
  <2>1. /\ pc[l] \notin CookieSteps /\ pc'[l] \notin CookieSteps
        /\ Unsaved \/ UNCHANGED cookie
    BY <1>6 DEF SaveAccount, GetProjects, ClearAllBuckets
  <2> QED
    BY <1>1, <2>1, UnsavedCookie
<1> QED
  BY <1>2, <1>3, <1>4, <1>5, <1>6 DEF SigningIn

LEMMA ReconcileCookie ==
  ASSUME IInv, ShapeInv, OneLogin, CookieHeld, NEW l \in Logins, Reconcile(l)
  PROVE  CookieHeld'
<1>1. /\ \A m \in Logins : m # l => pc'[m] = "idle" /\ pc[m] = "idle"
      /\ pc[l] \in KeySteps
  BY ReconcileMoves, ReconcileOthers DEF OneLogin, KeySteps, TargetSteps
<1> USE DEF Goto, ReadSteps, CookieSteps, IInv, TypeOK
<1>2. CASE ForgeJWT(l)
  BY <1>1, <1>2, CookieFrame DEF ForgeJWT
<1>3. CASE SyncRefreshToken(l)
  BY <1>1, <1>3, CookieFrame DEF SyncRefreshToken, ReadCookie
<1>4. CASE SyncGetSession(l)
  <2>1. seen[l] = "latest" /\ seen' = seen /\ session' = session
    BY <1>4 DEF SyncGetSession, CookieHeld
  <2>2. \/ pc'[l] = "syncSave"
        \/ pc'[l] = "list" /\ (adrift' \/ session \in {"none", seen[l]})
    BY <1>4 DEF SyncGetSession
  <2> QED
    BY <1>1, <2>1, <2>2, CookieFrame
<1>5. CASE SyncSaveSession(l)
  <2>1. pc'[l] = "list" /\ (adrift' \/ session' = seen[l]) /\ seen[l] = "latest"
    BY <1>5 DEF SyncSaveSession, WriteSession, CookieHeld
  <2> QED
    BY <1>1, <2>1, CookieFrame
<1>6. CASE ListApiKeys(l) \/ GetCredential(l) \/ DeleteApiKey(l)
             \/ DropCredential(l) \/ CreateApiKey(l) \/ SaveCredential(l)
  <2>1. /\ pc[l] \in {"list", "lookup", "delete", "drop", "create", "saveCred"}
        /\ Unsaved \/ UNCHANGED cookie
    BY <1>6 DEF ListApiKeys, GetCredential, DeleteApiKey, DropCredential, CreateApiKey,
                SaveCredential
  <2>2. pc'[l] \notin ReadSteps
    <3>1. CASE Advance(l, got[l]) \/ Gets(l)
      BY <1>1, <3>1, GotTypes, GetsShape, AdvanceTypes DEF Gets, ShapeInv, CredTypes
    <3>2. CASE Stays(l)
      <4>1. ASSUME NEW g, Advance(l, g) PROVE pc'[l] \in {"clients", "forge"}
        BY <4>1 DEF Advance
      <4> QED
        BY <1>6, <4>1 DEF ListApiKeys, GetCredential, Compare, DeleteApiKey, DropCredential,
                          CreateApiKey, Retry, GiveUp, Take, SaveCredential
    <3> QED
      BY <3>1, <3>2, ReconcileMoves
  <2> QED
    BY <1>1, <2>1, <2>2, UnsavedCookie
<1> QED
  BY <1>2, <1>3, <1>4, <1>5, <1>6 DEF Reconcile

LEMMA CookieStep == IInv /\ ShapeInv /\ CookieInv /\ [Next]_vars => CookieInv'
<1> SUFFICES ASSUME IInv, ShapeInv, CookieInv, [Next]_vars, Never({"overlap"})'
             PROVE  CookieHeld'
  BY DEF CookieInv
<1>1. CookieHeld /\ OneLogin
  BY MishapsGrow, NeverFrame DEF CookieInv, IInv
<1>2. ASSUME NEW l \in Logins, SigningIn(l) PROVE CookieHeld'
  BY <1>1, <1>2, SigningCookie
<1>3. ASSUME NEW l \in Logins, Reconcile(l) PROVE CookieHeld'
  BY <1>1, <1>3, ReconcileCookie
<1>4. ASSUME NEW l \in Logins, SetS3Client(l) \/ SaveBuckets(l) PROVE CookieHeld'
  <2>1. /\ \A m \in Logins : m # l => pc'[m] = "idle" /\ pc[m] = "idle"
        /\ pc[l] \in {"clients", "buckets"} /\ pc'[l] \in {"idle", "clients", "buckets"}
    BY <1>1, <1>4, ClientsShape DEF ShapeInv, ClientsMove, OneLogin
  <2>2. UNCHANGED cookie
    BY <1>4 DEF SetS3Client, SaveBuckets
  <2> QED
    BY <1>1, <2>1, <2>2, UnsavedCookie DEF CookieSteps, ReadSteps
<1>5. CASE PostLogout \/ ClearAuth \/ Revoke \/ UNCHANGED vars
  <2>1. UNCHANGED <<local, seen, adrift>> /\ session' \in {session, "none"}
    BY <1>5 DEF PostLogout, ClearAuth, Revoke, vars, cookie
  <2> QED
    BY <1>1, <2>1 DEF CookieHeld, local
<1>6. CASE Restart
  <2>1. /\ session' = session /\ \A l \in Logins : pc'[l] = "idle"
        /\ ~adrift' => ~adrift /\ \A l \in Logins : pc[l] \notin CookieSteps
    BY <1>6 DEF Restart
  <2> QED
    BY <1>1, <2>1 DEF CookieHeld, ReadSteps
<1> QED
  BY <1>2, <1>3, <1>4, <1>5, <1>6 DEF Next

(* Outside the steps that save a new refresh cookie (SaveLogin,            *)
(* SyncRefreshToken) the stored one is the latest that has come with any   *)
(* answer, unless one came with a request that none of them follows or a   *)
(* failure or a kill kept one of them from its end since a session was     *)
(* last saved: through logouts and restarts, for any number of logins one  *)
(* after the other.                                                        *)
THEOREM CookieKept == Spec => []CookieIsPersisted
<1>1. Init => CookieInv
  BY DEF Init, CookieInv, CookieHeld, ReadSteps
<1>2. CookieInv => CookieIsPersisted
  BY DEF CookieInv, CookieHeld, CookieIsPersisted
<1> QED
  BY <1>1, <1>2, Invariance, InitShape, ShapeStep, CookieStep, PTL DEF Spec

=============================================================================
