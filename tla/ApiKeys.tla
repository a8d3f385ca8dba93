------------------------------- MODULE ApiKeys -------------------------------
(***************************************************************************)
(* Service accounts and their API keys: administration by calls that read  *)
(* first and write later, and validation on every request.  Permissions    *)
(* (scopes or the role of the account) are left out: no property tells     *)
(* them apart.                                                             *)
(***************************************************************************)
EXTENDS Naturals, FiniteSets

CONSTANTS
  Accounts,   \* calls of CreateServiceAccount, and the accounts they create
  Keys,       \* calls of CreateAPIKey, and the keys they create
  Editors,    \* calls of UpdateServiceAccount, DeleteServiceAccount, RevokeAPIKey
  Requests,   \* requests that come with a key
  Addresses,  \* client addresses
  Allowed,    \* the addresses an allowlist names
  MaxClock,   \* bound on the clock
  Absent

ASSUME CallersDisjoint ==
  /\ Keys \cap (Editors \cup Requests) = {} /\ Editors \cap Requests = {}
ASSUME ClockBound == MaxClock \in Nat
ASSUME AllowedAssumption == Allowed \subseteq Addresses

VARIABLES
  kpc, karg,
  account,    \* table service_accounts: the status of each row
  key,        \* table api_keys
  lastUsed,   \* its column last_used_at
  clock,
  decided,    \* history: the status last asked for
  crossed,    \* history: accounts on which two updates overlapped
  open        \* history: requests whose key was usable since they arrived

rows == <<account, key, lastUsed>>
keyHistory == <<decided, crossed, open>>
keyVars == <<kpc, karg, rows, clock, keyHistory>>

Statuses == {"active", "suspended", "revoked"}
Callers == Keys \cup Editors \cup Requests
Labels == {"idle", "insert", "write", "revoke", "lookup", "decide", "usage", "ok", "refused"}

KeyRow == [account : Accounts, status : {"active", "revoked", "deleted"},
           expires : Nat \cup {Absent}, allowlist : SUBSET Addresses]
ASSUME AbsentAssumption ==
  /\ Absent \notin Accounts \cup Keys \cup Statuses \cup {"deleted"}
  /\ Absent \notin Nat /\ Absent \notin KeyRow

NoArgs == [account |-> Absent, status |-> Absent, asked |-> Absent, key |-> Absent,
           address |-> Absent, row |-> Absent, live |-> FALSE, time |-> Absent]

KeyInit ==
  /\ kpc = [c \in Callers |-> "idle"]
  /\ karg = [c \in Callers |-> NoArgs]
  /\ account = [a \in Accounts |-> Absent]
  /\ key = [k \in Keys |-> Absent]
  /\ lastUsed = [k \in Keys |-> Absent]
  /\ clock = 0
  /\ decided = [a \in Accounts |-> Absent]
  /\ crossed = {} /\ open = {}

Move(c, label, r) ==
  /\ kpc' = [kpc EXCEPT ![c] = label]
  /\ karg' = [karg EXCEPT ![c] = r]

\* There is a row for a in the table, or for k.
Exists(a) == account[a] \in Statuses
Stored(k) == key[k] # Absent /\ key[k].status # "deleted"

-----------------------------------------------------------------------------
(* Administration.                                                         *)

CreateServiceAccount(a) ==
  /\ account[a] = Absent
  /\ account' = [account EXCEPT ![a] = "active"]
  /\ decided' = [decided EXCEPT ![a] = "active"]
  /\ UNCHANGED <<kpc, karg, key, lastUsed, clock, crossed>>

\* An update of a is between its read and its write.
Updating(e, a) == kpc[e] = "write" /\ karg[e].account = a

\* Mutant: a request without a status means active.
StatusToWriteActive(a, asked) == IF asked = Absent THEN "active" ELSE asked

\* UpdateServiceAccount: a request that names no status keeps the one read.
StatusToWrite(a, asked) == IF asked = Absent THEN account[a] ELSE asked

\* UpdateServiceAccount up to the UPDATE.
ReadAccount(e) ==
  /\ kpc[e] = "idle"
  /\ \E a \in Accounts, s \in Statuses \cup {Absent} :
       /\ Move(e, IF Exists(a) THEN "write" ELSE "refused",
               [NoArgs EXCEPT !.account = a, !.asked = s, !.status = StatusToWrite(a, s)])
       /\ crossed' = IF \E d \in Editors : Updating(d, a) THEN crossed \cup {a} ELSE crossed
  /\ UNCHANGED <<rows, clock, decided>>

\* The UPDATE writes every column from the copy; no row is ErrNotFound.
UpdateServiceAccount(e) ==
  LET a == karg[e].account IN
  /\ kpc[e] = "write"
  /\ IF Exists(a)
       THEN /\ account' = [account EXCEPT ![a] = karg[e].status]
            /\ decided' = IF karg[e].asked = Absent THEN decided
                          ELSE [decided EXCEPT ![a] = karg[e].asked]
            /\ Move(e, "ok", NoArgs)
       ELSE Move(e, "refused", NoArgs) /\ UNCHANGED <<account, decided>>
  /\ UNCHANGED <<key, lastUsed, clock, crossed>>

\* DeleteServiceAccount: the foreign key takes the keys with the account.
DeleteServiceAccount(e) ==
  /\ kpc[e] = "idle"
  /\ \E a \in Accounts :
       /\ Exists(a)
       /\ account' = [account EXCEPT ![a] = "deleted"]
       /\ key' = [k \in Keys |-> IF Stored(k) /\ key[k].account = a
                                   THEN [key[k] EXCEPT !.status = "deleted"] ELSE key[k]]
  /\ Move(e, "ok", NoArgs)
  /\ UNCHANGED <<lastUsed, clock, decided, crossed>>

\* CreateAPIKey up to the INSERT: the account must be active.
CheckAccount(k) ==
  /\ kpc[k] = "idle"
  /\ \E a \in Accounts :
       Move(k, IF account[a] = "active" THEN "insert" ELSE "refused",
            [NoArgs EXCEPT !.account = a])
  /\ UNCHANGED <<rows, clock, decided, crossed>>

\* Mutant: no foreign key to service_accounts.
CreateAPIKeyNoReference(k) ==
  /\ kpc[k] = "insert"
  /\ \E x \in 0..MaxClock \cup {Absent}, l \in {{}, Allowed} :
       key' = [key EXCEPT ![k] = [account |-> karg[k].account, status |-> "active",
                                  expires |-> x, allowlist |-> l]]
  /\ Move(k, "ok", NoArgs)
  /\ UNCHANGED <<account, lastUsed, clock, decided, crossed>>

\* The INSERT of CreateAPIKey: refused when the account has gone.
CreateAPIKey(k) ==
  /\ kpc[k] = "insert"
  /\ IF Exists(karg[k].account)
       THEN /\ \E x \in 0..MaxClock \cup {Absent}, l \in {{}, Allowed} :
                 key' = [key EXCEPT ![k] = [account |-> karg[k].account, status |-> "active",
                                            expires |-> x, allowlist |-> l]]
            /\ Move(k, "ok", NoArgs)
       ELSE Move(k, "refused", NoArgs) /\ UNCHANGED key
  /\ UNCHANGED <<account, lastUsed, clock, decided, crossed>>

\* RevokeAPIKey up to the UPDATE: the key belongs to the account in the path.
ReadKey(e) ==
  /\ kpc[e] = "idle"
  /\ \E k \in Keys, a \in Accounts :
       Move(e, IF Stored(k) /\ key[k].account = a THEN "revoke" ELSE "refused",
            [NoArgs EXCEPT !.key = k])
  /\ UNCHANGED <<rows, clock, decided, crossed>>

\* UPDATE ... SET status = 'revoked' WHERE status = 'active'.
RevokeAPIKey(e) ==
  LET k == karg[e].key IN
  /\ kpc[e] = "revoke"
  /\ IF key[k].status = "active"
       THEN /\ key' = [key EXCEPT ![k].status = "revoked"]
            /\ Move(e, "ok", NoArgs)
       ELSE Move(e, "refused", NoArgs) /\ UNCHANGED key
  /\ UNCHANGED <<account, lastUsed, clock, decided, crossed>>

-----------------------------------------------------------------------------
(* Validation.                                                             *)

\* APIKey.IsActive: a key is good up to and including its last instant.
IsActive(row, time) == row.status = "active" /\ (row.expires = Absent \/ time <= row.expires)

\* The key could be used now.
Usable(k) == Stored(k) /\ account[key[k].account] = "active" /\ IsActive(key[k], clock)

\* ValidateIP: no list lets everybody in; an address that does not parse (Absent,
\* what the RPC interceptors pass) is on no list.
ValidateIP(address, list) == list = {} \/ address \in list

\* r presents a key that was handed out, from address x.
Present(r, x) ==
  /\ kpc[r] = "idle"
  /\ \E k \in Keys :
       /\ key[k] # Absent
       /\ Move(r, "lookup", [NoArgs EXCEPT !.key = k, !.address = x])
  /\ UNCHANGED <<rows, clock, decided, crossed>>

\* AuthRequired passes the address of the HTTP client, the RPC interceptors none.
ArriveHTTP(r) == \E x \in Addresses : Present(r, x)
ArriveRPC(r) == Present(r, Absent)

\* GetAPIKeyByHash: key and account in one query.
GetAPIKeyByHash(r) ==
  LET k == karg[r].key IN
  /\ kpc[r] = "lookup"
  /\ IF Stored(k)
       THEN Move(r, "decide", [karg[r] EXCEPT !.row = key[k],
                               !.live = account[key[k].account] = "active"])
       ELSE Move(r, "refused", NoArgs)
  /\ UNCHANGED <<rows, clock, decided, crossed>>

\* Mutant: the status of the key is not looked at.
AdmitsRevoked(r) ==
  /\ karg[r].row.expires = Absent \/ clock <= karg[r].row.expires
  /\ karg[r].live
  /\ ValidateIP(karg[r].address, karg[r].row.allowlist)

\* The checks of ValidateAPIKey, on the copy.
Admits(r) ==
  /\ IsActive(karg[r].row, clock)
  /\ karg[r].live
  /\ ValidateIP(karg[r].address, karg[r].row.allowlist)

\* ValidateAPIKey: the clock is read after the query.  The request goes on and
\* leaves a goroutine behind that records the use.
ValidateAPIKey(r) ==
  /\ kpc[r] = "decide"
  /\ IF Admits(r)
       THEN Move(r, "usage", [karg[r] EXCEPT !.row = Absent, !.time = clock])
       ELSE Move(r, "refused", NoArgs)
  /\ UNCHANGED <<rows, clock, decided, crossed>>

\* UpdateAPIKeyUsage, in the goroutine: the row may have gone by now.
UpdateAPIKeyUsage(r) ==
  LET k == karg[r].key IN
  /\ kpc[r] = "usage"
  /\ lastUsed' = IF Stored(k) THEN [lastUsed EXCEPT ![k] = karg[r].time] ELSE lastUsed
  /\ Move(r, "ok", karg[r])
  /\ UNCHANGED <<account, key, clock, decided, crossed>>

KeyTick ==
  /\ clock < MaxClock
  /\ clock' = clock + 1
  /\ UNCHANGED <<kpc, karg, rows, decided, crossed>>

-----------------------------------------------------------------------------
AccountStep ==
  \/ \E a \in Accounts : CreateServiceAccount(a)
  \/ \E e \in Editors : \/ ReadAccount(e) \/ UpdateServiceAccount(e)
                        \/ DeleteServiceAccount(e) \/ ReadKey(e) \/ RevokeAPIKey(e)
  \/ \E k \in Keys : CheckAccount(k) \/ CreateAPIKey(k)

RequestStep(r) == \/ ArriveHTTP(r) \/ ArriveRPC(r) \/ GetAPIKeyByHash(r) \/ ValidateAPIKey(r)
                  \/ UpdateAPIKeyUsage(r)

\* The history variable open is brought up to date by every step.
KeyNext ==
  /\ AccountStep \/ (\E r \in Requests : RequestStep(r)) \/ KeyTick
  /\ open' = open \cup {r \in Requests : kpc'[r] = "lookup" /\ Usable(karg[r].key)'}

KeySpec == KeyInit /\ [][KeyNext]_keyVars

-----------------------------------------------------------------------------
\* Every variable has its type: rows, locals of the calls, the usage columns.
KeyTypeOK ==
  /\ kpc \in [Callers -> Labels]
  /\ account \in [Accounts -> Statuses \cup {"deleted", Absent}]
  /\ key \in [Keys -> KeyRow \cup {Absent}]
  /\ lastUsed \in [Keys -> Nat \cup {Absent}]
  /\ clock \in Nat
  /\ decided \in [Accounts -> Statuses \cup {Absent}]
  /\ crossed \subseteq Accounts /\ open \subseteq Requests

\* A request is let in only if its key was usable at some moment between its
\* arrival and its admission: after a revocation, a deletion, the expiry or a
\* suspension of the account, no request that arrives later gets in
\* (ValidateAPIKey decides on a copy).
EntryWasOpen ==
  \A r \in Requests : kpc[r] \in {"usage", "ok"} => r \in open

\* The status of an account is the one last asked for, unless two updates
\* overlapped: UpdateServiceAccount writes back every column it has read.
StatusAsDecided ==
  \A a \in Accounts : Exists(a) /\ a \notin crossed => account[a] = decided[a]

\* A key that is stored has its account, however its creation interleaves with
\* a deletion (CreateAPIKey checks first and inserts later).
KeysHaveAccounts == \A k \in Keys : Stored(k) => Exists(key[k].account)

\* last_used_at of a key is the time of a request that was let in with it.
UsageIsTrue ==
  \A k \in Keys : lastUsed[k] # Absent =>
    \E r \in Requests : kpc[r] = "ok" /\ karg[r].key = k /\ karg[r].time = lastUsed[k]

\* The rows of accounts and keys say what happened: an account has the status it
\* was given (UpdateServiceAccount), a key the time of a use (the goroutine of
\* ValidateAPIKey).
KeyRowsAreTrue == StatusAsDecided /\ UsageIsTrue
=============================================================================
