---------------------------- MODULE AccessProofs ----------------------------
(***************************************************************************)
(* TLAPS proofs about ApiKeys, RateLimiter and AccessControl, for any       *)
(* number of calls, accounts, keys, roles and requests.  The components     *)
(* share no state; each has an inductive invariant of its own.              *)
(***************************************************************************)
EXTENDS MCAccess, FiniteSetTheorems, SequenceTheorems, WellFoundedInduction, TLAPS

-----------------------------------------------------------------------------
(* API keys.                                                               *)

\* What a call keeps between its steps.
KeyArg ==
  [account : Accounts \cup {Absent}, status : Statuses \cup {"deleted", Absent},
   asked : Statuses \cup {Absent}, key : Keys \cup {Absent},
   address : Addresses \cup {Absent}, row : KeyRow \cup {Absent},
   live : BOOLEAN, time : Nat \cup {Absent}]

KeyArgsTyped == karg \in [Callers -> KeyArg]

\* Past its first statement a call has what that statement found.
EditorPlaces ==
  \A e \in Editors :
    /\ kpc[e] = "write" => /\ karg[e].account \in Accounts /\ karg[e].status \in Statuses
                           /\ account[karg[e].account] # Absent
    /\ kpc[e] = "revoke" => karg[e].key \in Keys /\ key[karg[e].key] \in KeyRow
KeyPlaces == \A k \in Keys : kpc[k] = "insert" => karg[k].account \in Accounts
RequestPlaces ==
  \A r \in Requests :
    /\ kpc[r] \in {"lookup", "decide", "usage", "ok"} => karg[r].key \in Keys
    /\ kpc[r] = "lookup" => key[karg[r].key] \in KeyRow
    /\ kpc[r] = "decide" => karg[r].row \in KeyRow
    /\ kpc[r] = "usage" => karg[r].time \in Nat

\* A request that would be let in now has been open: between its arrival and its
\* query because the key is usable, after the query because the copy was.
OpenSeen ==
  \A r \in Requests :
    /\ kpc[r] = "lookup" /\ Usable(karg[r].key) => r \in open
    /\ kpc[r] = "decide" /\ karg[r].live /\ IsActive(karg[r].row, clock) => r \in open

\* Without an overlap an account has one update at a time, which holds the
\* status of the row or the one it was asked for.
OneUpdate ==
  \A a \in Accounts \ crossed : \A e \in Editors : Updating(e, a) =>
    /\ \A d \in Editors : Updating(d, a) => d = e
    /\ karg[e].asked # Absent => karg[e].status = karg[e].asked
    /\ karg[e].asked = Absent /\ Exists(a) => karg[e].status = account[a]

\* The inductive invariant of ApiKeys.
KeyInv ==
  /\ KeyTypeOK
  /\ KeyArgsTyped
  /\ EditorPlaces
  /\ KeyPlaces
  /\ RequestPlaces
  /\ KeysHaveAccounts
  /\ OpenSeen
  /\ EntryWasOpen
  /\ OneUpdate
  /\ StatusAsDecided
  /\ UsageIsTrue

\* What open becomes in a step.
OpenNext == open' = open \cup {r \in Requests : kpc'[r] = "lookup" /\ Usable(karg[r].key)'}

LEMMA KeyInitInv ==
  ASSUME KeyInit
  PROVE  KeyInv
<1> USE DEF KeyInit
<1>1. NoArgs \in KeyArg BY DEF NoArgs, KeyArg
<1>2. KeyTypeOK BY DEF KeyTypeOK, Labels
<1>3. KeyArgsTyped BY <1>1 DEF KeyArgsTyped
<1>4. \A c \in Callers : kpc[c] = "idle" OBVIOUS
<1>5. EditorPlaces /\ KeyPlaces /\ RequestPlaces /\ OpenSeen /\ EntryWasOpen
  BY <1>4 DEF Callers, EditorPlaces, KeyPlaces, RequestPlaces, OpenSeen, EntryWasOpen
<1>6. KeysHaveAccounts BY DEF KeysHaveAccounts, Stored
<1>7. OneUpdate BY <1>4 DEF OneUpdate, Updating, Callers
<1>8. StatusAsDecided BY AbsentAssumption DEF StatusAsDecided, Exists
<1>9. UsageIsTrue BY DEF UsageIsTrue
<1> QED BY <1>2, <1>3, <1>5, <1>6, <1>7, <1>8, <1>9 DEF KeyInv

\* Only c moves, and it has the locals of a call again.
OnlyCaller(c) ==
  /\ kpc' \in [Callers -> Labels]
  /\ karg' \in [Callers -> KeyArg]
  /\ \A d \in Callers : d # c => kpc'[d] = kpc[d] /\ karg'[d] = karg[d]

LEMMA MoveTyped ==
  ASSUME KeyInv, NEW c \in Callers, NEW label \in Labels, NEW r \in KeyArg, Move(c, label, r)
  PROVE  OnlyCaller(c) /\ kpc'[c] = label /\ karg'[c] = r
BY DEF KeyInv, KeyTypeOK, KeyArgsTyped, Move, OnlyCaller

LEMMA NoArgsTyped == NoArgs \in KeyArg
BY DEF NoArgs, KeyArg

\* What a row of api_keys is.
LEMMA KeyRowTyped ==
  ASSUME KeyInv, NEW k \in Keys
  PROVE  /\ key[k] # Absent <=> key[k] \in KeyRow
         /\ Stored(k) => key[k] \in KeyRow /\ key[k].account \in Accounts
BY AbsentAssumption DEF KeyInv, KeyTypeOK, Stored, KeyRow

\* The rows stay: what an administrator's step must keep for the requests.
LEMMA BystandersKeep ==
  ASSUME KeyInv, OpenNext, NEW c \in Callers \ Requests, OnlyCaller(c),
         clock' = clock, lastUsed' = lastUsed,
         \A k \in Keys : key[k] \in KeyRow => key'[k] \in KeyRow
  PROVE  RequestPlaces' /\ OpenSeen' /\ EntryWasOpen' /\ UsageIsTrue'
<1>1. \A r \in Requests : kpc'[r] = kpc[r] /\ karg'[r] = karg[r]
  BY DEF OnlyCaller, Callers
<1>2. RequestPlaces' BY <1>1 DEF KeyInv, RequestPlaces
<1>3. OpenSeen' BY <1>1 DEF KeyInv, OpenSeen, OpenNext, IsActive, Callers
<1>4. EntryWasOpen' BY <1>1 DEF KeyInv, EntryWasOpen, OpenNext
<1>5. UsageIsTrue' BY <1>1 DEF KeyInv, UsageIsTrue
<1> QED BY <1>2, <1>3, <1>4, <1>5

LEMMA CreateServiceAccountKeeps ==
  ASSUME KeyInv, OpenNext, NEW a \in Accounts, CreateServiceAccount(a)
  PROVE  KeyInv'
<1> USE DEF CreateServiceAccount
<1>1. KeyTypeOK' BY DEF KeyInv, KeyTypeOK, OpenNext, Statuses
<1>2. KeyArgsTyped' /\ KeyPlaces' /\ RequestPlaces'
  BY DEF KeyInv, KeyArgsTyped, KeyPlaces, RequestPlaces
<1>3. /\ account'[a] = "active" /\ decided'[a] = "active"
      /\ \A b \in Accounts \ {a} : account'[b] = account[b] /\ decided'[b] = decided[b]
      /\ ~ Exists(a)
  BY AbsentAssumption DEF KeyInv, KeyTypeOK, Exists
<1>4. KeysHaveAccounts'
  BY <1>3, KeyRowTyped DEF KeyInv, KeysHaveAccounts, Stored, Exists
<1>5. OpenSeen' /\ EntryWasOpen' /\ UsageIsTrue'
  BY DEF KeyInv, OpenSeen, OpenNext, EntryWasOpen, IsActive, UsageIsTrue
<1>6. OneUpdate'
  <2> SUFFICES ASSUME NEW b \in Accounts \ crossed, NEW e \in Editors, Updating(e, b)
               PROVE  /\ \A d \in Editors : Updating(d, b) => d = e
                      /\ karg[e].asked # Absent => karg[e].status = karg[e].asked
                      /\ karg[e].asked = Absent /\ Exists(b)' => karg[e].status = account'[b]
    BY DEF OneUpdate, Updating
  <2>1. b # a BY DEF KeyInv, EditorPlaces, Updating
  <2> QED BY <2>1, <1>3 DEF KeyInv, OneUpdate, Exists
<1>7. StatusAsDecided' BY <1>3 DEF KeyInv, StatusAsDecided, Exists
<1>8. EditorPlaces' BY <1>3, AbsentAssumption DEF KeyInv, EditorPlaces, Statuses
<1> QED BY <1>1, <1>2, <1>4, <1>5, <1>6, <1>7, <1>8 DEF KeyInv

LEMMA ReadAccountKeeps ==
  ASSUME KeyInv, OpenNext, NEW e \in Editors, ReadAccount(e)
  PROVE  KeyInv'
<1>1. PICK a \in Accounts, s \in Statuses \cup {Absent} :
        /\ Move(e, IF Exists(a) THEN "write" ELSE "refused",
                [NoArgs EXCEPT !.account = a, !.asked = s, !.status = StatusToWrite(a, s)])
        /\ crossed' = IF \E d \in Editors : Updating(d, a) THEN crossed \cup {a} ELSE crossed
  BY DEF ReadAccount
<1> DEFINE label == IF Exists(a) THEN "write" ELSE "refused"
           r == [NoArgs EXCEPT !.account = a, !.asked = s, !.status = StatusToWrite(a, s)]
<1>2. r \in KeyArg /\ label \in Labels /\ e \in Callers \ Requests
  BY CallersDisjoint DEF KeyInv, KeyTypeOK, NoArgs, KeyArg, StatusToWrite, Labels, Callers
<1>3. r.account = a /\ r.asked = s /\ r.status = StatusToWrite(a, s)
  BY DEF NoArgs
<1>4. /\ UNCHANGED <<account, key, lastUsed, clock, decided>> /\ kpc[e] = "idle"
  BY DEF ReadAccount, rows
<1> HIDE DEF r, label
<1>5. OnlyCaller(e) /\ kpc'[e] = label /\ karg'[e] = r
  BY <1>1, <1>2, MoveTyped DEF r, label
<1>6. KeyTypeOK' /\ KeyArgsTyped'
  BY <1>1, <1>4, <1>5 DEF KeyInv, KeyTypeOK, KeyArgsTyped, OnlyCaller, OpenNext
<1>7. \A d \in Editors \cup Keys : d # e => kpc'[d] = kpc[d] /\ karg'[d] = karg[d]
  BY <1>5 DEF OnlyCaller, Callers
<1>8. EditorPlaces'
  <2>1. Exists(a) => StatusToWrite(a, s) \in Statuses /\ account[a] # Absent
    BY AbsentAssumption DEF StatusToWrite, Exists
  <2> QED BY <1>3, <1>4, <1>5, <1>7, <2>1 DEF KeyInv, EditorPlaces, label
<1>9. KeyPlaces' BY <1>7, CallersDisjoint DEF KeyInv, KeyPlaces
<1>10. RequestPlaces' /\ OpenSeen' /\ EntryWasOpen' /\ UsageIsTrue'
  BY <1>2, <1>4, <1>5, BystandersKeep
<1>11. KeysHaveAccounts' BY <1>4 DEF KeyInv, KeysHaveAccounts, Stored, Exists
<1>12. OneUpdate'
  <2> SUFFICES ASSUME NEW b \in Accounts \ crossed', NEW f \in Editors, Updating(f, b)'
               PROVE  /\ \A d \in Editors : Updating(d, b)' => d = f
                      /\ karg'[f].asked # Absent => karg'[f].status = karg'[f].asked
                      /\ karg'[f].asked = Absent /\ Exists(b) => karg'[f].status = account[b]
    BY <1>4 DEF OneUpdate, Exists
  <2>1. b \in Accounts \ crossed BY <1>1
  <2>2. \A d \in Editors \ {e} : Updating(d, b)' <=> Updating(d, b)
    BY <1>7 DEF Updating
  <2>3. CASE b # a
    <3>1. ~ Updating(e, b)' BY <2>3, <1>3, <1>5 DEF Updating
    <3> QED BY <3>1, <2>1, <2>2, <1>7 DEF KeyInv, OneUpdate
  <2>4. CASE b = a
    <3>1. \A d \in Editors : ~ Updating(d, b) BY <2>4, <1>1
    <3>2. f = e /\ \A d \in Editors : Updating(d, b)' => d = e BY <3>1, <2>2
    <3> QED BY <2>4, <3>2, <1>3, <1>5 DEF StatusToWrite
  <2> QED BY <2>3, <2>4
<1>13. StatusAsDecided' BY <1>1, <1>4 DEF KeyInv, StatusAsDecided, Exists
<1> QED BY <1>6, <1>8, <1>9, <1>10, <1>11, <1>12, <1>13 DEF KeyInv

LEMMA UpdateServiceAccountKeeps ==
  ASSUME KeyInv, OpenNext, NEW e \in Editors, UpdateServiceAccount(e)
  PROVE  KeyInv'
<1> DEFINE a == karg[e].account
<1>1. /\ kpc[e] = "write" /\ UNCHANGED <<key, lastUsed, clock, crossed>>
      /\ Move(e, IF Exists(a) THEN "ok" ELSE "refused", NoArgs)
      /\ account' = IF Exists(a) THEN [account EXCEPT ![a] = karg[e].status] ELSE account
      /\ decided' = IF ~ Exists(a) \/ karg[e].asked = Absent THEN decided
                    ELSE [decided EXCEPT ![a] = karg[e].asked]
  BY DEF UpdateServiceAccount
<1>2. a \in Accounts /\ karg[e].status \in Statuses /\ account[a] # Absent
  BY <1>1 DEF KeyInv, EditorPlaces
<1>3. e \in Callers \ Requests /\ karg[e] \in KeyArg
  BY CallersDisjoint DEF Callers, KeyInv, KeyArgsTyped
<1>4. karg[e].asked \in Statuses \cup {Absent} BY <1>3 DEF KeyArg
<1>5. Updating(e, a) BY <1>1 DEF Updating
<1> HIDE DEF a
<1>6. OnlyCaller(e) /\ kpc'[e] \in {"ok", "refused"} /\ karg'[e] = NoArgs
  <2>1. (IF Exists(a) THEN "ok" ELSE "refused") \in Labels BY DEF Labels
  <2> QED BY <1>1, <1>3, <2>1, NoArgsTyped, MoveTyped
<1>7. KeyTypeOK' /\ KeyArgsTyped'
  BY <1>1, <1>2, <1>4, <1>6 DEF KeyInv, KeyTypeOK, KeyArgsTyped, OnlyCaller, OpenNext
<1>8. \A d \in Editors \cup Keys : d # e => kpc'[d] = kpc[d] /\ karg'[d] = karg[d]
  BY <1>6 DEF OnlyCaller, Callers
<1>9. /\ \A b \in Accounts : b # a => account'[b] = account[b] /\ decided'[b] = decided[b]
      /\ Exists(a) => account'[a] = karg[e].status
      /\ Exists(a) /\ karg[e].asked # Absent => decided'[a] = karg[e].asked
      /\ Exists(a) /\ karg[e].asked = Absent => decided'[a] = decided[a]
      /\ ~ Exists(a) => account'[a] = account[a] /\ decided'[a] = decided[a]
  BY <1>1, <1>2 DEF KeyInv, KeyTypeOK
<1>10. \A b \in Accounts : (Exists(b)' <=> Exists(b)) /\ (account[b] # Absent => account'[b] # Absent)
  BY <1>2, <1>9, AbsentAssumption DEF Exists
<1>11. EditorPlaces' BY <1>1, <1>6, <1>8, <1>10 DEF KeyInv, EditorPlaces
<1>12. KeyPlaces' BY <1>8, CallersDisjoint DEF KeyInv, KeyPlaces
<1>13. RequestPlaces' /\ OpenSeen' /\ EntryWasOpen' /\ UsageIsTrue'
  BY <1>1, <1>3, <1>6, BystandersKeep
<1>14. KeysHaveAccounts' BY <1>1, <1>10, KeyRowTyped DEF KeyInv, KeysHaveAccounts, Stored
<1>15. \A d \in Editors, b \in Accounts : Updating(d, b)' => d # e /\ Updating(d, b)
  BY <1>6, <1>8 DEF Updating
<1>16. OneUpdate'
  <2> SUFFICES ASSUME NEW b \in Accounts \ crossed, NEW f \in Editors, Updating(f, b)'
               PROVE  /\ \A d \in Editors : Updating(d, b)' => d = f
                      /\ karg'[f].asked # Absent => karg'[f].status = karg'[f].asked
                      /\ karg'[f].asked = Absent /\ Exists(b)' => karg'[f].status = account'[b]
    BY <1>1 DEF OneUpdate
  <2>1. f # e /\ Updating(f, b) BY <1>15
  <2>2. b # a BY <2>1, <1>5 DEF KeyInv, OneUpdate
  <2> QED BY <2>1, <2>2, <1>8, <1>9, <1>10, <1>15 DEF KeyInv, OneUpdate
<1>17. StatusAsDecided'
  <2> SUFFICES ASSUME NEW b \in Accounts \ crossed, Exists(b)
               PROVE  account'[b] = decided'[b]
    BY <1>1, <1>10 DEF StatusAsDecided
  <2>1. account[b] = decided[b] BY DEF KeyInv, StatusAsDecided
  <2>2. CASE b = a
    <3>1. /\ karg[e].asked # Absent => karg[e].status = karg[e].asked
          /\ karg[e].asked = Absent => karg[e].status = account[a]
      BY <2>2, <1>5 DEF KeyInv, OneUpdate
    <3> QED BY <2>1, <2>2, <3>1, <1>9
  <2> QED BY <2>1, <2>2, <1>9
<1> QED BY <1>7, <1>11, <1>12, <1>13, <1>14, <1>16, <1>17 DEF KeyInv

\* A caller that is not left with an update leaves the updates alone.
LEMMA UpdatesKeep ==
  ASSUME KeyInv, NEW c \in Callers, OnlyCaller(c), c \in Editors => kpc'[c] # "write",
         UNCHANGED <<decided, crossed>>,
         \A a \in Accounts : account'[a] = account[a] \/ account'[a] = "deleted"
  PROVE  OneUpdate' /\ StatusAsDecided'
<1>1. \A d \in Editors, b \in Accounts :
        Updating(d, b)' => Updating(d, b) /\ karg'[d] = karg[d]
  BY DEF Updating, OnlyCaller, Callers
<1>2. \A b \in Accounts : Exists(b)' => Exists(b) /\ account'[b] = account[b]
  BY DEF Exists, Statuses
<1>3. OneUpdate' BY <1>1, <1>2 DEF KeyInv, OneUpdate
<1>4. StatusAsDecided' BY <1>2 DEF KeyInv, StatusAsDecided
<1> QED BY <1>3, <1>4

LEMMA DeleteServiceAccountKeeps ==
  ASSUME KeyInv, OpenNext, NEW e \in Editors, DeleteServiceAccount(e)
  PROVE  KeyInv'
<1>1. PICK a \in Accounts :
        /\ Exists(a)
        /\ account' = [account EXCEPT ![a] = "deleted"]
        /\ key' = [k \in Keys |-> IF Stored(k) /\ key[k].account = a
                                     THEN [key[k] EXCEPT !.status = "deleted"] ELSE key[k]]
  BY DEF DeleteServiceAccount
<1>2. /\ kpc[e] = "idle" /\ Move(e, "ok", NoArgs)
      /\ UNCHANGED <<lastUsed, clock, decided, crossed>>
  BY DEF DeleteServiceAccount
<1>3. e \in Callers \ Requests /\ "ok" \in Labels
  BY CallersDisjoint DEF Callers, Labels
<1>4. OnlyCaller(e) /\ kpc'[e] = "ok" /\ karg'[e] = NoArgs
  BY <1>2, <1>3, NoArgsTyped, MoveTyped
<1>5. \A k \in Keys :
        /\ key[k] \in KeyRow => key'[k] \in KeyRow /\ key'[k].account = key[k].account
        /\ key[k] = Absent => key'[k] = Absent
        /\ key'[k] \in KeyRow \cup {Absent}
        /\ key'[k] # Absent /\ key'[k].status # "deleted" => Stored(k) /\ key'[k].account # a
  <2> TAKE k \in Keys
  <2>1. key'[k] = IF Stored(k) /\ key[k].account = a
                   THEN [key[k] EXCEPT !.status = "deleted"] ELSE key[k]
    BY <1>1
  <2>2. key[k] \in KeyRow \cup {Absent} BY DEF KeyInv, KeyTypeOK
  <2>3. CASE Stored(k) /\ key[k].account = a
    <3>1. key[k] \in KeyRow BY <2>3, KeyRowTyped
    <3>2. key'[k] = [key[k] EXCEPT !.status = "deleted"] BY <2>1, <2>3
    <3>3. /\ key'[k] \in KeyRow /\ key'[k].account = key[k].account
          /\ key'[k].status = "deleted"
      BY <3>1, <3>2 DEF KeyRow
    <3> QED BY <3>1, <3>3, AbsentAssumption
  <2>4. CASE ~ (Stored(k) /\ key[k].account = a)
    BY <2>1, <2>2, <2>4 DEF Stored
  <2> QED BY <2>3, <2>4
<1>6. KeyTypeOK' /\ KeyArgsTyped'
  <2>1. key' \in [Keys -> KeyRow \cup {Absent}] BY <1>1, <1>5
  <2> QED BY <1>1, <1>2, <1>4, <2>1
          DEF KeyInv, KeyTypeOK, KeyArgsTyped, OnlyCaller, OpenNext
<1>7. \A b \in Accounts : /\ b # a => account'[b] = account[b]
                          /\ account'[a] = "deleted"
  BY <1>1 DEF KeyInv, KeyTypeOK
<1>8. \A d \in Editors \cup Keys : d # e => kpc'[d] = kpc[d] /\ karg'[d] = karg[d]
  BY <1>4 DEF OnlyCaller, Callers
<1>9. EditorPlaces' BY <1>4, <1>5, <1>7, <1>8, AbsentAssumption DEF KeyInv, EditorPlaces
<1>10. KeyPlaces' BY <1>8, CallersDisjoint DEF KeyInv, KeyPlaces
<1>11. RequestPlaces' /\ OpenSeen' /\ EntryWasOpen' /\ UsageIsTrue'
  BY <1>2, <1>3, <1>4, <1>5, BystandersKeep
<1>12. KeysHaveAccounts'
  <2> SUFFICES ASSUME NEW k \in Keys, Stored(k)'
               PROVE  Exists(key[k].account)' /\ key'[k].account = key[k].account
    BY DEF KeysHaveAccounts, Exists
  <2>1. Stored(k) /\ key'[k].account # a BY <1>5 DEF Stored
  <2>2. key[k] \in KeyRow /\ Exists(key[k].account) /\ key[k].account \in Accounts
    BY <2>1, KeyRowTyped DEF KeyInv, KeysHaveAccounts
  <2>3. key'[k] = key[k] BY <1>1, <1>5, <2>1, <2>2
  <2> QED BY <2>1, <2>2, <2>3, <1>7 DEF Exists
<1>13. OneUpdate' /\ StatusAsDecided' BY <1>2, <1>3, <1>4, <1>7, UpdatesKeep
<1> QED BY <1>6, <1>9, <1>10, <1>11, <1>12, <1>13 DEF KeyInv

LEMMA CheckAccountKeeps ==
  ASSUME KeyInv, OpenNext, NEW k \in Keys, CheckAccount(k)
  PROVE  KeyInv'
<1>1. PICK a \in Accounts :
        Move(k, IF account[a] = "active" THEN "insert" ELSE "refused", [NoArgs EXCEPT !.account = a])
  BY DEF CheckAccount
<1> DEFINE label == IF account[a] = "active" THEN "insert" ELSE "refused"
           r == [NoArgs EXCEPT !.account = a]
<1>2. r \in KeyArg /\ r.account = a /\ label \in Labels /\ k \in Callers \ Requests
  BY CallersDisjoint DEF NoArgs, KeyArg, Labels, Callers
<1>3. UNCHANGED <<account, key, lastUsed, clock, decided, crossed>>
  BY DEF CheckAccount, rows
<1> HIDE DEF r, label
<1>4. OnlyCaller(k) /\ kpc'[k] = label /\ karg'[k] = r
  BY <1>1, <1>2, MoveTyped DEF r, label
<1>5. \A d \in Editors \cup Keys : d # k => kpc'[d] = kpc[d] /\ karg'[d] = karg[d]
  BY <1>4 DEF OnlyCaller, Callers
<1>6. KeyTypeOK' /\ KeyArgsTyped'
  BY <1>3, <1>4 DEF KeyInv, KeyTypeOK, KeyArgsTyped, OnlyCaller, OpenNext
<1>7. EditorPlaces' BY <1>3, <1>5, CallersDisjoint DEF KeyInv, EditorPlaces
<1>8. KeyPlaces' BY <1>2, <1>4, <1>5 DEF KeyInv, KeyPlaces
<1>9. RequestPlaces' /\ OpenSeen' /\ EntryWasOpen' /\ UsageIsTrue'
  BY <1>2, <1>3, <1>4, BystandersKeep
<1>10. KeysHaveAccounts' BY <1>3 DEF KeyInv, KeysHaveAccounts, Stored, Exists
<1>11. OneUpdate' /\ StatusAsDecided'
  BY <1>2, <1>3, <1>4, UpdatesKeep, CallersDisjoint DEF label
<1> QED BY <1>6, <1>7, <1>8, <1>9, <1>10, <1>11 DEF KeyInv

LEMMA CreateAPIKeyKeeps ==
  ASSUME KeyInv, OpenNext, NEW k \in Keys, CreateAPIKey(k)
  PROVE  KeyInv'
<1> DEFINE a == karg[k].account
<1>1. /\ kpc[k] = "insert" /\ UNCHANGED <<account, lastUsed, clock, decided, crossed>>
      /\ Move(k, IF Exists(a) THEN "ok" ELSE "refused", NoArgs)
  BY DEF CreateAPIKey
<1>2. a \in Accounts /\ k \in Callers \ Requests
      /\ (IF Exists(a) THEN "ok" ELSE "refused") \in Labels
  BY <1>1, CallersDisjoint DEF KeyInv, KeyPlaces, Labels, Callers
<1>3. key' = key \/ (Exists(a) /\ \E row \in KeyRow :
                                   row.account = a /\ key' = [key EXCEPT ![k] = row])
  <2>1. CASE ~ Exists(a) BY <2>1 DEF CreateAPIKey
  <2>2. CASE Exists(a)
    <3>1. PICK x \in 0..MaxClock \cup {Absent}, l \in {{}, Allowed} :
            key' = [key EXCEPT ![k] = [account |-> a, status |-> "active",
                                       expires |-> x, allowlist |-> l]]
      BY <2>2 DEF CreateAPIKey
    <3> DEFINE row == [account |-> a, status |-> "active", expires |-> x, allowlist |-> l]
    <3>2. row \in KeyRow /\ row.account = a
      BY <1>2, AllowedAssumption, ClockBound DEF KeyRow
    <3> QED BY <2>2, <3>1, <3>2
  <2> QED BY <2>1, <2>2
<1> HIDE DEF a
<1>4. OnlyCaller(k) /\ kpc'[k] \in {"ok", "refused"} /\ karg'[k] = NoArgs
  BY <1>1, <1>2, NoArgsTyped, MoveTyped
<1>5. \A d \in Editors \cup Keys : d # k => kpc'[d] = kpc[d] /\ karg'[d] = karg[d]
  BY <1>4 DEF OnlyCaller, Callers
<1>6. /\ key' \in [Keys -> KeyRow \cup {Absent}]
      /\ \A j \in Keys : key[j] \in KeyRow => key'[j] \in KeyRow
      /\ \A j \in Keys : key'[j] = key[j] \/ (key'[j].account = a /\ Exists(a))
  BY <1>3 DEF KeyInv, KeyTypeOK
<1>7. KeyTypeOK' /\ KeyArgsTyped'
  BY <1>1, <1>4, <1>6 DEF KeyInv, KeyTypeOK, KeyArgsTyped, OnlyCaller, OpenNext
<1>8. EditorPlaces' BY <1>1, <1>5, <1>6, CallersDisjoint DEF KeyInv, EditorPlaces
<1>9. KeyPlaces' BY <1>4, <1>5 DEF KeyInv, KeyPlaces
<1>10. RequestPlaces' /\ OpenSeen' /\ EntryWasOpen' /\ UsageIsTrue'
  BY <1>1, <1>2, <1>4, <1>6, BystandersKeep
<1>11. KeysHaveAccounts' BY <1>1, <1>6 DEF KeyInv, KeysHaveAccounts, Stored, Exists
<1>12. OneUpdate' /\ StatusAsDecided'
  BY <1>1, <1>2, <1>4, UpdatesKeep
<1> QED BY <1>7, <1>8, <1>9, <1>10, <1>11, <1>12 DEF KeyInv

LEMMA ReadKeyKeeps ==
  ASSUME KeyInv, OpenNext, NEW e \in Editors, ReadKey(e)
  PROVE  KeyInv'
<1>1. PICK k \in Keys, a \in Accounts :
        Move(e, IF Stored(k) /\ key[k].account = a THEN "revoke" ELSE "refused",
             [NoArgs EXCEPT !.key = k])
  BY DEF ReadKey
<1> DEFINE label == IF Stored(k) /\ key[k].account = a THEN "revoke" ELSE "refused"
           r == [NoArgs EXCEPT !.key = k]
<1>2. r \in KeyArg /\ r.key = k /\ label \in Labels /\ e \in Callers \ Requests
  BY CallersDisjoint DEF NoArgs, KeyArg, Labels, Callers
<1>3. UNCHANGED <<account, key, lastUsed, clock, decided, crossed>>
  BY DEF ReadKey, rows
<1>4. label = "revoke" => key[k] \in KeyRow BY KeyRowTyped
<1>5. label \in {"revoke", "refused"} OBVIOUS
<1> HIDE DEF r, label
<1>6. OnlyCaller(e) /\ kpc'[e] = label /\ karg'[e] = r
  BY <1>1, <1>2, MoveTyped DEF r, label
<1>7. \A d \in Editors \cup Keys : d # e => kpc'[d] = kpc[d] /\ karg'[d] = karg[d]
  BY <1>6 DEF OnlyCaller, Callers
<1>8. KeyTypeOK' /\ KeyArgsTyped'
  BY <1>3, <1>6 DEF KeyInv, KeyTypeOK, KeyArgsTyped, OnlyCaller, OpenNext
<1>9. EditorPlaces' BY <1>2, <1>3, <1>4, <1>5, <1>6, <1>7 DEF KeyInv, EditorPlaces
<1>10. KeyPlaces' BY <1>7, CallersDisjoint DEF KeyInv, KeyPlaces
<1>11. RequestPlaces' /\ OpenSeen' /\ EntryWasOpen' /\ UsageIsTrue'
  BY <1>2, <1>3, <1>6, BystandersKeep
<1>12. KeysHaveAccounts' BY <1>3 DEF KeyInv, KeysHaveAccounts, Stored, Exists
<1>13. OneUpdate' /\ StatusAsDecided'
  BY <1>2, <1>3, <1>5, <1>6, UpdatesKeep
<1> QED BY <1>8, <1>9, <1>10, <1>11, <1>12, <1>13 DEF KeyInv

LEMMA RevokeAPIKeyKeeps ==
  ASSUME KeyInv, OpenNext, NEW e \in Editors, RevokeAPIKey(e)
  PROVE  KeyInv'
<1> DEFINE k == karg[e].key
<1>1. /\ kpc[e] = "revoke" /\ UNCHANGED <<account, lastUsed, clock, decided, crossed>>
      /\ Move(e, IF key[k].status = "active" THEN "ok" ELSE "refused", NoArgs)
      /\ key' = key \/ (key[k].status = "active" /\ key' = [key EXCEPT ![k].status = "revoked"])
  BY DEF RevokeAPIKey
<1>2. /\ k \in Keys /\ key[k] \in KeyRow /\ e \in Callers \ Requests
      /\ (IF key[k].status = "active" THEN "ok" ELSE "refused") \in Labels
  BY <1>1, CallersDisjoint DEF KeyInv, EditorPlaces, Labels, Callers
<1> HIDE DEF k
<1>3. OnlyCaller(e) /\ kpc'[e] \in {"ok", "refused"} /\ karg'[e] = NoArgs
  BY <1>1, <1>2, NoArgsTyped, MoveTyped
<1>4. \A d \in Editors \cup Keys : d # e => kpc'[d] = kpc[d] /\ karg'[d] = karg[d]
  BY <1>3 DEF OnlyCaller, Callers
<1>5. /\ key' \in [Keys -> KeyRow \cup {Absent}]
      /\ \A j \in Keys : key[j] \in KeyRow => key'[j] \in KeyRow
      /\ \A j \in Keys : \/ key'[j] = key[j]
                         \/ Stored(j) /\ key'[j].account = key[j].account
  <2>1. CASE key' = key BY <2>1 DEF KeyInv, KeyTypeOK
  <2>2. CASE key[k].status = "active" /\ key' = [key EXCEPT ![k].status = "revoked"]
    <3> DEFINE row == [key[k] EXCEPT !.status = "revoked"]
    <3>1. row \in KeyRow /\ row.account = key[k].account BY <1>2 DEF KeyRow
    <3>2. key' = [key EXCEPT ![k] = row] BY <2>2
    <3>3. Stored(k) BY <1>2, <2>2, AbsentAssumption DEF Stored
    <3> HIDE DEF row
    <3> QED BY <3>1, <3>2, <3>3, <1>2 DEF KeyInv, KeyTypeOK
  <2> QED BY <1>1, <2>1, <2>2
<1>6. KeyTypeOK' /\ KeyArgsTyped'
  BY <1>1, <1>3, <1>5 DEF KeyInv, KeyTypeOK, KeyArgsTyped, OnlyCaller, OpenNext
<1>7. EditorPlaces' BY <1>1, <1>3, <1>4, <1>5 DEF KeyInv, EditorPlaces
<1>8. KeyPlaces' BY <1>4, CallersDisjoint DEF KeyInv, KeyPlaces
<1>9. RequestPlaces' /\ OpenSeen' /\ EntryWasOpen' /\ UsageIsTrue'
  BY <1>1, <1>2, <1>3, <1>5, BystandersKeep
<1>10. KeysHaveAccounts' BY <1>1, <1>5 DEF KeyInv, KeysHaveAccounts, Stored, Exists
<1>11. OneUpdate' /\ StatusAsDecided'
  BY <1>1, <1>2, <1>3, UpdatesKeep
<1> QED BY <1>6, <1>7, <1>8, <1>9, <1>10, <1>11 DEF KeyInv

\* A step of request r, which ends at label with the locals x: what it must show.
LEMMA RequestKeeps ==
  ASSUME KeyInv, OpenNext, NEW r \in Requests, NEW label \in Labels, NEW x \in KeyArg,
         Move(r, label, x), kpc[r] # "ok", UNCHANGED <<account, key, clock, decided, crossed>>,
         lastUsed' \in [Keys -> Nat \cup {Absent}],
         label \in {"lookup", "decide", "usage", "ok"} => x.key \in Keys,
         label = "lookup" => key[x.key] \in KeyRow,
         label = "decide" => x.row \in KeyRow,
         label = "usage" => x.time \in Nat,
         label = "decide" /\ x.live /\ IsActive(x.row, clock) => r \in open,
         label \in {"usage", "ok"} => r \in open,
         \A k \in Keys : \/ lastUsed'[k] = lastUsed[k]
                         \/ label = "ok" /\ x.key = k /\ x.time = lastUsed'[k]
  PROVE  KeyInv'
<1>1. r \in Callers BY DEF Callers
<1>2. OnlyCaller(r) /\ kpc'[r] = label /\ karg'[r] = x BY <1>1, MoveTyped
<1>3. /\ \A d \in Editors \cup Keys : kpc'[d] = kpc[d] /\ karg'[d] = karg[d]
      /\ \A q \in Requests : q # r => kpc'[q] = kpc[q] /\ karg'[q] = karg[q]
  BY <1>2, CallersDisjoint DEF OnlyCaller, Callers
<1>4. KeyTypeOK' /\ KeyArgsTyped'
  BY <1>2 DEF KeyInv, KeyTypeOK, KeyArgsTyped, OnlyCaller, OpenNext
<1>5. EditorPlaces' /\ KeyPlaces' BY <1>3 DEF KeyInv, EditorPlaces, KeyPlaces
<1>6. KeysHaveAccounts' BY DEF KeyInv, KeysHaveAccounts, Stored, Exists
<1>7. OneUpdate' /\ StatusAsDecided'
  <2>1. r \notin Editors BY CallersDisjoint
  <2> QED BY <1>1, <1>2, <2>1, UpdatesKeep
<1>8. RequestPlaces' BY <1>2, <1>3 DEF KeyInv, RequestPlaces
<1>9. OpenSeen'
  <2> SUFFICES ASSUME NEW q \in Requests, kpc'[q] = "decide", karg'[q].live,
                      IsActive(karg'[q].row, clock')
               PROVE  q \in open
    BY DEF OpenSeen, OpenNext
  <2> QED BY <1>2, <1>3 DEF KeyInv, OpenSeen
<1>10. EntryWasOpen' BY <1>2, <1>3 DEF KeyInv, EntryWasOpen, OpenNext
<1>11. UsageIsTrue'
  <2> SUFFICES ASSUME NEW k \in Keys, lastUsed'[k] # Absent
               PROVE  \E q \in Requests : /\ kpc'[q] = "ok" /\ karg'[q].key = k
                                          /\ karg'[q].time = lastUsed'[k]
    BY DEF UsageIsTrue
  <2>1. CASE lastUsed'[k] = lastUsed[k]
    <3>1. PICK q \in Requests : kpc[q] = "ok" /\ karg[q].key = k /\ karg[q].time = lastUsed[k]
      BY <2>1 DEF KeyInv, UsageIsTrue
    <3> QED BY <2>1, <3>1, <1>3
  <2> QED BY <2>1, <1>2
<1> QED BY <1>4, <1>5, <1>6, <1>7, <1>8, <1>9, <1>10, <1>11 DEF KeyInv

LEMMA PresentKeeps ==
  ASSUME KeyInv, OpenNext, NEW r \in Requests, NEW x \in Addresses \cup {Absent}, Present(r, x)
  PROVE  KeyInv'
<1>1. PICK k \in Keys : /\ key[k] # Absent
                        /\ Move(r, "lookup", [NoArgs EXCEPT !.key = k, !.address = x])
  BY DEF Present
<1> DEFINE y == [NoArgs EXCEPT !.key = k, !.address = x]
<1>2. y \in KeyArg /\ y.key = k /\ "lookup" \in Labels BY DEF NoArgs, KeyArg, Labels
<1>3. key[k] \in KeyRow BY <1>1, KeyRowTyped
<1>4. kpc[r] = "idle" /\ UNCHANGED <<account, key, lastUsed, clock, decided, crossed>>
  BY DEF Present, rows
<1>5. lastUsed' \in [Keys -> Nat \cup {Absent}] BY <1>4 DEF KeyInv, KeyTypeOK
<1> HIDE DEF y
<1>6. Move(r, "lookup", y) BY <1>1 DEF y
<1> QED BY <1>2, <1>3, <1>4, <1>5, <1>6, RequestKeeps

LEMMA GetAPIKeyByHashKeeps ==
  ASSUME KeyInv, OpenNext, NEW r \in Requests, GetAPIKeyByHash(r)
  PROVE  KeyInv'
<1> DEFINE k == karg[r].key
           y == [karg[r] EXCEPT !.row = key[k], !.live = account[key[k].account] = "active"]
<1>1. kpc[r] = "lookup" /\ UNCHANGED <<account, key, lastUsed, clock, decided, crossed>>
  BY DEF GetAPIKeyByHash, rows
<1>2. k \in Keys /\ key[k] \in KeyRow /\ karg[r] \in KeyArg
  BY <1>1 DEF KeyInv, RequestPlaces, KeyArgsTyped, Callers
<1>3. lastUsed' \in [Keys -> Nat \cup {Absent}] BY <1>1 DEF KeyInv, KeyTypeOK
<1>4. CASE ~ Stored(k)
  <2>1. Move(r, "refused", NoArgs) /\ "refused" \in Labels
    BY <1>4 DEF GetAPIKeyByHash, Labels
  <2> QED BY <1>1, <1>3, <2>1, NoArgsTyped, RequestKeeps
<1>5. CASE Stored(k)
  <2>1. Move(r, "decide", y) /\ "decide" \in Labels BY <1>5 DEF GetAPIKeyByHash, Labels
  <2>2. /\ y \in KeyArg /\ y.key = k /\ y.row = key[k]
        /\ y.live = (account[key[k].account] = "active")
    BY <1>2 DEF KeyArg
  <2> HIDE DEF y
  <2>3. y.live /\ IsActive(y.row, clock) => r \in open
    BY <1>1, <1>5, <2>2 DEF KeyInv, OpenSeen, Usable
  <2> QED BY <1>1, <1>2, <1>3, <2>1, <2>2, <2>3, RequestKeeps
<1> QED BY <1>4, <1>5

LEMMA ValidateAPIKeyKeeps ==
  ASSUME KeyInv, OpenNext, NEW r \in Requests, ValidateAPIKey(r)
  PROVE  KeyInv'
<1> DEFINE y == [karg[r] EXCEPT !.row = Absent, !.time = clock]
<1>1. kpc[r] = "decide" /\ UNCHANGED <<account, key, lastUsed, clock, decided, crossed>>
  BY DEF ValidateAPIKey, rows
<1>2. karg[r].key \in Keys /\ karg[r] \in KeyArg /\ clock \in Nat
  BY <1>1 DEF KeyInv, RequestPlaces, KeyArgsTyped, Callers, KeyTypeOK
<1>3. lastUsed' \in [Keys -> Nat \cup {Absent}] BY <1>1 DEF KeyInv, KeyTypeOK
<1>4. CASE ~ Admits(r)
  <2>1. Move(r, "refused", NoArgs) /\ "refused" \in Labels
    BY <1>4 DEF ValidateAPIKey, Labels
  <2> QED BY <1>1, <1>3, <2>1, NoArgsTyped, RequestKeeps
<1>5. CASE Admits(r)
  <2>1. Move(r, "usage", y) /\ "usage" \in Labels BY <1>5 DEF ValidateAPIKey, Labels
  <2>2. y \in KeyArg /\ y.key = karg[r].key /\ y.time = clock BY <1>2 DEF KeyArg
  <2>3. r \in open BY <1>1, <1>5 DEF KeyInv, OpenSeen, Admits
  <2> HIDE DEF y
  <2> QED BY <1>1, <1>2, <1>3, <2>1, <2>2, <2>3, RequestKeeps
<1> QED BY <1>4, <1>5

LEMMA UpdateAPIKeyUsageKeeps ==
  ASSUME KeyInv, OpenNext, NEW r \in Requests, UpdateAPIKeyUsage(r)
  PROVE  KeyInv'
<1> DEFINE k == karg[r].key
<1>1. /\ kpc[r] = "usage" /\ UNCHANGED <<account, key, clock, decided, crossed>>
      /\ Move(r, "ok", karg[r]) /\ "ok" \in Labels
      /\ lastUsed' = IF Stored(k) THEN [lastUsed EXCEPT ![k] = karg[r].time] ELSE lastUsed
  BY DEF UpdateAPIKeyUsage, Labels
<1>2. k \in Keys /\ karg[r] \in KeyArg /\ karg[r].time \in Nat /\ r \in open
  BY <1>1 DEF KeyInv, RequestPlaces, KeyArgsTyped, Callers, EntryWasOpen
<1>3. /\ lastUsed' \in [Keys -> Nat \cup {Absent}]
      /\ \A j \in Keys : lastUsed'[j] = lastUsed[j] \/ (k = j /\ karg[r].time = lastUsed'[j])
  BY <1>1, <1>2 DEF KeyInv, KeyTypeOK
<1> QED BY <1>1, <1>2, <1>3, RequestKeeps

LEMMA KeyTickKeeps ==
  ASSUME KeyInv, OpenNext, KeyTick
  PROVE  KeyInv'
<1> USE DEF KeyTick, rows
<1>1. KeyTypeOK' /\ KeyArgsTyped' BY DEF KeyInv, KeyTypeOK, KeyArgsTyped, OpenNext
<1>2. EditorPlaces' /\ KeyPlaces' /\ RequestPlaces'
  BY DEF KeyInv, EditorPlaces, KeyPlaces, RequestPlaces
<1>3. KeysHaveAccounts' /\ StatusAsDecided' /\ OneUpdate' /\ UsageIsTrue'
  BY DEF KeyInv, KeysHaveAccounts, StatusAsDecided, OneUpdate, UsageIsTrue, Stored, Exists, Updating
<1>4. EntryWasOpen' BY DEF KeyInv, EntryWasOpen, OpenNext
<1>5. OpenSeen'
  <2> SUFFICES ASSUME NEW r \in Requests, kpc[r] = "decide", karg[r].live,
                      IsActive(karg[r].row, clock')
               PROVE  r \in open
    BY DEF OpenSeen, OpenNext
  <2>1. karg[r].row \in KeyRow /\ clock \in Nat BY DEF KeyInv, RequestPlaces, KeyTypeOK
  <2>2. karg[r].row.expires \in Nat \cup {Absent} BY <2>1 DEF KeyRow
  <2>3. IsActive(karg[r].row, clock) BY <2>1, <2>2 DEF IsActive
  <2> QED BY <2>3 DEF KeyInv, OpenSeen
<1> QED BY <1>1, <1>2, <1>3, <1>4, <1>5 DEF KeyInv

LEMMA KeyNextInv ==
  ASSUME KeyInv, [KeyNext]_keyVars
  PROVE  KeyInv'
<1>1. CASE UNCHANGED keyVars
  BY <1>1 DEF keyVars, rows, keyHistory, KeyInv, KeyTypeOK, KeyArgsTyped, EditorPlaces,
              KeyPlaces, RequestPlaces, KeysHaveAccounts, OpenSeen, EntryWasOpen, OneUpdate,
              StatusAsDecided, UsageIsTrue, Stored, Exists, Usable, IsActive, Updating
<1>2. CASE KeyNext
  <2>1. OpenNext BY <1>2 DEF KeyNext, OpenNext
  <2>2. CASE AccountStep
    BY <2>1, <2>2, CreateServiceAccountKeeps, ReadAccountKeeps, UpdateServiceAccountKeeps,
       DeleteServiceAccountKeeps, ReadKeyKeeps, RevokeAPIKeyKeeps, CheckAccountKeeps,
       CreateAPIKeyKeeps DEF AccountStep
  <2>3. ASSUME NEW r \in Requests, RequestStep(r) PROVE KeyInv'
    BY <2>1, <2>3, PresentKeeps, GetAPIKeyByHashKeeps, ValidateAPIKeyKeeps,
       UpdateAPIKeyUsageKeeps DEF RequestStep, ArriveHTTP, ArriveRPC
  <2>4. CASE KeyTick BY <2>1, <2>4, KeyTickKeeps
  <2> QED BY <1>2, <2>2, <2>3, <2>4 DEF KeyNext
<1> QED BY <1>1, <1>2

\* The state of service accounts, keys and requests in every reachable state.
THEOREM KeyInvariance == KeySpec => []KeyInv
<1>1. KeyInit => KeyInv BY KeyInitInv
<1>2. KeyInv /\ [KeyNext]_keyVars => KeyInv' BY KeyNextInv
<1> QED BY <1>1, <1>2, PTL DEF KeySpec

\* Nobody gets in with a key that was never usable since the request arrived:
\* ValidateAPIKey decides on a copy, and a revocation, deletion, suspension or
\* expiry that was over before is always seen.
THEOREM KeysGuardEntry == KeySpec => []EntryWasOpen
<1>1. KeyInv => EntryWasOpen BY DEF KeyInv
<1> QED BY <1>1, KeyInvariance, PTL

\* An account has the status last asked for unless updates overlapped, and
\* last_used_at is the time of a request that was let in.
THEOREM KeyRowsRight == KeySpec => []KeyRowsAreTrue
<1>1. KeyInv => KeyRowsAreTrue BY DEF KeyInv, KeyRowsAreTrue
<1> QED BY <1>1, KeyInvariance, PTL

-----------------------------------------------------------------------------
(* The rate limiter.                                                       *)

\* A set of natural numbers that is not empty has a smallest one.
LEMMA SmallestExists ==
  ASSUME NEW S \in SUBSET Nat, S # {}
  PROVE  \E x \in S : \A y \in S : x <= y
<1> DEFINE R == {p \in Nat \X Nat : p[1] < p[2]}
<1>1. IsWellFoundedOn(R, Nat)
  <2>1. R = OpToRel(<, Nat) BY DEF OpToRel
  <2> QED BY <2>1, NatLessThanWellFounded, Zenon
<1>2. \A x, y \in Nat : y < x => <<y, x>> \in R OBVIOUS
<1> HIDE DEF R
<1>3. PICK x \in S : \A y \in S : ~ (<<y, x>> \in R) BY <1>1, WFMin
<1>4. \A y \in S : ~ y < x BY <1>2, <1>3
<1>5. \A y \in S : x <= y BY <1>4
<1> QED BY <1>5

\* Evict keeps an end of the sequence, with every timestamp of the window in it.
LEMMA EvictKeepsEnd ==
  ASSUME NEW stamps \in Seq(0..MaxWall), NEW start \in Int
  PROVE  \E n \in Nat :
           /\ n <= Len(stamps)
           /\ Evict(stamps, start) \in Seq(0..MaxWall)
           /\ Len(Evict(stamps, start)) = Len(stamps) - n
           /\ \A i \in 1..(Len(stamps) - n) : Evict(stamps, start)[i] = stamps[n + i]
           /\ \A i \in DOMAIN stamps : stamps[i] >= start => n < i
<1> DEFINE fresh == {i \in DOMAIN stamps : stamps[i] >= start}
           first == IF fresh = {} THEN Len(stamps) + 1
                    ELSE CHOOSE i \in fresh : \A j \in fresh : i <= j
<1>1. fresh \in SUBSET Nat /\ \A i \in fresh : 1 <= i /\ i <= Len(stamps)
  OBVIOUS
<1>2. /\ first \in Nat /\ 1 <= first /\ first <= Len(stamps) + 1
      /\ \A j \in fresh : first <= j
  <2>1. CASE fresh = {} BY <2>1
  <2>2. CASE fresh # {}
    <3> HIDE DEF fresh
    <3>1. \E x \in fresh : \A y \in fresh : x <= y BY <1>1, <2>2, SmallestExists
    <3>2. first \in fresh /\ \A j \in fresh : first <= j BY <2>2, <3>1
    <3> HIDE DEF first
    <3> QED BY <1>1, <3>2
  <2> QED BY <2>1, <2>2
<1>3. Evict(stamps, start) = SubSeq(stamps, first, Len(stamps)) BY DEF Evict
<1>4. \A j \in DOMAIN stamps : stamps[j] >= start => first <= j BY <1>2
<1> HIDE DEF first, fresh
<1> DEFINE n == first - 1
<1>5. n \in Nat /\ n <= Len(stamps) BY <1>2
<1>6. \A i \in DOMAIN stamps : stamps[i] >= start => n < i
  BY <1>2, <1>4
<1>7. /\ SubSeq(stamps, first, Len(stamps)) \in Seq(0..MaxWall)
      /\ Len(SubSeq(stamps, first, Len(stamps))) = Len(stamps) - n
      /\ \A i \in 1..(Len(stamps) - n) : SubSeq(stamps, first, Len(stamps))[i] = stamps[n + i]
  <2>1. \A i \in first..Len(stamps) : stamps[i] \in 0..MaxWall
    <3> TAKE i \in first..Len(stamps)
    <3>1. i \in 1..Len(stamps) BY <1>2
    <3> QED BY <3>1, ElementOfSeq
  <2>2. first \in Int /\ Len(stamps) \in Int BY <1>2
  <2> DEFINE kept == SubSeq(stamps, first, Len(stamps))
  <2>3. /\ kept \in Seq(0..MaxWall)
        /\ Len(kept) = IF first <= Len(stamps) THEN Len(stamps) - first + 1 ELSE 0
        /\ \A i \in 1..(Len(stamps) - first + 1) : kept[i] = stamps[first + i - 1]
    BY <2>1, <2>2, SubSeqProperties
  <2> HIDE DEF kept
  <2>4. Len(kept) = Len(stamps) - n BY <2>3, <1>2
  <2>5. \A i \in 1..(Len(stamps) - n) : kept[i] = stamps[n + i] BY <2>3, <1>2
  <2> QED BY <2>3, <2>4, <2>5 DEF kept
<1> QED BY <1>3, <1>5, <1>6, <1>7

\* The timestamps the next request will count.
Bucket == IF bucketOfKey = 0 THEN <<>> ELSE ts[bucketOfKey]

\* With the program counters pcs and the clock readings at: the requests let
\* through that read the clock at low or later.
Recent(pcs, at, low) == {q \in Allows : pcs[q] = "allowed" /\ at[q] >= low}

\* Each of them has a timestamp of its own in stamps.
Counted(pcs, at, low, stamps) ==
  \E f \in [Recent(pcs, at, low) -> DOMAIN stamps] :
    /\ \A p, q \in Recent(pcs, at, low) : f[p] = f[q] => p = q
    /\ \A q \in Recent(pcs, at, low) : stamps[f[q]] = at[q]

\* Nobody works on the bucket beside an Allow, and the Allow has the one of the map.
OneAtATime ==
  /\ \A q, r \in Allows : InAllow(q) /\ InAllow(r) => q = r
  /\ lpc \in {"range", "delete"} => \A r \in Allows : ~ InAllow(r)
  /\ \A r \in Allows : apc[r] = "loaded" => bkt[r] = bucketOfKey

\* The bucket is sorted and behind the clock.
InOrder ==
  /\ \A i, j \in DOMAIN Bucket : i <= j => Bucket[i] <= Bucket[j]
  /\ \A i \in DOMAIN Bucket : Bucket[i] <= wall
  /\ \A r \in Allows : InAllow(r) => \A i \in DOMAIN Bucket : Bucket[i] <= nowOf[r]

\* What the cleanup is about to remove is out of every window.
PurgeSound ==
  /\ lpc \in {"range", "delete"} => cutoff <= wall - Window
  /\ lpc = "delete" => \A i \in DOMAIN Bucket : Bucket[i] < cutoff

\* The bucket has everything that still counts, for now and for the Allow under way.
AllCounted ==
  /\ Counted(apc, nowOf, wall - Window, Bucket)
  /\ \A r \in Allows : InAllow(r) => Counted(apc, nowOf, nowOf[r] - Window, Bucket)

LimiterPlaces ==
  /\ ts \in Seq(Seq(0..MaxWall))
  /\ \A r \in Allows : nowOf[r] <= wall
  /\ \A r \in Allows : apc[r] = "loaded" => bkt[r] # 0

\* The inductive invariant of RateLimiter.
LimiterInv ==
  /\ LimiterTypeOK
  /\ LimiterPlaces
  /\ BucketBound
  /\ ~ overlapped => OneAtATime /\ InOrder /\ PurgeSound /\ AllCounted /\ WindowLimit

\* An empty sequence counts nobody; a later window needs less.
LEMMA CountedNobody ==
  ASSUME NEW pcs, NEW at, NEW low, NEW stamps, Recent(pcs, at, low) = {}
  PROVE  Counted(pcs, at, low, stamps)
<1> DEFINE f == [q \in {} |-> 1]
<1>1. f \in [Recent(pcs, at, low) -> DOMAIN stamps] OBVIOUS
<1> QED BY <1>1 DEF Counted

LEMMA CountedLater ==
  ASSUME NEW pcs, NEW at, NEW low \in Int, NEW high \in Int, low <= high, NEW stamps, Counted(pcs, at, low, stamps),
         at \in [Allows -> Int]
  PROVE  Counted(pcs, at, high, stamps)
<1>1. PICK f \in [Recent(pcs, at, low) -> DOMAIN stamps] :
        /\ \A p, q \in Recent(pcs, at, low) : f[p] = f[q] => p = q
        /\ \A q \in Recent(pcs, at, low) : stamps[f[q]] = at[q]
  BY DEF Counted
<1>2. Recent(pcs, at, high) \subseteq Recent(pcs, at, low) BY DEF Recent
<1> DEFINE g == [q \in Recent(pcs, at, high) |-> f[q]]
<1>3. g \in [Recent(pcs, at, high) -> DOMAIN stamps] BY <1>1, <1>2
<1>4. \A q \in Recent(pcs, at, high) : g[q] = f[q] OBVIOUS
<1> HIDE DEF g
<1>5. \A p, q \in Recent(pcs, at, high) : g[p] = g[q] => p = q BY <1>1, <1>2, <1>4
<1>6. \A q \in Recent(pcs, at, high) : stamps[g[q]] = at[q] BY <1>1, <1>2, <1>4
<1> QED BY <1>3, <1>5, <1>6 DEF Counted

\* What evicting leaves still counts everybody of the window.
LEMMA CountedAfterEvict ==
  ASSUME NEW pcs, NEW at, NEW low \in Int, NEW stamps \in Seq(0..MaxWall), Counted(pcs, at, low, stamps)
  PROVE  Counted(pcs, at, low, Evict(stamps, low))
<1> DEFINE kept == Evict(stamps, low)
<1>1. PICK n \in Nat :
           /\ n <= Len(stamps)
           /\ kept \in Seq(0..MaxWall)
           /\ Len(kept) = Len(stamps) - n
           /\ \A i \in 1..(Len(stamps) - n) : kept[i] = stamps[n + i]
           /\ \A i \in DOMAIN stamps : stamps[i] >= low => n < i
  BY EvictKeepsEnd
<1>2. PICK f \in [Recent(pcs, at, low) -> DOMAIN stamps] :
        /\ \A p, q \in Recent(pcs, at, low) : f[p] = f[q] => p = q
        /\ \A q \in Recent(pcs, at, low) : stamps[f[q]] = at[q]
  BY DEF Counted
<1> HIDE DEF kept
<1>3. DOMAIN stamps = 1..Len(stamps) /\ DOMAIN kept = 1..Len(kept) /\ Len(stamps) \in Nat
  BY <1>1
<1>4. \A q \in Recent(pcs, at, low) : f[q] \in 1..Len(stamps) /\ n < f[q]
  BY <1>1, <1>2, <1>3 DEF Recent
<1> DEFINE g == [q \in Recent(pcs, at, low) |-> f[q] - n]
<1>5. \A q \in Recent(pcs, at, low) : g[q] = f[q] - n /\ g[q] \in 1..(Len(stamps) - n)
  BY <1>1, <1>3, <1>4
<1>6. g \in [Recent(pcs, at, low) -> DOMAIN kept] BY <1>1, <1>3, <1>5
<1> HIDE DEF g
<1>7. \A p, q \in Recent(pcs, at, low) : g[p] = g[q] => p = q BY <1>2, <1>3, <1>4, <1>5
<1>8. \A q \in Recent(pcs, at, low) : kept[g[q]] = at[q]
  <2> TAKE q \in Recent(pcs, at, low)
  <2>1. kept[g[q]] = stamps[n + g[q]] BY <1>1, <1>5
  <2>2. n + g[q] = f[q] BY <1>3, <1>4, <1>5
  <2> QED BY <2>1, <2>2, <1>2
<1> QED BY <1>6, <1>7, <1>8 DEF Counted, kept

\* A window that is counted in a sequence is no larger than it.
LEMMA CountedBound ==
  ASSUME NEW pcs, NEW at, NEW low, NEW stamps \in Seq(0..MaxWall), Counted(pcs, at, low, stamps)
  PROVE  IsFiniteSet(Recent(pcs, at, low)) /\ Cardinality(Recent(pcs, at, low)) <= Len(stamps)
<1>1. PICK f \in [Recent(pcs, at, low) -> DOMAIN stamps] :
        \A p, q \in Recent(pcs, at, low) : f[p] = f[q] => p = q
  BY DEF Counted
<1>2. DOMAIN stamps = 1..Len(stamps) /\ Len(stamps) \in Nat OBVIOUS
<1>3. f \in Injection(Recent(pcs, at, low), DOMAIN stamps) BY <1>1 DEF Injection, IsInjective
<1>4. IsFiniteSet(DOMAIN stamps) /\ Cardinality(DOMAIN stamps) = Len(stamps)
  <2>1. 1 \in Int /\ Len(stamps) \in Int BY <1>2
  <2>2. /\ IsFiniteSet(1..Len(stamps))
        /\ Cardinality(1..Len(stamps)) = IF 1 > Len(stamps) THEN 0 ELSE Len(stamps) - 1 + 1
    BY <2>1, FS_Interval
  <2> QED BY <1>2, <2>2
<1> QED BY <1>3, <1>4, FS_Injection

LEMMA LimiterTyped ==
  ASSUME LimiterInv
  PROVE  /\ wall \in Nat /\ wall <= MaxWall /\ Window \in Nat /\ Limit \in Nat /\ Limit > 0
         /\ MaxWall \in Nat
         /\ nowOf \in [Allows -> Int] /\ \A r \in Allows : nowOf[r] \in 0..MaxWall
         /\ ts \in Seq(Seq(0..MaxWall)) /\ Len(ts) \in Nat
         /\ Bucket \in Seq(0..MaxWall)
         /\ \A i \in DOMAIN Bucket : Bucket[i] \in 0..MaxWall
<1>1. /\ wall \in Nat /\ wall <= MaxWall /\ Window \in Nat /\ Limit \in Nat /\ Limit > 0
      /\ MaxWall \in Nat
      /\ nowOf \in [Allows -> 0..MaxWall] /\ ts \in Seq(Seq(0..MaxWall))
  BY LimiterAssumption DEF LimiterInv, LimiterTypeOK, LimiterPlaces
<1>2. nowOf \in [Allows -> Int] /\ \A r \in Allows : nowOf[r] \in 0..MaxWall BY <1>1
<1>3. Len(ts) \in Nat /\ DOMAIN ts = 1..Len(ts) BY <1>1
<1>4. bucketOfKey # 0 => bucketOfKey \in 1..Len(ts) BY <1>3 DEF LimiterInv, LimiterTypeOK
<1>5. Bucket \in Seq(0..MaxWall)
  <2>1. CASE bucketOfKey = 0
    <3>1. Bucket = <<>> BY <2>1 DEF Bucket
    <3> QED BY <3>1
  <2>2. CASE bucketOfKey # 0
    <3>1. Bucket = ts[bucketOfKey] BY <2>2 DEF Bucket
    <3>2. ts[bucketOfKey] \in Seq(0..MaxWall) BY <2>2, <1>3, <1>4 DEF LimiterInv, LimiterTypeOK
    <3> QED BY <3>1, <3>2
  <2> QED BY <2>1, <2>2
<1>6. \A i \in DOMAIN Bucket : Bucket[i] \in 0..MaxWall
  <2>1. DOMAIN Bucket = 1..Len(Bucket) BY <1>5
  <2> QED BY <1>5, <2>1, ElementOfSeq
<1> QED BY <1>1, <1>2, <1>3, <1>5, <1>6

LEMMA LimiterInitInv ==
  ASSUME LimiterInit
  PROVE  LimiterInv
<1> USE DEF LimiterInit
<1>1. LimiterTypeOK
  <2>1. stopped \in BOOLEAN /\ overlapped \in BOOLEAN BY Zenon
  <2>2. Len(ts) = 0 /\ DOMAIN ts = {} OBVIOUS
  <2>3. 0 \in 0..MaxWall /\ 0 \in 0..0 /\ 0 \in Int BY LimiterAssumption
  <2> QED BY <2>1, <2>2, <2>3 DEF LimiterTypeOK
<1>2. LimiterPlaces BY DEF LimiterPlaces
<1>3. BucketBound BY DEF BucketBound
<1>4. OneAtATime BY DEF OneAtATime, InAllow
<1>5. DOMAIN Bucket = {} BY DEF Bucket
<1>6. InOrder /\ PurgeSound BY <1>5 DEF InOrder, PurgeSound
<1>7. \A low : Recent(apc, nowOf, low) = {} BY DEF Recent
<1>8. AllCounted BY <1>7, CountedNobody DEF AllCounted
<1>9. WindowLimit
  <2>1. \A t \in 0..MaxWall : AllowedIn(t) = {} BY DEF AllowedIn
  <2>2. Cardinality({}) = 0 BY FS_EmptySet
  <2>3. \A t \in 0..MaxWall : Cardinality(AllowedIn(t)) = 0
    <3> TAKE t \in 0..MaxWall
    <3>1. AllowedIn(t) = {} BY <2>1
    <3> HIDE DEF LimiterInit
    <3> QED BY <3>1, <2>2, Zenon
  <2>4. 0 <= Limit BY LimiterAssumption
  <2> QED BY <2>3, <2>4 DEF WindowLimit
<1> QED BY <1>1, <1>2, <1>3, <1>4, <1>6, <1>8, <1>9 DEF LimiterInv

\* A step that lets nobody through leaves every count as it is.
LEMMA SameAllowed ==
  ASSUME \A q \in Allows : apc'[q] = "allowed" <=> apc[q] = "allowed",
         \A q \in Allows : apc[q] = "allowed" => nowOf'[q] = nowOf[q]
  PROVE  /\ \A low, stamps : Counted(apc, nowOf, low, stamps) => Counted(apc', nowOf', low, stamps)
         /\ WindowLimit => WindowLimit'
<1>1. ASSUME NEW low, NEW stamps, Counted(apc, nowOf, low, stamps)
      PROVE  Counted(apc', nowOf', low, stamps)
  <2>1. Recent(apc', nowOf', low) = Recent(apc, nowOf, low) BY DEF Recent
  <2>2. \A q \in Recent(apc, nowOf, low) : nowOf'[q] = nowOf[q] BY DEF Recent
  <2> QED BY <1>1, <2>1, <2>2 DEF Counted
<1>2. WindowLimit => WindowLimit'
  <2>1. \A t \in 0..MaxWall : AllowedIn(t)' = AllowedIn(t) BY DEF AllowedIn
  <2> QED BY <2>1 DEF WindowLimit
<1> QED BY <1>1, <1>2

LEMMA WallTickKeeps ==
  ASSUME LimiterInv, WallTick
  PROVE  LimiterInv'
<1> USE DEF WallTick, loopVars
<1>1. LimiterTypeOK' /\ LimiterPlaces' /\ BucketBound'
  BY LimiterTyped DEF LimiterInv, LimiterTypeOK, LimiterPlaces, BucketBound
<1>2. Bucket' = Bucket BY DEF Bucket
<1> SUFFICES ASSUME ~ overlapped
             PROVE  OneAtATime' /\ InOrder' /\ PurgeSound' /\ AllCounted' /\ WindowLimit'
  BY <1>1 DEF LimiterInv
<1>3. OneAtATime /\ InOrder /\ PurgeSound /\ AllCounted /\ WindowLimit BY DEF LimiterInv
<1>4. OneAtATime' BY <1>3 DEF OneAtATime, InAllow
<1>5. InOrder' BY <1>2, <1>3, LimiterTyped DEF InOrder, InAllow
<1>6. PurgeSound' BY <1>2, <1>3, LimiterTyped DEF PurgeSound, LimiterInv, LimiterTypeOK
<1>7. AllCounted'
  <2>1. wall - Window \in Int /\ wall' - Window \in Int /\ wall - Window <= wall' - Window
    BY LimiterTyped
  <2>2. Counted(apc, nowOf, wall' - Window, Bucket)
    BY <2>1, <1>3, LimiterTyped, CountedLater DEF AllCounted
  <2> QED BY <2>2, <1>2, <1>3 DEF AllCounted, InAllow
<1>8. WindowLimit' BY <1>3, SameAllowed
<1> QED BY <1>4, <1>5, <1>6, <1>7, <1>8

\* A step of the cleanup or of Close that touches no bucket.
LEMMA QuietKeeps ==
  ASSUME LimiterInv, UNCHANGED <<wall, apc, nowOf, bkt, ts, bucketOfKey>>, LimiterTypeOK',
         ~ overlapped' => ~ overlapped /\ PurgeSound',
         ~ overlapped' /\ lpc' \in {"range", "delete"} => \A r \in Allows : ~ InAllow(r)
  PROVE  LimiterInv'
<1>1. LimiterPlaces' /\ BucketBound' BY DEF LimiterInv, LimiterPlaces, BucketBound
<1>2. Bucket' = Bucket BY DEF Bucket
<1> SUFFICES ASSUME ~ overlapped'
             PROVE  OneAtATime' /\ InOrder' /\ PurgeSound' /\ AllCounted' /\ WindowLimit'
  BY <1>1 DEF LimiterInv
<1>3. OneAtATime /\ InOrder /\ AllCounted /\ WindowLimit BY DEF LimiterInv
<1>4. OneAtATime' BY <1>3 DEF OneAtATime, InAllow
<1>5. InOrder' BY <1>2, <1>3 DEF InOrder, InAllow
<1>6. AllCounted' BY <1>2, <1>3 DEF AllCounted, InAllow
<1>7. WindowLimit' BY <1>3, SameAllowed
<1> QED BY <1>4, <1>5, <1>6, <1>7

LEMMA CleanupKeeps ==
  ASSUME LimiterInv, StartPurge \/ CheckBucket \/ StopLoop
  PROVE  LimiterInv'
<1>1. CASE StartPurge
  <2> USE <1>1 DEF StartPurge
  <2>1. cutoff' \in Int /\ cutoff' = wall' - Window BY LimiterTyped
  <2>2. LimiterTypeOK' BY <2>1 DEF LimiterInv, LimiterTypeOK
  <2>3. ~ overlapped' => ~ overlapped /\ \A r \in Allows : ~ InAllow(r) OBVIOUS
  <2>4. PurgeSound' BY <2>1 DEF PurgeSound
  <2> QED BY <2>2, <2>3, <2>4, QuietKeeps
<1>2. CASE CheckBucket
  <2> USE <1>2 DEF CheckBucket
  <2>1. LimiterTypeOK' BY DEF LimiterInv, LimiterTypeOK
  <2>2. ASSUME ~ overlapped PROVE PurgeSound' /\ \A r \in Allows : ~ InAllow(r)
    <3>1. OneAtATime /\ InOrder /\ PurgeSound BY <2>2 DEF LimiterInv
    <3>2. Bucket' = Bucket BY DEF Bucket
    <3>3. lpc' = "delete" => \A i \in DOMAIN Bucket : Bucket[i] < cutoff
      <4> SUFFICES ASSUME lpc' = "delete", NEW i \in DOMAIN Bucket PROVE Bucket[i] < cutoff
        OBVIOUS
      <4>1. bucketOfKey # 0 /\ AllStale(ts[bucketOfKey], cutoff) OBVIOUS
      <4>2. AllStale(Bucket, cutoff) BY <4>1 DEF Bucket
      <4> DEFINE b == Bucket
      <4>3. b \in Seq(0..MaxWall) /\ i \in DOMAIN b BY LimiterTyped
      <4>4. \A j \in DOMAIN b : b[i] \in 0..MaxWall /\ b[j] \in 0..MaxWall /\ (i <= j => b[i] <= b[j])
        BY <3>1, LimiterTyped DEF InOrder
      <4>5. AllStale(b, cutoff) /\ cutoff \in Int BY <4>2 DEF LimiterInv, LimiterTypeOK
      <4> HIDE DEF b
      <4>6. Len(b) \in DOMAIN b /\ i <= Len(b) /\ b # <<>> BY <4>3
      <4>7. b[Len(b)] < cutoff BY <4>5, <4>6 DEF AllStale
      <4>8. b[i] < cutoff BY <4>4, <4>5, <4>6, <4>7
      <4> QED BY <4>8 DEF b
    <3> QED BY <3>1, <3>2, <3>3 DEF PurgeSound, OneAtATime
  <2>3. overlapped' = overlapped OBVIOUS
  <2> QED BY <2>1, <2>2, <2>3, QuietKeeps
<1>3. CASE StopLoop
  <2> USE <1>3 DEF StopLoop
  <2>1. LimiterTypeOK' BY DEF LimiterInv, LimiterTypeOK
  <2>2. PurgeSound' BY DEF PurgeSound
  <2> QED BY <2>1, <2>2, QuietKeeps
<1> QED BY <1>1, <1>2, <1>3

LEMMA CloseKeeps ==
  ASSUME LimiterInv, NEW c \in Closers, CloseSelect(c) \/ CloseChannel(c)
  PROVE  LimiterInv'
<1>1. /\ closer' \in [Closers -> {"idle", "closing", "closed", "panic"}]
      /\ UNCHANGED <<wall, apc, nowOf, bkt, ts, bucketOfKey, lpc, cutoff, overlapped>>
  BY DEF LimiterInv, LimiterTypeOK, CloseSelect, CloseChannel
<1>2. stopped' \in BOOLEAN
  BY Zenon DEF CloseSelect, CloseChannel, LimiterInv, LimiterTypeOK
<1>3. LimiterTypeOK' BY <1>1, <1>2 DEF LimiterInv, LimiterTypeOK
<1>4. ~ overlapped => PurgeSound' BY <1>1 DEF LimiterInv, PurgeSound, Bucket
<1>5. ~ overlapped /\ lpc' \in {"range", "delete"} => \A r \in Allows : ~ InAllow(r)
  BY <1>1 DEF LimiterInv, OneAtATime
<1> QED BY <1>1, <1>3, <1>4, <1>5, QuietKeeps

LEMMA DeleteBucketKeeps ==
  ASSUME LimiterInv, DeleteBucket
  PROVE  LimiterInv'
<1> USE DEF DeleteBucket
<1>1. LimiterTypeOK'
  <2>1. 0 \in 0..Len(ts) BY LimiterTyped
  <2> QED BY <2>1 DEF LimiterInv, LimiterTypeOK
<1>2. LimiterPlaces' /\ BucketBound' BY DEF LimiterInv, LimiterPlaces, BucketBound
<1> SUFFICES ASSUME ~ overlapped
             PROVE  OneAtATime' /\ InOrder' /\ PurgeSound' /\ AllCounted' /\ WindowLimit'
  BY <1>1, <1>2 DEF LimiterInv
<1>3. OneAtATime /\ PurgeSound /\ AllCounted /\ WindowLimit BY DEF LimiterInv
<1>4. \A r \in Allows : ~ InAllow(r) BY <1>3 DEF OneAtATime
<1>5. OneAtATime' BY <1>4 DEF OneAtATime, InAllow
<1>6. Bucket' = <<>> /\ DOMAIN Bucket' = {} BY DEF Bucket
<1>7. InOrder' /\ PurgeSound' BY <1>6 DEF InOrder, PurgeSound
<1>8. AllCounted'
  <2> DEFINE low == wall - Window
  <2>1. PICK f \in [Recent(apc, nowOf, low) -> DOMAIN Bucket] :
          \A q \in Recent(apc, nowOf, low) : Bucket[f[q]] = nowOf[q]
    BY <1>3 DEF AllCounted, Counted
  <2>2. \A i \in DOMAIN Bucket : Bucket[i] < cutoff /\ cutoff <= low
    BY <1>3 DEF PurgeSound
  <2>3. Recent(apc, nowOf, low) = {}
    <3> SUFFICES ASSUME NEW q \in Recent(apc, nowOf, low) PROVE FALSE OBVIOUS
    <3>1. nowOf[q] < cutoff /\ cutoff <= low BY <2>1, <2>2
    <3>2. nowOf[q] >= low /\ q \in Allows BY DEF Recent
    <3>3. nowOf[q] \in Int /\ low \in Int /\ cutoff \in Int
      BY <3>2, LimiterTyped DEF LimiterInv, LimiterTypeOK
    <3> QED BY <3>1, <3>2, <3>3
  <2>4. Counted(apc, nowOf, low, <<>>) BY <2>3, CountedNobody
  <2> QED BY <2>4, <1>4, <1>6 DEF AllCounted, InAllow
<1>9. WindowLimit' BY <1>3, SameAllowed
<1> QED BY <1>5, <1>7, <1>8, <1>9

LEMMA ReadClockKeeps ==
  ASSUME LimiterInv, NEW r \in Allows, ReadClock(r)
  PROVE  LimiterInv'
<1> USE DEF ReadClock, loopVars
<1>1. overlapped' \in BOOLEAN BY Zenon DEF LimiterInv, LimiterTypeOK
<1>2. LimiterTypeOK' BY <1>1, LimiterTyped DEF LimiterInv, LimiterTypeOK
<1>3. /\ apc[r] = "idle" /\ apc'[r] = "now" /\ nowOf'[r] = wall
      /\ \A q \in Allows : q # r => apc'[q] = apc[q] /\ nowOf'[q] = nowOf[q]
      /\ UNCHANGED <<wall, bkt, ts, bucketOfKey, lpc, cutoff>>
  BY DEF LimiterInv, LimiterTypeOK
<1>4. LimiterPlaces' /\ BucketBound'
  BY <1>3, LimiterTyped DEF LimiterInv, LimiterPlaces, BucketBound
<1>5. Bucket' = Bucket BY DEF Bucket
<1> SUFFICES ASSUME ~ overlapped'
             PROVE  OneAtATime' /\ InOrder' /\ PurgeSound' /\ AllCounted' /\ WindowLimit'
  BY <1>2, <1>4 DEF LimiterInv
<1>6. ~ overlapped /\ lpc \notin {"range", "delete"} /\ \A q \in Allows : ~ InAllow(q)
  BY <1>3 DEF InAllow
<1>7. InOrder /\ OneAtATime /\ AllCounted /\ WindowLimit BY <1>6 DEF LimiterInv
<1> HIDE DEF ReadClock
<1>8. \A q \in Allows : (InAllow(q)' <=> q = r) /\ (apc'[q] = "loaded" => FALSE)
  BY <1>3, <1>6 DEF InAllow
<1>9. OneAtATime' BY <1>3, <1>6, <1>8 DEF OneAtATime
<1>10. InOrder' BY <1>3, <1>5, <1>7, <1>8 DEF InOrder
<1>11. PurgeSound' BY <1>3, <1>6 DEF PurgeSound
<1>12. AllCounted'
  <2>1. Counted(apc, nowOf, wall - Window, Bucket) BY <1>7 DEF AllCounted
  <2>2. Counted(apc', nowOf', wall - Window, Bucket) BY <1>3, <2>1, SameAllowed
  <2> QED BY <1>3, <1>5, <1>8, <2>2 DEF AllCounted
<1>13. WindowLimit' BY <1>3, <1>7, SameAllowed
<1> QED BY <1>9, <1>10, <1>11, <1>12, <1>13

LEMMA LoadOrStoreKeeps ==
  ASSUME LimiterInv, NEW r \in Allows, LoadOrStore(r)
  PROVE  LimiterInv'
<1> USE DEF LoadOrStore, loopVars
<1>1. ts \in Seq(Seq(0..MaxWall)) /\ Len(ts) \in Nat /\ DOMAIN ts = 1..Len(ts)
  BY LimiterTyped
<1>2. /\ ts' \in Seq(Seq(0..MaxWall)) /\ Len(ts') \in Nat /\ Len(ts') >= Len(ts)
      /\ DOMAIN ts' = 1..Len(ts')
      /\ bucketOfKey' \in 1..Len(ts') /\ Bucket' = Bucket
      /\ \A b \in DOMAIN ts' : (b \in DOMAIN ts /\ ts'[b] = ts[b]) \/ ts'[b] = <<>>
  <2>1. CASE bucketOfKey = 0
    <3>1. ts' = Append(ts, <<>>) /\ bucketOfKey' = Len(ts) + 1 BY <2>1
    <3>2. <<>> \in Seq(0..MaxWall) OBVIOUS
    <3> DEFINE S == Seq(0..MaxWall)
    <3>a. ts \in Seq(S) /\ <<>> \in S BY <1>1, <3>2
    <3> HIDE DEF S
    <3>3. ts' \in Seq(S) /\ Len(ts') = Len(ts) + 1 BY <3>1, <3>a, AppendProperties
    <3>4. DOMAIN ts' = 1..Len(ts') BY <3>3
    <3>5. ts'[Len(ts) + 1] = <<>> /\ \A b \in 1..Len(ts) : ts'[b] = ts[b]
      BY <3>1, <3>a, AppendProperties
    <3>6. Bucket' = <<>> /\ Bucket = <<>> BY <1>1, <2>1, <3>1, <3>5 DEF Bucket
    <3>7. \A b \in DOMAIN ts' : (b \in DOMAIN ts /\ ts'[b] = ts[b]) \/ ts'[b] = <<>>
      <4> TAKE b \in DOMAIN ts'
      <4>1. b \in 1..Len(ts) \/ b = Len(ts) + 1 BY <1>1, <3>3, <3>4
      <4> QED BY <1>1, <3>5, <4>1
    <3>8. ts' \in Seq(Seq(0..MaxWall)) BY <3>3 DEF S
    <3>9. Len(ts') \in Nat /\ Len(ts') >= Len(ts) BY <1>1, <3>3
    <3>10. bucketOfKey' \in 1..Len(ts')
      <4>1. bucketOfKey' = Len(ts) + 1 BY <3>1
      <4>2. Len(ts') = Len(ts) + 1 BY <3>3
      <4> HIDE DEF LoadOrStore
      <4> QED BY <1>1, <4>1, <4>2
    <3> QED BY <3>4, <3>6, <3>7, <3>8, <3>9, <3>10
  <2>2. CASE bucketOfKey # 0
    BY <1>1, <2>2 DEF Bucket, LimiterInv, LimiterTypeOK
  <2> QED BY <2>1, <2>2
<1>3. /\ apc' = [apc EXCEPT ![r] = "loaded"] /\ bkt' = [bkt EXCEPT ![r] = bucketOfKey']
      /\ apc[r] = "now" /\ UNCHANGED <<wall, nowOf, lpc, cutoff, closer, stopped, overlapped>>
  OBVIOUS
<1> HIDE DEF LoadOrStore
<1>4. LimiterTypeOK'
  <2>1. bkt' \in [Allows -> 0..Len(ts')] BY <1>1, <1>2, <1>3 DEF LimiterInv, LimiterTypeOK
  <2>2. \A b \in DOMAIN ts' : ts'[b] \in Seq(0..MaxWall)
    BY <1>2, ElementOfSeq
  <2> QED BY <1>2, <1>3, <2>1, <2>2 DEF LimiterInv, LimiterTypeOK
<1>5. LimiterPlaces' BY <1>2, <1>3 DEF LimiterInv, LimiterPlaces, LimiterTypeOK
<1>6. BucketBound'
  <2>1. Len(<<>>) <= Limit BY LimiterTyped
  <2> QED BY <1>2, <2>1 DEF LimiterInv, BucketBound
<1> SUFFICES ASSUME ~ overlapped
             PROVE  OneAtATime' /\ InOrder' /\ PurgeSound' /\ AllCounted' /\ WindowLimit'
  BY <1>3, <1>4, <1>5, <1>6 DEF LimiterInv
<1>7. OneAtATime /\ InOrder /\ PurgeSound /\ AllCounted /\ WindowLimit BY DEF LimiterInv
<1>8. /\ \A q \in Allows : (InAllow(q)' <=> InAllow(q)) /\ (q # r => ~ InAllow(q))
      /\ apc'[r] = "loaded" /\ bkt'[r] = bucketOfKey'
      /\ \A q \in Allows : q # r => apc'[q] = apc[q]
  BY <1>3, <1>7 DEF InAllow, OneAtATime, LimiterInv, LimiterTypeOK
<1>9. OneAtATime'
  <2>1. \A q \in Allows : apc'[q] = "loaded" => q = r BY <1>8 DEF InAllow
  <2> QED BY <1>3, <1>7, <1>8, <2>1 DEF OneAtATime
<1>10. InOrder' BY <1>2, <1>3, <1>7, <1>8 DEF InOrder
<1>11. PurgeSound' BY <1>2, <1>3, <1>7 DEF PurgeSound
<1>12. \A q \in Allows : apc'[q] = "allowed" <=> apc[q] = "allowed" BY <1>3, <1>8
<1>13. AllCounted'
  <2>1. \A low, stamps : Counted(apc, nowOf, low, stamps) => Counted(apc', nowOf', low, stamps)
    BY <1>3, <1>12, SameAllowed
  <2>2. \A low, stamps : Counted(apc, nowOf, low, stamps) => Counted(apc', nowOf, low, stamps)
    BY <1>3, <2>1
  <2> QED BY <1>2, <1>3, <1>7, <1>8, <2>2 DEF AllCounted
<1>14. WindowLimit' BY <1>3, <1>7, <1>12, SameAllowed
<1> QED BY <1>9, <1>10, <1>11, <1>13, <1>14

\* The request that is let through gets the new place.
LEMMA CountedAppend ==
  ASSUME NEW T, NEW pcs \in [Allows -> T], NEW at, NEW low, NEW stamps \in Seq(0..MaxWall),
         Counted(pcs, at, low, stamps),
         NEW r \in Allows, pcs[r] # "allowed", at[r] >= low, at[r] \in 0..MaxWall
  PROVE  /\ Recent([pcs EXCEPT ![r] = "allowed"], at, low) = Recent(pcs, at, low) \cup {r}
         /\ Counted([pcs EXCEPT ![r] = "allowed"], at, low, Append(stamps, at[r]))
<1> DEFINE now2 == [pcs EXCEPT ![r] = "allowed"]
           more == Append(stamps, at[r])
<1>1. PICK f \in [Recent(pcs, at, low) -> DOMAIN stamps] :
        /\ \A p, q \in Recent(pcs, at, low) : f[p] = f[q] => p = q
        /\ \A q \in Recent(pcs, at, low) : stamps[f[q]] = at[q]
  BY DEF Counted
<1>2. Recent(now2, at, low) = Recent(pcs, at, low) \cup {r} /\ r \notin Recent(pcs, at, low)
  BY DEF Recent
<1>3. /\ DOMAIN stamps = 1..Len(stamps) /\ Len(stamps) \in Nat
      /\ Len(more) = Len(stamps) + 1 /\ DOMAIN more = 1..(Len(stamps) + 1)
      /\ more[Len(stamps) + 1] = at[r]
      /\ \A i \in 1..Len(stamps) : more[i] = stamps[i]
  OBVIOUS
<1> DEFINE g == [q \in Recent(now2, at, low) |-> IF q = r THEN Len(stamps) + 1 ELSE f[q]]
<1>4. \A q \in Recent(now2, at, low) :
        g[q] = IF q = r THEN Len(stamps) + 1 ELSE f[q]
  OBVIOUS
<1>5. \A q \in Recent(pcs, at, low) : f[q] \in 1..Len(stamps) BY <1>1, <1>3
<1> HIDE DEF now2, more
<1>6. g \in [Recent(now2, at, low) -> DOMAIN more] BY <1>2, <1>3, <1>5
<1> HIDE DEF g
<1>7. \A p, q \in Recent(now2, at, low) : g[p] = g[q] => p = q
  BY <1>1, <1>2, <1>3, <1>4, <1>5
<1>8. \A q \in Recent(now2, at, low) : more[g[q]] = at[q]
  BY <1>1, <1>2, <1>3, <1>4, <1>5
<1>9. Counted(now2, at, low, more) BY <1>6, <1>7, <1>8 DEF Counted
<1> QED BY <1>2, <1>9 DEF now2, more

\* The part under the mutex, without its history: what the bucket becomes.
LEMMA DecideShape ==
  ASSUME LimiterInv, NEW r \in Allows, Decide(r)
  PROVE  \E n \in Nat :
           LET old == ts[bkt[r]]
               kept == Evict(old, nowOf[r] - Window)
               new == ts'[bkt[r]] IN
           /\ bkt[r] \in DOMAIN ts /\ DOMAIN ts' = DOMAIN ts /\ Len(ts') = Len(ts)
           /\ ts' \in Seq(Seq(0..MaxWall))
           /\ \A b \in DOMAIN ts : b # bkt[r] => ts'[b] = ts[b]
           /\ old \in Seq(0..MaxWall) /\ kept \in Seq(0..MaxWall) /\ new \in Seq(0..MaxWall)
           /\ n <= Len(old) /\ Len(kept) = Len(old) - n
           /\ \A i \in 1..(Len(old) - n) : kept[i] = old[n + i]
           /\ \/ new = kept /\ apc' = [apc EXCEPT ![r] = "denied"]
              \/ /\ new = Append(kept, nowOf[r]) /\ Len(kept) < Limit
                 /\ apc' = [apc EXCEPT ![r] = "allowed"]
<1> DEFINE b == bkt[r]
           old == ts[b]
           kept == Evict(old, nowOf[r] - Window)
           new == ts'[b]
           S == Seq(0..MaxWall)
<1>1. ts \in Seq(S) /\ Len(ts) \in Nat /\ DOMAIN ts = 1..Len(ts) BY LimiterTyped
<1>2. b \in DOMAIN ts
  <2>1. b \in 0..Len(ts) /\ b # 0 BY DEF Decide, LimiterInv, LimiterTypeOK, LimiterPlaces
  <2> QED BY <1>1, <2>1
<1>3. old \in S BY <1>2 DEF LimiterInv, LimiterTypeOK
<1>4. nowOf[r] \in 0..MaxWall /\ nowOf[r] - Window \in Int BY LimiterTyped
<1>5. PICK n \in Nat : /\ n <= Len(old)
                       /\ kept \in S
                       /\ Len(kept) = Len(old) - n
                       /\ \A i \in 1..(Len(old) - n) : kept[i] = old[n + i]
  BY <1>3, <1>4, EvictKeepsEnd
<1>6. Append(kept, nowOf[r]) \in S BY <1>4, <1>5, AppendProperties
<1>7. \E x \in S : /\ ts' = [ts EXCEPT ![b] = x]
                   /\ \/ x = kept /\ apc' = [apc EXCEPT ![r] = "denied"]
                      \/ /\ x = Append(kept, nowOf[r]) /\ Len(kept) < Limit
                         /\ apc' = [apc EXCEPT ![r] = "allowed"]
  BY <1>5, <1>6 DEF Decide
<1> HIDE DEF b, old, kept, S
<1>8. PICK x \in S : /\ ts' = [ts EXCEPT ![b] = x]
                     /\ \/ x = kept /\ apc' = [apc EXCEPT ![r] = "denied"]
                        \/ /\ x = Append(kept, nowOf[r]) /\ Len(kept) < Limit
                           /\ apc' = [apc EXCEPT ![r] = "allowed"]
  BY <1>7
<1>9. ts' \in Seq(S) /\ Len(ts') = Len(ts) BY <1>1, <1>2, <1>8, ExceptSeq
<1>10. DOMAIN ts' = DOMAIN ts /\ ts'[b] = x /\ \A c \in DOMAIN ts : c # b => ts'[c] = ts[c]
  BY <1>1, <1>2, <1>8
<1> QED BY <1>2, <1>3, <1>5, <1>8, <1>9, <1>10 DEF b, old, kept, S

LEMMA DecideKeeps ==
  ASSUME LimiterInv, NEW r \in Allows, Decide(r)
  PROVE  LimiterInv'
<1> DEFINE b == bkt[r]
           low == nowOf[r] - Window
           old == ts[b]
           kept == Evict(old, low)
           new == ts'[b]
<1>1. PICK n \in Nat :
        /\ b \in DOMAIN ts /\ DOMAIN ts' = DOMAIN ts /\ Len(ts') = Len(ts)
        /\ ts' \in Seq(Seq(0..MaxWall))
        /\ \A c \in DOMAIN ts : c # b => ts'[c] = ts[c]
        /\ old \in Seq(0..MaxWall) /\ kept \in Seq(0..MaxWall) /\ new \in Seq(0..MaxWall)
        /\ n <= Len(old) /\ Len(kept) = Len(old) - n
        /\ \A i \in 1..(Len(old) - n) : kept[i] = old[n + i]
        /\ \/ new = kept /\ apc' = [apc EXCEPT ![r] = "denied"]
           \/ /\ new = Append(kept, nowOf[r]) /\ Len(kept) < Limit
              /\ apc' = [apc EXCEPT ![r] = "allowed"]
  BY DecideShape
<1>2. /\ apc[r] = "loaded"
      /\ UNCHANGED <<wall, nowOf, bkt, bucketOfKey, lpc, cutoff, closer, stopped, overlapped>>
  BY DEF Decide, loopVars
<1>3. /\ wall \in Nat /\ Window \in Nat /\ Limit \in Nat /\ nowOf[r] \in 0..MaxWall
      /\ nowOf[r] <= wall /\ low \in Int /\ nowOf[r] >= low /\ nowOf \in [Allows -> Int]
      /\ wall - Window \in Int /\ low <= wall - Window /\ MaxWall \in Nat
  BY LimiterTyped DEF LimiterInv, LimiterPlaces
<1> HIDE DEF old, kept, new, b, low
<1>4. /\ Len(old) \in Nat /\ DOMAIN old = 1..Len(old)
      /\ Len(kept) \in Nat /\ DOMAIN kept = 1..Len(kept)
      /\ Len(new) \in Nat /\ DOMAIN new = 1..Len(new)
      /\ \A i \in DOMAIN old : old[i] \in 0..MaxWall
  <2>1. old \in Seq(0..MaxWall) /\ kept \in Seq(0..MaxWall) /\ new \in Seq(0..MaxWall)
    BY <1>1
  <2>2. /\ Len(old) \in Nat /\ DOMAIN old = 1..Len(old)
        /\ Len(kept) \in Nat /\ DOMAIN kept = 1..Len(kept)
        /\ Len(new) \in Nat /\ DOMAIN new = 1..Len(new)
    BY <2>1
  <2> QED BY <2>1, <2>2, ElementOfSeq
<1>a. /\ n <= Len(old) /\ Len(kept) = Len(old) - n
      /\ \A i \in 1..(Len(old) - n) : kept[i] = old[n + i]
  BY <1>1
<1>5. new # kept => /\ Len(new) = Len(kept) + 1 /\ new[Len(kept) + 1] = nowOf[r]
                    /\ \A i \in 1..Len(kept) : new[i] = kept[i]
                    /\ Len(kept) < Limit
  <2>1. kept \in Seq(0..MaxWall) BY <1>1
  <2>2. new # kept => new = Append(kept, nowOf[r]) /\ Len(kept) < Limit BY <1>1
  <2>3. nowOf[r] \in 0..MaxWall BY <1>3
  <2> DEFINE more == Append(kept, nowOf[r])
  <2>4. /\ Len(more) = Len(kept) + 1 /\ more[Len(kept) + 1] = nowOf[r]
        /\ \A i \in 1..Len(kept) : more[i] = kept[i]
    BY <2>1, <2>3, AppendProperties
  <2> HIDE DEF more
  <2>5. new # kept => new = more BY <2>2 DEF more
  <2> QED BY <2>2, <2>4, <2>5
<1>6. LimiterTypeOK'
  <2>1. \A c \in DOMAIN ts' : ts'[c] \in Seq(0..MaxWall)
    BY <1>1 DEF LimiterInv, LimiterTypeOK, new
  <2>2. apc' \in [Allows -> {"idle", "now", "loaded", "allowed", "denied"}]
    BY <1>1 DEF LimiterInv, LimiterTypeOK
  <2> QED BY <1>1, <1>2, <2>1, <2>2 DEF LimiterInv, LimiterTypeOK
<1>7. \A q \in Allows : (q # r => apc'[q] = apc[q]) /\ apc'[r] \in {"allowed", "denied"}
  BY <1>1 DEF LimiterInv, LimiterTypeOK
<1>8. LimiterPlaces' BY <1>1, <1>2, <1>7 DEF LimiterInv, LimiterPlaces
<1>9. BucketBound'
  <2>1. Len(old) <= Limit BY <1>1 DEF LimiterInv, BucketBound, old
  <2>2. Len(new) <= Limit
    <3>1. CASE new = kept BY <3>1, <2>1, <1>3, <1>4, <1>a
    <3>2. CASE new # kept BY <3>2, <1>3, <1>4, <1>5
    <3> QED BY <3>1, <3>2
  <2> QED BY <1>1, <2>2 DEF LimiterInv, BucketBound, new
<1> SUFFICES ASSUME ~ overlapped
             PROVE  OneAtATime' /\ InOrder' /\ PurgeSound' /\ AllCounted' /\ WindowLimit'
  BY <1>2, <1>6, <1>8, <1>9 DEF LimiterInv
<1>10. OneAtATime /\ InOrder /\ AllCounted /\ WindowLimit BY DEF LimiterInv
<1>11. InAllow(r) /\ lpc \notin {"range", "delete"} /\ \A q \in Allows : ~ InAllow(q)'
  BY <1>2, <1>7, <1>10 DEF OneAtATime, InAllow
<1>12. b = bucketOfKey /\ b # 0 /\ Bucket = old /\ Bucket' = new
  <2>1. b = bucketOfKey BY <1>2, <1>10 DEF OneAtATime, b
  <2>2. b # 0 BY <1>2 DEF LimiterInv, LimiterPlaces, b
  <2> QED BY <1>2, <2>1, <2>2 DEF Bucket, old, new
<1>13. OneAtATime' BY <1>2, <1>11 DEF OneAtATime, InAllow
<1>14. PurgeSound' BY <1>2, <1>11 DEF PurgeSound
<1>15. InOrder'
  <2>1. /\ \A i, j \in DOMAIN old : i <= j => old[i] <= old[j]
        /\ \A i \in DOMAIN old : old[i] <= nowOf[r]
    BY <1>10, <1>11, <1>12 DEF InOrder
  <2>2. /\ \A i \in 1..Len(kept) : kept[i] <= nowOf[r] /\ kept[i] \in 0..MaxWall
        /\ \A i, j \in 1..Len(kept) : i <= j => kept[i] <= kept[j]
    <3>1. \A i \in 1..Len(kept) : n + i \in DOMAIN old /\ kept[i] = old[n + i]
      BY <1>4, <1>a
    <3>2. \A i \in 1..Len(kept) : kept[i] <= nowOf[r] /\ kept[i] \in 0..MaxWall
      BY <1>4, <2>1, <3>1
    <3>3. \A i, j \in 1..Len(kept) : i <= j => n + i <= n + j BY <1>4
    <3>4. \A i, j \in 1..Len(kept) : i <= j => kept[i] <= kept[j]
      BY <2>1, <3>1, <3>3
    <3> QED BY <3>2, <3>4
  <2>3. /\ \A i \in 1..Len(new) : new[i] <= nowOf[r] /\ new[i] \in 0..MaxWall
        /\ \A i, j \in 1..Len(new) : i <= j => new[i] <= new[j]
    <3>1. CASE new = kept BY <3>1, <2>2
    <3>2. CASE new # kept
      <4>1. \A i \in 1..Len(new) : i \in 1..Len(kept) \/ i = Len(kept) + 1 BY <3>2, <1>4, <1>5
      <4>2. \A i \in 1..Len(new) : new[i] <= nowOf[r] /\ new[i] \in 0..MaxWall
        BY <3>2, <4>1, <2>2, <1>3, <1>4, <1>5
      <4>3. ASSUME NEW i \in 1..Len(new), NEW j \in 1..Len(new), i <= j PROVE new[i] <= new[j]
        <5>1. CASE j = Len(kept) + 1 BY <3>2, <5>1, <4>2, <1>5
        <5>2. CASE j \in 1..Len(kept)
          <6>1. i \in 1..Len(kept) BY <4>3, <5>2, <1>4
          <6> QED BY <3>2, <4>3, <5>2, <6>1, <2>2, <1>5
        <5> QED BY <4>1, <5>1, <5>2
      <4> QED BY <4>2, <4>3
    <3> QED BY <3>1, <3>2
  <2>4. \A i \in 1..Len(new) : new[i] <= wall BY <2>3, <1>3
  <2> QED BY <1>2, <1>4, <1>11, <1>12, <2>3, <2>4 DEF InOrder
<1>16. Counted(apc, nowOf, low, kept)
  <2>1. Counted(apc, nowOf, low, old) BY <1>10, <1>11, <1>12 DEF AllCounted, low
  <2> QED BY <1>1, <1>3, <2>1, CountedAfterEvict DEF kept
<1>17. apc \in [Allows -> {"idle", "now", "loaded", "allowed", "denied"}] BY DEF LimiterInv, LimiterTypeOK
<1>18. Counted(apc', nowOf, low, new)
  <2>1. CASE new = kept /\ apc' = [apc EXCEPT ![r] = "denied"]
    <3>1. \A q \in Allows : apc'[q] = "allowed" <=> apc[q] = "allowed"
      BY <2>1, <1>2, <1>7, <1>17
    <3> QED BY <2>1, <3>1, <1>2, <1>16, SameAllowed
  <2>2. CASE new = Append(kept, nowOf[r]) /\ apc' = [apc EXCEPT ![r] = "allowed"]
    BY <2>2, <1>1, <1>2, <1>3, <1>16, <1>17, CountedAppend
  <2> QED BY <1>1, <2>1, <2>2
<1>19. AllCounted'
  <2>1. Counted(apc', nowOf, wall - Window, new) BY <1>3, <1>18, CountedLater
  <2> QED BY <2>1, <1>2, <1>11, <1>12 DEF AllCounted
<1>20. WindowLimit'
  <2>1. CASE apc' = [apc EXCEPT ![r] = "denied"]
    <3>1. \A q \in Allows : apc'[q] = "allowed" <=> apc[q] = "allowed"
      BY <2>1, <1>2, <1>7, <1>17
    <3> QED BY <3>1, <1>2, <1>10, SameAllowed
  <2>2. CASE apc' = [apc EXCEPT ![r] = "allowed"] /\ Len(kept) < Limit
    <3> SUFFICES ASSUME NEW t \in 0..MaxWall
                 PROVE  Cardinality(AllowedIn(t)') <= Limit
      BY DEF WindowLimit
    <3> DEFINE R == Recent(apc, nowOf, low)
               A == AllowedIn(t)'
    <3>1. A = {q \in Allows : apc'[q] = "allowed" /\ t - Window <= nowOf[q] /\ nowOf[q] <= t}
      BY <1>2 DEF AllowedIn
    <3>2. CASE r \notin A
      <4>1. A = AllowedIn(t)
        <5>1. \A q \in Allows : q # r => (q \in A <=> q \in AllowedIn(t))
          BY <3>1, <1>7 DEF AllowedIn
        <5>2. r \notin AllowedIn(t) BY <1>2 DEF AllowedIn
        <5>3. A \subseteq Allows /\ AllowedIn(t) \subseteq Allows BY <3>1 DEF AllowedIn
        <5> HIDE DEF A
        <5> QED BY <3>2, <5>1, <5>2, <5>3
      <4> QED BY <4>1, <1>10 DEF WindowLimit
    <3>3. CASE r \in A
      <4>1. t >= nowOf[r] /\ t \in Nat BY <3>1, <3>3
      <4>2. A \subseteq R \cup {r}
        <5> SUFFICES ASSUME NEW q \in A, q # r PROVE q \in R OBVIOUS
        <5>1. q \in Allows /\ apc[q] = "allowed" /\ t - Window <= nowOf[q]
          BY <3>1, <1>7
        <5>2. nowOf[q] >= low BY <5>1, <4>1, <1>3 DEF low
        <5> QED BY <5>1, <5>2 DEF Recent
      <4>3. IsFiniteSet(R) /\ Cardinality(R) <= Len(kept) BY <1>1, <1>16, CountedBound
      <4> HIDE DEF R, A
      <4>4. /\ IsFiniteSet(R \cup {r})
            /\ Cardinality(R \cup {r}) = IF r \in R THEN Cardinality(R) ELSE Cardinality(R) + 1
        BY <4>3, FS_AddElement
      <4>5. Cardinality(R) \in Nat BY <4>3, FS_CardinalityType
      <4>6. Cardinality(R \cup {r}) <= Limit /\ Cardinality(R \cup {r}) \in Nat
        BY <2>2, <4>3, <4>4, <4>5, <1>3, <1>4
      <4>7. IsFiniteSet(A) /\ Cardinality(A) <= Cardinality(R \cup {r})
        BY <4>2, <4>4, FS_Subset
      <4>8. Cardinality(A) \in Nat BY <4>7, FS_CardinalityType
      <4>9. Cardinality(A) <= Limit BY <4>6, <4>7, <4>8, <1>3
      <4> QED BY <4>9 DEF A
    <3> QED BY <3>2, <3>3
  <2> QED BY <1>1, <2>1, <2>2
<1> QED BY <1>13, <1>14, <1>15, <1>19, <1>20

LEMMA LimiterNextInv ==
  ASSUME LimiterInv, [LimiterNext]_limiterVars
  PROVE  LimiterInv'
<1>1. CASE UNCHANGED limiterVars
  <2>1. LimiterTypeOK' /\ (~ overlapped => PurgeSound')
    BY <1>1 DEF limiterVars, LimiterInv, LimiterTypeOK, PurgeSound, Bucket
  <2>2. ~ overlapped /\ lpc' \in {"range", "delete"} => \A r \in Allows : ~ InAllow(r)
    BY <1>1 DEF limiterVars, LimiterInv, OneAtATime
  <2> QED BY <1>1, <2>1, <2>2, QuietKeeps DEF limiterVars
<1>2. CASE LimiterNext
  BY <1>2, WallTickKeeps, ReadClockKeeps, LoadOrStoreKeeps, DecideKeeps, CleanupKeeps,
     DeleteBucketKeeps, CloseKeeps DEF LimiterNext
<1> QED BY <1>1, <1>2

LEMMA LimiterInvSound ==
  ASSUME LimiterInv
  PROVE  LimiterSound
<1>1. WindowLimitUnlessRaced /\ BucketBound BY DEF LimiterInv, WindowLimitUnlessRaced
<1>2. NothingForgotten
  <2> SUFFICES ASSUME ~ overlapped, NEW r \in Allows, apc[r] = "allowed", nowOf[r] > wall - Window
               PROVE  bucketOfKey # 0 /\ \E i \in DOMAIN ts[bucketOfKey] : ts[bucketOfKey][i] = nowOf[r]
    BY DEF NothingForgotten
  <2> DEFINE low == wall - Window
  <2>1. r \in Recent(apc, nowOf, low) BY LimiterTyped DEF Recent
  <2>2. PICK f \in [Recent(apc, nowOf, low) -> DOMAIN Bucket] :
          \A q \in Recent(apc, nowOf, low) : Bucket[f[q]] = nowOf[q]
    BY DEF LimiterInv, AllCounted, Counted
  <2>3. f[r] \in DOMAIN Bucket /\ Bucket[f[r]] = nowOf[r] BY <2>1, <2>2
  <2>4. bucketOfKey # 0 BY <2>3 DEF Bucket
  <2>5. Bucket = ts[bucketOfKey] BY <2>4 DEF Bucket
  <2> QED BY <2>3, <2>4, <2>5
<1> QED BY <1>1, <1>2 DEF LimiterSound

\* The state of the limiter in every reachable state.
THEOREM LimiterInvariance == LimiterSpec => []LimiterInv
<1>1. LimiterInit => LimiterInv BY LimiterInitInv
<1>2. LimiterInv /\ [LimiterNext]_limiterVars => LimiterInv' BY LimiterNextInv
<1> QED BY <1>1, <1>2, PTL DEF LimiterSpec

\* No more than RequestsPerWindow requests pass in any window and no timestamp is
\* lost as long as no Allow overlaps another Allow or a purge, and a bucket never
\* outgrows the limit even then, for any number of calls, limit and window.
THEOREM LimiterIsSound == LimiterSpec => []LimiterSound
<1>1. LimiterInv => LimiterSound BY LimiterInvSound
<1> QED BY <1>1, LimiterInvariance, PTL

-----------------------------------------------------------------------------
(* Access control.                                                         *)

\* What a call keeps between its steps.
Arg ==
  [tenant : Tenants \cup {None}, user : Registers \cup {None}, email : Emails \cup {None},
   code : Codes \cup {None}, role : RoleCalls \cup {None}, lax : BOOLEAN,
   todo : SUBSET (RoleCalls \cup Permissions), ask : SUBSET Permissions,
   codes : SUBSET Codes, perms : SUBSET Permissions, began : Nat]

LocalsTyped ==
  /\ arg \in [Calls -> Arg]
  /\ lastHeld \in [Tenants \X Registers \X Permissions -> Nat \cup {None}]

\* Registrations.
RegisterPlace(u) ==
  /\ pc[u] = "create" => arg[u].email \in Emails
  /\ pc[u] = "tenant" => arg[u].tenant \in Tenants

UniqueEmails == \A u, v \in Registers : users[u] # None /\ users[u] = users[v] => u = v
UniqueCodes == \A r, q \in RoleCalls : roles[r] # None /\ roles[r] = roles[q] => r = q

\* Creations and assignments of roles.
RolePlace(r) ==
  pc[r] = "create" => /\ arg[r].tenant \in Tenants /\ arg[r].code \in Codes
                      /\ arg[r].role = r /\ arg[r].todo = arg[r].ask

FillPlace(c) ==
  pc[c] \in {"clear", "grant"} => /\ arg[c].role \in RoleCalls
                                  /\ arg[c].todo \subseteq arg[c].ask
                                  /\ pc[c] = "clear" => arg[c].todo = arg[c].ask

\* A role that is not disturbed has one assignment at a time, and what that one has
\* given it so far.
OneFiller ==
  \A r \in RoleCalls \ disturbed : \A c \in RoleCalls \cup Admins : Filling(c, r) =>
    /\ \A d \in RoleCalls \cup Admins : Filling(d, r) => d = c
    /\ pc[c] = "grant" => PermissionsOf(r) = arg[c].ask \ arg[c].todo

\* Assignments of roles to members, and the reference of user_roles to roles.
AdminPlace(a) ==
  pc[a] \in {"create", "assign"} => /\ arg[a].tenant \in Tenants /\ arg[a].user \in Registers
                                   /\ arg[a].todo \subseteq RoleCalls
AssignedExist == \A r \in RoleCalls : (\E t \in Tenants, u \in Registers : <<t, u, r>> \in userRoles)
                                     => roles[r] \in RoleRow

\* Each permission of ps was held by u in t at time began or later.
HeldSince(t, u, ps, began) ==
  \A p \in ps : lastHeld[<<t, u, p>>] \in Nat /\ lastHeld[<<t, u, p>>] >= began

HeldNow ==
  \A t \in Tenants, u \in Registers, p \in Permissions :
    Held(t, u, p) => lastHeld[<<t, u, p>>] = now

\* Logins: what was read is still true unless somebody wrote since.
SessionPlace(s) ==
  /\ pc[s] \in {"member", "roles", "perms", "issue"} =>
       arg[s].user \in Registers /\ arg[s].tenant \in Tenants /\ arg[s].began <= now
  /\ pc[s] = "perms" /\ s \notin torn /\ arg[s].codes = {} =>
       RolesOf(arg[s].tenant, arg[s].user) = {}
  /\ pc[s] = "issue" =>
       /\ s \notin torn /\ arg[s].codes = {} => arg[s].perms = {}
       /\ HeldSince(arg[s].tenant, arg[s].user, arg[s].perms, arg[s].began)

TokenPlace(s) ==
  /\ token[s] # None =>
       /\ token[s].began <= now
       /\ HeldSince(token[s].tenant, token[s].user, token[s].perms, token[s].began)
       /\ ~ token[s].torn /\ token[s].codes = {} => token[s].perms = {}
  /\ use[s] # None =>
       token[s] # None /\ use[s].perm \in token[s].perms /\ use[s].time < token[s].exp

RegisterInv == (\A u \in Registers : RegisterPlace(u)) /\ UniqueEmails /\ RegisteredIsMember
RoleInv ==
  /\ \A r \in RoleCalls : RolePlace(r)
  /\ \A c \in RoleCalls \cup Admins : FillPlace(c)
  /\ UniqueCodes
  /\ OneFiller
  /\ RoleAsAssigned
MemberInv == (\A a \in Admins : AdminPlace(a)) /\ AssignedExist
SessionInv == (\A s \in Sessions : SessionPlace(s) /\ TokenPlace(s)) /\ HeldNow

\* The inductive invariant of AccessControl.
AccessInv == TypeOK /\ LocalsTyped /\ RegisterInv /\ RoleInv /\ MemberInv /\ SessionInv

LastNext ==
  lastHeld' = [k \in DOMAIN lastHeld |-> IF Held(k[1], k[2], k[3])' THEN now' ELSE lastHeld[k]]

LEMMA NoArgTyped == NoArg \in Arg
BY DEF NoArg, Arg

LEMMA AccessInitInv ==
  ASSUME Init
  PROVE  AccessInv
<1> USE DEF Init
<1>1. TypeOK BY DEF TypeOK, PCs
<1>2. LocalsTyped BY NoArgTyped DEF LocalsTyped
<1>3. \A c \in Calls : pc[c] = "idle" OBVIOUS
<1>4. RegisterInv
  BY <1>3 DEF RegisterInv, RegisterPlace, UniqueEmails, RegisteredIsMember, Calls
<1>5. \A c \in RoleCalls \cup Admins : FillPlace(c) /\ \A r \in RoleCalls : ~ Filling(c, r)
  BY <1>3 DEF FillPlace, Filling, Calls
<1>6. RoleInv
  <2>1. OneFiller BY <1>5 DEF OneFiller
  <2>2. \A r \in RoleCalls : PermissionsOf(r) = wanted[r] BY DEF PermissionsOf
  <2>3. RoleAsAssigned BY <2>2 DEF RoleAsAssigned
  <2>4. UniqueCodes BY DEF UniqueCodes
  <2>5. \A r \in RoleCalls : RolePlace(r) BY <1>3 DEF RolePlace, Calls
  <2> QED BY <1>5, <2>1, <2>3, <2>4, <2>5 DEF RoleInv
<1>7. MemberInv BY <1>3 DEF MemberInv, AdminPlace, AssignedExist, Calls
<1>8. SessionInv
  BY <1>3 DEF SessionInv, SessionPlace, TokenPlace, HeldNow, Held, Calls
<1> QED BY <1>1, <1>2, <1>4, <1>6, <1>7, <1>8 DEF AccessInv

\* Only c moves, to label, with locals that are typed.
OnlyCall(c, label) ==
  /\ pc' \in [Calls -> PCs] /\ arg' \in [Calls -> Arg]
  /\ pc'[c] = label
  /\ \A d \in Calls : d # c => pc'[d] = pc[d] /\ arg'[d] = arg[d]

LEMMA GotoTyped ==
  ASSUME AccessInv, NEW c \in Calls, NEW label \in PCs, NEW r \in Arg, Goto(c, label, r)
  PROVE  /\ OnlyCall(c, label)
         /\ label \notin {"ok", "refused"} => arg'[c] = r
         /\ label \in {"ok", "refused"} /\ c \in Registers => arg'[c].tenant = r.tenant
<1>1. r.tenant \in Tenants \cup {None} BY DEF Arg
<1> DEFINE x == IF label \notin {"ok", "refused"} THEN r
                ELSE IF c \in Registers THEN [NoArg EXCEPT !.tenant = r.tenant]
                ELSE NoArg
<1>2. /\ [NoArg EXCEPT !.tenant = r.tenant] \in Arg
      /\ [NoArg EXCEPT !.tenant = r.tenant].tenant = r.tenant
  BY <1>1 DEF NoArg, Arg
<1>3. x \in Arg BY <1>2, NoArgTyped
<1>4. pc' = [pc EXCEPT ![c] = label] /\ arg' = [arg EXCEPT ![c] = x] BY DEF Goto
<1>5. /\ label \notin {"ok", "refused"} => x = r
      /\ label \in {"ok", "refused"} /\ c \in Registers => x.tenant = r.tenant
  BY <1>2
<1> HIDE DEF x
<1> QED BY <1>3, <1>4, <1>5 DEF OnlyCall, AccessInv, TypeOK, LocalsTyped

\* Frame lemmas: what the steps of other calls leave as it was.

Same(c) == pc'[c] = pc[c] /\ arg'[c] = arg[c]

LEMMA RegistersKeep ==
  ASSUME AccessInv, users' = users, members \subseteq members', faults' \in Nat,
         faults <= faults', \A u \in Registers : Same(u) \/ pc'[u] = "refused"
  PROVE  RegisterInv'
<1>1. \A u \in Registers : RegisterPlace(u)'
  BY DEF AccessInv, RegisterInv, RegisterPlace, Same
<1>2. UniqueEmails' BY DEF AccessInv, RegisterInv, UniqueEmails
<1>3. faults' = 0 => faults = 0 BY DEF AccessInv, TypeOK
<1>4. RegisteredIsMember'
  BY <1>3 DEF AccessInv, RegisterInv, RegisteredIsMember, Same
<1> QED BY <1>1, <1>2, <1>4 DEF RegisterInv

\* c goes on as it was, or fills no role any more and what it filled is disturbed.
Harmless(c) ==
  \/ Same(c)
  \/ /\ pc'[c] \notin {"clear", "grant"}
     /\ \A r \in RoleCalls : Filling(c, r) => r \in disturbed'

LEMMA FillersKeep ==
  ASSUME AccessInv, grants' = grants, wanted' = wanted, disturbed \subseteq disturbed',
         \A c \in RoleCalls \cup Admins : Harmless(c)
  PROVE  (\A c \in RoleCalls \cup Admins : FillPlace(c)') /\ OneFiller' /\ RoleAsAssigned'
<1>1. \A c \in RoleCalls \cup Admins : FillPlace(c)'
  BY DEF AccessInv, RoleInv, FillPlace, Harmless, Same
<1>2. \A r \in RoleCalls : PermissionsOf(r)' = PermissionsOf(r) BY DEF PermissionsOf
<1>3. \A c \in RoleCalls \cup Admins, r \in RoleCalls :
        Filling(c, r)' => Filling(c, r) /\ Same(c)
  BY DEF Harmless, Same, Filling
<1>4. \A c \in RoleCalls \cup Admins, r \in RoleCalls :
        Filling(c, r) => Filling(c, r)' \/ r \in disturbed'
  BY DEF Harmless, Same, Filling
<1>5. OneFiller'
  <2>1. SUFFICES ASSUME NEW r \in RoleCalls, r \notin disturbed',
                        NEW c \in RoleCalls \cup Admins, Filling(c, r)'
                 PROVE  /\ \A d \in RoleCalls \cup Admins : Filling(d, r)' => d = c
                        /\ pc'[c] = "grant" => PermissionsOf(r)' = arg'[c].ask \ arg'[c].todo
    BY DEF OneFiller
  <2>2. r \notin disturbed /\ Filling(c, r) /\ Same(c) BY <2>1, <1>3
  <2>3. /\ \A d \in RoleCalls \cup Admins : Filling(d, r) => d = c
        /\ pc[c] = "grant" => PermissionsOf(r) = arg[c].ask \ arg[c].todo
    BY <2>2 DEF AccessInv, RoleInv, OneFiller
  <2> QED BY <2>2, <2>3, <1>2, <1>3 DEF Same
<1>6. RoleAsAssigned'
  BY <1>2, <1>4 DEF AccessInv, RoleInv, RoleAsAssigned
<1> QED BY <1>1, <1>5, <1>6

LEMMA RolesKeep ==
  ASSUME AccessInv, roles' = roles, grants' = grants, wanted' = wanted,
         disturbed \subseteq disturbed',
         \A c \in RoleCalls \cup Admins : Harmless(c),
         \A r \in RoleCalls : Same(r) \/ pc'[r] # "create"
  PROVE  RoleInv'
<1>1. \A r \in RoleCalls : RolePlace(r)' BY DEF AccessInv, RoleInv, RolePlace, Same
<1>2. UniqueCodes' BY DEF AccessInv, RoleInv, UniqueCodes
<1> QED BY <1>1, <1>2, FillersKeep DEF RoleInv

LEMMA MembersKeep ==
  ASSUME AccessInv, userRoles' \subseteq userRoles,
         \A r \in RoleCalls : roles[r] \in RoleRow => roles'[r] \in RoleRow,
         \A a \in Admins : Same(a) \/ pc'[a] \notin {"create", "assign"}
  PROVE  MemberInv'
<1>1. \A a \in Admins : AdminPlace(a)' BY DEF AccessInv, MemberInv, AdminPlace, Same
<1>2. AssignedExist' BY DEF AccessInv, MemberInv, AssignedExist
<1> QED BY <1>1, <1>2 DEF MemberInv

LEMMA LastTyped ==
  ASSUME AccessInv, LastNext, now' \in Nat
  PROVE  /\ lastHeld' \in [Tenants \X Registers \X Permissions -> Nat \cup {None}]
         /\ \A t \in Tenants, u \in Registers, p \in Permissions :
              lastHeld'[<<t, u, p>>] = IF Held(t, u, p)' THEN now' ELSE lastHeld[<<t, u, p>>]
<1>1. DOMAIN lastHeld = Tenants \X Registers \X Permissions
  BY DEF AccessInv, LocalsTyped
<1> QED BY <1>1 DEF AccessInv, LocalsTyped, LastNext

LEMMA HeldNowKeep ==
  ASSUME AccessInv, LastNext, now' \in Nat
  PROVE  HeldNow'
BY LastTyped DEF HeldNow

LEMMA HeldSinceKeep ==
  ASSUME AccessInv, LastNext, now' \in Nat, now <= now',
         NEW t \in Tenants, NEW u \in Registers, NEW ps \in SUBSET Permissions,
         NEW b \in Nat, b <= now, HeldSince(t, u, ps, b)
  PROVE  \A p \in ps : lastHeld'[<<t, u, p>>] \in Nat /\ lastHeld'[<<t, u, p>>] >= b
<1>1. now \in Nat BY DEF AccessInv, TypeOK
<1>2. TAKE p \in ps
<1>3. lastHeld[<<t, u, p>>] \in Nat /\ lastHeld[<<t, u, p>>] >= b BY DEF HeldSince
<1>4. lastHeld'[<<t, u, p>>] \in {now', lastHeld[<<t, u, p>>]} BY LastTyped
<1> QED BY <1>1, <1>3, <1>4

LEMMA SessionKeeps ==
  ASSUME AccessInv, LastNext, now' \in Nat, now <= now', NEW s \in Sessions,
         Same(s) \/ pc'[s] \in {"ok", "refused"}, s \in torn => s \in torn',
         userRoles' = userRoles \/ (pc[s] = "perms" => s \in torn')
  PROVE  SessionPlace(s)'
<1>1. CASE pc'[s] \in {"ok", "refused"} BY <1>1 DEF SessionPlace
<1>2. CASE Same(s)
  <2>1. SessionPlace(s) /\ arg[s] \in Arg /\ now \in Nat
    BY DEF AccessInv, SessionInv, LocalsTyped, TypeOK, Calls
  <2>2. arg[s].perms \in SUBSET Permissions /\ arg[s].began \in Nat BY <2>1 DEF Arg
  <2>3. pc[s] \in {"member", "roles", "perms", "issue"} => arg[s].began <= now'
    BY <2>1, <2>2 DEF SessionPlace
  <2>5. pc[s] = "perms" /\ s \notin torn' /\ arg[s].codes = {} =>
          RolesOf(arg[s].tenant, arg[s].user)' = {}
    BY <2>1, <1>2 DEF SessionPlace, RolesOf, Same
  <2>6. pc[s] = "issue" => HeldSince(arg[s].tenant, arg[s].user, arg[s].perms, arg[s].began)
                        /\ arg[s].user \in Registers /\ arg[s].tenant \in Tenants /\ arg[s].began <= now
    BY <2>1 DEF SessionPlace
  <2> DEFINE t == arg[s].tenant
             u == arg[s].user
             ps == arg[s].perms
             b == arg[s].began
  <2>7. pc[s] = "issue" => \A p \in ps : lastHeld'[<<t, u, p>>] \in Nat /\ lastHeld'[<<t, u, p>>] >= b
    <3> SUFFICES ASSUME pc[s] = "issue"
                 PROVE  \A p \in ps : lastHeld'[<<t, u, p>>] \in Nat /\ lastHeld'[<<t, u, p>>] >= b
      OBVIOUS
    <3> t \in Tenants /\ u \in Registers /\ b <= now /\ HeldSince(t, u, ps, b) BY <2>6
    <3> ps \in SUBSET Permissions /\ b \in Nat BY <2>2
    <3> HIDE DEF t, u, ps, b
    <3> QED BY HeldSinceKeep
  <2> QED BY <1>2, <2>1, <2>3, <2>5, <2>7 DEF SessionPlace, Same, HeldSince, RolesOf
<1> QED BY <1>1, <1>2

LEMMA TokenKeeps ==
  ASSUME AccessInv, LastNext, now' \in Nat, now <= now', NEW s \in Sessions,
         token'[s] = token[s], use'[s] = use[s]
  PROVE  TokenPlace(s)'
<1>1. TokenPlace(s) /\ token[s] \in Token \cup {None} /\ now \in Nat
  BY DEF AccessInv, SessionInv, TypeOK
<1>2. CASE token[s] = None BY <1>1, <1>2 DEF TokenPlace
<1>3. CASE token[s] # None
  <2> DEFINE t == token[s].tenant
             u == token[s].user
             ps == token[s].perms
             b == token[s].began
  <2>1. t \in Tenants /\ u \in Registers /\ ps \in SUBSET Permissions /\ b \in Nat
    BY <1>1, <1>3 DEF Token
  <2>2. b <= now /\ HeldSince(t, u, ps, b) BY <1>1, <1>3 DEF TokenPlace
  <2> HIDE DEF t, u, ps, b
  <2>5. \A p \in ps : lastHeld'[<<t, u, p>>] \in Nat /\ lastHeld'[<<t, u, p>>] >= b
    BY <2>1, <2>2, HeldSinceKeep
  <2>6. b <= now' BY <1>1, <2>1, <2>2
  <2> QED BY <1>1, <1>3, <2>5, <2>6 DEF TokenPlace, HeldSince, t, u, ps, b
<1> QED BY <1>2, <1>3

LEMMA SessionsKeep ==
  ASSUME AccessInv, LastNext, now' \in Nat, now <= now', token' = token, use' = use,
         torn \subseteq torn',
         userRoles' = userRoles \/ \A s \in Sessions : pc[s] = "perms" => s \in torn',
         \A s \in Sessions : Same(s) \/ pc'[s] \in {"ok", "refused"}
  PROVE  SessionInv'
<1>1. HeldNow' BY HeldNowKeep
<1>2. \A s \in Sessions : SessionPlace(s)' BY SessionKeeps
<1>3. \A s \in Sessions : TokenPlace(s)' BY TokenKeeps
<1> QED BY <1>1, <1>2, <1>3 DEF SessionInv

LEMMA OthersSame ==
  ASSUME NEW c \in Calls, NEW label, OnlyCall(c, label)
  PROVE  /\ \A d \in Calls : d # c => Same(d)
         /\ c \in Registers => \A d \in RoleCalls \cup Admins \cup Sessions : Same(d)
         /\ c \in RoleCalls => \A d \in Registers \cup Admins \cup Sessions : Same(d)
         /\ c \in Admins => \A d \in Registers \cup RoleCalls \cup Sessions : Same(d)
         /\ c \in Sessions => \A d \in Registers \cup RoleCalls \cup Admins : Same(d)
BY CallsDisjoint DEF OnlyCall, Same, Calls

\* A step of a session that writes no table: what is left to show is about the session.
LEMMA SessionMoves ==
  ASSUME AccessInv, LastNext, NEW s \in Sessions, NEW label, OnlyCall(s, label),
         UNCHANGED <<tables, now, faults, history>>,
         token' \in [Sessions -> Token \cup {None}], use' \in [Sessions -> Use \cup {None}],
         torn' \subseteq Sessions,
         torn \ {s} \subseteq torn',
         \A d \in Sessions : d # s => token'[d] = token[d] /\ use'[d] = use[d],
         SessionPlace(s)', TokenPlace(s)'
  PROVE  AccessInv'
<1>1. users' = users /\ members' = members /\ roles' = roles /\ grants' = grants
      /\ userRoles' = userRoles /\ now' = now /\ faults' = faults /\ wanted' = wanted
      /\ disturbed' = disturbed
  BY DEF tables, history
<1>2. now \in Nat /\ faults \in Nat /\ now' \in Nat /\ now <= now' /\ faults <= faults'
  BY <1>1 DEF AccessInv, TypeOK
<1>3. s \in Calls BY DEF Calls
<1>4. TypeOK' BY <1>1, <1>2 DEF AccessInv, TypeOK, OnlyCall
<1>5. LocalsTyped' BY <1>2, LastTyped DEF LocalsTyped, OnlyCall
<1>6. \A d \in Registers \cup RoleCalls \cup Admins : Same(d) BY <1>3, OthersSame
<1>7. RegisterInv' BY <1>1, <1>2, <1>6, RegistersKeep
<1>8. RoleInv' BY <1>1, <1>6, RolesKeep DEF Harmless
<1>9. MemberInv' BY <1>1, <1>6, MembersKeep
<1>10. \A d \in Sessions : d # s => SessionPlace(d)' /\ TokenPlace(d)'
  <2> SUFFICES ASSUME NEW d \in Sessions, d # s PROVE SessionPlace(d)' /\ TokenPlace(d)'
    OBVIOUS
  <2>1. Same(d) BY <1>3, OthersSame DEF Calls
  <2>2. d \in torn => d \in torn' OBVIOUS
  <2>3. SessionPlace(d)' BY <1>1, <1>2, <2>1, <2>2, SessionKeeps
  <2>4. TokenPlace(d)' BY <1>2, TokenKeeps
  <2> QED BY <2>3, <2>4
<1>11. HeldNow' BY <1>2, HeldNowKeep
<1>12. SessionInv' BY <1>10, <1>11 DEF SessionInv
<1> QED BY <1>4, <1>5, <1>7, <1>8, <1>9, <1>12 DEF AccessInv

LEMMA LoginKeeps ==
  ASSUME AccessInv, LastNext, NEW s \in Sessions, Login(s)
  PROVE  AccessInv'
<1>1. UNCHANGED <<tables, token, use, now, faults, history, torn>> BY DEF Login
<1>2. s \in Calls /\ now \in Nat BY DEF Calls, AccessInv, TypeOK
<1>3. \/ Goto(s, "refused", NoArg)
      \/ \E u \in Registers, x \in Tenants :
           Goto(s, "member", [NoArg EXCEPT !.user = u, !.tenant = x, !.began = now])
  BY DEF Login, TenantsOf
<1>4. \E l \in PCs : OnlyCall(s, l) /\ SessionPlace(s)'
  <2>1. CASE Goto(s, "refused", NoArg)
    <3>1. OnlyCall(s, "refused") BY <1>2, <2>1, NoArgTyped, GotoTyped DEF PCs
    <3> QED BY <3>1 DEF OnlyCall, SessionPlace, PCs
  <2>2. CASE \E u \in Registers, x \in Tenants :
               Goto(s, "member", [NoArg EXCEPT !.user = u, !.tenant = x, !.began = now])
    <3>1. PICK u \in Registers, x \in Tenants :
            Goto(s, "member", [NoArg EXCEPT !.user = u, !.tenant = x, !.began = now])
      BY <2>2
    <3> DEFINE r == [NoArg EXCEPT !.user = u, !.tenant = x, !.began = now]
    <3>2. r \in Arg /\ r.user = u /\ r.tenant = x /\ r.began = now
      BY <1>2 DEF Arg, NoArg
    <3>3. Goto(s, "member", r) BY <3>1
    <3> HIDE DEF r
    <3>4. OnlyCall(s, "member") /\ arg'[s] = r
      BY <1>2, <3>2, <3>3, GotoTyped DEF PCs
    <3> QED BY <1>1, <1>2, <3>2, <3>4 DEF OnlyCall, SessionPlace, PCs
  <2> QED BY <1>3, <2>1, <2>2
<1>5. TokenPlace(s)' BY <1>1, <1>2, TokenKeeps
<1> QED BY <1>1, <1>4, <1>5, SessionMoves DEF AccessInv, TypeOK

LEMMA SwitchTenantKeeps ==
  ASSUME AccessInv, LastNext, NEW s \in Sessions, SwitchTenant(s)
  PROVE  AccessInv'
<1>1. UNCHANGED <<tables, token, use, now, faults, history, torn>> BY DEF SwitchTenant
<1>2. s \in Calls /\ now \in Nat BY DEF Calls, AccessInv, TypeOK
<1>3. PICK x \in Tenants :
        Goto(s, "member", [NoArg EXCEPT !.user = token[s].user, !.tenant = x, !.began = now])
  BY DEF SwitchTenant
<1> DEFINE r == [NoArg EXCEPT !.user = token[s].user, !.tenant = x, !.began = now]
<1>4. token[s].user \in Registers
  BY DEF SwitchTenant, ValidateToken, AccessInv, TypeOK, Token
<1>5. r \in Arg /\ r.user = token[s].user /\ r.tenant = x /\ r.began = now
  BY <1>2, <1>4 DEF Arg, NoArg
<1>6. Goto(s, "member", r) BY <1>3
<1> HIDE DEF r
<1>7. OnlyCall(s, "member") /\ arg'[s] = r BY <1>2, <1>5, <1>6, GotoTyped DEF PCs
<1>8. SessionPlace(s)' BY <1>1, <1>2, <1>4, <1>5, <1>7 DEF OnlyCall, SessionPlace
<1>9. TokenPlace(s)' BY <1>1, <1>2, TokenKeeps
<1> QED BY <1>1, <1>7, <1>8, <1>9, SessionMoves DEF AccessInv, TypeOK

LEMMA CheckMembershipKeeps ==
  ASSUME AccessInv, LastNext, NEW s \in Sessions, CheckMembership(s)
  PROVE  AccessInv'
<1>1. UNCHANGED <<tables, token, use, now, faults, history, torn>> BY DEF CheckMembership
<1>2. s \in Calls /\ now \in Nat /\ arg[s] \in Arg /\ SessionPlace(s) /\ pc[s] = "member"
  BY DEF CheckMembership, Calls, AccessInv, SessionInv, TypeOK, LocalsTyped
<1>3. PICK l \in {"roles", "refused"} : Goto(s, l, arg[s]) BY DEF CheckMembership
<1>4. OnlyCall(s, l) /\ (l = "roles" => arg'[s] = arg[s])
  BY <1>2, <1>3, GotoTyped DEF PCs
<1>5. SessionPlace(s)' BY <1>1, <1>2, <1>4 DEF OnlyCall, SessionPlace
<1>6. TokenPlace(s)' BY <1>1, <1>2, TokenKeeps
<1> QED BY <1>1, <1>4, <1>5, <1>6, SessionMoves DEF AccessInv, TypeOK

LEMMA ReadRolesKeeps ==
  ASSUME AccessInv, LastNext, NEW s \in Sessions, ReadRoles(s)
  PROVE  AccessInv'
<1>1. UNCHANGED <<tables, token, use, now, faults, history>> /\ torn' = torn \ {s}
  BY DEF ReadRoles
<1>2. s \in Calls /\ now \in Nat /\ arg[s] \in Arg /\ SessionPlace(s) /\ pc[s] = "roles"
  BY DEF ReadRoles, Calls, AccessInv, SessionInv, TypeOK, LocalsTyped
<1>3. arg[s].user \in Registers /\ arg[s].tenant \in Tenants /\ arg[s].began <= now
  BY <1>2 DEF SessionPlace
<1> DEFINE rs == RolesOf(arg[s].tenant, arg[s].user)
           ks == {roles[r].code : r \in rs}
           x == [arg[s] EXCEPT !.codes = ks]
<1>4. \A r \in rs : r \in RoleCalls /\ roles[r] \in RoleRow
  BY <1>3 DEF RolesOf, AccessInv, MemberInv, AssignedExist
<1>5. ks \in SUBSET Codes BY <1>4 DEF RoleRow
<1>6. ks = {} => rs = {} OBVIOUS
<1>7. x \in Arg /\ x.user = arg[s].user /\ x.tenant = arg[s].tenant /\ x.began = arg[s].began
      /\ x.codes = ks
  BY <1>2, <1>5 DEF Arg
<1>8. Goto(s, "perms", x) BY DEF ReadRoles
<1> HIDE DEF x, ks
<1>9. OnlyCall(s, "perms") /\ arg'[s] = x BY <1>2, <1>7, <1>8, GotoTyped DEF PCs
<1>10. RolesOf(arg[s].tenant, arg[s].user)' = RolesOf(x.tenant, x.user)
  BY <1>1, <1>9 DEF RolesOf, tables
<1>11. RolesOf(x.tenant, x.user) = rs BY <1>7
<1>12. SessionPlace(s)'
  BY <1>1, <1>3, <1>6, <1>7, <1>9, <1>10, <1>11 DEF OnlyCall, SessionPlace
<1>13. TokenPlace(s)' BY <1>1, <1>2, TokenKeeps
<1> QED BY <1>1, <1>9, <1>12, <1>13, SessionMoves DEF AccessInv, TypeOK

LEMMA ReadPermissionsKeeps ==
  ASSUME AccessInv, LastNext, NEW s \in Sessions, ReadPermissions(s)
  PROVE  AccessInv'
<1>1. UNCHANGED <<tables, token, use, now, faults, history, torn>> BY DEF ReadPermissions
<1>2. s \in Calls /\ now \in Nat /\ arg[s] \in Arg /\ SessionPlace(s) /\ pc[s] = "perms"
  BY DEF ReadPermissions, Calls, AccessInv, SessionInv, TypeOK, LocalsTyped
<1> DEFINE t == arg[s].tenant
           u == arg[s].user
           ps == PermissionsInTenant(t, u)
           x == [arg[s] EXCEPT !.perms = ps]
<1>3. u \in Registers /\ t \in Tenants /\ arg[s].began <= now BY <1>2 DEF SessionPlace
<1>4. ps \in SUBSET Permissions BY DEF PermissionsInTenant, PermissionsOf
<1>5. x \in Arg /\ x.user = u /\ x.tenant = t /\ x.began = arg[s].began /\ x.perms = ps
      /\ x.codes = arg[s].codes /\ x.began \in Nat
  BY <1>2, <1>4 DEF Arg
<1>6. Goto(s, "issue", x) BY DEF ReadPermissions
<1>7. s \notin torn /\ arg[s].codes = {} => ps = {}
  BY <1>2 DEF SessionPlace, PermissionsInTenant
<1>8. \A p \in ps : Held(t, u, p) BY DEF PermissionsInTenant, PermissionsOf, RolesOf, Held
<1> HIDE DEF x, ps, t, u
<1>9. \A y \in Tenants, z \in Registers, p \in Permissions : Held(y, z, p) => Held(y, z, p)'
  BY <1>1 DEF Held, tables
<1>10. \A p \in ps : lastHeld'[<<t, u, p>>] = now
  BY <1>1, <1>2, <1>3, <1>4, <1>8, <1>9, LastTyped
<1>11. OnlyCall(s, "issue") /\ arg'[s] = x BY <1>2, <1>5, <1>6, GotoTyped DEF PCs
<1>12. SessionPlace(s)'
  BY <1>1, <1>2, <1>3, <1>5, <1>7, <1>10, <1>11 DEF OnlyCall, SessionPlace, HeldSince
<1>13. TokenPlace(s)' BY <1>1, <1>2, TokenKeeps
<1> QED BY <1>1, <1>11, <1>12, <1>13, SessionMoves DEF AccessInv, TypeOK

LEMMA GenerateTokenKeeps ==
  ASSUME AccessInv, LastNext, NEW s \in Sessions, GenerateToken(s)
  PROVE  AccessInv'
<1>1. UNCHANGED <<tables, now, faults, history, torn>> BY DEF GenerateToken
<1>2. s \in Calls /\ now \in Nat /\ arg[s] \in Arg /\ SessionPlace(s) /\ pc[s] = "issue"
  BY DEF GenerateToken, Calls, AccessInv, SessionInv, TypeOK, LocalsTyped
<1> DEFINE t == arg[s].tenant
           u == arg[s].user
           ps == arg[s].perms
           b == arg[s].began
           ks == arg[s].codes
           x == [user |-> u, tenant |-> t, codes |-> ks, perms |-> ps, began |-> b,
                 exp |-> now + TTL, torn |-> s \in torn]
<1>3. u \in Registers /\ t \in Tenants /\ b <= now /\ HeldSince(t, u, ps, b)
      /\ (s \notin torn /\ ks = {} => ps = {})
  BY <1>2 DEF SessionPlace
<1>4. ps \in SUBSET Permissions /\ b \in Nat /\ ks \in SUBSET Codes BY <1>2 DEF Arg
<1>5. now + TTL \in Nat BY <1>2, TimesNatural
<1>6. token' = [token EXCEPT ![s] = x] /\ use' = [use EXCEPT ![s] = None]
      /\ Goto(s, "ok", NoArg)
  BY DEF GenerateToken
<1> HIDE DEF t, u, ps, b, ks
<1>7. (s \in torn) \in BOOLEAN OBVIOUS
<1>8. x \in Token BY <1>3, <1>4, <1>5, <1>7 DEF Token
<1>9. x.user = u /\ x.tenant = t /\ x.perms = ps /\ x.began = b /\ x.codes = ks
      /\ x.torn = (s \in torn)
  OBVIOUS
<1> HIDE DEF x
<1>10. /\ token' \in [Sessions -> Token \cup {None}] /\ token'[s] = x
       /\ \A d \in Sessions : d # s => token'[d] = token[d]
  BY <1>6, <1>8 DEF AccessInv, TypeOK
<1>11. /\ use' \in [Sessions -> Use \cup {None}] /\ use'[s] = None
       /\ \A d \in Sessions : d # s => use'[d] = use[d]
  BY <1>6 DEF AccessInv, TypeOK
<1>12. \A p \in ps : lastHeld'[<<t, u, p>>] \in Nat /\ lastHeld'[<<t, u, p>>] >= b
  BY <1>1, <1>2, <1>3, <1>4, HeldSinceKeep
<1>13. ~ x.torn /\ x.codes = {} => x.perms = {} BY <1>3, <1>9
<1>14. HeldSince(token[s].tenant, token[s].user, token[s].perms, token[s].began)'
  BY <1>9, <1>10, <1>12 DEF HeldSince
<1>15. TokenPlace(s)' BY <1>1, <1>3, <1>9, <1>10, <1>11, <1>13, <1>14 DEF TokenPlace
<1>16. OnlyCall(s, "ok") BY <1>2, <1>6, NoArgTyped, GotoTyped DEF PCs
<1>17. SessionPlace(s)' BY <1>16 DEF OnlyCall, SessionPlace
<1> QED BY <1>1, <1>10, <1>11, <1>15, <1>16, <1>17, SessionMoves DEF AccessInv, TypeOK

LEMMA RequestKeepsTokens ==
  ASSUME AccessInv, LastNext, NEW s \in Sessions, Request(s)
  PROVE  AccessInv'
<1>1. UNCHANGED <<tables, now, faults, history, torn>> /\ pc' = pc /\ arg' = arg /\ token' = token
  BY DEF Request
<1>2. now \in Nat /\ TokenPlace(s) /\ SessionPlace(s) /\ token[s] \in Token /\ now < token[s].exp
  BY DEF Request, AuthRequired, ValidateToken, AccessInv, SessionInv, TypeOK
<1>3. PICK claim \in token[s].perms : use' = [use EXCEPT ![s] = [perm |-> claim, time |-> now]]
  BY DEF Request, Allowing
<1> DEFINE t == token[s].tenant
           u == token[s].user
           ps == token[s].perms
           b == token[s].began
           x == [perm |-> claim, time |-> now]
<1>4. t \in Tenants /\ u \in Registers /\ ps \in SUBSET Permissions /\ b \in Nat
  BY <1>2 DEF Token
<1>5. b <= now /\ HeldSince(t, u, ps, b) BY <1>2, NoneOutside DEF TokenPlace
<1>6. x \in Use /\ x.perm = claim /\ x.time = now BY <1>2, <1>4 DEF Use
<1> HIDE DEF x
<1>7. /\ use' \in [Sessions -> Use \cup {None}] /\ use'[s] = x
      /\ \A d \in Sessions : d # s => use'[d] = use[d]
  BY <1>3, <1>6 DEF AccessInv, TypeOK, x
<1> HIDE DEF t, u, ps, b
<1>8. \A p \in ps : lastHeld'[<<t, u, p>>] \in Nat /\ lastHeld'[<<t, u, p>>] >= b
  BY <1>1, <1>2, <1>4, <1>5, HeldSinceKeep
<1>9. TokenPlace(s)'
  BY <1>1, <1>2, <1>3, <1>5, <1>6, <1>7, <1>8, NoneOutside DEF TokenPlace, HeldSince, t, u, ps, b
<1>10. SessionPlace(s)' BY <1>1, <1>2, SessionKeeps DEF Same, tables
<1>11. OnlyCall(s, pc[s]) BY <1>1 DEF OnlyCall, AccessInv, TypeOK, LocalsTyped
<1> QED BY <1>1, <1>7, <1>9, <1>10, <1>11, SessionMoves DEF AccessInv, TypeOK

LEMMA ClockKeeps ==
  ASSUME AccessInv, LastNext, pc' = pc, arg' = arg, now' \in Nat, now <= now',
         UNCHANGED <<tables, token, use, faults, history, torn>>
  PROVE  AccessInv'
<1>1. users' = users /\ members' = members /\ roles' = roles /\ grants' = grants
      /\ userRoles' = userRoles /\ faults' = faults /\ wanted' = wanted
      /\ disturbed' = disturbed
  BY DEF tables, history
<1>2. TypeOK' BY <1>1 DEF AccessInv, TypeOK
<1>3. faults \in Nat BY DEF AccessInv, TypeOK
<1>4. LocalsTyped' BY LastTyped DEF LocalsTyped, AccessInv
<1>5. \A c \in Calls : Same(c) BY DEF Same
<1>6. RegisterInv' BY <1>1, <1>3, <1>5, RegistersKeep DEF Calls
<1>7. RoleInv' BY <1>1, <1>5, RolesKeep DEF Harmless, Calls
<1>8. MemberInv' BY <1>1, <1>5, MembersKeep DEF Calls
<1>9. SessionInv' BY <1>1, <1>5, SessionsKeep DEF Calls
<1> QED BY <1>2, <1>4, <1>6, <1>7, <1>8, <1>9 DEF AccessInv

\* A step of another call that leaves the sessions alone.
LEMMA SessionsAside ==
  ASSUME AccessInv, LastNext, NEW c \in Calls, c \notin Sessions, NEW label, OnlyCall(c, label),
         now' = now, token' = token, use' = use,
         \/ userRoles' = userRoles /\ torn' = torn
         \/ Tear
  PROVE  LocalsTyped' /\ SessionInv' /\ torn' \subseteq Sessions
<1>1. now \in Nat BY DEF AccessInv, TypeOK
<1>2. \A s \in Sessions : Same(s) BY OthersSame DEF Calls
<1>3. torn \subseteq torn' BY DEF Tear
<1>4. userRoles' = userRoles \/ \A s \in Sessions : pc[s] = "perms" => s \in torn'
  BY DEF Tear
<1>5. SessionInv' BY <1>1, <1>2, <1>3, <1>4, SessionsKeep
<1>6. torn' \subseteq Sessions BY DEF Tear, AccessInv, TypeOK
<1> QED BY <1>1, <1>5, <1>6, LastTyped DEF LocalsTyped, OnlyCall

LEMMA FailKeeps ==
  ASSUME AccessInv, LastNext, NEW c \in Calls, Fail(c)
  PROVE  AccessInv'
<1>1. users' = users /\ members' = members /\ roles' = roles /\ grants' = grants
      /\ userRoles' = userRoles /\ token' = token /\ use' = use /\ now' = now /\ wanted' = wanted
      /\ torn' = torn /\ faults' = faults + 1
      /\ disturbed' = disturbed \cup {r \in RoleCalls : Filling(c, r)}
  BY DEF Fail, tables
<1>2. arg[c] \in Arg /\ now \in Nat /\ faults \in Nat BY DEF AccessInv, TypeOK, LocalsTyped
<1>3. OnlyCall(c, "refused") BY <1>2, GotoTyped DEF Fail, PCs
<1>4. \A d \in Calls : Same(d) \/ d = c BY <1>3, OthersSame
<1>5. pc'[c] = "refused" BY <1>3 DEF OnlyCall
<1>6. TypeOK' BY <1>1, <1>2, <1>3 DEF AccessInv, TypeOK, OnlyCall
<1>7. LocalsTyped' BY <1>1, <1>2, <1>3, LastTyped DEF LocalsTyped, OnlyCall
<1>8. RegisterInv' BY <1>1, <1>2, <1>4, <1>5, RegistersKeep DEF Calls
<1>9. \A d \in RoleCalls \cup Admins : Harmless(d)
  BY <1>1, <1>4, <1>5 DEF Harmless, Calls
<1>10. RoleInv' BY <1>1, <1>4, <1>5, <1>9, RolesKeep DEF Calls
<1>11. MemberInv' BY <1>1, <1>4, <1>5, MembersKeep DEF Calls
<1>12. SessionInv' BY <1>1, <1>2, <1>4, <1>5, SessionsKeep DEF Calls
<1> QED BY <1>6, <1>7, <1>8, <1>10, <1>11, <1>12 DEF AccessInv

\* A step of a registration: what is left to show is about the registrations.
LEMMA RegisterMoves ==
  ASSUME AccessInv, LastNext, NEW u \in Registers, NEW label, OnlyCall(u, label),
         UNCHANGED <<roles, grants, userRoles, token, use, now, history, torn>>,
         users' \in [Registers -> Emails \cup {None}], members' \subseteq Tenants \X Registers,
         faults' \in Nat, RegisterInv'
  PROVE  AccessInv'
<1>1. u \in Calls /\ u \notin Sessions BY CallsDisjoint DEF Calls
<1>2. wanted' = wanted /\ disturbed' = disturbed BY DEF history
<1>3. LocalsTyped' /\ SessionInv' BY <1>1, SessionsAside
<1>4. TypeOK' BY <1>2 DEF AccessInv, TypeOK, OnlyCall
<1>5. \A d \in RoleCalls \cup Admins : Same(d) BY <1>1, OthersSame
<1>6. RoleInv' BY <1>2, <1>5, RolesKeep DEF Harmless
<1>7. MemberInv' BY <1>5, MembersKeep
<1> QED BY <1>3, <1>4, <1>6, <1>7 DEF AccessInv

LEMMA RegisterKeeps ==
  ASSUME AccessInv, LastNext, NEW u \in Registers, Register(u)
  PROVE  AccessInv'
<1>1. UNCHANGED <<tables, token, use, now, faults, history, torn>> BY DEF Register
<1>2. PICK e \in Emails, t \in Tenants \cup {None}, l \in {"refused", "create"} :
        Goto(u, l, [NoArg EXCEPT !.email = e, !.tenant = t])
  BY DEF Register
<1> DEFINE x == [NoArg EXCEPT !.email = e, !.tenant = t]
<1>3. x \in Arg /\ x.email = e BY DEF Arg, NoArg
<1>4. Goto(u, l, x) BY <1>2
<1> HIDE DEF x
<1>5. u \in Calls BY DEF Calls
<1>6. OnlyCall(u, l) /\ (l = "create" => arg'[u] = x) BY <1>3, <1>4, <1>5, GotoTyped DEF PCs
<1>7. \A v \in Registers : v # u => Same(v) BY <1>5, <1>6, OthersSame DEF Calls
<1>8. \A v \in Registers : RegisterPlace(v)'
  BY <1>3, <1>6, <1>7 DEF RegisterPlace, AccessInv, RegisterInv, Same, OnlyCall
<1>9. UniqueEmails' /\ RegisteredIsMember'
  BY <1>1, <1>6, <1>7 DEF UniqueEmails, RegisteredIsMember, AccessInv, RegisterInv, Same, OnlyCall, tables
<1>10. RegisterInv' BY <1>8, <1>9 DEF RegisterInv
<1> QED BY <1>1, <1>6, <1>10, RegisterMoves DEF AccessInv, TypeOK, tables

LEMMA CreateUserKeeps ==
  ASSUME AccessInv, LastNext, NEW u \in Registers, CreateUser(u)
  PROVE  AccessInv'
<1>1. /\ UNCHANGED <<members, roles, grants, userRoles, token, use, now, faults, history, torn>>
      /\ pc[u] = "create"
  BY DEF CreateUser
<1>2. u \in Calls /\ arg[u] \in Arg /\ arg[u].email \in Emails
  BY <1>1 DEF Calls, AccessInv, LocalsTyped, RegisterInv, RegisterPlace
<1>3. CASE UsersWithEmail(arg[u].email) # {}
  <2>1. Goto(u, "refused", arg[u]) /\ users' = users BY <1>3 DEF CreateUser
  <2>2. OnlyCall(u, "refused") BY <1>2, <2>1, GotoTyped DEF PCs
  <2>3. \A v \in Registers : Same(v) \/ pc'[v] = "refused"
    BY <1>2, <2>2, OthersSame DEF Calls, OnlyCall
  <2>4. RegisterInv' BY <1>1, <2>1, <2>3, RegistersKeep DEF AccessInv, TypeOK
  <2> QED BY <1>1, <2>1, <2>2, <2>4, RegisterMoves DEF AccessInv, TypeOK
<1>4. CASE UsersWithEmail(arg[u].email) = {}
  <2>1. PICK l \in {"ok", "tenant"} : /\ Goto(u, l, arg[u])
                                     /\ l = (IF arg[u].tenant = None THEN "ok" ELSE "tenant")
    BY <1>4 DEF CreateUser
  <2>2. users' = [users EXCEPT ![u] = arg[u].email] BY <1>4 DEF CreateUser, InsertUser
  <2>3. /\ OnlyCall(u, l)
        /\ l = "tenant" => arg'[u] = arg[u]
        /\ l = "ok" => arg'[u].tenant = arg[u].tenant
    BY <1>2, <2>1, GotoTyped DEF PCs
  <2>4. \A v \in Registers : v # u => Same(v) BY <1>2, <2>3, OthersSame DEF Calls
  <2>5. arg[u].tenant \in Tenants \cup {None} BY <1>2 DEF Arg
  <2>6. \A v \in Registers : RegisterPlace(v)'
    BY <2>1, <2>3, <2>4, <2>5 DEF RegisterPlace, AccessInv, RegisterInv, Same, OnlyCall
  <2>7. \A v \in Registers : users[v] # arg[u].email BY <1>4 DEF UsersWithEmail
  <2>8. users \in [Registers -> Emails \cup {None}] BY DEF AccessInv, TypeOK
  <2>9. users' \in [Registers -> Emails \cup {None}] BY <1>2, <2>2, <2>8
  <2>10. UniqueEmails' BY <2>2, <2>7, <2>8 DEF UniqueEmails, AccessInv, RegisterInv
  <2>11. RegisteredIsMember'
    BY <1>1, <2>1, <2>3, <2>4 DEF RegisteredIsMember, AccessInv, RegisterInv, Same, OnlyCall
  <2>12. RegisterInv' BY <2>6, <2>10, <2>11 DEF RegisterInv
  <2> QED BY <1>1, <2>3, <2>9, <2>12, RegisterMoves DEF AccessInv, TypeOK
<1> QED BY <1>3, <1>4

LEMMA JoinTenantKeeps ==
  ASSUME AccessInv, LastNext, NEW u \in Registers, JoinTenant(u)
  PROVE  AccessInv'
<1>1. /\ UNCHANGED <<users, roles, grants, userRoles, token, use, now, history, torn>>
      /\ pc[u] = "tenant"
  BY DEF JoinTenant
<1>2. u \in Calls /\ arg[u] \in Arg /\ arg[u].tenant \in Tenants /\ faults \in Nat
      /\ members \subseteq Tenants \X Registers /\ users \in [Registers -> Emails \cup {None}]
  BY <1>1 DEF Calls, AccessInv, TypeOK, LocalsTyped, RegisterInv, RegisterPlace
<1>3. PICK l \in {"refused", "ok"} : Goto(u, l, arg[u]) /\
        \/ l = "refused" /\ members' = members /\ faults' = faults
        \/ l = "ok" /\ members' = members \cup {<<arg[u].tenant, u>>} /\ faults' = faults
        \/ l = "ok" /\ members' = members /\ faults' = faults + 1
  BY DEF JoinTenant, InsertMember
<1>4. OnlyCall(u, l) /\ arg'[u].tenant = arg[u].tenant BY <1>2, <1>3, GotoTyped DEF PCs
<1>5. \A v \in Registers : v # u => Same(v) BY <1>2, <1>4, OthersSame DEF Calls
<1>6. members' \subseteq Tenants \X Registers /\ faults' \in Nat /\ members \subseteq members'
      /\ (faults' = 0 => faults = 0)
  BY <1>2, <1>3
<1>7. l = "ok" => <<arg[u].tenant, u>> \in members' \/ faults' # 0 BY <1>2, <1>3
<1>8. \A v \in Registers : RegisterPlace(v)'
  BY <1>3, <1>4, <1>5 DEF RegisterPlace, AccessInv, RegisterInv, Same, OnlyCall
<1>9. UniqueEmails' BY <1>1 DEF UniqueEmails, AccessInv, RegisterInv
<1>10. RegisteredIsMember'
  BY <1>4, <1>5, <1>6, <1>7 DEF RegisteredIsMember, AccessInv, RegisterInv, Same, OnlyCall
<1>11. RegisterInv' BY <1>8, <1>9, <1>10 DEF RegisterInv
<1> QED BY <1>1, <1>2, <1>4, <1>6, <1>11, RegisterMoves

\* A step of an administrator that fills no role: what is left is about the members.
LEMMA MemberMoves ==
  ASSUME AccessInv, LastNext, NEW a \in Admins, NEW label, OnlyCall(a, label),
         label \notin {"clear", "grant"}, pc[a] \notin {"clear", "grant"},
         UNCHANGED <<users, roles, grants, token, use, now, faults, history>>,
         members' \subseteq Tenants \X Registers, members \subseteq members',
         userRoles' \subseteq Tenants \X Registers \X RoleCalls,
         \/ userRoles' = userRoles /\ torn' = torn
         \/ Tear,
         AdminPlace(a)', AssignedExist'
  PROVE  AccessInv'
<1>1. a \in Calls /\ a \notin Sessions BY CallsDisjoint DEF Calls
<1>2. wanted' = wanted /\ disturbed' = disturbed /\ faults \in Nat
  BY DEF history, AccessInv, TypeOK
<1>3. LocalsTyped' /\ SessionInv' /\ torn' \subseteq Sessions BY <1>1, SessionsAside
<1>4. TypeOK' BY <1>2, <1>3 DEF AccessInv, TypeOK, OnlyCall
<1>5. \A d \in Registers \cup RoleCalls : Same(d) BY <1>1, OthersSame
<1>6. \A d \in Admins : d # a => Same(d) BY <1>1, OthersSame DEF Calls
<1>7. Harmless(a) BY DEF Harmless, Filling, OnlyCall
<1>8. RoleInv' BY <1>2, <1>5, <1>6, <1>7, RolesKeep DEF Harmless
<1>9. RegisterInv' BY <1>2, <1>5, RegistersKeep
<1>10. MemberInv' BY <1>6 DEF MemberInv, AccessInv, AdminPlace, Same
<1> QED BY <1>3, <1>4, <1>8, <1>9, <1>10 DEF AccessInv

LEMMA AddMemberKeeps ==
  ASSUME AccessInv, LastNext, NEW a \in Admins, AddMember(a)
  PROVE  AccessInv'
<1>1. UNCHANGED <<tables, token, use, now, faults, history, torn>> /\ pc[a] = "idle"
  BY DEF AddMember
<1>2. PICK t \in Tenants, u \in Registers, rs \in SUBSET RoleCalls, l \in {"refused", "create"} :
        Goto(a, l, [NoArg EXCEPT !.tenant = t, !.user = u, !.todo = rs, !.lax = TRUE])
  BY DEF AddMember
<1> DEFINE x == [NoArg EXCEPT !.tenant = t, !.user = u, !.todo = rs, !.lax = TRUE]
<1>3. x \in Arg /\ x.tenant = t /\ x.user = u /\ x.todo = rs BY DEF Arg, NoArg
<1>4. Goto(a, l, x) BY <1>2
<1> HIDE DEF x
<1>5. a \in Calls BY DEF Calls
<1>6. OnlyCall(a, l) /\ (l = "create" => arg'[a] = x) BY <1>3, <1>4, <1>5, GotoTyped DEF PCs
<1>7. AdminPlace(a)' BY <1>3, <1>6 DEF AdminPlace, OnlyCall
<1>8. AssignedExist' BY <1>1 DEF AccessInv, MemberInv, AssignedExist, tables
<1> QED BY <1>1, <1>6, <1>7, <1>8, MemberMoves DEF AccessInv, TypeOK, tables

LEMMA AddTenantMemberKeeps ==
  ASSUME AccessInv, LastNext, NEW a \in Admins, AddTenantMember(a)
  PROVE  AccessInv'
<1>1. /\ UNCHANGED <<users, roles, grants, userRoles, token, use, now, faults, history, torn>>
      /\ pc[a] = "create"
  BY DEF AddTenantMember
<1>2. a \in Calls /\ arg[a] \in Arg /\ AdminPlace(a)
      /\ arg[a].tenant \in Tenants /\ arg[a].user \in Registers
  BY <1>1 DEF Calls, AccessInv, LocalsTyped, MemberInv, AdminPlace
<1>3. PICK l \in {"refused", "ok", "assign"} :
        /\ Goto(a, l, arg[a])
        /\ members' = members \/ members' = members \cup {<<arg[a].tenant, arg[a].user>>}
  BY DEF AddTenantMember, InsertMember
<1>4. members' \subseteq Tenants \X Registers /\ members \subseteq members'
  BY <1>2, <1>3 DEF AccessInv, TypeOK
<1>5. OnlyCall(a, l) /\ (l = "assign" => arg'[a] = arg[a]) BY <1>2, <1>3, GotoTyped DEF PCs
<1>6. AdminPlace(a)' BY <1>1, <1>2, <1>3, <1>5 DEF AdminPlace, OnlyCall
<1>7. AssignedExist' BY <1>1 DEF AccessInv, MemberInv, AssignedExist
<1> QED BY <1>1, <1>4, <1>5, <1>6, <1>7, MemberMoves DEF AccessInv, TypeOK

LEMMA AssignMemberRolesKeeps ==
  ASSUME AccessInv, LastNext, NEW a \in Admins, AssignMemberRoles(a)
  PROVE  AccessInv'
<1>1. UNCHANGED <<tables, token, use, now, faults, history, torn>> /\ pc[a] = "idle"
  BY DEF AssignMemberRoles
<1>2. PICK t \in Tenants, u \in Registers, rs \in SUBSET RoleCalls :
        Goto(a, "assign", [NoArg EXCEPT !.tenant = t, !.user = u, !.todo = rs])
  BY DEF AssignMemberRoles
<1> DEFINE x == [NoArg EXCEPT !.tenant = t, !.user = u, !.todo = rs]
<1>3. x \in Arg /\ x.tenant = t /\ x.user = u /\ x.todo = rs BY DEF Arg, NoArg
<1>4. Goto(a, "assign", x) BY <1>2
<1> HIDE DEF x
<1>5. a \in Calls BY DEF Calls
<1>6. OnlyCall(a, "assign") /\ arg'[a] = x BY <1>3, <1>4, <1>5, GotoTyped DEF PCs
<1>7. AdminPlace(a)' BY <1>3, <1>6 DEF AdminPlace, OnlyCall
<1>8. AssignedExist' BY <1>1 DEF AccessInv, MemberInv, AssignedExist, tables
<1> QED BY <1>1, <1>6, <1>7, <1>8, MemberMoves DEF AccessInv, TypeOK, tables

LEMMA AssignUserRoleKeeps ==
  ASSUME AccessInv, LastNext, NEW a \in Admins, AssignUserRole(a)
  PROVE  AccessInv'
<1>1. /\ UNCHANGED <<users, members, roles, grants, token, use, now, faults, history>>
      /\ Tear /\ pc[a] = "assign"
  BY DEF AssignUserRole
<1>2. a \in Calls /\ arg[a] \in Arg /\ arg[a].tenant \in Tenants /\ arg[a].user \in Registers
      /\ arg[a].todo \subseteq RoleCalls
  BY <1>1 DEF Calls, AccessInv, LocalsTyped, MemberInv, AdminPlace
<1>3. PICK r \in arg[a].todo, l \in {"refused", "ok", "assign"} :
        /\ Goto(a, l, [arg[a] EXCEPT !.todo = arg[a].todo \ {r}])
        /\ \/ userRoles' = userRoles
           \/ userRoles' = userRoles \cup {<<arg[a].tenant, arg[a].user, r>>} /\ roles[r] # None
  BY DEF AssignUserRole
<1> DEFINE x == [arg[a] EXCEPT !.todo = arg[a].todo \ {r}]
<1>4. x \in Arg /\ x.tenant = arg[a].tenant /\ x.user = arg[a].user /\ x.todo \subseteq RoleCalls
  BY <1>2 DEF Arg
<1>5. Goto(a, l, x) BY <1>3
<1> HIDE DEF x
<1>6. OnlyCall(a, l) /\ (l = "assign" => arg'[a] = x) BY <1>2, <1>4, <1>5, GotoTyped DEF PCs
<1>7. AdminPlace(a)' BY <1>2, <1>3, <1>4, <1>6 DEF AdminPlace, OnlyCall
<1>8. roles \in [RoleCalls -> RoleRow \cup {None}] /\ roles' = roles
      /\ userRoles \subseteq Tenants \X Registers \X RoleCalls
  BY <1>1 DEF AccessInv, TypeOK
<1>9. userRoles' \subseteq Tenants \X Registers \X RoleCalls BY <1>2, <1>3, <1>8
<1>10. AssignedExist' BY <1>2, <1>3, <1>8 DEF AccessInv, MemberInv, AssignedExist
<1>11. members \subseteq members' /\ members' \subseteq Tenants \X Registers
  BY <1>1 DEF AccessInv, TypeOK
<1> QED BY <1>1, <1>3, <1>6, <1>7, <1>9, <1>10, <1>11, MemberMoves

LEMMA RemoveMemberRoleKeeps ==
  ASSUME AccessInv, LastNext, NEW a \in Admins, RemoveMemberRole(a)
  PROVE  AccessInv'
<1>1. /\ UNCHANGED <<users, members, roles, grants, token, use, now, faults, history>>
      /\ Tear /\ pc[a] = "idle" /\ Goto(a, "ok", NoArg) /\ userRoles' \subseteq userRoles
  BY DEF RemoveMemberRole
<1>2. a \in Calls BY DEF Calls
<1>3. OnlyCall(a, "ok") BY <1>1, <1>2, NoArgTyped, GotoTyped DEF PCs
<1>4. AdminPlace(a)' BY <1>3 DEF AdminPlace, OnlyCall
<1>5. AssignedExist' BY <1>1 DEF AccessInv, MemberInv, AssignedExist
<1>6. /\ members \subseteq members' /\ members' \subseteq Tenants \X Registers
      /\ userRoles' \subseteq Tenants \X Registers \X RoleCalls
  BY <1>1 DEF AccessInv, TypeOK
<1> QED BY <1>1, <1>3, <1>4, <1>5, <1>6, MemberMoves

\* A step of a role's creation or assignment: what is left is about the roles.
LEMMA RoleMoves ==
  ASSUME AccessInv, LastNext, NEW c \in RoleCalls \cup Admins, NEW label, OnlyCall(c, label),
         c \in RoleCalls \/ label \notin {"create", "assign"},
         UNCHANGED <<users, members, userRoles, token, use, now>>,
         torn' = torn \/ Tear, faults' \in Nat, faults <= faults',
         roles' \in [RoleCalls -> RoleRow \cup {None}],
         \A r \in RoleCalls : roles[r] \in RoleRow => roles'[r] \in RoleRow,
         grants' \subseteq RoleCalls \X Permissions,
         wanted' \in [RoleCalls -> SUBSET Permissions], disturbed' \subseteq RoleCalls,
         RoleInv'
  PROVE  AccessInv'
<1>1. c \in Calls /\ c \notin Sessions BY CallsDisjoint DEF Calls
<1>2. LocalsTyped' /\ SessionInv' /\ torn' \subseteq Sessions BY <1>1, SessionsAside
<1>3. TypeOK' BY <1>2 DEF AccessInv, TypeOK, OnlyCall
<1>4. \A d \in Registers : Same(d) BY <1>1, OthersSame
<1>5. RegisterInv' BY <1>4, RegistersKeep
<1>6. \A d \in Admins : Same(d) \/ pc'[d] \notin {"create", "assign"}
  BY <1>1, OthersSame DEF Calls, OnlyCall
<1>7. MemberInv' BY <1>6, MembersKeep
<1> QED BY <1>2, <1>3, <1>5, <1>7 DEF AccessInv

LEMMA CreateRoleKeeps ==
  ASSUME AccessInv, LastNext, NEW r \in RoleCalls, CreateRole(r)
  PROVE  AccessInv'
<1>1. UNCHANGED <<tables, token, use, now, faults, history, torn>> /\ pc[r] = "idle"
  BY DEF CreateRole
<1>2. PICK t \in Tenants, k \in Codes, ps \in SUBSET Permissions, l \in {"refused", "create"} :
        Goto(r, l, [NoArg EXCEPT !.tenant = t, !.code = k, !.role = r, !.todo = ps, !.ask = ps])
  BY DEF CreateRole
<1> DEFINE x == [NoArg EXCEPT !.tenant = t, !.code = k, !.role = r, !.todo = ps, !.ask = ps]
<1>3. x \in Arg /\ x.tenant = t /\ x.code = k /\ x.role = r /\ x.todo = ps /\ x.ask = ps
  BY DEF Arg, NoArg
<1>4. Goto(r, l, x) BY <1>2
<1> HIDE DEF x
<1>5. r \in Calls BY DEF Calls
<1>6. OnlyCall(r, l) /\ (l = "create" => arg'[r] = x) BY <1>3, <1>4, <1>5, GotoTyped DEF PCs
<1>7. \A d \in RoleCalls \cup Admins : d # r => Same(d) BY <1>5, <1>6, OthersSame DEF Calls
<1>8. Harmless(r) BY <1>1, <1>2, <1>6 DEF Harmless, Filling, OnlyCall
<1>9. \A q \in RoleCalls : RolePlace(q)'
  BY <1>3, <1>6, <1>7 DEF RolePlace, OnlyCall, Same, AccessInv, RoleInv
<1>10. roles' = roles /\ grants' = grants /\ wanted' = wanted /\ disturbed' = disturbed
       /\ UNCHANGED <<users, members, userRoles, token, use, now, faults, torn>>
  BY <1>1 DEF tables, history
<1>11. UniqueCodes' BY <1>10 DEF UniqueCodes, AccessInv, RoleInv
<1>12. RoleInv' BY <1>7, <1>8, <1>9, <1>10, <1>11, FillersKeep DEF RoleInv, Harmless
<1> QED BY <1>6, <1>10, <1>12, RoleMoves DEF AccessInv, TypeOK

\* c begins to fill q.
LEMMA FillerBegins ==
  ASSUME AccessInv, NEW c \in RoleCalls \cup Admins, NEW q \in RoleCalls, OnlyCall(c, "clear"),
         grants' = grants, wanted' = wanted, pc[c] \notin {"clear", "grant"},
         disturbed' = (IF Overlaps(c, q) THEN disturbed \cup {q} ELSE disturbed),
         arg'[c].role = q, arg'[c].todo = arg'[c].ask
  PROVE  (\A d \in RoleCalls \cup Admins : FillPlace(d)') /\ OneFiller' /\ RoleAsAssigned'
<1>1. c \in Calls BY DEF Calls
<1>2. \A d \in RoleCalls \cup Admins : d # c => Same(d) BY <1>1, OthersSame DEF Calls
<1>3. pc'[c] = "clear" BY DEF OnlyCall
<1>4. \A d \in RoleCalls \cup Admins : FillPlace(d)'
  BY <1>2, <1>3 DEF AccessInv, RoleInv, FillPlace, Same
<1>5. \A r \in RoleCalls : PermissionsOf(r)' = PermissionsOf(r) BY DEF PermissionsOf
<1>6. \A d \in RoleCalls \cup Admins, r \in RoleCalls : d # c => (Filling(d, r)' <=> Filling(d, r))
  BY <1>2 DEF Filling, Same
<1>7. \A r \in RoleCalls : Filling(c, r)' <=> r = q BY <1>3 DEF Filling
<1>8. \A r \in RoleCalls : ~ Filling(c, r) BY DEF Filling
<1>9. disturbed \subseteq disturbed' /\ (q \notin disturbed' => ~ Overlaps(c, q)) BY Zenon
<1>10. OneFiller'
  <2>1. SUFFICES ASSUME NEW r \in RoleCalls, r \notin disturbed',
                        NEW d \in RoleCalls \cup Admins, Filling(d, r)'
                 PROVE  /\ \A e \in RoleCalls \cup Admins : Filling(e, r)' => e = d
                        /\ pc'[d] = "grant" => PermissionsOf(r)' = arg'[d].ask \ arg'[d].todo
    BY DEF OneFiller
  <2>2. CASE r = q
    <3>1. \A e \in RoleCalls \cup Admins : e # c => ~ Filling(e, q)
      BY <1>9, <2>1, <2>2 DEF Overlaps
    <3> QED BY <3>1, <1>3, <1>6, <2>1, <2>2
  <2>3. CASE r # q
    <3>1. d # c /\ Filling(d, r) /\ Same(d) BY <1>2, <1>6, <1>7, <2>1, <2>3
    <3>2. /\ \A e \in RoleCalls \cup Admins : Filling(e, r) => e = d
          /\ pc[d] = "grant" => PermissionsOf(r) = arg[d].ask \ arg[d].todo
      BY <1>9, <2>1, <3>1 DEF AccessInv, RoleInv, OneFiller
    <3> QED BY <1>5, <1>6, <1>7, <2>3, <3>1, <3>2 DEF Same
  <2> QED BY <2>2, <2>3
<1>11. RoleAsAssigned'
  BY <1>5, <1>6, <1>7, <1>8, <1>9 DEF AccessInv, RoleInv, RoleAsAssigned
<1> QED BY <1>4, <1>10, <1>11

LEMMA InsertRoleKeeps ==
  ASSUME AccessInv, LastNext, NEW r \in RoleCalls, InsertRole(r)
  PROVE  AccessInv'
<1>1. /\ UNCHANGED <<users, members, grants, userRoles, token, use, now, faults, wanted, torn>>
      /\ pc[r] = "create" /\ disturbed' = (IF Overlaps(r, r) THEN disturbed \cup {r} ELSE disturbed)
  BY DEF InsertRole
<1>2. r \in Calls /\ arg[r] \in Arg /\ arg[r].tenant \in Tenants /\ arg[r].code \in Codes
      /\ arg[r].role = r /\ arg[r].todo = arg[r].ask
  BY <1>1 DEF Calls, AccessInv, LocalsTyped, RoleInv, RolePlace
<1>3. disturbed \subseteq disturbed' /\ disturbed' \subseteq RoleCalls
  BY <1>1 DEF AccessInv, TypeOK
<1>4. CASE RolesWithCode(arg[r].tenant, arg[r].code) # {}
  <2>1. Goto(r, "refused", arg[r]) /\ roles' = roles BY <1>4 DEF InsertRole
  <2>2. OnlyCall(r, "refused") BY <1>2, <2>1, GotoTyped DEF PCs
  <2>3. \A d \in RoleCalls \cup Admins : Same(d) \/ d = r BY <1>2, <2>2, OthersSame DEF Calls
  <2>4. Harmless(r) /\ pc'[r] # "create" BY <1>1, <2>2 DEF Harmless, Filling, OnlyCall
  <2>5. RoleInv' BY <1>1, <1>3, <2>1, <2>3, <2>4, RolesKeep DEF Harmless
  <2> QED BY <1>1, <1>3, <2>1, <2>2, <2>5, RoleMoves DEF AccessInv, TypeOK
<1>5. CASE RolesWithCode(arg[r].tenant, arg[r].code) = {}
  <2> DEFINE row == [tenant |-> arg[r].tenant, code |-> arg[r].code]
  <2>1. roles' = [roles EXCEPT ![r] = row] BY <1>5 DEF InsertRole
  <2>2. PICK l \in {"ok", "clear"} : Goto(r, l, arg[r]) BY <1>5 DEF InsertRole
  <2>3. \A q \in RoleCalls : roles[q] # None => roles[q] # row BY <1>5 DEF RolesWithCode
  <2>4. row \in RoleRow BY <1>2 DEF RoleRow
  <2> HIDE DEF row
  <2>5. roles \in [RoleCalls -> RoleRow \cup {None}] BY DEF AccessInv, TypeOK
  <2>6. /\ roles' \in [RoleCalls -> RoleRow \cup {None}]
        /\ \A q \in RoleCalls : roles[q] \in RoleRow => roles'[q] \in RoleRow
    BY <2>1, <2>4, <2>5
  <2>7. row # None BY <2>4, NoneOutside
  <2>8. UniqueCodes' BY <2>1, <2>3, <2>5, <2>7 DEF UniqueCodes, AccessInv, RoleInv
  <2>9. OnlyCall(r, l) /\ (l = "clear" => arg'[r] = arg[r]) BY <1>2, <2>2, GotoTyped DEF PCs
  <2>10. \A d \in RoleCalls \cup Admins : Same(d) \/ d = r BY <1>2, <2>9, OthersSame DEF Calls
  <2>11. \A q \in RoleCalls : RolePlace(q)'
    BY <2>9, <2>10 DEF RolePlace, OnlyCall, Same, AccessInv, RoleInv
  <2>12. (\A d \in RoleCalls \cup Admins : FillPlace(d)') /\ OneFiller' /\ RoleAsAssigned'
    <3>1. CASE l = "ok"
      <4>1. Harmless(r) BY <1>1, <2>9, <3>1 DEF Harmless, Filling, OnlyCall
      <4> QED BY <4>1, <1>1, <1>3, <2>10, FillersKeep DEF Harmless
    <3>2. CASE l = "clear"
      <4>1. OnlyCall(r, "clear") /\ arg'[r].role = r /\ arg'[r].todo = arg'[r].ask
        BY <1>2, <2>9, <3>2
      <4> QED BY <4>1, <1>1, FillerBegins
    <3> QED BY <3>1, <3>2
  <2>13. RoleInv' BY <2>8, <2>11, <2>12 DEF RoleInv
  <2> QED BY <1>1, <1>3, <2>6, <2>9, <2>13, RoleMoves DEF AccessInv, TypeOK
<1> QED BY <1>4, <1>5

LEMMA AssignRolePermissionsKeeps ==
  ASSUME AccessInv, LastNext, NEW a \in Admins, AssignRolePermissions(a)
  PROVE  AccessInv'
<1>1. UNCHANGED <<tables, token, use, now, faults, wanted, torn>> /\ pc[a] = "idle"
  BY DEF AssignRolePermissions
<1>2. PICK t \in Tenants, r \in RoleCalls, ps \in SUBSET Permissions :
        /\ Goto(a, "clear", [NoArg EXCEPT !.tenant = t, !.role = r, !.todo = ps, !.ask = ps])
        /\ disturbed' = IF Overlaps(a, r) THEN disturbed \cup {r} ELSE disturbed
  BY DEF AssignRolePermissions
<1> DEFINE x == [NoArg EXCEPT !.tenant = t, !.role = r, !.todo = ps, !.ask = ps]
<1>3. x \in Arg /\ x.role = r /\ x.todo = x.ask BY DEF Arg, NoArg
<1>4. Goto(a, "clear", x) BY <1>2
<1> HIDE DEF x
<1>5. a \in Calls BY DEF Calls
<1>6. OnlyCall(a, "clear") /\ arg'[a] = x BY <1>3, <1>4, <1>5, GotoTyped DEF PCs
<1>7. roles' = roles /\ grants' = grants /\ UNCHANGED <<users, members, userRoles, token, use, now, faults, torn>>
  BY <1>1 DEF tables
<1>8. disturbed' \subseteq RoleCalls BY <1>2 DEF AccessInv, TypeOK
<1>9. (\A d \in RoleCalls \cup Admins : FillPlace(d)') /\ OneFiller' /\ RoleAsAssigned'
  BY <1>1, <1>2, <1>3, <1>6, <1>7, FillerBegins
<1>10. \A q \in RoleCalls : Same(q) BY <1>5, <1>6, OthersSame
<1>11. (\A q \in RoleCalls : RolePlace(q)') /\ UniqueCodes'
  BY <1>7, <1>10 DEF RolePlace, UniqueCodes, Same, AccessInv, RoleInv
<1>12. RoleInv' BY <1>9, <1>11 DEF RoleInv
<1> QED BY <1>1, <1>6, <1>7, <1>8, <1>12, RoleMoves DEF AccessInv, TypeOK

\* c goes on filling its role, or completes it: unless the role is disturbed it now
\* holds what c was asked for and has not still to do.
LEMMA FillerGoesOn ==
  ASSUME AccessInv, LastNext, NEW c \in RoleCalls \cup Admins, pc[c] \in {"clear", "grant"},
         NEW left \in SUBSET Permissions, left \subseteq arg[c].ask, Complete(c, left), Tear,
         UNCHANGED <<users, members, roles, userRoles, token, use, now>>,
         faults' \in Nat, faults <= faults', grants' \subseteq RoleCalls \X Permissions,
         disturbed \subseteq disturbed', disturbed' \subseteq RoleCalls,
         \A r \in RoleCalls : r # arg[c].role => PermissionsOf(r)' = PermissionsOf(r),
         \A r \in RoleCalls : r = arg[c].role /\ r \notin disturbed'
                            => PermissionsOf(r)' = arg[c].ask \ left
  PROVE  AccessInv'
<1>1. c \in Calls /\ arg[c] \in Arg /\ arg[c].role \in RoleCalls
  BY DEF Calls, AccessInv, LocalsTyped, RoleInv, FillPlace
<1>4. PICK q \in RoleCalls, ask \in SUBSET Permissions : q = arg[c].role /\ ask = arg[c].ask
  BY <1>1 DEF Arg
<1> DEFINE x == [arg[c] EXCEPT !.todo = left]
           l == IF left = {} THEN "ok" ELSE "grant"
<1>2. x \in Arg /\ x.role = q /\ x.ask = ask /\ x.todo = left BY <1>1, <1>4 DEF Arg
<1>3. Goto(c, l, x) /\ wanted' = IF left = {} THEN [wanted EXCEPT ![q] = ask] ELSE wanted
  BY <1>4 DEF Complete
<1> HIDE DEF x
<1>5. l \in PCs BY DEF PCs
<1>6. OnlyCall(c, l) /\ (l = "grant" => arg'[c] = x) BY <1>1, <1>2, <1>3, <1>5, GotoTyped
<1>7. pc'[c] = l BY <1>6 DEF OnlyCall
<1>8. \A d \in RoleCalls \cup Admins : d # c => Same(d) BY <1>1, <1>6, OthersSame DEF Calls
<1>9. Filling(c, q) BY <1>4 DEF Filling
<1>10. \A r \in RoleCalls : r # q => PermissionsOf(r)' = PermissionsOf(r) BY <1>4
<1>11. q \notin disturbed' => PermissionsOf(q)' = ask \ left BY <1>4
<1>12. left \subseteq ask BY <1>4
<1>13. q \notin disturbed' => \A d \in RoleCalls \cup Admins : Filling(d, q) => d = c
  BY <1>4, <1>9 DEF AccessInv, RoleInv, OneFiller
<1>14. \A r \in RoleCalls : Filling(c, r) => r = q BY <1>4 DEF Filling
<1>15. \A d \in RoleCalls \cup Admins : FillPlace(d)'
  BY <1>2, <1>4, <1>6, <1>7, <1>8, <1>12 DEF AccessInv, RoleInv, FillPlace, Same
<1>16. \A d \in RoleCalls \cup Admins, r \in RoleCalls : d # c => (Filling(d, r)' <=> Filling(d, r))
  BY <1>8 DEF Filling, Same
<1>17. \A r \in RoleCalls : Filling(c, r)' <=> left # {} /\ r = q
  BY <1>2, <1>6, <1>7 DEF Filling
<1>18. OneFiller'
  <2>1. SUFFICES ASSUME NEW r \in RoleCalls, r \notin disturbed',
                        NEW d \in RoleCalls \cup Admins, Filling(d, r)'
                 PROVE  /\ \A e \in RoleCalls \cup Admins : Filling(e, r)' => e = d
                        /\ pc'[d] = "grant" => PermissionsOf(r)' = arg'[d].ask \ arg'[d].todo
    BY DEF OneFiller
  <2>2. CASE r = q
    <3>1. \A e \in RoleCalls \cup Admins : Filling(e, q)' => e = c BY <1>13, <1>16, <2>1, <2>2
    <3>2. d = c /\ left # {} BY <3>1, <2>1, <2>2, <1>17
    <3>3. arg'[c] = x BY <3>2, <1>6
    <3> QED BY <3>1, <3>2, <3>3, <1>2, <1>11, <2>1, <2>2
  <2>3. CASE r # q
    <3>1. d # c /\ Filling(d, r) /\ Same(d) BY <1>8, <1>16, <1>17, <2>1, <2>3
    <3>2. /\ \A e \in RoleCalls \cup Admins : Filling(e, r) => e = d
          /\ pc[d] = "grant" => PermissionsOf(r) = arg[d].ask \ arg[d].todo
      BY <2>1, <3>1 DEF AccessInv, RoleInv, OneFiller
    <3> QED BY <1>10, <1>16, <1>17, <2>3, <3>1, <3>2 DEF Same
  <2> QED BY <2>2, <2>3
<1>19. wanted \in [RoleCalls -> SUBSET Permissions] BY DEF AccessInv, TypeOK
<1>20. /\ wanted' \in [RoleCalls -> SUBSET Permissions]
       /\ \A r \in RoleCalls : r # q => wanted'[r] = wanted[r]
       /\ left = {} => wanted'[q] = ask
  BY <1>3, <1>4, <1>19
<1>21. RoleAsAssigned'
  <2>1. SUFFICES ASSUME NEW r \in RoleCalls, r \notin disturbed'
                 PROVE  \/ \E d \in RoleCalls \cup Admins : Filling(d, r)'
                        \/ PermissionsOf(r)' = wanted'[r]
    BY DEF RoleAsAssigned
  <2>2. CASE r = q BY <1>11, <1>17, <1>20, <2>1, <2>2
  <2>3. CASE r # q
    <3>1. \/ \E d \in RoleCalls \cup Admins : Filling(d, r)
          \/ PermissionsOf(r) = wanted[r]
      BY <2>1 DEF AccessInv, RoleInv, RoleAsAssigned
    <3> QED BY <3>1, <1>10, <1>14, <1>16, <1>20, <2>3
  <2> QED BY <2>2, <2>3
<1>22. (\A r \in RoleCalls : RolePlace(r)') /\ UniqueCodes'
  BY <1>7, <1>8 DEF RolePlace, UniqueCodes, Same, AccessInv, RoleInv
<1>23. RoleInv' BY <1>15, <1>18, <1>21, <1>22 DEF RoleInv
<1>24. roles' \in [RoleCalls -> RoleRow \cup {None}] BY DEF AccessInv, TypeOK
<1>25. l \notin {"create", "assign"} OBVIOUS
<1> HIDE DEF l
<1> QED BY <1>6, <1>20, <1>23, <1>24, <1>25, RoleMoves

LEMMA ClearRolePermissionsKeeps ==
  ASSUME AccessInv, LastNext, NEW c \in RoleCalls \cup Admins, ClearRolePermissions(c)
  PROVE  AccessInv'
<1>1. /\ UNCHANGED <<users, members, roles, userRoles, token, use, now>>
      /\ pc[c] = "clear" /\ Complete(c, arg[c].todo) /\ Tear
  BY DEF ClearRolePermissions
<1>2. c \in Calls /\ arg[c] \in Arg /\ arg[c].role \in RoleCalls /\ arg[c].todo = arg[c].ask
      /\ faults \in Nat /\ grants \subseteq RoleCalls \X Permissions /\ disturbed \subseteq RoleCalls
  BY <1>1 DEF Calls, AccessInv, TypeOK, LocalsTyped, RoleInv, FillPlace
<1>3. arg[c].todo \in SUBSET Permissions /\ arg[c].ask \ arg[c].todo = {} BY <1>2 DEF Arg
<1>4. \/ /\ grants' = {g \in grants : g[1] # arg[c].role}
         /\ faults' = faults /\ disturbed' = disturbed
      \/ /\ faults' = faults + 1 /\ grants' = grants
         /\ disturbed' = disturbed \cup {arg[c].role}
  BY DEF ClearRolePermissions
<1>5. faults' \in Nat /\ faults <= faults' /\ grants' \subseteq RoleCalls \X Permissions
      /\ disturbed \subseteq disturbed' /\ disturbed' \subseteq RoleCalls
  BY <1>2, <1>4
<1>6. \A r \in RoleCalls : r # arg[c].role => PermissionsOf(r)' = PermissionsOf(r)
  BY <1>4 DEF PermissionsOf
<1>7. \A r \in RoleCalls : r = arg[c].role /\ r \notin disturbed' => PermissionsOf(r)' = {}
  BY <1>4 DEF PermissionsOf
<1> QED BY <1>1, <1>2, <1>3, <1>5, <1>6, <1>7, FillerGoesOn

LEMMA AssignPermissionToRoleKeeps ==
  ASSUME AccessInv, LastNext, NEW c \in RoleCalls \cup Admins, AssignPermissionToRole(c)
  PROVE  AccessInv'
<1>1. /\ UNCHANGED <<users, members, roles, userRoles, token, use, now, faults, disturbed>>
      /\ pc[c] = "grant" /\ Tear
  BY DEF AssignPermissionToRole
<1>2. PICK p \in arg[c].todo : /\ grants' = grants \cup {<<arg[c].role, p>>}
                              /\ Complete(c, arg[c].todo \ {p})
  BY DEF AssignPermissionToRole
<1>3. c \in Calls /\ arg[c] \in Arg /\ arg[c].role \in RoleCalls /\ arg[c].todo \subseteq arg[c].ask
      /\ faults \in Nat /\ grants \subseteq RoleCalls \X Permissions /\ disturbed \subseteq RoleCalls
  BY <1>1 DEF Calls, AccessInv, TypeOK, LocalsTyped, RoleInv, FillPlace
<1>4. arg[c].ask \in SUBSET Permissions BY <1>3 DEF Arg
<1>5. grants' \subseteq RoleCalls \X Permissions BY <1>2, <1>3, <1>4
<1>6. \A r \in RoleCalls : r # arg[c].role => PermissionsOf(r)' = PermissionsOf(r)
  BY <1>2 DEF PermissionsOf
<1>7. \A r \in RoleCalls : r = arg[c].role /\ r \notin disturbed
                         => PermissionsOf(r) = arg[c].ask \ arg[c].todo
  BY <1>1 DEF AccessInv, RoleInv, OneFiller, Filling
<1>8. \A r \in RoleCalls : r = arg[c].role => PermissionsOf(r)' = PermissionsOf(r) \cup {p}
  BY <1>2, <1>3, <1>4 DEF PermissionsOf
<1>9. \A r \in RoleCalls : r = arg[c].role /\ r \notin disturbed'
                         => PermissionsOf(r)' = arg[c].ask \ (arg[c].todo \ {p})
  BY <1>1, <1>3, <1>7, <1>8
<1> QED BY <1>1, <1>2, <1>3, <1>4, <1>5, <1>6, <1>9, FillerGoesOn

LEMMA AccessNextInv ==
  ASSUME AccessInv, [Next]_vars
  PROVE  AccessInv'
<1>1. CASE UNCHANGED vars
  <2> USE <1>1 DEF vars, tables, history
  <2>1. TypeOK' BY DEF AccessInv, TypeOK
  <2>2. LocalsTyped' BY DEF AccessInv, LocalsTyped
  <2>3. \A c \in Calls : Same(c) BY DEF Same
  <2>4. now \in Nat /\ faults \in Nat BY DEF AccessInv, TypeOK
  <2>5. RegisterInv' BY <2>3, <2>4, RegistersKeep DEF Calls
  <2>6. RoleInv' BY <2>3, RolesKeep DEF Harmless, Calls
  <2>7. MemberInv' BY <2>3, MembersKeep DEF Calls
  <2>8. \A s \in Sessions : SessionPlace(s)'
    BY DEF AccessInv, SessionInv, SessionPlace, HeldSince, RolesOf
  <2>9. \A s \in Sessions : TokenPlace(s)'
    BY DEF AccessInv, SessionInv, TokenPlace, HeldSince
  <2>10. HeldNow' BY DEF AccessInv, SessionInv, HeldNow, Held
  <2> QED BY <2>1, <2>2, <2>5, <2>6, <2>7, <2>8, <2>9, <2>10 DEF AccessInv, SessionInv
<1>2. CASE Next
  <2>1. LastNext BY <1>2 DEF Next, LastNext
  <2>2. CASE \E u \in Registers : RegisterStep(u)
    BY <2>1, <2>2, RegisterKeeps, CreateUserKeeps, JoinTenantKeeps DEF RegisterStep
  <2>3. CASE \E r \in RoleCalls : CreateRole(r) \/ InsertRole(r)
    BY <2>1, <2>3, CreateRoleKeeps, InsertRoleKeeps
  <2>4. CASE \E c \in RoleCalls \cup Admins : RoleStep(c)
    BY <2>1, <2>4, ClearRolePermissionsKeeps, AssignPermissionToRoleKeeps DEF RoleStep
  <2>5. CASE \E a \in Admins : AdminStep(a)
    BY <2>1, <2>5, AddMemberKeeps, AddTenantMemberKeeps, AssignMemberRolesKeeps,
       AssignUserRoleKeeps, RemoveMemberRoleKeeps, AssignRolePermissionsKeeps DEF AdminStep
  <2>6. CASE \E s \in Sessions : SessionStep(s)
    BY <2>1, <2>6, LoginKeeps, SwitchTenantKeeps, CheckMembershipKeeps, ReadRolesKeeps,
       ReadPermissionsKeeps, GenerateTokenKeeps, RequestKeepsTokens DEF SessionStep
  <2>7. CASE \E c \in Calls : Fail(c) BY <2>1, <2>7, FailKeeps
  <2>8. CASE Tick
    <3>1. now \in Nat BY DEF AccessInv, TypeOK
    <3>2. now' \in Nat /\ now <= now' BY <2>8, <3>1 DEF Tick
    <3> QED BY <2>1, <2>8, <3>2, ClockKeeps DEF Tick
  <2> QED BY <1>2, <2>2, <2>3, <2>4, <2>5, <2>6, <2>7, <2>8 DEF Next, Step
<1> QED BY <1>1, <1>2

\* The inductive invariant of the access control holds in every reachable state.
THEOREM AccessInvariance == Spec => []AccessInv
<1>1. Init => AccessInv BY AccessInitInv
<1>2. AccessInv /\ [Next]_vars => AccessInv' BY AccessNextInv
<1> QED BY <1>1, <1>2, PTL DEF Spec

\* What a call that reported success was asked for is there, however many
\* registrations, role creations and administrators run at once: the membership of
\* a registration while no statement failed, and exactly the permissions of the
\* last assignment of a role that no other one overlapped.
THEOREM AsAskedAlways == Spec => []AccessAsAsked
<1>1. AccessInv => AccessAsAsked BY DEF AccessInv, RegisterInv, RoleInv, AccessAsAsked
<1> QED BY <1>1, AccessInvariance, PTL

\* A token lets through only what was held when its login was under way or later,
\* and not after it expired; and one whose reads nobody tore names the roles its
\* permissions come from.
THEOREM TokensTrueAlways == Spec => []TokensAreTrue
<1>1. ASSUME AccessInv PROVE RevocationTakesEffect
  <2>1. SUFFICES ASSUME NEW s \in Sessions, use[s] # None
                 PROVE  /\ use[s].time < token[s].exp
                        /\ lastHeld[<<token[s].tenant, token[s].user, use[s].perm>>] # None
                        /\ lastHeld[<<token[s].tenant, token[s].user, use[s].perm>>] >= token[s].began
    BY DEF RevocationTakesEffect
  <2>2. TokenPlace(s) BY <1>1 DEF AccessInv, SessionInv
  <2> QED BY <2>1, <2>2, NoneOutside DEF TokenPlace, HeldSince
<1>2. ASSUME AccessInv PROVE TokenCoherent
  BY <1>2 DEF AccessInv, SessionInv, TokenPlace, TokenCoherent
<1> QED BY <1>1, <1>2, AccessInvariance, PTL DEF TokensAreTrue

\* The schema of the three parts: types, the unique indexes behind the checks of
\* Register and CreateRole, and the reference of an API key to its account.
THEOREM AccessSchemaAlways == Spec /\ KeySpec /\ LimiterSpec => []AccessSchema
<1>1. AccessInv => TypeOK /\ UniqueKeys
  BY DEF AccessInv, RegisterInv, RoleInv, UniqueKeys, UniqueEmails, UniqueCodes
<1>2. KeyInv => KeyTypeOK /\ KeysHaveAccounts BY DEF KeyInv
<1>3. LimiterInv => LimiterTypeOK BY DEF LimiterInv
<1>4. AccessInv /\ KeyInv /\ LimiterInv => AccessSchema BY <1>1, <1>2, <1>3 DEF AccessSchema
<1> QED BY <1>4, AccessInvariance, KeyInvariance, LimiterInvariance, PTL
=============================================================================
