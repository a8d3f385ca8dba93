------------------------------ MODULE MCAccess ------------------------------
(* One run over three components that share no state: a behaviour is one   *)
(* of the access control, of the API keys, or of the rate limiter.         *)
EXTENDS AccessControl, ApiKeys, RateLimiter, TLC

VARIABLE scene

\* The calls that take part: registrations and role creations alone; two
\* administrators with one user and one role; or these with a session, and
\* the permission Star in every assignment.
Started(S) == {c \in S : pc[c] # "idle"}
Few == Cardinality(Started(Registers)) <= 1 /\ Cardinality(Started(RoleCalls)) <= 1
Cast == \/ Started(Sessions \cup Admins) = {}
        \/ Started(Sessions) = {} /\ Few
        \/ Few /\ \A c \in RoleCalls \cup Admins :
                    arg[c].ask \subseteq {Star} /\ arg[c].todo \subseteq {Star} \cup Started(RoleCalls)
KeyCast == Cardinality({c \in Editors \cup Requests : kpc[c] # "idle"}) <= 3

\* Calls of Allow are numbered and begin in order: they are interchangeable.
LimitCast == \A i, j \in Allows : i < j /\ apc[j] # "idle" => apc[i] # "idle"

MCInit == Init /\ KeyInit /\ LimiterInit /\ scene \in {"access", "keys", "limit"}
MCNext ==
  /\ UNCHANGED scene
  /\ \/ scene = "access" /\ Next /\ Cast' /\ UNCHANGED <<keyVars, limiterVars>>
     \/ scene = "keys" /\ KeyNext /\ KeyCast' /\ UNCHANGED <<vars, limiterVars>>
     \/ scene = "limit" /\ LimiterNext /\ LimitCast' /\ UNCHANGED <<vars, keyVars>>
MCSpec == MCInit /\ [][MCNext]_<<vars, keyVars, limiterVars, scene>>

Symmetry == Permutations(Registers) \cup Permutations(RoleCalls) \cup Permutations(Admins)

\* Types, and what the schema promises behind checks that race: the unique
\* indexes of users and roles, the references of keys to accounts.
AccessSchema == TypeOK /\ UniqueKeys /\ KeyTypeOK /\ KeysHaveAccounts /\ LimiterTypeOK
=============================================================================
