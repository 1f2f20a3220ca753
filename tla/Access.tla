------------------------------- MODULE Access -------------------------------
(***************************************************************************)
(* Users, access tokens and OAuth logins: internal/auth, the handlers of   *)
(* internal/grpc/auth-handlers.go and the administrator that LoadDatabase  *)
(* seeds (internal/database/evmi-database/database.go).                    *)
(*                                                                         *)
(* Instances share one metadata database and nothing else.  A request is   *)
(* checked against the rows of its token and its user, then served from    *)
(* the copies read, while other requests change the rows.  Delete is soft: *)
(* the row stays, hidden from reads, and keeps its place in the unique     *)
(* index of usernames.  Save updates the row with that id; when none is    *)
(* visible it inserts it over the hidden one.                              *)
(***************************************************************************)
EXTENDS Naturals, FiniteSets

CONSTANTS
    Instance,    \* processes that share the database
    Request,     \* requests that may be in progress at once
    Server,      \* Server[r]: the instance that serves request r
    Username,    \* usernames; "admin" is the seeded one, "second" that of another administrator
    MaxUsers,    \* bound: rows of the users table, with room for those two
    MaxTokens,   \* bound: rows of the tokens table
    MaxProviders,\* bound: rows of the providers table
    MaxRequests, \* bound: how many requests are begun
    MaxBoots     \* bound: how often a process starts

ASSUME AccessAssumption ==
    /\ Server \in [Request -> Instance] /\ {"admin", "second"} \subseteq Username
    /\ {MaxUsers, MaxTokens, MaxProviders, MaxRequests, MaxBoots} \subseteq Nat
    /\ MaxUsers >= 2

UserId == 1 .. MaxUsers
TokenId == 1 .. MaxTokens
ProviderId == 1 .. MaxProviders
Role == {"admin", "user"}

VARIABLES
    users,      \* the users table, one row per id
    tokens,     \* the access_tokens table
    providers,  \* the o_auth_providers table
    states,     \* signed OAuth states that were handed out and not expired
    secrets,    \* how many state secrets have been generated
    up,         \* up[i]: where instance i is
    req,        \* req[r]: where request r is, with the copies it holds
    begun,      \* how many requests have begun
    boots,      \* how often a process has started
    overlapped, \* history: two requests had read their user before either ended
    demoted,    \* history: an administrator was saved with another role
    created     \* history: providers made by CreateOAuthProvider

tables == <<users, tokens, providers>>
oauth == <<states, secrets>>
bounds == <<begun, boots>>
history == <<overlapped, demoted, created>>
vars == <<users, tokens, providers, states, secrets, up, req, begun, boots, overlapped, demoted,
          created>>

NoRow == [is |-> "none"]
Idle == [pc |-> "idle"]
NoSecret == 0

UserRow == [is : {"live", "deleted"}, name : Username, role : Role, password : BOOLEAN,
            subject : BOOLEAN]
TokenRow == [is : {"live", "deleted"}, user : UserId, expired : BOOLEAN]

\* A provider's row once n secrets were generated.
ProviderRow(n) == [is : {"live", "deleted"}, enabled : BOOLEAN, secret : 0 .. n]

\* A request that signs states, for some providers.
Signing(n) == UNION {[pc : {"sign"}, rows : [P -> ProviderRow(n)]] : P \in SUBSET ProviderId}

Progress(n) ==
    {Idle} \cup Signing(n)
    \cup [pc : {"owner"}, token : TokenId, copy : TokenRow]
    \cup [pc : {"touch"}, token : TokenId, copy : TokenRow, user : UserId, role : Role]
    \cup [pc : {"handler"}, user : UserId, role : Role]
    \cup [pc : {"saveUser"}, id : UserId, row : UserRow]
    \cup [pc : {"saveProvider"}, id : ProviderId, row : ProviderRow(n)]
    \cup [pc : {"exchange", "create"}]
    \cup [pc : {"issue"}, user : UserId]

TypeOK ==
    /\ users \in [UserId -> UserRow \cup {NoRow}]
    /\ tokens \in [TokenId -> TokenRow \cup {NoRow}]
    /\ providers \in [ProviderId -> ProviderRow(secrets) \cup {NoRow}]
    /\ states \subseteq [provider : ProviderId, secret : 1 .. secrets]
    /\ secrets \in Nat
    /\ up \in [Instance -> {"down", "seeding", "up"}]
    /\ req \in [Request -> Progress(secrets)]
    /\ begun \in 0 .. MaxRequests /\ boots \in 0 .. MaxBoots
    /\ overlapped \in BOOLEAN /\ demoted \in BOOLEAN
    /\ created \subseteq ProviderId

-----------------------------------------------------------------------------
(* The tables *)

Live(table, id) == table[id].is = "live"
LiveIds(table) == {id \in DOMAIN table : Live(table, id)}

\* The id an insert gets: ids are handed out in order and never again.
NextId(table, id) ==
    /\ table[id].is = "none"
    /\ \A other \in DOMAIN table : other < id => table[other].is # "none"

\* The unique index of usernames, which holds the deleted rows too.
NameTaken(name, id) ==
    \E u \in UserId \ {id} : users[u].is # "none" /\ users[u].name = name

SoftDelete(table, id) ==
    IF Live(table, id) THEN [table EXCEPT ![id].is = "deleted"] ELSE table

Admin(u) == Live(users, u) /\ users[u].role = "admin"

-----------------------------------------------------------------------------
(* LoadDatabase *)

\* seedDefaultAdmin counts the users; deleted ones are not counted.
BootCounts(i) ==
    /\ up[i] = "down" /\ boots < MaxBoots
    /\ boots' = boots + 1
    /\ up' = [up EXCEPT ![i] = IF LiveIds(users) = {} THEN "seeding" ELSE "up"]
    /\ UNCHANGED <<tables, oauth, req, begun, history>>

\* It creates "admin"; the insert fails when the name is in the index, and
\* with it LoadDatabase and the process.
BootSeeds(i) ==
    /\ up[i] = "seeding"
    /\ \/ /\ NameTaken("admin", 0)
          /\ up' = [up EXCEPT ![i] = "down"]
          /\ UNCHANGED users
       \/ /\ ~NameTaken("admin", 0)
          /\ up' = [up EXCEPT ![i] = "up"]
          /\ \E u \in UserId :
                /\ NextId(users, u)
                /\ users' = [users EXCEPT ![u] = [is |-> "live", name |-> "admin", role |-> "admin",
                                                  password |-> TRUE, subject |-> FALSE]]
    /\ UNCHANGED <<tokens, providers, oauth, req, bounds, history>>

Crash(i) ==
    /\ up[i] # "down"
    /\ up' = [up EXCEPT ![i] = "down"]
    /\ req' = [r \in Request |-> IF Server[r] = i THEN Idle ELSE req[r]]
    /\ UNCHANGED <<tables, oauth, bounds, history>>

-----------------------------------------------------------------------------
(* The interceptor: ValidateToken *)

Begin(r) ==
    /\ req[r] = Idle /\ up[Server[r]] = "up" /\ begun < MaxRequests
    /\ begun' = begun + 1

Stays(r) == req[r] # Idle /\ req' = [req EXCEPT ![r] = Idle]

\* The token's row is read: it must be there and not expired.
ReadToken(r) ==
    /\ Begin(r)
    /\ \E t \in LiveIds(tokens) :
          /\ ~tokens[t].expired
          /\ req' = [req EXCEPT ![r] = [pc |-> "owner", token |-> t, copy |-> tokens[t]]]
    /\ UNCHANGED <<tables, oauth, up, boots, history>>

\* Then its owner's row, with the role the handler will look at.
ReadOwner(r) ==
    /\ req[r].pc = "owner"
    /\ LET u == req[r].copy.user IN
       req' = [req EXCEPT ![r] =
                 IF Live(users, u)
                 THEN [pc |-> "touch", token |-> req[r].token, copy |-> req[r].copy,
                       user |-> u, role |-> users[u].role]
                 ELSE Idle]
    /\ overlapped' = (overlapped \/ \E other \in Request \ {r} :
                          req[other].pc \in {"touch", "handler", "saveUser"})
    /\ UNCHANGED <<tables, oauth, up, bounds, demoted, created>>

\* Mutant: the whole token is written back.
TouchSavesRow(r) == [tokens EXCEPT ![req[r].token] = req[r].copy]

\* last_used_at alone is written, to the row if it is still there.
TouchesToken(r) == tokens

\* The request is admitted.
Admit(r) ==
    /\ req[r].pc = "touch"
    /\ tokens' = TouchesToken(r)
    /\ req' = [req EXCEPT ![r] = [pc |-> "handler", user |-> req[r].user, role |-> req[r].role]]
    /\ UNCHANGED <<users, providers, oauth, up, bounds, history>>

\* requireAdmin looks at the copy of the user's row.
RequireAdmin(r) == req[r].pc = "handler" /\ req[r].role = "admin"

\* A handler that refuses, reads only, or fails at the database.
HandlerEnds(r) ==
    /\ req[r].pc = "handler"
    /\ Stays(r)
    /\ UNCHANGED <<tables, oauth, up, bounds, history>>

-----------------------------------------------------------------------------
(* Tokens *)

\* generateToken and the insert of its hash.
IssueToken(u) ==
    \E t \in TokenId :
        /\ NextId(tokens, t)
        /\ tokens' = [tokens EXCEPT ![t] = [is |-> "live", user |-> u, expired |-> FALSE]]

CreateAccessToken(r) ==
    /\ req[r].pc = "handler"
    /\ IssueToken(req[r].user)
    /\ Stays(r)
    /\ UNCHANGED <<users, providers, oauth, up, bounds, history>>

\* A user revokes only its own tokens.
RevokeAccessToken(r) ==
    /\ req[r].pc = "handler"
    /\ \E t \in LiveIds(tokens) :
          /\ tokens[t].user = req[r].user
          /\ tokens' = SoftDelete(tokens, t)
    /\ Stays(r)
    /\ UNCHANGED <<users, providers, oauth, up, bounds, history>>

\* The expiry of a token passes.
TokenExpires(t) ==
    /\ Live(tokens, t) /\ ~tokens[t].expired
    /\ tokens' = [tokens EXCEPT ![t].expired = TRUE]
    /\ UNCHANGED <<users, providers, oauth, up, req, bounds, history>>

\* Login: a user with a password, then a session token.
Login(r) ==
    /\ Begin(r)
    /\ \E u \in LiveIds(users) :
          /\ users[u].password
          /\ req' = [req EXCEPT ![r] = [pc |-> "issue", user |-> u]]
    /\ UNCHANGED <<tables, oauth, up, boots, history>>

IssueSession(r) ==
    /\ req[r].pc = "issue"
    /\ IssueToken(req[r].user)
    /\ Stays(r)
    /\ UNCHANGED <<users, providers, oauth, up, bounds, history>>

-----------------------------------------------------------------------------
(* Users *)

CreateUser(r) ==
    /\ RequireAdmin(r)
    /\ \E u \in UserId, name \in Username, role \in Role :
          /\ NextId(users, u) /\ ~NameTaken(name, u)
          /\ users' = [users EXCEPT ![u] = [is |-> "live", name |-> name, role |-> role,
                                            password |-> TRUE, subject |-> FALSE]]
    /\ Stays(r)
    /\ UNCHANGED <<tokens, providers, oauth, up, bounds, history>>

\* UpdateUser reads the row and edits the copy ...
UpdateUserReads(r) ==
    /\ RequireAdmin(r)
    /\ \E u \in LiveIds(users), name \in Username, role \in Role, password \in BOOLEAN :
          req' = [req EXCEPT ![r] =
                    [pc |-> "saveUser", id |-> u,
                     row |-> [users[u] EXCEPT !.name = name, !.role = role,
                                              !.password = @ \/ password]]]
    /\ UNCHANGED <<tables, oauth, up, bounds, history>>

\* ... then saves all of it, over a deleted row too.
UpdateUserSaves(r) ==
    /\ req[r].pc = "saveUser"
    /\ LET id == req[r].id row == req[r].row IN
       IF NameTaken(row.name, id)
       THEN UNCHANGED <<users, demoted>>
       ELSE /\ users' = [users EXCEPT ![id] = row]
            /\ demoted' = (demoted \/ (Admin(id) /\ row.role # "admin"))
    /\ Stays(r)
    /\ UNCHANGED <<tokens, providers, oauth, up, bounds, overlapped, created>>

\* Mutant: an administrator may delete itself.
MayDeleteAnyone(r, u) == TRUE

\* "you cannot delete your own account".
MayDelete(r, u) == u # req[r].user

DeleteUser(r) ==
    /\ RequireAdmin(r)
    /\ \E u \in UserId :
          /\ MayDelete(r, u)
          /\ users' = SoftDelete(users, u)
    /\ Stays(r)
    /\ UNCHANGED <<tokens, providers, oauth, up, bounds, history>>

-----------------------------------------------------------------------------
(* OAuth providers *)

CreateOAuthProvider(r) ==
    /\ RequireAdmin(r)
    /\ secrets' = secrets + 1
    /\ \E p \in ProviderId, enabled \in BOOLEAN :
          /\ NextId(providers, p)
          /\ providers' = [providers EXCEPT ![p] = [is |-> "live", enabled |-> enabled,
                                                    secret |-> secrets + 1]]
          /\ created' = created \cup {p}
    /\ Stays(r)
    /\ UNCHANGED <<users, tokens, states, up, bounds, overlapped, demoted>>

\* Mutant: the row is built from the request, which has no state secret.
EditedFromRequest(p, enabled) == [is |-> "live", enabled |-> enabled, secret |-> NoSecret]

\* The row read, with the fields of the request; the state secret is kept.
Edited(p, enabled) == [providers[p] EXCEPT !.enabled = enabled]

UpdateProviderReads(r) ==
    /\ RequireAdmin(r)
    /\ \E p \in LiveIds(providers), enabled \in BOOLEAN :
          req' = [req EXCEPT ![r] = [pc |-> "saveProvider", id |-> p, row |-> Edited(p, enabled)]]
    /\ UNCHANGED <<tables, oauth, up, bounds, history>>

UpdateProviderSaves(r) ==
    /\ req[r].pc = "saveProvider"
    /\ providers' = [providers EXCEPT ![req[r].id] = req[r].row]
    /\ Stays(r)
    /\ UNCHANGED <<users, tokens, oauth, up, bounds, history>>

DeleteOAuthProvider(r) ==
    /\ RequireAdmin(r)
    /\ \E p \in ProviderId : providers' = SoftDelete(providers, p)
    /\ Stays(r)
    /\ UNCHANGED <<users, tokens, oauth, up, bounds, history>>

-----------------------------------------------------------------------------
(* The OAuth login *)

\* OAuthLoginOptions reads the enabled providers ...
LoginOptionsReads(r) ==
    /\ Begin(r)
    /\ LET enabled == {p \in LiveIds(providers) : providers[p].enabled} IN
       req' = [req EXCEPT ![r] = [pc |-> "sign", rows |-> [p \in enabled |-> providers[p]]]]
    /\ UNCHANGED <<tables, oauth, up, boots, history>>

\* ... gives a secret to each that had none when it was read ...
EnsureStateSecret(r) ==
    /\ req[r].pc = "sign"
    /\ \E p \in DOMAIN req[r].rows :
          /\ req[r].rows[p].secret = NoSecret
          /\ secrets' = secrets + 1
          /\ req' = [req EXCEPT ![r].rows[p].secret = secrets + 1]
          /\ providers' = IF Live(providers, p)
                          THEN [providers EXCEPT ![p].secret = secrets + 1] ELSE providers
    /\ UNCHANGED <<users, tokens, states, up, bounds, history>>

\* Mutant: the return does not wait for the secrets.
NotEnsured(r) == TRUE

Ensured(r) == \A p \in DOMAIN req[r].rows : req[r].rows[p].secret # NoSecret

\* ... and returns a state signed for each.
LoginOptionsReturn(r) ==
    /\ req[r].pc = "sign" /\ Ensured(r)
    /\ states' = states \cup {[provider |-> p, secret |-> req[r].rows[p].secret] :
                                 p \in DOMAIN req[r].rows}
    /\ Stays(r)
    /\ UNCHANGED <<tables, secrets, up, bounds, history>>

\* The redirect from the provider: its row must verify the state.
Verifies(s) == Live(providers, s.provider) /\ providers[s.provider].secret = s.secret

CallbackVerifies(r) ==
    /\ Begin(r)
    /\ \E s \in states : Verifies(s) /\ providers[s.provider].enabled
    /\ req' = [req EXCEPT ![r] = [pc |-> "exchange"]]
    /\ UNCHANGED <<tables, oauth, up, boots, history>>

\* The code is exchanged; the user of that subject is looked up.
CallbackFindsUser(r) ==
    /\ req[r].pc = "exchange"
    /\ LET known == {u \in LiveIds(users) : users[u].subject} IN
       \/ \E u \in known :
             req' = [req EXCEPT ![r] = [pc |-> "issue", user |-> u]]
       \/ /\ known = {}
          /\ req' = [req EXCEPT ![r] = [pc |-> "create"]]
    /\ UNCHANGED <<tables, oauth, up, bounds, history>>

\* On the first login the user is created, named by its address.
CallbackCreatesUser(r) ==
    /\ req[r].pc = "create"
    /\ \E u \in UserId, name \in Username \ {"admin"} :
          /\ NextId(users, u) /\ ~NameTaken(name, u)
          /\ users' = [users EXCEPT ![u] = [is |-> "live", name |-> name, role |-> "user",
                                            password |-> FALSE, subject |-> TRUE]]
          /\ req' = [req EXCEPT ![r] = [pc |-> "issue", user |-> u]]
    /\ UNCHANGED <<tokens, providers, oauth, up, bounds, history>>

\* A login ends with an error: the provider, its userinfo endpoint or the
\* database fails.
LoginFails(r) ==
    /\ req[r].pc \in {"issue", "sign", "exchange", "create"}
    /\ Stays(r)
    /\ UNCHANGED <<tables, oauth, up, bounds, history>>

-----------------------------------------------------------------------------
(* The database starts empty, or in use: two administrators with a token,   *)
(* and a provider stored before providers had a state secret.               *)

InUse(u) == [is |-> "live", name |-> IF u = 1 THEN "admin" ELSE "second", role |-> "admin",
             password |-> TRUE, subject |-> FALSE]

Init ==
    /\ \/ /\ users = [u \in UserId |-> NoRow]
          /\ tokens = [t \in TokenId |-> NoRow]
          /\ providers = [p \in ProviderId |-> NoRow]
       \/ /\ users = [u \in UserId |-> IF u <= 2 THEN InUse(u) ELSE NoRow]
          /\ tokens = [t \in TokenId |->
                         IF t <= 2 THEN [is |-> "live", user |-> t, expired |-> FALSE] ELSE NoRow]
          /\ \E legacy \in SUBSET {1} :
                providers = [p \in ProviderId |->
                               IF p \in legacy
                               THEN [is |-> "live", enabled |-> TRUE, secret |-> NoSecret]
                               ELSE NoRow]
    /\ states = {} /\ secrets = 0
    /\ up = [i \in Instance |-> "down"]
    /\ req = [r \in Request |-> Idle]
    /\ begun = 0 /\ boots = 0
    /\ overlapped = FALSE /\ demoted = FALSE /\ created = {}

Next ==
    \/ \E i \in Instance : BootCounts(i) \/ BootSeeds(i) \/ Crash(i)
    \/ \E t \in TokenId : TokenExpires(t)
    \/ \E r \in Request :
          \/ ReadToken(r) \/ ReadOwner(r) \/ Admit(r) \/ HandlerEnds(r)
          \/ CreateAccessToken(r) \/ RevokeAccessToken(r) \/ Login(r) \/ IssueSession(r)
          \/ CreateUser(r) \/ UpdateUserReads(r) \/ UpdateUserSaves(r) \/ DeleteUser(r)
          \/ CreateOAuthProvider(r) \/ UpdateProviderReads(r) \/ UpdateProviderSaves(r)
          \/ DeleteOAuthProvider(r)
          \/ LoginOptionsReads(r) \/ EnsureStateSecret(r) \/ LoginOptionsReturn(r)
          \/ CallbackVerifies(r) \/ CallbackFindsUser(r) \/ CallbackCreatesUser(r) \/ LoginFails(r)

Spec == Init /\ [][Next]_vars

-----------------------------------------------------------------------------
(* What is promised *)

\* An instance that serves finds an administrator in the table, unless
\* requests overlapped or one was given another role: a deletion on its own
\* leaves its caller (DeleteUser, auth-handlers.go), and a boot without users
\* seeds one (seedDefaultAdmin).
AdminRemains ==
    (\E i \in Instance : up[i] = "up") /\ ~overlapped /\ ~demoted
        => \E u \in UserId : Admin(u)

\* What RevokeAccessToken has deleted no step brings back, whatever requests
\* were using the token.
RevokedStaysRevoked ==
    [][\A t \in TokenId : tokens[t].is = "deleted" => tokens'[t].is = "deleted"]_vars

\* A state signed for a provider made by CreateOAuthProvider verifies in the
\* callback as long as the provider is there, whatever edits came between.
SignedStateVerifies ==
    \A s \in states : s.provider \in created /\ Live(providers, s.provider) => Verifies(s)

=============================================================================
