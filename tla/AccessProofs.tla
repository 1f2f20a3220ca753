---------------------------- MODULE AccessProofs ----------------------------
(***************************************************************************)
(* Proofs about Access, for any instances, requests and sizes of tables.   *)
(*                                                                         *)
(* That an administrator remains rests on the copy of its user that a      *)
(* request is served from: while no request has overlapped another one,    *)
(* nobody has changed the row since, so that the caller of DeleteUser is   *)
(* an administrator still, and it does not delete itself.  That a state    *)
(* verifies rests on the copies of the providers: none that a request      *)
(* holds, and no state, has another secret than the row of a provider that *)
(* was created with one.                                                   *)
(***************************************************************************)
EXTENDS Access, TLAPS

\* A request is in progress only at an instance that is up.
UpInv == \A r \in Request : req[r] # Idle => up[Server[r]] = "up"

\* A request that has read its user and may still change the table of users.
Inside(r) == req[r].pc \in {"touch", "handler", "saveUser"}

\* As long as none has overlapped another, such a request is alone ...
AloneInv == ~overlapped => \A r, s \in Request : Inside(r) /\ Inside(s) => r = s

\* ... and so an administrator that it has read is one still.
CallerInv ==
    ~overlapped /\ ~demoted =>
        \A r \in Request : req[r].pc \in {"touch", "handler"} /\ req[r].role = "admin"
            => Admin(req[r].user)

\* A row that is to be saved was read while it was there.
SaveInv == \A r \in Request : req[r].pc = "saveUser" => req[r].row.is = "live"

\* Where there are users, or an instance that has counted them, is an administrator.
AdminInv ==
    ~overlapped /\ ~demoted /\ ((\E i \in Instance : up[i] = "up") \/ LiveIds(users) # {})
        => \E u \in UserId : Admin(u)

\* What "secret" says of provider p, now or in a copy: a row is there, with that secret
\* unless p was there before providers had one.
SecretOf(p, secret) ==
    /\ providers[p].is # "none"
    /\ p \in created => secret = providers[p].secret

\* Rows, copies of rows and signed states agree on the secret of a created provider.
SecretInv ==
    /\ \A p \in created : providers[p].is # "none" /\ providers[p].secret # NoSecret
    /\ \A r \in Request : req[r].pc = "sign" =>
            \A p \in DOMAIN req[r].rows : SecretOf(p, req[r].rows[p].secret)
    /\ \A r \in Request : req[r].pc = "saveProvider" => SecretOf(req[r].id, req[r].row.secret)
    /\ \A s \in states : SecretOf(s.provider, s.secret)

IInv == TypeOK /\ UpInv /\ AloneInv /\ CallerInv /\ SaveInv /\ AdminInv /\ SecretInv

-----------------------------------------------------------------------------
(* Types.                                                                  *)

\* A request that signs states holds rows of some providers.
LEMMA SignCases ==
    ASSUME NEW n, NEW p
    PROVE  p \in Signing(n) <=>
              \E P \in SUBSET ProviderId : p \in [pc : {"sign"}, rows : [P -> ProviderRow(n)]]
BY Zenon DEF Signing

\* More secrets leave the rows and the requests in their sets.
LEMMA ProgressGrows ==
    ASSUME NEW n \in Nat, NEW m \in Nat, n <= m
    PROVE  ProviderRow(n) \subseteq ProviderRow(m) /\ Progress(n) \subseteq Progress(m)
<1>1. ProviderRow(n) \subseteq ProviderRow(m)
  BY DEF ProviderRow
<1>2. [pc : {"saveProvider"}, id : ProviderId, row : ProviderRow(n)]
        \subseteq [pc : {"saveProvider"}, id : ProviderId, row : ProviderRow(m)]
  BY <1>1
<1>3. Signing(n) \subseteq Signing(m)
  <2>1. \A P : [pc : {"sign"}, rows : [P -> ProviderRow(n)]]
                    \subseteq [pc : {"sign"}, rows : [P -> ProviderRow(m)]]
    BY <1>1
  <2>2. QED
    BY <2>1, SignCases
<1>4. QED
  BY <1>1, <1>2, <1>3 DEF Progress

\* What a request holds where it is.
LEMMA ProgressFields ==
    ASSUME NEW n \in Nat, NEW p \in Progress(n)
    PROVE  /\ p.pc = "idle" <=> p = Idle
           /\ p.pc = "owner" => p.token \in TokenId /\ p.copy \in TokenRow
           /\ p.pc = "touch" => /\ p.token \in TokenId /\ p.copy \in TokenRow
                                /\ p.user \in UserId /\ p.role \in Role
           /\ p.pc = "handler" => p.user \in UserId /\ p.role \in Role
           /\ p.pc = "saveUser" => p.id \in UserId /\ p.row \in UserRow
           /\ p.pc = "saveProvider" => p.id \in ProviderId /\ p.row \in ProviderRow(n)
           /\ p.pc = "issue" => p.user \in UserId
<1>1. CASE p = Idle
  BY <1>1 DEF Idle
<1>2. CASE p \in [pc : {"owner"}, token : TokenId, copy : TokenRow]
  BY <1>2 DEF Idle
<1>3. CASE p \in [pc : {"touch"}, token : TokenId, copy : TokenRow, user : UserId, role : Role]
  BY <1>3 DEF Idle
<1>4. CASE p \in [pc : {"handler"}, user : UserId, role : Role]
  BY <1>4 DEF Idle
<1>5. CASE p \in [pc : {"saveUser"}, id : UserId, row : UserRow]
  BY <1>5 DEF Idle
<1>6. CASE p \in [pc : {"saveProvider"}, id : ProviderId, row : ProviderRow(n)]
  BY <1>6 DEF Idle
<1>7. CASE p \in Signing(n)
  BY <1>7, SignCases DEF Idle
<1>8. CASE p \in [pc : {"exchange", "create"}] \cup [pc : {"issue"}, user : UserId]
  BY <1>8 DEF Idle
<1>9. QED
  BY <1>1, <1>2, <1>3, <1>4, <1>5, <1>6, <1>7, <1>8 DEF Progress

\* What a request holds that signs states.
LEMMA SignFields ==
    ASSUME NEW n \in Nat, NEW p \in Progress(n), p.pc = "sign"
    PROVE  /\ DOMAIN p.rows \subseteq ProviderId
           /\ p = [pc |-> "sign", rows |-> p.rows]
           /\ p.rows \in [DOMAIN p.rows -> ProviderRow(n)]
<1>1. PICK P \in SUBSET ProviderId : p \in [pc : {"sign"}, rows : [P -> ProviderRow(n)]]
  BY SignCases DEF Progress, Idle
<1>2. p.rows \in [P -> ProviderRow(n)]
  BY <1>1
<1>3. DOMAIN p.rows = P
  BY <1>2
<1>4. p = [pc |-> "sign", rows |-> p.rows]
  BY <1>1
<1>5. QED
  BY <1>2, <1>3, <1>4

\* A request that signs states for some providers is well typed.
LEMMA SignTyped ==
    ASSUME NEW n \in Nat, NEW P \in SUBSET ProviderId, NEW rows \in [P -> ProviderRow(n)]
    PROVE  [pc |-> "sign", rows |-> rows] \in Progress(n)
<1>1. [pc |-> "sign", rows |-> rows] \in [pc : {"sign"}, rows : [P -> ProviderRow(n)]]
  OBVIOUS
<1>2. QED
  BY <1>1, SignCases DEF Progress

-----------------------------------------------------------------------------

\* Nothing is in progress at first: the invariant is about the tables alone.
LEMMA InitWith ==
    ASSUME states = {}, secrets = 0, begun = 0, boots = 0, overlapped = FALSE, demoted = FALSE,
           created = {}, up = [i \in Instance |-> "down"], req = [r \in Request |-> Idle],
           users \in [UserId -> UserRow \cup {NoRow}],
           tokens \in [TokenId -> TokenRow \cup {NoRow}],
           providers \in [ProviderId -> ProviderRow(secrets) \cup {NoRow}],
           AccessAssumption, AdminInv
    PROVE  IInv
<1>1. Idle \in Progress(secrets)
  BY DEF Progress
<1>2. TypeOK
  <2>1. begun \in 0 .. MaxRequests /\ boots \in 0 .. MaxBoots
    BY DEF AccessAssumption
  <2>2. overlapped \in BOOLEAN /\ demoted \in BOOLEAN
    OBVIOUS
  <2>3. states \subseteq [provider : ProviderId, secret : 1 .. secrets] /\ created \subseteq ProviderId
    OBVIOUS
  <2>4. req \in [Request -> Progress(secrets)] /\ up \in [Instance -> {"down", "seeding", "up"}]
    BY <1>1
  <2>5. secrets \in Nat
    OBVIOUS
  <2>6. QED
    BY <2>1, <2>2, <2>3, <2>4, <2>5 DEF TypeOK
<1>3. UpInv /\ AloneInv /\ CallerInv /\ SaveInv /\ SecretInv
  BY DEF UpInv, AloneInv, Inside, CallerInv, SaveInv, SecretInv, Idle
<1>4. QED
  BY <1>2, <1>3 DEF IInv

\* The initial states satisfy the invariant: the tables are empty, or users 1 and 2
\* are administrators.
LEMMA InitIInv == ASSUME AccessAssumption, Init PROVE IInv
<1>1. /\ states = {} /\ secrets = 0 /\ begun = 0 /\ boots = 0
      /\ overlapped = FALSE /\ demoted = FALSE /\ created = {}
      /\ up = [i \in Instance |-> "down"] /\ req = [r \in Request |-> Idle]
  BY DEF Init
<1>2. MaxUsers \in Nat /\ MaxRequests \in Nat /\ MaxBoots \in Nat /\ MaxUsers >= 2
      /\ "admin" \in Username /\ "second" \in Username
  BY DEF AccessAssumption
<1>3. CASE /\ users = [u \in UserId |-> NoRow]
           /\ tokens = [t \in TokenId |-> NoRow]
           /\ providers = [p \in ProviderId |-> NoRow]
  <2>1. /\ users \in [UserId -> UserRow \cup {NoRow}]
        /\ tokens \in [TokenId -> TokenRow \cup {NoRow}]
        /\ providers \in [ProviderId -> ProviderRow(secrets) \cup {NoRow}]
    BY <1>3
  <2>2. LiveIds(users) = {}
    BY <1>3 DEF LiveIds, Live, NoRow
  <2>3. AdminInv
    BY <1>1, <2>2 DEF AdminInv
  <2>4. QED
    BY <1>1, <2>1, <2>3, InitWith
<1>4. CASE /\ users = [u \in UserId |-> IF u <= 2 THEN InUse(u) ELSE NoRow]
           /\ tokens = [t \in TokenId |->
                          IF t <= 2 THEN [is |-> "live", user |-> t, expired |-> FALSE] ELSE NoRow]
           /\ \E legacy \in SUBSET {1} :
                 providers = [p \in ProviderId |->
                                IF p \in legacy
                                THEN [is |-> "live", enabled |-> TRUE, secret |-> NoSecret]
                                ELSE NoRow]
  <2>1. users \in [UserId -> UserRow \cup {NoRow}]
    <3>1. \A u \in UserId : InUse(u) \in UserRow
      BY <1>2 DEF UserRow, InUse, Role
    <3>2. QED
      BY <1>4, <3>1, Zenon
  <2>2. tokens \in [TokenId -> TokenRow \cup {NoRow}]
    BY <1>2, <1>4 DEF TokenRow, TokenId, UserId
  <2>3. providers \in [ProviderId -> ProviderRow(secrets) \cup {NoRow}]
    <3>1. [is |-> "live", enabled |-> TRUE, secret |-> NoSecret] \in ProviderRow(secrets)
      BY <1>1 DEF ProviderRow, NoSecret
    <3>2. QED
      BY <1>4, <3>1
  <2>4. 1 \in UserId /\ Admin(1)
    BY <1>2, <1>4 DEF UserId, Admin, Live, InUse
  <2>5. AdminInv
    BY <2>4 DEF AdminInv
  <2>6. QED
    BY <1>1, <2>1, <2>2, <2>3, <2>5, InitWith
<1>5. QED
  BY <1>3, <1>4 DEF Init

-----------------------------------------------------------------------------

\* A step of request r to p, which changes no table but the tokens, keeps the invariant
\* if what p says is what the tables say.
LEMMA MoveKeeps ==
    ASSUME AccessAssumption, IInv, NEW r \in Request, NEW p \in Progress(secrets),
           req' = [req EXCEPT ![r] = p],
           UNCHANGED <<users, providers, states, secrets, up, boots, demoted, created>>,
           tokens' \in [TokenId -> TokenRow \cup {NoRow}],
           begun' \in 0 .. MaxRequests, overlapped' \in BOOLEAN,
           ~overlapped' => ~overlapped,
           ~overlapped' /\ p.pc \in {"touch", "handler", "saveUser"} =>
                Inside(r) \/ \A other \in Request \ {r} : ~Inside(other),
           p # Idle => up[Server[r]] = "up",
           ~overlapped' /\ ~demoted /\ p.pc \in {"touch", "handler"} /\ p.role = "admin"
                => Admin(p.user),
           p.pc = "saveUser" => p.row.is = "live",
           p.pc = "sign" => \A q \in DOMAIN p.rows : SecretOf(q, p.rows[q].secret),
           p.pc = "saveProvider" => SecretOf(p.id, p.row.secret)
    PROVE  IInv'
<1>1. /\ req' \in [Request -> Progress(secrets)]
      /\ \A other \in Request : req'[other] = IF other = r THEN p ELSE req[other]
  BY DEF IInv, TypeOK
<1>2. TypeOK'
  BY <1>1 DEF IInv, TypeOK
<1>3. UpInv'
  BY <1>1 DEF IInv, UpInv
<1>4. AloneInv'
  BY <1>1 DEF IInv, AloneInv, Inside
<1>5. CallerInv'
  BY <1>1 DEF IInv, CallerInv, Admin, Live
<1>6. SaveInv'
  BY <1>1 DEF IInv, SaveInv
<1>7. AdminInv'
  BY DEF IInv, AdminInv, Admin, LiveIds, Live
<1>8. SecretInv'
  BY <1>1 DEF IInv, SecretInv, SecretOf
<1>9. QED
  BY <1>2, <1>3, <1>4, <1>5, <1>6, <1>7, <1>8 DEF IInv

\* A step of request r that ends it keeps the invariant if it changes only the tokens.
LEMMA StaysKeeps ==
    ASSUME AccessAssumption, IInv, NEW r \in Request, req' = [req EXCEPT ![r] = Idle],
           UNCHANGED <<users, providers, states, secrets, up, begun, boots, overlapped, demoted,
                       created>>,
           tokens' \in [TokenId -> TokenRow \cup {NoRow}]
    PROVE  IInv'
<1>1. Idle \in Progress(secrets)
  BY DEF Progress
<1>2. Idle.pc = "idle"
  BY DEF Idle
<1>3. begun' \in 0 .. MaxRequests /\ overlapped' \in BOOLEAN
  BY DEF IInv, TypeOK
<1>4. QED
  BY <1>1, <1>2, <1>3, MoveKeeps

\* The interceptor's steps keep the invariant: the role a request goes on with is that
\* of its user's row, and whoever could change the row meanwhile overlaps it.
LEMMA AdmissionKeeps ==
    ASSUME AccessAssumption, IInv, NEW r \in Request,
           ReadToken(r) \/ ReadOwner(r) \/ Admit(r) \/ HandlerEnds(r)
    PROVE  IInv'
<1>1. /\ secrets \in Nat /\ req[r] \in Progress(secrets)
      /\ tokens \in [TokenId -> TokenRow \cup {NoRow}]
      /\ begun \in 0 .. MaxRequests /\ MaxRequests \in Nat /\ overlapped \in BOOLEAN
      /\ users \in [UserId -> UserRow \cup {NoRow}]
      /\ req[r] # Idle => up[Server[r]] = "up"
  BY DEF IInv, TypeOK, UpInv, AccessAssumption
<1>2. CASE ReadToken(r)
  <2>1. PICK t \in LiveIds(tokens) :
            req' = [req EXCEPT ![r] = [pc |-> "owner", token |-> t, copy |-> tokens[t]]]
    BY <1>2 DEF ReadToken
  <2>2. t \in TokenId /\ tokens[t] \in TokenRow
    BY <1>1 DEF LiveIds, Live, NoRow
  <2>3. /\ UNCHANGED <<users, tokens, providers, states, secrets, up, boots, overlapped, demoted,
                       created>>
        /\ up[Server[r]] = "up" /\ begun < MaxRequests /\ begun' = begun + 1
    BY <1>2 DEF ReadToken, Begin, tables, oauth, history
  <2>4. begun' \in 0 .. MaxRequests
    BY <1>1, <2>3
  <2> DEFINE p == [pc |-> "owner", token |-> t, copy |-> tokens[t]]
  <2>5. p \in Progress(secrets) /\ p.pc = "owner"
    BY <2>2 DEF Progress
  <2>6. req' = [req EXCEPT ![r] = p]
    BY <2>1
  <2> HIDE DEF p
  <2>7. QED
    BY <1>1, <2>3, <2>4, <2>5, <2>6, MoveKeeps
<1>3. CASE ReadOwner(r)
  <2>1. /\ req[r].pc = "owner" /\ req[r].token \in TokenId /\ req[r].copy \in TokenRow
        /\ req[r].copy.user \in UserId /\ req[r] # Idle
    BY <1>1, <1>3, ProgressFields DEF ReadOwner, TokenRow, Idle
  <2> DEFINE u == req[r].copy.user
             p == [pc |-> "touch", token |-> req[r].token, copy |-> req[r].copy,
                   user |-> u, role |-> users[u].role]
  <2>2. /\ UNCHANGED <<users, tokens, providers, states, secrets, up, begun, boots, demoted, created>>
        /\ overlapped' = (overlapped \/ \E other \in Request \ {r} :
                             req[other].pc \in {"touch", "handler", "saveUser"})
        /\ req' = [req EXCEPT ![r] = IF Live(users, u) THEN p ELSE Idle]
    BY <1>3 DEF ReadOwner, tables, oauth, bounds
  <2>3. /\ overlapped' \in BOOLEAN
        /\ ~overlapped' => ~overlapped
        /\ ~overlapped' => \A other \in Request \ {r} : ~Inside(other)
    BY <1>1, <2>2, Zenon DEF Inside
  <2>4. CASE Live(users, u)
    <3>1. users[u] \in UserRow
      BY <1>1, <2>1, <2>4 DEF Live, NoRow
    <3>2. users[u].role \in Role
      BY <3>1 DEF UserRow
    <3>3. p \in Progress(secrets) /\ p.pc = "touch" /\ p.user = u /\ p.role = users[u].role
      BY <2>1, <3>2 DEF Progress
    <3>4. p.role = "admin" => Admin(p.user)
      BY <2>4, <3>3 DEF Admin
    <3>5. req' = [req EXCEPT ![r] = p]
      BY <2>2, <2>4
    <3> HIDE DEF p, u
    <3>6. QED
      BY <1>1, <2>1, <2>2, <2>3, <3>3, <3>4, <3>5, MoveKeeps
  <2>5. CASE ~Live(users, u)
    <3>1. req' = [req EXCEPT ![r] = Idle]
      BY <2>2, <2>5
    <3>2. Idle \in Progress(secrets) /\ Idle.pc = "idle"
      BY DEF Progress, Idle
    <3>3. QED
      BY <1>1, <2>2, <2>3, <3>1, <3>2, MoveKeeps
  <2>6. QED
    BY <2>4, <2>5
<1>4. CASE Admit(r)
  <2>1. req[r].pc = "touch" /\ req[r].user \in UserId /\ req[r].role \in Role /\ req[r] # Idle
    BY <1>1, <1>4, ProgressFields DEF Admit, Idle
  <2> DEFINE p == [pc |-> "handler", user |-> req[r].user, role |-> req[r].role]
  <2>2. /\ UNCHANGED <<users, tokens, providers, states, secrets, up, begun, boots, overlapped,
                       demoted, created>>
        /\ req' = [req EXCEPT ![r] = p]
    BY <1>4 DEF Admit, TouchesToken, oauth, bounds, history
  <2>3. p \in Progress(secrets) /\ p.pc = "handler" /\ p.user = req[r].user /\ p.role = req[r].role
    BY <2>1 DEF Progress
  <2>4. Inside(r) /\ (~overlapped /\ ~demoted /\ p.role = "admin" => Admin(p.user))
    BY <2>1, <2>3 DEF Inside, IInv, CallerInv
  <2> HIDE DEF p
  <2>5. QED
    BY <1>1, <2>1, <2>2, <2>3, <2>4, MoveKeeps
<1>5. CASE HandlerEnds(r)
  <2>1. /\ UNCHANGED <<users, tokens, providers, states, secrets, up, begun, boots, overlapped,
                       demoted, created>>
        /\ req' = [req EXCEPT ![r] = Idle]
    BY <1>5 DEF HandlerEnds, Stays, tables, oauth, bounds, history
  <2>2. QED
    BY <1>1, <2>1, StaysKeeps
<1>6. QED
  BY <1>2, <1>3, <1>4, <1>5

-----------------------------------------------------------------------------

\* A new token gets a row that was never used.
LEMMA IssueTokenFacts ==
    ASSUME TypeOK, NEW u \in UserId, IssueToken(u)
    PROVE  /\ tokens' \in [TokenId -> TokenRow \cup {NoRow}]
           /\ \A t \in TokenId : tokens[t].is = "deleted" => tokens'[t].is = "deleted"
<1>1. PICK t \in TokenId :
        /\ tokens[t].is = "none"
        /\ tokens' = [tokens EXCEPT ![t] = [is |-> "live", user |-> u, expired |-> FALSE]]
  BY DEF IssueToken, NextId
<1>2. [is |-> "live", user |-> u, expired |-> FALSE] \in TokenRow
  BY DEF TokenRow
<1>3. tokens \in [TokenId -> TokenRow \cup {NoRow}]
  BY DEF TypeOK
<1>4. QED
  BY <1>1, <1>2, <1>3

\* A revoked token's row stays, deleted.
LEMMA RevokeFacts ==
    ASSUME TypeOK, NEW t \in TokenId, tokens' = SoftDelete(tokens, t)
    PROVE  /\ tokens' \in [TokenId -> TokenRow \cup {NoRow}]
           /\ \A q \in TokenId : tokens[q].is = "deleted" => tokens'[q].is = "deleted"
<1>1. tokens \in [TokenId -> TokenRow \cup {NoRow}]
  BY DEF TypeOK
<1>2. CASE Live(tokens, t)
  <2>1. tokens[t] \in TokenRow
    BY <1>1, <1>2 DEF Live, NoRow
  <2>2. [tokens[t] EXCEPT !.is = "deleted"] \in TokenRow
    BY <2>1 DEF TokenRow
  <2>3. tokens' = [tokens EXCEPT ![t] = [tokens[t] EXCEPT !.is = "deleted"]]
    BY <1>2 DEF SoftDelete
  <2>4. [tokens[t] EXCEPT !.is = "deleted"].is = "deleted"
    BY <2>1 DEF TokenRow
  <2>5. QED
    BY <1>1, <2>2, <2>3, <2>4
<1>3. CASE ~Live(tokens, t)
  BY <1>1, <1>3 DEF SoftDelete
<1>4. QED
  BY <1>2, <1>3

\* A token that expires stays as it is otherwise.
LEMMA ExpireFacts ==
    ASSUME TypeOK, NEW t \in TokenId, TokenExpires(t)
    PROVE  /\ tokens' \in [TokenId -> TokenRow \cup {NoRow}]
           /\ \A q \in TokenId : tokens[q].is = "deleted" => tokens'[q].is = "deleted"
<1>1. /\ tokens \in [TokenId -> TokenRow \cup {NoRow}]
      /\ Live(tokens, t) /\ tokens' = [tokens EXCEPT ![t].expired = TRUE]
  BY DEF TypeOK, TokenExpires
<1>2. tokens[t] \in TokenRow
  BY <1>1 DEF Live, NoRow
<1>3. [tokens[t] EXCEPT !.expired = TRUE] \in TokenRow
  BY <1>2 DEF TokenRow
<1>4. tokens[t].is = "live"
  BY <1>1 DEF Live
<1>5. QED
  BY <1>1, <1>3, <1>4

\* The steps that issue, revoke and expire tokens keep the invariant.
LEMMA TokenKeeps ==
    ASSUME AccessAssumption, IInv,
           \/ \E r \in Request : CreateAccessToken(r) \/ RevokeAccessToken(r) \/ IssueSession(r)
           \/ \E t \in TokenId : TokenExpires(t)
    PROVE  IInv'
<1>1. CASE \E t \in TokenId : TokenExpires(t)
  <2>1. PICK t \in TokenId : TokenExpires(t)
    BY <1>1
  <2>2. UNCHANGED <<users, providers, states, secrets, up, req, begun, boots, overlapped, demoted,
                    created>>
    BY <2>1 DEF TokenExpires, oauth, bounds, history
  <2>3. tokens' \in [TokenId -> TokenRow \cup {NoRow}]
    BY <2>1, ExpireFacts DEF IInv
  <2>4. TypeOK' /\ UpInv' /\ AloneInv' /\ CallerInv' /\ SaveInv' /\ AdminInv' /\ SecretInv'
    BY <2>2, <2>3 DEF IInv, TypeOK, UpInv, AloneInv, Inside, CallerInv, SaveInv, AdminInv, Admin,
                      LiveIds, Live, SecretInv, SecretOf
  <2>5. QED
    BY <2>4 DEF IInv
<1>2. CASE \E r \in Request : CreateAccessToken(r) \/ RevokeAccessToken(r) \/ IssueSession(r)
  <2>1. PICK r \in Request : CreateAccessToken(r) \/ RevokeAccessToken(r) \/ IssueSession(r)
    BY <1>2
  <2>2. /\ UNCHANGED <<users, providers, states, secrets, up, begun, boots, overlapped, demoted,
                       created>>
        /\ req' = [req EXCEPT ![r] = Idle]
    BY <2>1 DEF CreateAccessToken, RevokeAccessToken, IssueSession, Stays, oauth, bounds, history
  <2>3. secrets \in Nat /\ req[r] \in Progress(secrets)
    BY DEF IInv, TypeOK
  <2>4. tokens' \in [TokenId -> TokenRow \cup {NoRow}]
    <3>1. CASE CreateAccessToken(r) \/ IssueSession(r)
      <4>1. IssueToken(req[r].user) /\ req[r].pc \in {"handler", "issue"}
        BY <3>1 DEF CreateAccessToken, IssueSession
      <4>2. req[r].user \in UserId
        BY <2>3, <4>1, ProgressFields
      <4>3. QED
        BY <4>1, <4>2, IssueTokenFacts DEF IInv
    <3>2. CASE RevokeAccessToken(r)
      <4>1. PICK t \in LiveIds(tokens) : tokens' = SoftDelete(tokens, t)
        BY <3>2 DEF RevokeAccessToken
      <4>2. t \in TokenId
        BY DEF LiveIds, IInv, TypeOK
      <4>3. QED
        BY <4>1, <4>2, RevokeFacts DEF IInv
    <3>3. QED
      BY <2>1, <3>1, <3>2
  <2>5. QED
    BY <2>2, <2>4, StaysKeeps
<1>3. QED
  BY <1>1, <1>2

\* A request that begins to log in, that looks for its user or gives up keeps the
\* invariant.
LEMMA LoginKeeps ==
    ASSUME AccessAssumption, IInv, NEW r \in Request,
           Login(r) \/ CallbackVerifies(r) \/ CallbackFindsUser(r) \/ LoginFails(r)
    PROVE  IInv'
<1>1. /\ begun \in 0 .. MaxRequests /\ MaxRequests \in Nat
      /\ users \in [UserId -> UserRow \cup {NoRow}]
      /\ tokens \in [TokenId -> TokenRow \cup {NoRow}] /\ overlapped \in BOOLEAN
  BY DEF IInv, TypeOK, AccessAssumption
<1>2. /\ UNCHANGED <<users, tokens, providers, states, secrets, up, boots, overlapped, demoted,
                     created>>
      /\ begun' \in 0 .. MaxRequests
      /\ req[r] # Idle \/ up[Server[r]] = "up"
  BY <1>1 DEF Login, CallbackVerifies, CallbackFindsUser, LoginFails, Begin, Stays, tables, oauth,
              bounds, history, Idle
<1>3. up[Server[r]] = "up"
  BY <1>2 DEF IInv, UpInv
<1>4. PICK p \in {Idle, [pc |-> "exchange"], [pc |-> "create"]}
                    \cup {[pc |-> "issue", user |-> u] : u \in UserId} :
            req' = [req EXCEPT ![r] = p]
  BY <1>1 DEF Login, CallbackVerifies, CallbackFindsUser, LoginFails, Stays, LiveIds
<1>5. p \in Progress(secrets) /\ p.pc \in {"idle", "exchange", "create", "issue"}
  BY <1>4 DEF Progress, Idle
<1>6. QED
  BY <1>1, <1>2, <1>3, <1>4, <1>5, MoveKeeps

\* An administrator's look at a row it will save keeps the invariant: the row is there.
LEMMA EditKeeps ==
    ASSUME AccessAssumption, IInv, NEW r \in Request,
           UpdateUserReads(r) \/ UpdateProviderReads(r)
    PROVE  IInv'
<1>1. /\ begun \in 0 .. MaxRequests /\ overlapped \in BOOLEAN
      /\ users \in [UserId -> UserRow \cup {NoRow}]
      /\ providers \in [ProviderId -> ProviderRow(secrets) \cup {NoRow}]
      /\ tokens \in [TokenId -> TokenRow \cup {NoRow}]
  BY DEF IInv, TypeOK, AccessAssumption
<1>2. /\ UNCHANGED <<users, tokens, providers, states, secrets, up, begun, boots, overlapped,
                     demoted, created>>
      /\ req[r].pc = "handler"
  BY Zenon DEF UpdateUserReads, UpdateProviderReads, RequireAdmin, tables, oauth, bounds, history
<1>3. Inside(r) /\ up[Server[r]] = "up"
  BY <1>2 DEF IInv, UpInv, Inside, Idle
<1>4. CASE UpdateUserReads(r)
  <2>1. PICK u \in LiveIds(users), name \in Username, role \in Role, password \in BOOLEAN :
            req' = [req EXCEPT ![r] =
                      [pc |-> "saveUser", id |-> u,
                       row |-> [users[u] EXCEPT !.name = name, !.role = role,
                                                !.password = users[u].password \/ password]]]
    BY <1>4 DEF UpdateUserReads
  <2> DEFINE new == [users[u] EXCEPT !.name = name, !.role = role,
                                     !.password = users[u].password \/ password]
             p == [pc |-> "saveUser", id |-> u, row |-> new]
  <2>2. u \in UserId /\ users[u] \in UserRow /\ users[u].is = "live"
    BY <1>1 DEF LiveIds, Live, NoRow
  <2>3. (users[u].password \/ password) \in BOOLEAN
    OBVIOUS
  <2>4. new \in UserRow /\ new.is = "live"
    <3> DEFINE set == users[u].password \/ password
    <3>1. set \in BOOLEAN
      BY <2>3
    <3>2. new = [users[u] EXCEPT !.name = name, !.role = role, !.password = set]
      OBVIOUS
    <3> HIDE DEF set, new
    <3>3. QED
      BY <2>1, <2>2, <3>1, <3>2 DEF UserRow
  <2>5. req' = [req EXCEPT ![r] = p]
    BY <2>1
  <2> HIDE DEF new
  <2>6. p \in Progress(secrets) /\ p.pc = "saveUser" /\ p.row = new
    BY <2>2, <2>4 DEF Progress
  <2> HIDE DEF p
  <2>7. QED
    BY <1>1, <1>2, <1>3, <2>4, <2>5, <2>6, MoveKeeps
<1>5. CASE UpdateProviderReads(r)
  <2>1. PICK q \in LiveIds(providers), enabled \in BOOLEAN :
            req' = [req EXCEPT ![r] =
                      [pc |-> "saveProvider", id |-> q,
                       row |-> [providers[q] EXCEPT !.enabled = enabled]]]
    BY <1>5 DEF UpdateProviderReads, Edited
  <2> DEFINE new == [providers[q] EXCEPT !.enabled = enabled]
             p == [pc |-> "saveProvider", id |-> q, row |-> new]
  <2>2. q \in ProviderId /\ providers[q] \in ProviderRow(secrets) /\ providers[q].is = "live"
    BY <1>1 DEF LiveIds, Live, NoRow
  <2>3. new \in ProviderRow(secrets) /\ new.secret = providers[q].secret
    BY <2>1, <2>2 DEF ProviderRow
  <2>4. req' = [req EXCEPT ![r] = p]
    BY <2>1
  <2> HIDE DEF new
  <2>5. p \in Progress(secrets) /\ p.pc = "saveProvider" /\ p.row = new /\ p.id = q
    BY <2>2, <2>3 DEF Progress
  <2>6. SecretOf(q, new.secret)
    BY <2>2, <2>3 DEF SecretOf
  <2> HIDE DEF p
  <2>7. QED
    BY <1>1, <1>2, <1>3, <2>4, <2>5, <2>6, MoveKeeps
<1>6. QED
  BY <1>4, <1>5

\* OAuthLoginOptions' look at the providers keeps the invariant.
LEMMA OptionsKeeps ==
    ASSUME AccessAssumption, IInv, NEW r \in Request, LoginOptionsReads(r) PROVE IInv'
<1>1. /\ begun \in 0 .. MaxRequests /\ MaxRequests \in Nat /\ secrets \in Nat
      /\ overlapped \in BOOLEAN
      /\ providers \in [ProviderId -> ProviderRow(secrets) \cup {NoRow}]
      /\ tokens \in [TokenId -> TokenRow \cup {NoRow}]
  BY DEF IInv, TypeOK, AccessAssumption
<1>2. /\ UNCHANGED <<users, tokens, providers, states, secrets, up, boots, overlapped, demoted,
                     created>>
      /\ begun' = begun + 1 /\ begun < MaxRequests /\ up[Server[r]] = "up"
  BY DEF LoginOptionsReads, Begin, tables, oauth, history
<1>3. begun' \in 0 .. MaxRequests
  BY <1>1, <1>2
<1> DEFINE enabled == {q \in LiveIds(providers) : providers[q].enabled}
           rows == [q \in enabled |-> providers[q]]
           p == [pc |-> "sign", rows |-> rows]
<1>4. req' = [req EXCEPT ![r] = p]
  BY DEF LoginOptionsReads
<1>5. enabled \in SUBSET ProviderId /\ \A q \in enabled : providers[q] \in ProviderRow(secrets)
                                                          /\ providers[q].is = "live"
  BY <1>1 DEF LiveIds, Live, NoRow
<1> HIDE DEF enabled
<1>6. rows \in [enabled -> ProviderRow(secrets)]
  BY <1>5
<1>7. DOMAIN rows = enabled /\ \A q \in enabled : SecretOf(q, rows[q].secret)
  BY <1>5 DEF SecretOf
<1> HIDE DEF rows
<1>8. p \in Progress(secrets)
  BY <1>1, <1>5, <1>6, SignTyped
<1>9. p.pc = "sign" /\ p.rows = rows
  OBVIOUS
<1>10. p # Idle
  BY DEF Idle
<1> HIDE DEF p
<1>11. QED
  BY <1>1, <1>2, <1>3, <1>4, <1>7, <1>8, <1>9, <1>10, MoveKeeps

-----------------------------------------------------------------------------

\* The end of request r in a change of the users keeps the invariant if an administrator
\* is left, and if r was alone with what it read, or no administrator is lost.
LEMMA UsersKeeps ==
    ASSUME AccessAssumption, IInv, NEW r \in Request, req[r] # Idle,
           NEW p \in Progress(secrets), p.pc \in {"idle", "issue"}, req' = [req EXCEPT ![r] = p],
           UNCHANGED <<tokens, providers, states, secrets, up, begun, boots, overlapped, created>>,
           users' \in [UserId -> UserRow \cup {NoRow}],
           demoted' \in BOOLEAN, ~demoted' => ~demoted,
           Inside(r) \/ \A u \in UserId : Admin(u) => Admin(u)',
           ~overlapped /\ ~demoted' => \E u \in UserId : Admin(u)'
    PROVE  IInv'
<1>1. /\ req' \in [Request -> Progress(secrets)]
      /\ \A other \in Request : req'[other] = IF other = r THEN p ELSE req[other]
      /\ secrets \in Nat /\ req \in [Request -> Progress(secrets)]
  BY DEF IInv, TypeOK
<1>2. TypeOK'
  BY <1>1 DEF IInv, TypeOK
<1>3. UpInv'
  BY <1>1 DEF IInv, UpInv
<1>4. AloneInv'
  BY <1>1 DEF IInv, AloneInv, Inside
<1>5. CallerInv'
  <2>1. SUFFICES ASSUME ~overlapped, ~demoted', NEW s \in Request, NEW u,
                        req'[s].pc \in {"touch", "handler"}, req'[s].role = "admin",
                        u = req'[s].user
                 PROVE  Admin(u)'
    BY DEF CallerInv, Admin, Live
  <2>2. s # r /\ req'[s] = req[s]
    BY <1>1, <2>1
  <2>3. Admin(u)
    BY <2>1, <2>2 DEF IInv, CallerInv
  <2>4. ~Inside(r)
    BY <2>1, <2>2 DEF IInv, AloneInv, Inside
  <2>5. u \in UserId
    BY <1>1, <2>1, <2>2, ProgressFields
  <2>6. QED
    BY <2>3, <2>4, <2>5
<1>6. SaveInv'
  BY <1>1 DEF IInv, SaveInv
<1>7. AdminInv'
  BY DEF AdminInv
<1>8. SecretInv'
  BY <1>1 DEF IInv, SecretInv, SecretOf
<1>9. QED
  BY <1>2, <1>3, <1>4, <1>5, <1>6, <1>7, <1>8 DEF IInv

\* A user's row that was never used is no administrator's.
LEMMA NewUserFacts ==
    ASSUME TypeOK, NEW u \in UserId, NextId(users, u), NEW row \in UserRow, row.is = "live",
           users' = [users EXCEPT ![u] = row]
    PROVE  /\ users' \in [UserId -> UserRow \cup {NoRow}]
           /\ \A v \in UserId : Admin(v) => Admin(v)'
           /\ row.role = "admin" => Admin(u)'
<1>1. users \in [UserId -> UserRow \cup {NoRow}] /\ users[u].is = "none"
  BY DEF TypeOK, NextId
<1>2. users' \in [UserId -> UserRow \cup {NoRow}] /\ users'[u] = row
  BY <1>1
<1>3. \A v \in UserId : v # u => users'[v] = users[v]
  BY <1>1
<1>4. QED
  BY <1>1, <1>2, <1>3 DEF Admin, Live

\* Where a request is in progress there is an administrator.
LEMMA AdminThere ==
    ASSUME AccessAssumption, IInv, NEW r \in Request, req[r] # Idle, ~overlapped, ~demoted
    PROVE  \E u \in UserId : Admin(u)
<1>1. Server[r] \in Instance /\ up[Server[r]] = "up"
  BY DEF AccessAssumption, IInv, UpInv
<1>2. QED
  BY <1>1 DEF IInv, AdminInv

\* The creation of a user, by an administrator or on a first login, keeps the invariant.
LEMMA CreateUserKeeps ==
    ASSUME AccessAssumption, IInv, NEW r \in Request, CreateUser(r) \/ CallbackCreatesUser(r)
    PROVE  IInv'
<1>1. /\ UNCHANGED <<tokens, providers, states, secrets, up, begun, boots, overlapped, demoted,
                     created>>
      /\ req[r] # Idle
  BY DEF CreateUser, CallbackCreatesUser, Stays, oauth, bounds, history, Idle
<1>2. PICK u \in UserId, row \in UserRow :
            /\ NextId(users, u) /\ row.is = "live" /\ users' = [users EXCEPT ![u] = row]
            /\ \/ req' = [req EXCEPT ![r] = Idle]
               \/ req' = [req EXCEPT ![r] = [pc |-> "issue", user |-> u]]
  <2>1. CASE CreateUser(r)
    <3>1. PICK u \in UserId, name \in Username, role \in Role :
            /\ NextId(users, u)
            /\ users' = [users EXCEPT ![u] = [is |-> "live", name |-> name, role |-> role,
                                              password |-> TRUE, subject |-> FALSE]]
      BY <2>1 DEF CreateUser
    <3>2. /\ [is |-> "live", name |-> name, role |-> role, password |-> TRUE, subject |-> FALSE]
                \in UserRow
          /\ [is |-> "live", name |-> name, role |-> role, password |-> TRUE, subject |-> FALSE].is
                = "live"
      BY DEF UserRow
    <3>3. req' = [req EXCEPT ![r] = Idle]
      BY <2>1 DEF CreateUser, Stays
    <3>4. QED
      BY <3>1, <3>2, <3>3
  <2>2. CASE CallbackCreatesUser(r)
    <3>1. PICK u \in UserId, name \in Username \ {"admin"} :
            /\ NextId(users, u)
            /\ users' = [users EXCEPT ![u] = [is |-> "live", name |-> name, role |-> "user",
                                              password |-> FALSE, subject |-> TRUE]]
            /\ req' = [req EXCEPT ![r] = [pc |-> "issue", user |-> u]]
      BY <2>2 DEF CallbackCreatesUser
    <3>2. /\ [is |-> "live", name |-> name, role |-> "user", password |-> FALSE, subject |-> TRUE]
                \in UserRow
          /\ [is |-> "live", name |-> name, role |-> "user", password |-> FALSE, subject |-> TRUE].is
                = "live"
      BY DEF UserRow, Role
    <3>3. QED
      BY <3>1, <3>2
  <2>3. QED
    BY <2>1, <2>2
<1>3. /\ users' \in [UserId -> UserRow \cup {NoRow}]
      /\ \A v \in UserId : Admin(v) => Admin(v)'
  BY <1>2, NewUserFacts DEF IInv
<1>4. ~overlapped /\ ~demoted => \E v \in UserId : Admin(v)'
  BY <1>1, <1>3, AdminThere
<1>5. demoted \in BOOLEAN
  BY DEF IInv, TypeOK
<1>6. /\ Idle \in Progress(secrets) /\ Idle.pc = "idle"
      /\ [pc |-> "issue", user |-> u] \in Progress(secrets)
      /\ [pc |-> "issue", user |-> u].pc = "issue"
  BY DEF Progress, Idle
<1>7. QED
  BY <1>1, <1>2, <1>3, <1>4, <1>5, <1>6, UsersKeeps

\* The save of an edited user keeps the invariant.
LEMMA SaveUserKeeps ==
    ASSUME AccessAssumption, IInv, NEW r \in Request, UpdateUserSaves(r) PROVE IInv'
<1>1. /\ UNCHANGED <<tokens, providers, states, secrets, up, begun, boots, overlapped, created>>
      /\ req[r] # Idle /\ req' = [req EXCEPT ![r] = Idle] /\ req[r].pc = "saveUser"
  BY DEF UpdateUserSaves, Stays, oauth, bounds
<1> DEFINE id == req[r].id
           row == req[r].row
<1>2. /\ id \in UserId /\ row \in UserRow /\ row.is = "live"
      /\ users \in [UserId -> UserRow \cup {NoRow}] /\ demoted \in BOOLEAN
  BY <1>1, ProgressFields DEF IInv, TypeOK, SaveInv
<1>3. \/ UNCHANGED <<users, demoted>>
      \/ /\ users' = [users EXCEPT ![id] = row]
         /\ demoted' = (demoted \/ (Admin(id) /\ row.role # "admin"))
  BY DEF UpdateUserSaves
<1> HIDE DEF id, row
<1>4. demoted' \in BOOLEAN /\ (~demoted' => ~demoted)
  BY <1>2, <1>3
<1>5. ~demoted' => \A v \in UserId : Admin(v) => Admin(v)'
  <2>1. CASE UNCHANGED <<users, demoted>>
    BY <2>1 DEF Admin, Live
  <2>2. CASE /\ users' = [users EXCEPT ![id] = row]
             /\ demoted' = (demoted \/ (Admin(id) /\ row.role # "admin"))
    <3>1. ~demoted' => (Admin(id) => row.role = "admin")
      BY <2>2, Zenon
    <3>2. \A v \in UserId : users'[v] = IF v = id THEN row ELSE users[v]
      BY <1>2, <2>2
    <3>3. QED
      BY <1>2, <3>1, <3>2 DEF Admin, Live
  <2>3. QED
    BY <1>3, <2>1, <2>2
<1>6. users' \in [UserId -> UserRow \cup {NoRow}]
  BY <1>2, <1>3
<1>7. ~overlapped /\ ~demoted' => \E v \in UserId : Admin(v)'
  BY <1>1, <1>4, <1>5, AdminThere
<1>8. /\ Idle \in Progress(secrets) /\ Idle.pc = "idle" /\ Inside(r)
  BY <1>1 DEF Progress, Idle, Inside
<1>9. QED
  BY <1>1, <1>4, <1>6, <1>7, <1>8, UsersKeeps

\* The deletion of a user keeps the invariant: its caller stays.
LEMMA DeleteUserKeeps ==
    ASSUME AccessAssumption, IInv, NEW r \in Request, DeleteUser(r) PROVE IInv'
<1>1. /\ UNCHANGED <<tokens, providers, states, secrets, up, begun, boots, overlapped, demoted,
                     created>>
      /\ req[r] # Idle /\ req' = [req EXCEPT ![r] = Idle]
      /\ req[r].pc = "handler" /\ req[r].role = "admin"
  BY DEF DeleteUser, RequireAdmin, Stays, oauth, bounds, history
<1>2. PICK u \in UserId : u # req[r].user /\ users' = SoftDelete(users, u)
  BY DEF DeleteUser, MayDelete
<1>3. /\ req[r].user \in UserId
      /\ users \in [UserId -> UserRow \cup {NoRow}] /\ demoted \in BOOLEAN
  BY <1>1, ProgressFields DEF IInv, TypeOK
<1>4. /\ users' \in [UserId -> UserRow \cup {NoRow}]
      /\ \A v \in UserId : v # u => users'[v] = users[v]
  <2>1. CASE Live(users, u)
    <3>1. users[u] \in UserRow
      BY <1>3, <2>1 DEF Live, NoRow
    <3>2. [users[u] EXCEPT !.is = "deleted"] \in UserRow
      BY <3>1 DEF UserRow
    <3>3. QED
      BY <1>2, <1>3, <2>1, <3>2 DEF SoftDelete
  <2>2. CASE ~Live(users, u)
    BY <1>2, <1>3, <2>2 DEF SoftDelete
  <2>3. QED
    BY <2>1, <2>2
<1>5. ~overlapped /\ ~demoted => \E v \in UserId : Admin(v)'
  <2>1. PICK v \in UserId : v = req[r].user
    BY <1>3
  <2>2. ~overlapped /\ ~demoted => Admin(v)
    BY <1>1, <2>1 DEF IInv, CallerInv
  <2>3. users'[v] = users[v]
    BY <1>2, <1>4, <2>1
  <2>4. QED
    BY <2>2, <2>3 DEF Admin, Live
<1>6. /\ Idle \in Progress(secrets) /\ Idle.pc = "idle" /\ Inside(r)
  BY <1>1 DEF Progress, Idle, Inside
<1>7. QED
  BY <1>1, <1>3, <1>4, <1>5, <1>6, UsersKeeps

\* Boots and crashes keep the invariant: a boot that finds no user makes an
\* administrator.
LEMMA BootKeeps ==
    ASSUME AccessAssumption, IInv, NEW i \in Instance, BootCounts(i) \/ BootSeeds(i) \/ Crash(i)
    PROVE  IInv'
<1>1. /\ up \in [Instance -> {"down", "seeding", "up"}]
      /\ users \in [UserId -> UserRow \cup {NoRow}]
      /\ req \in [Request -> Progress(secrets)]
      /\ boots \in 0 .. MaxBoots /\ MaxBoots \in Nat
      /\ \A r \in Request : Server[r] \in Instance
      /\ "admin" \in Username
  BY DEF IInv, TypeOK, AccessAssumption
<1>2. CASE BootCounts(i)
  <2>1. /\ UNCHANGED <<users, tokens, providers, states, secrets, req, begun, overlapped, demoted,
                       created>>
        /\ up[i] = "down" /\ boots < MaxBoots /\ boots' = boots + 1
        /\ up' = [up EXCEPT ![i] = IF LiveIds(users) = {} THEN "seeding" ELSE "up"]
    BY <1>2 DEF BootCounts, tables, oauth, history
  <2>2. up' \in [Instance -> {"down", "seeding", "up"}] /\ boots' \in 0 .. MaxBoots
    BY <1>1, <2>1
  <2>3. TypeOK'
    BY <2>1, <2>2 DEF IInv, TypeOK
  <2>4. UpInv'
    BY <1>1, <2>1 DEF IInv, UpInv
  <2>5. AdminInv'
    <3>1. (\E j \in Instance : up'[j] = "up") => (\E j \in Instance : up[j] = "up") \/ LiveIds(users) # {}
      BY <1>1, <2>1
    <3>2. QED
      BY <2>1, <3>1 DEF IInv, AdminInv, LiveIds, Live, Admin
  <2>6. AloneInv' /\ CallerInv' /\ SaveInv' /\ SecretInv'
    BY <2>1 DEF IInv, AloneInv, Inside, CallerInv, Admin, Live, SaveInv, SecretInv, SecretOf
  <2>7. QED
    BY <2>3, <2>4, <2>5, <2>6 DEF IInv
<1>3. CASE BootSeeds(i)
  <2>1. /\ UNCHANGED <<tokens, providers, states, secrets, req, begun, boots, overlapped, demoted,
                       created>>
        /\ up[i] = "seeding"
    BY <1>3 DEF BootSeeds, oauth, bounds, history
  <2> DEFINE row == [is |-> "live", name |-> "admin", role |-> "admin", password |-> TRUE,
                     subject |-> FALSE]
  <2>2. row \in UserRow /\ row.is = "live" /\ row.role = "admin"
    BY <1>1 DEF UserRow, Role
  <2>3. \/ up' = [up EXCEPT ![i] = "down"] /\ users' = users
        \/ /\ up' = [up EXCEPT ![i] = "up"]
           /\ \E u \in UserId : NextId(users, u) /\ users' = [users EXCEPT ![u] = row]
    BY <1>3 DEF BootSeeds
  <2> HIDE DEF row
  <2>4. /\ users' \in [UserId -> UserRow \cup {NoRow}]
        /\ \A v \in UserId : Admin(v) => Admin(v)'
        /\ users' = users \/ \E u \in UserId : Admin(u)'
    <3>1. CASE users' = users
      BY <1>1, <3>1 DEF Admin, Live
    <3>2. CASE \E u \in UserId : NextId(users, u) /\ users' = [users EXCEPT ![u] = row]
      <4>1. PICK u \in UserId : NextId(users, u) /\ users' = [users EXCEPT ![u] = row]
        BY <3>2
      <4>2. QED
        BY <2>2, <4>1, NewUserFacts DEF IInv
    <3>3. QED
      BY <2>3, <3>1, <3>2
  <2>5. /\ up' \in [Instance -> {"down", "seeding", "up"}]
        /\ \A j \in Instance : j # i => up'[j] = up[j]
        /\ up'[i] = "up" => \E u \in UserId : Admin(u)'
    <3>1. CASE up' = [up EXCEPT ![i] = "down"]
      BY <1>1, <3>1
    <3>2. CASE /\ up' = [up EXCEPT ![i] = "up"]
               /\ \E u \in UserId : NextId(users, u) /\ users' = [users EXCEPT ![u] = row]
      <4>1. PICK u \in UserId : NextId(users, u) /\ users' = [users EXCEPT ![u] = row]
        BY <3>2
      <4>2. Admin(u)'
        BY <2>2, <4>1, NewUserFacts DEF IInv
      <4>3. QED
        BY <1>1, <3>2, <4>2
    <3>3. QED
      BY <2>3, <3>1, <3>2
  <2>6. TypeOK'
    BY <2>1, <2>4, <2>5 DEF IInv, TypeOK
  <2>7. UpInv'
    BY <1>1, <2>1, <2>5 DEF IInv, UpInv
  <2>8. CallerInv'
    <3>1. SUFFICES ASSUME ~overlapped, ~demoted, NEW s \in Request, NEW u,
                          req[s].pc \in {"touch", "handler"}, req[s].role = "admin",
                          u = req[s].user
                   PROVE  Admin(u)'
      BY <2>1 DEF CallerInv, Admin, Live
    <3>2. Admin(u)
      BY <3>1 DEF IInv, CallerInv
    <3>3. u \in UserId
      BY <1>1, <3>1, ProgressFields DEF IInv, TypeOK
    <3>4. QED
      BY <2>4, <3>2, <3>3
  <2>9. AdminInv'
    <3>1. CASE \E u \in UserId : Admin(u)'
      BY <3>1 DEF AdminInv
    <3>2. CASE ~ \E u \in UserId : Admin(u)'
      <4>1. users' = users /\ \A j \in Instance : up'[j] = "up" => up[j] = "up"
        BY <2>4, <2>5, <3>2
      <4>2. QED
        BY <2>1, <4>1 DEF IInv, AdminInv, LiveIds, Live, Admin
    <3>3. QED
      BY <3>1, <3>2
  <2>10. AloneInv' /\ SaveInv' /\ SecretInv'
    BY <2>1 DEF IInv, AloneInv, Inside, SaveInv, SecretInv, SecretOf
  <2>11. QED
    BY <2>6, <2>7, <2>8, <2>9, <2>10 DEF IInv
<1>4. CASE Crash(i)
  <2>1. /\ UNCHANGED <<users, tokens, providers, states, secrets, begun, boots, overlapped, demoted,
                       created>>
        /\ up' = [up EXCEPT ![i] = "down"]
        /\ req' = [r \in Request |-> IF Server[r] = i THEN Idle ELSE req[r]]
    BY <1>4 DEF Crash, tables, oauth, bounds, history
  <2>2. /\ up' \in [Instance -> {"down", "seeding", "up"}]
        /\ \A j \in Instance : up'[j] = IF j = i THEN "down" ELSE up[j]
    BY <1>1, <2>1
  <2>3. /\ Idle \in Progress(secrets) /\ Idle.pc = "idle"
        /\ \A r \in Request : req'[r] = Idle \/ (req'[r] = req[r] /\ Server[r] # i)
    BY <2>1 DEF Progress, Idle
  <2>4. req' \in [Request -> Progress(secrets)]
    BY <1>1, <2>1, <2>3
  <2>5. TypeOK'
    BY <2>1, <2>2, <2>4 DEF IInv, TypeOK
  <2>6. UpInv'
    BY <1>1, <2>2, <2>3 DEF IInv, UpInv
  <2>7. AloneInv' /\ SaveInv'
    BY <2>1, <2>3 DEF IInv, AloneInv, Inside, SaveInv
  <2>8. CallerInv'
    BY <2>1, <2>3 DEF IInv, CallerInv, Admin, Live
  <2>9. AdminInv'
    BY <2>1, <2>2 DEF IInv, AdminInv, Admin, LiveIds, Live
  <2>10. SecretInv'
    BY <2>1, <2>3 DEF IInv, SecretInv, SecretOf
  <2>11. QED
    BY <2>5, <2>6, <2>7, <2>8, <2>9, <2>10 DEF IInv
<1>5. QED
  BY <1>2, <1>3, <1>4

-----------------------------------------------------------------------------

\* A step of request r that changes the providers, the states or the secrets keeps the
\* invariant if they agree afterwards.
LEMMA SecretsKeep ==
    ASSUME AccessAssumption, IInv, NEW r \in Request, req[r] # Idle,
           NEW p \in Progress(secrets'), p.pc \in {"idle", "sign"}, req' = [req EXCEPT ![r] = p],
           UNCHANGED <<users, tokens, up, begun, boots, overlapped, demoted>>,
           secrets' \in Nat, secrets <= secrets',
           providers' \in [ProviderId -> ProviderRow(secrets') \cup {NoRow}],
           states' \subseteq [provider : ProviderId, secret : 1 .. secrets'],
           created' \subseteq ProviderId,
           SecretInv'
    PROVE  IInv'
<1>1. \A other \in Request : req'[other] = IF other = r THEN p ELSE req[other]
  BY DEF IInv, TypeOK
<1>2. Progress(secrets) \subseteq Progress(secrets')
  BY ProgressGrows DEF IInv, TypeOK
<1>3. req' \in [Request -> Progress(secrets')]
  BY <1>2 DEF IInv, TypeOK
<1>4. TypeOK'
  BY <1>3 DEF IInv, TypeOK
<1>5. UpInv' /\ AloneInv' /\ SaveInv'
  BY <1>1 DEF IInv, UpInv, AloneInv, Inside, SaveInv
<1>6. CallerInv'
  BY <1>1 DEF IInv, CallerInv, Admin, Live
<1>7. AdminInv'
  BY DEF IInv, AdminInv, Admin, LiveIds, Live
<1>8. QED
  BY <1>4, <1>5, <1>6, <1>7 DEF IInv

\* The creation, the save and the deletion of a provider, and the return of the signed
\* states, keep the invariant: the secret of a created provider stays.
LEMMA ProviderKeeps ==
    ASSUME AccessAssumption, IInv, NEW r \in Request,
           \/ CreateOAuthProvider(r) \/ UpdateProviderSaves(r) \/ DeleteOAuthProvider(r)
           \/ LoginOptionsReturn(r)
    PROVE  IInv'
<1>1. /\ req' = [req EXCEPT ![r] = Idle] /\ req[r] # Idle
      /\ UNCHANGED <<users, tokens, up, begun, boots, overlapped, demoted>>
  BY DEF CreateOAuthProvider, UpdateProviderSaves, DeleteOAuthProvider, LoginOptionsReturn, Stays,
         tables, bounds, history
<1>2. /\ secrets \in Nat /\ req \in [Request -> Progress(secrets)]
      /\ providers \in [ProviderId -> ProviderRow(secrets) \cup {NoRow}]
      /\ states \subseteq [provider : ProviderId, secret : 1 .. secrets]
      /\ created \subseteq ProviderId
  BY DEF IInv, TypeOK
<1>3. /\ \A n : Idle \in Progress(n)
      /\ Idle.pc = "idle"
      /\ \A s \in Request : req'[s] = Idle \/ req'[s] = req[s]
  BY <1>1, <1>2 DEF Progress, Idle
<1>4. CASE CreateOAuthProvider(r)
  <2>1. PICK p \in ProviderId, enabled \in BOOLEAN :
          /\ providers[p].is = "none"
          /\ providers' = [providers EXCEPT ![p] = [is |-> "live", enabled |-> enabled,
                                                    secret |-> secrets + 1]]
          /\ created' = created \cup {p}
    BY <1>4 DEF CreateOAuthProvider, NextId
  <2> DEFINE row == [is |-> "live", enabled |-> enabled, secret |-> secrets + 1]
  <2>2. secrets' = secrets + 1 /\ states' = states
    BY <1>4 DEF CreateOAuthProvider
  <2>3. /\ row \in ProviderRow(secrets') /\ row.is = "live" /\ row.secret = secrets + 1
        /\ ProviderRow(secrets) \subseteq ProviderRow(secrets')
    BY <1>2, <2>1, <2>2, ProgressGrows DEF ProviderRow
  <2>4. providers' = [providers EXCEPT ![p] = row]
    BY <2>1
  <2> HIDE DEF row
  <2>5. /\ providers' \in [ProviderId -> ProviderRow(secrets') \cup {NoRow}]
        /\ \A q \in ProviderId : providers'[q] = IF q = p THEN row ELSE providers[q]
    BY <1>2, <2>3, <2>4
  <2>6. \A q \in ProviderId : \A x : SecretOf(q, x) => SecretOf(q, x)' /\ q # p
    BY <2>1, <2>5 DEF SecretOf
  <2>7. SecretInv'
    <3>1. \A q \in created' : providers'[q].is # "none" /\ providers'[q].secret # NoSecret
      BY <1>2, <2>1, <2>3, <2>5 DEF IInv, SecretInv, NoSecret
    <3>2. \A s \in Request : req[s].pc = "sign" => DOMAIN req[s].rows \subseteq ProviderId
      BY <1>2, SignFields
    <3>3. \A s \in Request : req[s].pc = "saveProvider" => req[s].id \in ProviderId
      BY <1>2, ProgressFields
    <3>4. \A s \in states : s.provider \in ProviderId
      BY <1>2
    <3>5. QED
      BY <1>3, <2>1, <2>2, <2>5, <3>1, <3>2, <3>3, <3>4 DEF IInv, SecretInv, SecretOf
  <2>8. states' \subseteq [provider : ProviderId, secret : 1 .. secrets'] /\ created' \subseteq ProviderId
        /\ secrets' \in Nat /\ secrets <= secrets'
    BY <1>2, <2>1, <2>2
  <2>9. QED
    BY <1>1, <1>3, <2>5, <2>7, <2>8, SecretsKeep
<1>5. CASE UpdateProviderSaves(r)
  <2>1. /\ UNCHANGED <<states, secrets, created>>
        /\ providers' = [providers EXCEPT ![req[r].id] = req[r].row]
        /\ req[r].pc = "saveProvider"
    BY <1>5 DEF UpdateProviderSaves, oauth, history
  <2>2. req[r].id \in ProviderId /\ req[r].row \in ProviderRow(secrets)
    BY <1>2, <2>1, ProgressFields
  <2>3. /\ providers' \in [ProviderId -> ProviderRow(secrets') \cup {NoRow}]
        /\ \A q \in ProviderId : providers'[q] = IF q = req[r].id THEN req[r].row ELSE providers[q]
    BY <1>2, <2>1, <2>2
  <2>4. \A q \in ProviderId : /\ providers[q].is # "none" => providers'[q].is # "none"
                              /\ q \in created => providers'[q].secret = providers[q].secret
    BY <2>1, <2>2, <2>3 DEF IInv, SecretInv, SecretOf, ProviderRow
  <2>5. SecretInv'
    <3>1. \A s \in Request : req[s].pc = "sign" => DOMAIN req[s].rows \subseteq ProviderId
      BY <1>2, SignFields
    <3>2. \A s \in Request : req[s].pc = "saveProvider" => req[s].id \in ProviderId
      BY <1>2, ProgressFields
    <3>3. QED
      BY <1>2, <1>3, <2>1, <2>4, <3>1, <3>2 DEF IInv, SecretInv, SecretOf
  <2>6. /\ secrets' \in Nat /\ secrets <= secrets' /\ created' \subseteq ProviderId
        /\ states' \subseteq [provider : ProviderId, secret : 1 .. secrets']
    BY <1>2, <2>1
  <2>7. QED
    BY <1>1, <1>3, <2>3, <2>5, <2>6, SecretsKeep
<1>6. CASE DeleteOAuthProvider(r)
  <2>1. PICK p \in ProviderId : providers' = SoftDelete(providers, p)
    BY <1>6 DEF DeleteOAuthProvider
  <2>2. UNCHANGED <<states, secrets, created>>
    BY <1>6 DEF DeleteOAuthProvider, oauth, history
  <2>3. /\ providers' \in [ProviderId -> ProviderRow(secrets') \cup {NoRow}]
        /\ \A q \in ProviderId : /\ providers[q].is # "none" => providers'[q].is # "none"
                                 /\ providers[q].is # "none" => providers'[q].secret = providers[q].secret
    <3>1. CASE Live(providers, p)
      <4>1. providers[p] \in ProviderRow(secrets)
        BY <1>2, <3>1 DEF Live, NoRow
      <4>2. /\ [providers[p] EXCEPT !.is = "deleted"] \in ProviderRow(secrets)
            /\ [providers[p] EXCEPT !.is = "deleted"].is = "deleted"
            /\ [providers[p] EXCEPT !.is = "deleted"].secret = providers[p].secret
        BY <4>1 DEF ProviderRow
      <4>3. QED
        BY <1>2, <2>1, <2>2, <3>1, <4>2 DEF SoftDelete
    <3>2. CASE ~Live(providers, p)
      BY <1>2, <2>1, <2>2, <3>2 DEF SoftDelete
    <3>3. QED
      BY <3>1, <3>2
  <2>4. SecretInv'
    <3>1. \A s \in Request : req[s].pc = "sign" => DOMAIN req[s].rows \subseteq ProviderId
      BY <1>2, SignFields
    <3>2. \A s \in Request : req[s].pc = "saveProvider" => req[s].id \in ProviderId
      BY <1>2, ProgressFields
    <3>3. QED
      BY <1>2, <1>3, <2>2, <2>3, <3>1, <3>2 DEF IInv, SecretInv, SecretOf
  <2>5. /\ secrets' \in Nat /\ secrets <= secrets' /\ created' \subseteq ProviderId
        /\ states' \subseteq [provider : ProviderId, secret : 1 .. secrets']
    BY <1>2, <2>2
  <2>6. QED
    BY <1>1, <1>3, <2>3, <2>4, <2>5, SecretsKeep
<1>7. CASE LoginOptionsReturn(r)
  <2>1. /\ UNCHANGED <<providers, secrets, created>>
        /\ req[r].pc = "sign"
        /\ \A p \in DOMAIN req[r].rows : req[r].rows[p].secret # NoSecret
        /\ states' = states \cup {[provider |-> p, secret |-> req[r].rows[p].secret] :
                                     p \in DOMAIN req[r].rows}
    BY <1>7 DEF LoginOptionsReturn, Ensured, tables, history
  <2>2. /\ DOMAIN req[r].rows \subseteq ProviderId
        /\ req[r].rows \in [DOMAIN req[r].rows -> ProviderRow(secrets)]
    BY <1>2, <2>1, SignFields
  <2>3. \A p \in DOMAIN req[r].rows : req[r].rows[p].secret \in 1 .. secrets
    BY <1>2, <2>1, <2>2 DEF ProviderRow, NoSecret
  <2>4. states' \subseteq [provider : ProviderId, secret : 1 .. secrets']
    BY <1>2, <2>1, <2>2, <2>3
  <2>5. SecretInv'
    <3>1. \A s \in states' : s \in states \/ \E p \in DOMAIN req[r].rows :
                s.provider = p /\ s.secret = req[r].rows[p].secret
      BY <2>1
    <3>2. QED
      BY <1>3, <2>1, <3>1 DEF IInv, SecretInv, SecretOf
  <2>6. /\ secrets' \in Nat /\ secrets <= secrets' /\ created' \subseteq ProviderId
        /\ providers' \in [ProviderId -> ProviderRow(secrets') \cup {NoRow}]
    BY <1>2, <2>1
  <2>7. QED
    BY <1>1, <1>3, <2>4, <2>5, <2>6, SecretsKeep
<1>8. QED
  BY <1>4, <1>5, <1>6, <1>7

\* A provider that had no state secret is given one: it is none that was created.
LEMMA EnsureKeeps ==
    ASSUME AccessAssumption, IInv, NEW r \in Request, EnsureStateSecret(r) PROVE IInv'
<1>1. /\ secrets \in Nat /\ req \in [Request -> Progress(secrets)]
      /\ providers \in [ProviderId -> ProviderRow(secrets) \cup {NoRow}]
      /\ states \subseteq [provider : ProviderId, secret : 1 .. secrets]
      /\ created \subseteq ProviderId
  BY DEF IInv, TypeOK
<1>2. PICK p \in DOMAIN req[r].rows :
        /\ req[r].pc = "sign" /\ req[r].rows[p].secret = NoSecret
        /\ secrets' = secrets + 1
        /\ req' = [req EXCEPT ![r].rows[p].secret = secrets + 1]
        /\ providers' = IF Live(providers, p)
                        THEN [providers EXCEPT ![p].secret = secrets + 1] ELSE providers
        /\ UNCHANGED <<users, tokens, states, up, begun, boots, overlapped, demoted, created>>
  BY DEF EnsureStateSecret, bounds, history
<1> DEFINE rows == req[r].rows
           signed == [rows EXCEPT ![p] = [rows[p] EXCEPT !.secret = secrets + 1]]
           P == DOMAIN rows
<1>3. /\ P \in SUBSET ProviderId /\ p \in ProviderId
      /\ rows \in [P -> ProviderRow(secrets)]
      /\ req[r] = [pc |-> "sign", rows |-> rows]
  BY <1>1, <1>2, SignFields
<1>4. /\ secrets' \in Nat /\ secrets <= secrets'
      /\ ProviderRow(secrets) \subseteq ProviderRow(secrets')
      /\ secrets + 1 # NoSecret
  BY <1>1, <1>2, ProgressGrows DEF NoSecret
<1>5. \A row \in ProviderRow(secrets) :
        /\ [row EXCEPT !.secret = secrets + 1] \in ProviderRow(secrets')
        /\ [row EXCEPT !.secret = secrets + 1].is = row.is
  BY <1>1, <1>2 DEF ProviderRow
<1>6. req' = [req EXCEPT ![r] = [pc |-> "sign", rows |-> signed]]
  <2>1. req' = [req EXCEPT ![r] = [req[r] EXCEPT !.rows = signed]]
    BY <1>2
  <2>2. [req[r] EXCEPT !.rows = signed] = [pc |-> "sign", rows |-> signed]
    BY <1>3
  <2>3. QED
    BY <2>1, <2>2
<1>7. /\ signed \in [P -> ProviderRow(secrets')]
      /\ \A q \in P : q # p => signed[q] = rows[q]
      /\ DOMAIN signed = P
  BY <1>3, <1>4, <1>5
<1>8. [pc |-> "sign", rows |-> signed] \in Progress(secrets')
  BY <1>3, <1>4, <1>7, SignTyped
<1>9. p \notin created /\ providers[p].is # "none"
  BY <1>2 DEF IInv, SecretInv, SecretOf
<1>10. /\ providers' \in [ProviderId -> ProviderRow(secrets') \cup {NoRow}]
       /\ \A q \in ProviderId : q # p => providers'[q] = providers[q]
       /\ providers'[p].is # "none"
  <2>1. CASE Live(providers, p)
    <3>1. providers[p] \in ProviderRow(secrets)
      BY <1>1, <1>3, <2>1 DEF Live, NoRow
    <3>2. providers' = [providers EXCEPT ![p] = [providers[p] EXCEPT !.secret = secrets + 1]]
      BY <1>2, <2>1
    <3>3. [providers[p] EXCEPT !.secret = secrets + 1].is # "none"
      BY <1>5, <1>9, <3>1
    <3>4. QED
      BY <1>1, <1>3, <1>4, <1>5, <3>1, <3>2, <3>3
  <2>2. CASE ~Live(providers, p)
    BY <1>1, <1>2, <1>4, <1>9, <2>2
  <2>3. QED
    BY <2>1, <2>2
<1>11. \A q \in ProviderId : /\ providers[q].is # "none" => providers'[q].is # "none"
                             /\ q \in created => providers'[q].secret = providers[q].secret
  BY <1>9, <1>10
<1>12. states' \subseteq [provider : ProviderId, secret : 1 .. secrets'] /\ created' \subseteq ProviderId
  BY <1>1, <1>2
<1> HIDE DEF signed, P
<1>13. SecretInv'
  <2>1. \A q \in created' : providers'[q].is # "none" /\ providers'[q].secret # NoSecret
    BY <1>1, <1>2, <1>11 DEF IInv, SecretInv
  <2>2. \A s \in Request : s # r => req'[s] = req[s]
    BY <1>1, <1>6
  <2>3. req'[r] = [pc |-> "sign", rows |-> signed]
    BY <1>1, <1>6
  <2>4. \A q \in P : q \in ProviderId /\ (q # p => rows[q].secret = signed[q].secret)
    BY <1>3, <1>7
  <2>5. \A q \in P : SecretOf(q, rows[q].secret)
    BY <1>2 DEF IInv, SecretInv, P
  <2>6. \A q \in P : providers'[q].is # "none" /\ (q \in created => signed[q].secret = providers'[q].secret)
    BY <1>9, <1>11, <2>4, <2>5 DEF SecretOf
  <2>7. \A s \in Request : req'[s].pc = "sign" =>
            \A q \in DOMAIN req'[s].rows :
                providers'[q].is # "none"
                /\ (q \in created => req'[s].rows[q].secret = providers'[q].secret)
    <3>1. ASSUME NEW s \in Request, s # r, req[s].pc = "sign", NEW q \in DOMAIN req[s].rows
          PROVE  /\ providers'[q].is # "none"
                 /\ q \in created => req[s].rows[q].secret = providers'[q].secret
      <4>1. q \in ProviderId
        BY <1>1, <3>1, SignFields
      <4>2. SecretOf(q, req[s].rows[q].secret)
        BY <3>1 DEF IInv, SecretInv
      <4>3. QED
        BY <1>11, <4>1, <4>2 DEF SecretOf
    <3>2. QED
      BY <1>7, <2>2, <2>3, <2>6, <3>1
  <2>8. \A s \in Request : req'[s].pc = "saveProvider" =>
            /\ providers'[req'[s].id].is # "none"
            /\ req'[s].id \in created => req'[s].row.secret = providers'[req'[s].id].secret
    <3>1. \A s \in Request : req[s].pc = "saveProvider" => req[s].id \in ProviderId
      BY <1>1, ProgressFields
    <3>2. req'[r].pc = "sign"
      BY <2>3
    <3>3. QED
      BY <1>11, <2>2, <3>1, <3>2 DEF IInv, SecretInv, SecretOf
  <2>9. \A s \in states' : SecretOf(s.provider, s.secret)'
    BY <1>1, <1>2, <1>11 DEF IInv, SecretInv, SecretOf
  <2>10. QED
    BY <1>2, <2>1, <2>7, <2>8, <2>9 DEF SecretInv, SecretOf
<1>14. QED
  <2>1. req[r] # Idle /\ [pc |-> "sign", rows |-> signed].pc \in {"idle", "sign"}
    BY <1>2 DEF Idle
  <2>2. UNCHANGED <<users, tokens, up, begun, boots, overlapped, demoted>>
    BY <1>2
  <2>3. QED
    BY <1>4, <1>6, <1>8, <1>10, <1>12, <1>13, <2>1, <2>2, SecretsKeep

-----------------------------------------------------------------------------

\* Every step keeps the invariant.
LEMMA NextKeeps == ASSUME AccessAssumption, IInv, [Next]_vars PROVE IInv'
<1>1. CASE Next
  <2>1. CASE \E i \in Instance : BootCounts(i) \/ BootSeeds(i) \/ Crash(i)
    BY <2>1, BootKeeps
  <2>2. CASE \/ \E r \in Request : CreateAccessToken(r) \/ RevokeAccessToken(r) \/ IssueSession(r)
             \/ \E t \in TokenId : TokenExpires(t)
    BY <2>2, TokenKeeps
  <2>3. CASE \E r \in Request :
                \/ ReadToken(r) \/ ReadOwner(r) \/ Admit(r) \/ HandlerEnds(r)
                \/ Login(r) \/ CallbackVerifies(r) \/ CallbackFindsUser(r) \/ LoginFails(r)
                \/ UpdateUserReads(r) \/ UpdateProviderReads(r) \/ LoginOptionsReads(r)
    BY <2>3, AdmissionKeeps, LoginKeeps, EditKeeps, OptionsKeeps
  <2>4. CASE \E r \in Request :
                \/ CreateUser(r) \/ CallbackCreatesUser(r) \/ UpdateUserSaves(r) \/ DeleteUser(r)
    BY <2>4, CreateUserKeeps, SaveUserKeeps, DeleteUserKeeps
  <2>5. CASE \E r \in Request :
                \/ CreateOAuthProvider(r) \/ UpdateProviderSaves(r) \/ DeleteOAuthProvider(r)
                \/ LoginOptionsReturn(r) \/ EnsureStateSecret(r)
    BY <2>5, ProviderKeeps, EnsureKeeps
  <2>6. QED
    BY <1>1, <2>1, <2>2, <2>3, <2>4, <2>5, Zenon DEF Next
<1>2. CASE UNCHANGED vars
  BY <1>2 DEF vars, IInv, TypeOK, UpInv, AloneInv, Inside, CallerInv, SaveInv, AdminInv, Admin,
              LiveIds, Live, SecretInv, SecretOf
<1>3. QED
  BY <1>1, <1>2

\* The invariant holds in every behaviour.
LEMMA InvariantHolds == ASSUME AccessAssumption PROVE Spec => []IInv
<1>1. Init => IInv
  BY InitIInv
<1>2. IInv /\ [Next]_vars => IInv'
  BY NextKeeps
<1>3. QED
  BY <1>1, <1>2, PTL DEF Spec

-----------------------------------------------------------------------------

\* The state is well typed: a request holds what the code holds there, and no secret is
\* used that was not generated.
THEOREM TypeCorrect == ASSUME AccessAssumption PROVE Spec => []TypeOK
<1>1. IInv => TypeOK
  BY DEF IInv
<1>2. QED
  BY <1>1, InvariantHolds, PTL

\* Where an instance serves, an administrator is left, unless requests overlapped or one
\* was given another role (DeleteUser, seedDefaultAdmin).
THEOREM AnAdminRemains == ASSUME AccessAssumption PROVE Spec => []AdminRemains
<1>1. IInv => AdminRemains
  BY DEF IInv, AdminInv, AdminRemains
<1>2. QED
  BY <1>1, InvariantHolds, PTL

\* A state signed for a provider that was created with a secret verifies as long as the
\* provider is there (OAuthLoginOptions, OAuthCallback).
THEOREM SignedStatesVerify == ASSUME AccessAssumption PROVE Spec => []SignedStateVerifies
<1>1. IInv => SignedStateVerifies
  BY DEF IInv, SecretInv, SecretOf, SignedStateVerifies, Verifies
<1>2. QED
  BY <1>1, InvariantHolds, PTL

\* A step leaves a deleted token deleted.
LEMMA RevokedStays ==
    ASSUME AccessAssumption, IInv, [Next]_vars
    PROVE  \A t \in TokenId : tokens[t].is = "deleted" => tokens'[t].is = "deleted"
<1>1. CASE \E r \in Request : CreateAccessToken(r) \/ IssueSession(r)
  <2>1. PICK r \in Request : CreateAccessToken(r) \/ IssueSession(r)
    BY <1>1
  <2>2. IssueToken(req[r].user) /\ req[r].pc \in {"handler", "issue"}
    BY <2>1 DEF CreateAccessToken, IssueSession
  <2>3. req[r].user \in UserId
    BY <2>2, ProgressFields DEF IInv, TypeOK
  <2>4. QED
    BY <2>2, <2>3, IssueTokenFacts DEF IInv
<1>2. CASE \E r \in Request : RevokeAccessToken(r)
  <2>1. PICK t \in LiveIds(tokens) : tokens' = SoftDelete(tokens, t)
    BY <1>2 DEF RevokeAccessToken
  <2>2. t \in TokenId
    BY DEF LiveIds, IInv, TypeOK
  <2>3. QED
    BY <2>1, <2>2, RevokeFacts DEF IInv
<1>3. CASE \E t \in TokenId : TokenExpires(t)
  BY <1>3, ExpireFacts DEF IInv
<1>4. CASE UNCHANGED tokens
  BY <1>4
<1>5. QED
  <2>1. CASE \E i \in Instance : BootCounts(i) \/ BootSeeds(i) \/ Crash(i)
    BY <1>4, <2>1 DEF BootCounts, BootSeeds, Crash, tables
  <2>2. CASE \E r \in Request :
                \/ ReadToken(r) \/ ReadOwner(r) \/ Admit(r) \/ HandlerEnds(r)
                \/ Login(r) \/ CallbackVerifies(r) \/ CallbackFindsUser(r) \/ LoginFails(r)
                \/ UpdateUserReads(r) \/ UpdateProviderReads(r) \/ LoginOptionsReads(r)
    <3>1. UNCHANGED tokens
      BY <2>2, Zenon DEF ReadToken, ReadOwner, Admit, TouchesToken, HandlerEnds, Login, CallbackVerifies,
                  CallbackFindsUser, LoginFails, UpdateUserReads, UpdateProviderReads,
                  LoginOptionsReads, tables
    <3>2. QED
      BY <1>4, <3>1
  <2>3. CASE \E r \in Request :
                \/ CreateUser(r) \/ CallbackCreatesUser(r) \/ UpdateUserSaves(r) \/ DeleteUser(r)
                \/ CreateOAuthProvider(r) \/ UpdateProviderSaves(r) \/ DeleteOAuthProvider(r)
                \/ LoginOptionsReturn(r) \/ EnsureStateSecret(r)
    <3>1. UNCHANGED tokens
      BY <2>3, Zenon DEF CreateUser, CallbackCreatesUser, UpdateUserSaves, DeleteUser, CreateOAuthProvider,
                  UpdateProviderSaves, DeleteOAuthProvider, LoginOptionsReturn, EnsureStateSecret,
                  tables
    <3>2. QED
      BY <1>4, <3>1
  <2>4. CASE UNCHANGED vars
    BY <1>4, <2>4 DEF vars
  <2>5. QED
    BY <1>1, <1>2, <1>3, <2>1, <2>2, <2>3, <2>4, Zenon DEF Next

\* What RevokeAccessToken has deleted stays deleted, whatever requests use the token.
THEOREM RevokedTokenStaysRevoked == ASSUME AccessAssumption PROVE Spec => RevokedStaysRevoked
<1>1. IInv /\ [Next]_vars =>
        [\A t \in TokenId : tokens[t].is = "deleted" => tokens'[t].is = "deleted"]_vars
  BY RevokedStays
<1>2. QED
  BY <1>1, InvariantHolds, PTL DEF Spec, RevokedStaysRevoked

=============================================================================
