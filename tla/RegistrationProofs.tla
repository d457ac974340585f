------------------------- MODULE RegistrationProofs -------------------------
(***************************************************************************)
(* Proofs about Registration for every set of emails, codes and requests.  *)
(* IInv ties each row to the request that made it and each request to the  *)
(* invite it paid with; the rest follows from these two ties.              *)
(***************************************************************************)
EXTENDS Registration, FiniteSetTheorems, TLAPS

Is(r, states) == req[r] # NULL /\ req[r].pc \in states

\* A row was made by a request that succeeded, and by no other.
RowsTraced ==
    \A e \in Email : users[e] # NULL =>
        LET r == users[e].password
        IN  Is(r, {"created"}) /\ req[r].email = e /\ req[r].role = users[e].role

CreatedHasRow ==
    \A r \in Request : Is(r, {"created"}) =>
        users[req[r].email] = [role |-> req[r].role, password |-> r]

\* While the vault is empty, whoever is about to be inserted will be its admin,
\* or comes from the script.
FirstIsAdmin ==
    NoUsers => \A r \in Request :
                  Is(r, {"hashing"}) => req[r].role = "admin" \/ req[r].kind = "script"

Entitled(r) ==
    IF req[r].code = NULL
    THEN req[r].kind = "register" /\ registerMode # "open" => req[r].role = "admin"
    ELSE /\ req[r].role = "user"
         /\ invites[req[r].code] # NULL
         /\ invites[req[r].code].alvo \in {NULL, req[r].email}

RequestsEntitled ==
    \A r \in Request : Is(r, {"hashing", "created"}) => Entitled(r)

\* The requests that spend a use of c.
Holders(c) == {r \in Request : Is(r, {"hashing", "created"}) /\ req[r].code = c}

UsesCoverHolders ==
    \A c \in Code :
        /\ IsFiniteSet(Holders(c))
        /\ invites[c] = NULL => Holders(c) = {}
        /\ invites[c] # NULL => /\ Cardinality(Holders(c)) <= invites[c].uses
                                /\ invites[c].uses <= invites[c].max

IInv == /\ TypeOK
        /\ RowsTraced
        /\ CreatedHasRow
        /\ FirstIsAdmin
        /\ VaultHasAdmin
        /\ RequestsEntitled
        /\ UsesCoverHolders

---------------------------------------------------------------------------
(* Facts about single steps. *)

\* Records are not NULL: a lookup that yields one found something.
LEMMA RecordsAreNotNull ==
    /\ \A x \in User : x # NULL
    /\ \A x \in Invite : x # NULL
    /\ \A x \in Asked : x # NULL
    /\ NULL \notin Code /\ NULL \notin Email
BY NullAssumption, ConstantsAssumption

\* A code without holders, or with fewer: the uses still cover them.
LEMMA FewerHolders ==
    ASSUME UsesCoverHolders, NEW c \in Code, NEW H \in SUBSET Holders(c)
    PROVE  /\ IsFiniteSet(H)
           /\ Cardinality(H) \in Nat
           /\ Cardinality(Holders(c)) \in Nat
           /\ Cardinality(H) <= Cardinality(Holders(c))
BY FS_Subset, FS_CardinalityType DEF UsesCoverHolders

\* The empty database satisfies the invariant.
LEMMA InitIInv == Init => IInv
<1> SUFFICES ASSUME Init PROVE IInv
  OBVIOUS
<1>1. TypeOK
  BY ConstantsAssumption DEF Init, TypeOK
<1>2. \A r \in Request : req[r] = NULL
  BY DEF Init
<1>3. \A e \in Email : users[e] = NULL
  BY DEF Init
<1>4. RowsTraced /\ CreatedHasRow /\ FirstIsAdmin /\ VaultHasAdmin /\ RequestsEntitled
  BY <1>2, <1>3 DEF RowsTraced, CreatedHasRow, FirstIsAdmin, RequestsEntitled,
     Is, VaultHasAdmin, NoUsers, Registered
<1>5. UsesCoverHolders
  <2>1. \A c \in Code : Holders(c) = {} /\ invites[c] = NULL
    BY <1>2 DEF Holders, Is, Init
  <2> QED BY <2>1, FS_EmptySet DEF UsesCoverHolders
<1> QED BY <1>1, <1>4, <1>5 DEF IInv

\* As long as rows and the requests that made them stay, so does the one by which
\* a vault has an admin, or has none by the script's doing.
LEMMA AdminStays ==
    ASSUME TypeOK, RowsTraced, VaultHasAdmin, ~ NoUsers,
           \A f \in Email : users[f] # NULL => users'[f] = users[f],
           \A q \in Request : Is(q, {"created"}) => req'[q] = req[q]
    PROVE  VaultHasAdmin'
<1>1. PICK e \in Email : /\ users[e] # NULL
                         /\ \/ users[e].role = "admin"
                            \/ (/\ req[users[e].password].kind = "script"
                                /\ users[e].role = "user")
  BY DEF VaultHasAdmin, AdminExists, ScriptMadeUser, Registered, Owner
<1>2. users[e].password \in Request /\ Is(users[e].password, {"created"})
  BY <1>1 DEF TypeOK, User, RowsTraced
<1>3. users'[e] = users[e] /\ req'[users[e].password] = req[users[e].password]
  BY <1>1, <1>2
<1>4. (AdminExists \/ ScriptMadeUser)'
  BY <1>1, <1>3 DEF AdminExists, ScriptMadeUser, Registered, Owner
<1> QED BY <1>4 DEF VaultHasAdmin

\* An invite as Register leaves it: spent by one, or untouched.
LEMMA ConsumeEffect ==
    ASSUME TypeOK, NEW c \in Code, invites[c] # NULL, Consumable(c)
    PROVE  /\ Consume(c) \in [Code -> Invite \cup {NULL}]
           /\ Consume(c)[c] # NULL
           /\ Consume(c)[c].alvo = invites[c].alvo
           /\ Consume(c)[c].uses = invites[c].uses + 1
           /\ Consume(c)[c].max = invites[c].max
           /\ invites[c].uses \in Nat /\ invites[c].max \in Nat
           /\ invites[c].uses + 1 <= invites[c].max
           /\ \A d \in Code : d # c => Consume(c)[d] = invites[d]
<1>1. invites[c] \in Invite
  BY DEF TypeOK
<1> DEFINE spent == [invites[c] EXCEPT !.uses = @ + 1]
<1>2. invites[c].uses \in 0 .. MaxUses /\ invites[c].max \in 1 .. MaxUses
      /\ invites[c].uses < invites[c].max
  BY <1>1 DEF Invite, Consumable
<1>3. spent \in Invite
  <2>1. invites[c].uses + 1 \in 0 .. MaxUses
    BY <1>2, ConstantsAssumption
  <2> QED BY <1>1, <2>1 DEF Invite
<1>4. Consume(c) = [invites EXCEPT ![c] = spent]
  BY DEF Consume
<1>5. Consume(c)[c] = spent /\ \A d \in Code : d # c => Consume(c)[d] = invites[d]
  BY <1>4 DEF TypeOK
<1>6. Consume(c) \in [Code -> Invite \cup {NULL}]
  BY <1>3, <1>4 DEF TypeOK
<1>7. spent.alvo = invites[c].alvo /\ spent.uses = invites[c].uses + 1
      /\ spent.max = invites[c].max
  BY <1>1 DEF Invite
<1> QED BY <1>2, <1>3, <1>5, <1>6, <1>7, ConstantsAssumption, RecordsAreNotNull

\* Invites survive with their addressee, whatever a request pays.
KeepsInvites ==
    \A c \in Code : invites[c] # NULL => /\ invites'[c] # NULL
                                         /\ invites'[c].alvo = invites[c].alvo

---------------------------------------------------------------------------
(* Each action preserves the invariant. *)

\* A request arrives: it is refused, or it may become the admin of an empty
\* vault, or it has paid what it holds.
LEMMA ArriveStep ==
    ASSUME IInv, NEW r \in Request, req[r] = NULL,
           NEW new \in Asked, new.pc \in {"hashing", "refused"},
           req' = [req EXCEPT ![r] = new],
           UNCHANGED <<users, clock, registerMode>>,
           \/ new.code = NULL /\ invites' = invites
           \/ /\ new.code \in Code /\ invites[new.code] # NULL /\ Consumable(new.code)
              /\ invites' = Consume(new.code)
              /\ new.role = "user" /\ invites[new.code].alvo \in {NULL, new.email},
           new.pc = "hashing" =>
               /\ NoUsers => new.role = "admin" \/ new.kind = "script"
               /\ new.code = NULL /\ new.kind = "register" /\ registerMode # "open"
                    => new.role = "admin"
    PROVE  IInv'
<1>1. TypeOK /\ new # NULL
  BY RecordsAreNotNull DEF IInv
<1>2. req' \in [Request -> Asked \cup {NULL}]
  BY <1>1 DEF TypeOK
<1>3. req'[r] = new /\ \A q \in Request : q # r => req'[q] = req[q]
  BY <1>1 DEF TypeOK
<1>4. invites' \in [Code -> Invite \cup {NULL}] /\ KeepsInvites
  <2>1. CASE new.code = NULL /\ invites' = invites
    BY <1>1, <2>1 DEF TypeOK, KeepsInvites
  <2>2. CASE new.code \in Code /\ invites[new.code] # NULL /\ Consumable(new.code)
             /\ invites' = Consume(new.code)
    BY <1>1, <2>2, ConsumeEffect DEF KeepsInvites
  <2> QED BY <2>1, <2>2
<1>5. TypeOK'
  BY <1>1, <1>2, <1>4 DEF TypeOK
<1>6. RowsTraced'
  <2> SUFFICES ASSUME NEW e \in Email, users[e] # NULL
               PROVE  LET q == users[e].password
                      IN  Is(q, {"created"})' /\ req'[q].email = e
                          /\ req'[q].role = users[e].role
    BY DEF RowsTraced
  <2>1. users[e] \in User
    BY <1>1 DEF TypeOK
  <2>2. users[e].password \in Request /\ users[e].password # r
    BY <2>1 DEF User, IInv, RowsTraced, Is
  <2> QED BY <1>3, <2>2 DEF IInv, RowsTraced, Is
<1>7. CreatedHasRow'
  BY <1>3 DEF IInv, CreatedHasRow, Is
<1>8. FirstIsAdmin' /\ VaultHasAdmin'
  <2>1. FirstIsAdmin' /\ (NoUsers' <=> NoUsers)
    BY <1>3 DEF IInv, FirstIsAdmin, NoUsers, Registered, Is
  <2>2. \A q \in Request : Is(q, {"created"}) => req'[q] = req[q]
    BY <1>3 DEF Is
  <2>3. CASE NoUsers
    BY <2>1, <2>3 DEF VaultHasAdmin
  <2>4. CASE ~ NoUsers
    <3>1. TypeOK /\ RowsTraced /\ VaultHasAdmin /\ users' = users
      BY DEF IInv
    <3> QED BY <2>1, <2>2, <2>4, <3>1, AdminStays
  <2> QED BY <2>1, <2>3, <2>4
<1>9. RequestsEntitled'
  <2> SUFFICES ASSUME NEW q \in Request, Is(q, {"hashing", "created"})'
               PROVE  Entitled(q)'
    BY DEF RequestsEntitled
  <2>1. CASE q # r
    <3>1. Entitled(q) /\ req'[q] = req[q] /\ req[q] \in Asked
      BY <1>1, <1>3, <2>1 DEF IInv, RequestsEntitled, Is, TypeOK
    <3> QED BY <1>4, <3>1 DEF Entitled, KeepsInvites, Asked
  <2>2. CASE q = r
    <3>1. new.pc = "hashing"
      BY <1>3, <2>2 DEF Is
    <3>2. CASE new.code = NULL
      BY <1>3, <2>2, <3>1, <3>2 DEF Entitled
    <3>3. CASE new.code # NULL
      BY <1>3, <1>4, <2>2, <3>1, <3>3 DEF Entitled, KeepsInvites
    <3> QED BY <3>2, <3>3
  <2> QED BY <2>1, <2>2
<1>10. UsesCoverHolders'
  <2> SUFFICES ASSUME NEW c \in Code
               PROVE  /\ IsFiniteSet(Holders(c)')
                      /\ invites'[c] = NULL => Holders(c)' = {}
                      /\ invites'[c] # NULL =>
                            /\ Cardinality(Holders(c)') <= invites'[c].uses
                            /\ invites'[c].uses <= invites'[c].max
    BY DEF UsesCoverHolders
  <2>1. /\ IsFiniteSet(Holders(c))
        /\ invites[c] = NULL => Holders(c) = {}
        /\ invites[c] # NULL => /\ Cardinality(Holders(c)) <= invites[c].uses
                                /\ invites[c].uses <= invites[c].max
    BY DEF IInv, UsesCoverHolders
  <2>2. CASE new.code = c
    <3>1. /\ invites[c] # NULL /\ Consumable(c) /\ invites' = Consume(c)
      BY <2>2, RecordsAreNotNull
    <3>2. Holders(c)' \subseteq Holders(c) \cup {r}
      BY <1>3 DEF Holders, Is
    <3>3. IsFiniteSet(Holders(c) \cup {r})
          /\ Cardinality(Holders(c) \cup {r}) <= Cardinality(Holders(c)) + 1
      <4>1. Cardinality(Holders(c)) \in Nat
        BY <2>1, FS_CardinalityType
      <4>2. /\ IsFiniteSet(Holders(c) \cup {r})
            /\ Cardinality(Holders(c) \cup {r}) =
                 IF r \in Holders(c) THEN Cardinality(Holders(c))
                 ELSE Cardinality(Holders(c)) + 1
        BY <2>1, FS_AddElement, Zenon
      <4> QED BY <4>1, <4>2
    <3>4. IsFiniteSet(Holders(c)')
          /\ Cardinality(Holders(c)') <= Cardinality(Holders(c) \cup {r})
      BY <3>2, <3>3, FS_Subset
    <3>5. /\ Cardinality(Holders(c)') \in Nat /\ Cardinality(Holders(c)) \in Nat
          /\ Cardinality(Holders(c) \cup {r}) \in Nat
      BY <2>1, <3>3, <3>4, FS_CardinalityType
    <3>6. /\ invites'[c] # NULL /\ invites'[c].uses = invites[c].uses + 1
          /\ invites'[c].max = invites[c].max /\ invites[c].uses + 1 <= invites[c].max
          /\ invites[c].uses \in Nat
      BY <1>1, <3>1, ConsumeEffect
    <3> QED BY <2>1, <3>1, <3>3, <3>4, <3>5, <3>6
  <2>3. CASE new.code # c
    <3>1. Holders(c)' = Holders(c)
      BY <1>3, <2>3 DEF Holders, Is
    <3>2. invites'[c] = invites[c]
      BY <1>1, <2>3, ConsumeEffect
    <3> QED BY <2>1, <3>1, <3>2
  <2> QED BY <2>2, <2>3
<1> QED BY <1>5, <1>6, <1>7, <1>8, <1>9, <1>10 DEF IInv

\* POST /auth/register: bootstrap, invite or open, each an arrival.
LEMMA RegisterStep ==
    ASSUME IInv, NEW r \in Request, NEW e \in Email, NEW c \in Code \cup {NULL},
           Register(r, e, c)
    PROVE  IInv'
<1> DEFINE paid == IF Admits(e, c) /\ EffectiveMode = "invite" THEN c ELSE NULL
           new == [kind |-> "register", email |-> e, code |-> paid,
                   role |-> IF EffectiveMode = "first_user" THEN "admin" ELSE "user",
                   pc |-> IF Admits(e, c) THEN "hashing" ELSE "refused"]
<1>1. req[r] = NULL /\ req' = [req EXCEPT ![r] = new]
      /\ UNCHANGED <<users, clock, registerMode>>
      /\ invites' = IF paid = NULL THEN invites ELSE Consume(paid)
  BY DEF Register
<1>2. new \in Asked /\ new.pc \in {"hashing", "refused"}
  BY DEF Asked, Role
<1>3. \/ new.code = NULL /\ invites' = invites
      \/ /\ new.code \in Code /\ invites[new.code] # NULL /\ Consumable(new.code)
         /\ invites' = Consume(new.code)
         /\ new.role = "user" /\ invites[new.code].alvo \in {NULL, new.email}
  <2>1. CASE paid = NULL
    BY <1>1, <2>1
  <2>2. CASE paid # NULL
    <3>1. paid = c /\ c \in Code /\ EffectiveMode = "invite" /\ InviteAdmits(e, c)
      BY <2>2 DEF Admits
    <3> QED BY <1>1, <2>2, <3>1 DEF InviteAdmits, FindActive
  <2> QED BY <2>1, <2>2
<1>4. new.pc = "hashing" =>
        /\ NoUsers => new.role = "admin"
        /\ new.code = NULL /\ registerMode # "open" => new.role = "admin"
  <2> SUFFICES ASSUME Admits(e, c)
               PROVE  /\ NoUsers => new.role = "admin"
                      /\ paid = NULL /\ registerMode # "open" => new.role = "admin"
    OBVIOUS
  <2>1. NoUsers => EffectiveMode = "first_user"
    BY DEF EffectiveMode
  <2>2. registerMode \in {"closed", "invite", "open"}
    BY ConstantsAssumption DEF IInv, TypeOK
  <2>3. EffectiveMode = "invite" => paid # NULL
    BY DEF Admits, InviteAdmits, FindActive
  <2>4. EffectiveMode # "closed"
    BY DEF Admits
  <2> QED BY <2>1, <2>2, <2>3, <2>4 DEF EffectiveMode
<1> HIDE DEF new, paid
<1> QED BY <1>1, <1>2, <1>3, <1>4, ArriveStep

\* POST /auth/users and create-user.js: an arrival that pays nothing.
LEMMA AddUserStep ==
    ASSUME IInv, NEW r \in Request, NEW e \in Email, NEW role \in Role,
           AdminAddsUser(r, e, role) \/ ScriptAddsUser(r, e, role)
    PROVE  IInv'
<1>1. PICK kind \in {"admin", "script"} :
        /\ AddUser(r, kind, e, role)
        /\ ~ NoUsers \/ kind = "script"
  BY DEF AdminAddsUser, ScriptAddsUser, AdminExists, NoUsers
<1> DEFINE new == [kind |-> kind, email |-> e, code |-> NULL, role |-> role,
                   pc |-> IF Registered(e) THEN "refused" ELSE "hashing"]
<1>2. req[r] = NULL /\ req' = [req EXCEPT ![r] = new]
      /\ UNCHANGED <<users, invites, clock, registerMode>>
  BY <1>1 DEF AddUser
<1>3. new \in Asked /\ new.pc \in {"hashing", "refused"}
  BY DEF Asked
<1>4. /\ new.code = NULL /\ new.kind # "register"
      /\ NoUsers => new.kind = "script"
  BY <1>1
<1> HIDE DEF new
<1> QED BY <1>2, <1>3, <1>4, ArriveStep

\* A step in which requests only let go of their uses.
LEMMA HoldersShrink ==
    ASSUME UsesCoverHolders, TypeOK, UNCHANGED invites,
           \A c \in Code : Holders(c)' \subseteq Holders(c)
    PROVE  UsesCoverHolders'
<1> SUFFICES ASSUME NEW c \in Code
             PROVE  /\ IsFiniteSet(Holders(c)')
                    /\ invites[c] = NULL => Holders(c)' = {}
                    /\ invites[c] # NULL => /\ Cardinality(Holders(c)') <= invites[c].uses
                                            /\ invites[c].uses <= invites[c].max
  BY DEF UsesCoverHolders
<1>1. /\ IsFiniteSet(Holders(c)') /\ Cardinality(Holders(c)') \in Nat
      /\ Cardinality(Holders(c)) \in Nat
      /\ Cardinality(Holders(c)') <= Cardinality(Holders(c))
  BY FewerHolders
<1>2. invites[c] # NULL => invites[c].uses \in Nat
  BY DEF TypeOK, Invite
<1> QED BY <1>1, <1>2 DEF UsesCoverHolders

\* The insert traces the new row to its request; a failed one leaves the rows.
LEMMA CreateStep ==
    ASSUME IInv, NEW r \in Request, Create(r)
    PROVE  IInv'
<1> DEFINE e == req[r].email
           new == IF Registered(e) THEN "failed" ELSE "created"
           row == [role |-> req[r].role, password |-> r]
<1>1. /\ TypeOK /\ req[r] \in Asked /\ e \in Email /\ row \in User /\ row # NULL
      /\ req[r].pc = "hashing"
  <2>1. TypeOK /\ req[r] \in Asked /\ req[r].pc = "hashing"
    BY DEF IInv, TypeOK, Create
  <2>2. e \in Email /\ row \in User
    BY <2>1 DEF Asked, User
  <2> QED BY <2>1, <2>2, RecordsAreNotNull
<1>2. /\ req' = [req EXCEPT ![r].pc = new]
      /\ users' = IF Registered(e) THEN users ELSE [users EXCEPT ![e] = row]
      /\ UNCHANGED <<invites, clock, registerMode>>
  BY DEF Create, CreateUser
<1>3. /\ req'[r] # NULL /\ req'[r].pc = new
      /\ req'[r].email = e /\ req'[r].role = req[r].role /\ req'[r].code = req[r].code
      /\ req'[r].kind = req[r].kind
      /\ \A q \in Request : q # r => req'[q] = req[q]
      /\ req' \in [Request -> Asked \cup {NULL}]
  <2> DEFINE done == [req[r] EXCEPT !.pc = new]
  <2>1. done \in Asked /\ done.pc = new /\ done.email = e /\ done.role = req[r].role
        /\ done.code = req[r].code /\ done.kind = req[r].kind
    BY <1>1 DEF Asked
  <2>2. req' = [req EXCEPT ![r] = done]
    BY <1>2
  <2>3. req'[r] = done /\ \A q \in Request : q # r => req'[q] = req[q]
    BY <1>1, <2>2 DEF TypeOK
  <2>4. req' \in [Request -> Asked \cup {NULL}]
    BY <1>1, <2>1, <2>2 DEF TypeOK
  <2> HIDE DEF done
  <2> QED BY <2>1, <2>3, <2>4, RecordsAreNotNull
<1>4. /\ users' \in [Email -> User \cup {NULL}]
      /\ \A f \in Email : users[f] # NULL => users'[f] = users[f]
      /\ users[e] = NULL => users'[e] = row /\ new = "created"
      /\ users[e] # NULL => new = "failed"
      /\ \A f \in Email : f # e => users'[f] = users[f]
  BY <1>1, <1>2 DEF TypeOK, Registered
<1>5. TypeOK'
  BY <1>1, <1>2, <1>3, <1>4 DEF TypeOK
<1> HIDE DEF new
<1>6. RowsTraced'
  <2> SUFFICES ASSUME NEW f \in Email, users'[f] # NULL
               PROVE  LET q == users'[f].password
                      IN  /\ req'[q] # NULL /\ req'[q].pc = "created"
                          /\ req'[q].email = f /\ req'[q].role = users'[f].role
    BY DEF RowsTraced, Is
  <2>1. CASE users[f] # NULL
    <3>1. users[f] \in User /\ users[f].password \in Request
      BY <1>1, <2>1 DEF TypeOK, User
    <3>2. Is(users[f].password, {"created"}) /\ users[f].password # r
      BY <1>1, <2>1 DEF IInv, RowsTraced, Is
    <3> QED BY <1>3, <1>4, <2>1, <3>1, <3>2 DEF IInv, RowsTraced, Is
  <2>2. CASE users[f] = NULL
    <3>1. f = e /\ users'[e] = row /\ new = "created"
      BY <1>4, <2>2
    <3> QED BY <1>3, <3>1
  <2> QED BY <2>1, <2>2
<1>7. CreatedHasRow'
  <2> SUFFICES ASSUME NEW q \in Request, Is(q, {"created"})'
               PROVE  users'[req'[q].email] = [role |-> req'[q].role, password |-> q]
    BY DEF CreatedHasRow
  <2>1. CASE q = r
    BY <1>1, <1>3, <1>4, <2>1 DEF Is
  <2>2. CASE q # r
    <3>1. Is(q, {"created"}) /\ req'[q] = req[q] /\ req[q] \in Asked
      BY <1>1, <1>3, <2>2 DEF Is, TypeOK
    <3>2. users[req[q].email] = [role |-> req[q].role, password |-> q]
      BY <3>1 DEF IInv, CreatedHasRow
    <3>3. users[req[q].email] # NULL /\ req[q].email \in Email
      <4>1. [role |-> req[q].role, password |-> q] \in User
        BY <3>1 DEF User, Asked
      <4> QED BY <3>1, <3>2, <4>1, RecordsAreNotNull DEF Asked
    <3> QED BY <1>4, <3>1, <3>2, <3>3
  <2> QED BY <2>1, <2>2
<1>8. ~ NoUsers'
  BY <1>1, <1>4 DEF NoUsers, Registered
<1>9. FirstIsAdmin'
  BY <1>8 DEF FirstIsAdmin
<1>10. VaultHasAdmin'
  <2>1. CASE NoUsers
    <3>1. req[r].role = "admin" \/ (req[r].kind = "script" /\ req[r].role = "user")
      BY <1>1, <2>1, RecordsAreNotNull DEF IInv, FirstIsAdmin, Is, Asked, Role
    <3>2. users'[e] = row
      BY <1>1, <1>4, <2>1 DEF NoUsers, Registered
    <3>3. users'[e] # NULL /\ users'[e].role = req[r].role /\ users'[e].password = r
      BY <1>1, <3>2
    <3>4. (AdminExists \/ ScriptMadeUser)'
      BY <1>1, <1>3, <3>1, <3>3 DEF AdminExists, ScriptMadeUser, Registered, Owner
    <3> QED BY <3>4 DEF VaultHasAdmin
  <2>2. CASE ~ NoUsers
    <3>1. \A q \in Request : Is(q, {"created"}) => req'[q] = req[q]
      BY <1>1, <1>3 DEF Is
    <3> QED BY <1>1, <1>4, <2>2, <3>1, AdminStays DEF IInv
  <2> QED BY <2>1, <2>2
<1>11. RequestsEntitled'
  <2> SUFFICES ASSUME NEW q \in Request, Is(q, {"hashing", "created"})'
               PROVE  Entitled(q)'
    BY DEF RequestsEntitled
  <2>1. Is(q, {"hashing", "created"})
    BY <1>1, <1>3, RecordsAreNotNull DEF Is
  <2>2. Entitled(q)
    BY <2>1 DEF IInv, RequestsEntitled
  <2>3. /\ req'[q].email = req[q].email /\ req'[q].role = req[q].role
        /\ req'[q].code = req[q].code /\ req'[q].kind = req[q].kind
    BY <1>3
  <2> QED BY <1>2, <2>2, <2>3 DEF Entitled
<1>12. UsesCoverHolders'
  <2>1. \A c \in Code : Holders(c)' \subseteq Holders(c)
    BY <1>1, <1>3, RecordsAreNotNull DEF Holders, Is
  <2> QED BY <1>1, <1>2, <2>1, HoldersShrink DEF IInv
<1> QED BY <1>5, <1>6, <1>7, <1>9, <1>10, <1>11, <1>12 DEF IInv

\* A restart forgets requests that have no row yet.
LEMMA RestartStep == ASSUME IInv, Restart PROVE IInv'
<1>1. /\ TypeOK /\ UNCHANGED <<users, invites, clock, registerMode>>
      /\ \A q \in Request : req'[q] = IF OfServer(q) THEN [req[q] EXCEPT !.pc = "lost"] ELSE req[q]
      /\ DOMAIN req' = Request /\ req' = [q \in Request |-> req'[q]]
  BY DEF IInv, Restart
<1>2. ASSUME NEW q \in Request
      PROVE  /\ req'[q] \in Asked \cup {NULL}
             /\ Is(q, {"hashing", "created"})' => req'[q] = req[q]
             /\ Is(q, {"created"}) => req'[q] = req[q]
  <2>1. CASE OfServer(q)
    <3>1. req[q] \in Asked /\ req'[q] = [req[q] EXCEPT !.pc = "lost"]
      BY <1>1, <2>1 DEF TypeOK, OfServer
    <3>2. req'[q] \in Asked /\ req'[q].pc = "lost"
      BY <3>1 DEF Asked
    <3> QED BY <2>1, <3>2 DEF Is, OfServer
  <2>2. CASE ~ OfServer(q)
    BY <1>1, <2>2 DEF TypeOK
  <2> QED BY <2>1, <2>2
<1>3. TypeOK'
  BY <1>1, <1>2 DEF TypeOK
<1>4. RowsTraced'
  <2> SUFFICES ASSUME NEW f \in Email, users[f] # NULL
               PROVE  LET q == users[f].password
                      IN  /\ req'[q] # NULL /\ req'[q].pc = "created"
                          /\ req'[q].email = f /\ req'[q].role = users[f].role
    BY <1>1 DEF RowsTraced, Is
  <2>1. users[f] \in User /\ users[f].password \in Request
    BY <1>1 DEF TypeOK, User
  <2> QED BY <1>2, <2>1 DEF IInv, RowsTraced, Is
<1>5. CreatedHasRow'
  BY <1>1, <1>2 DEF IInv, CreatedHasRow, Is
<1>6. FirstIsAdmin' /\ VaultHasAdmin'
  <2>1. FirstIsAdmin' /\ (NoUsers' <=> NoUsers)
    BY <1>1, <1>2 DEF IInv, FirstIsAdmin, NoUsers, Registered, Is
  <2>2. CASE NoUsers
    BY <2>1, <2>2 DEF VaultHasAdmin
  <2>3. CASE ~ NoUsers
    <3>1. TypeOK /\ RowsTraced /\ VaultHasAdmin /\ users' = users
      BY <1>1 DEF IInv
    <3>2. \A q \in Request : Is(q, {"created"}) => req'[q] = req[q]
      BY <1>2
    <3> QED BY <2>1, <2>3, <3>1, <3>2, AdminStays
  <2> QED BY <2>1, <2>2, <2>3
<1>7. RequestsEntitled'
  BY <1>1, <1>2 DEF IInv, RequestsEntitled, Entitled, Is
<1>8. UsesCoverHolders'
  <2>1. \A c \in Code : Holders(c)' \subseteq Holders(c)
    BY <1>2 DEF Holders, Is
  <2> QED BY <1>1, <2>1, HoldersShrink DEF IInv
<1> QED BY <1>3, <1>4, <1>5, <1>6, <1>7, <1>8 DEF IInv

\* POST /auth/invites: a new code, which nobody holds.
LEMMA CreateInviteStep ==
    ASSUME IInv, NEW c \in Code, NEW alvo \in Email \cup {NULL}, NEW max \in 1 .. MaxUses,
           NEW ttl \in {NULL, 1}, CreateInvite(c, alvo, max, ttl)
    PROVE  IInv'
<1> DEFINE new == [alvo |-> alvo, uses |-> 0, max |-> IF alvo = NULL THEN max ELSE 1,
                   expires |-> IF ttl = NULL THEN NULL ELSE clock + ttl]
<1>1. /\ TypeOK /\ invites[c] = NULL /\ invites' = [invites EXCEPT ![c] = new]
      /\ UNCHANGED <<users, clock, req, registerMode>>
  BY DEF IInv, CreateInvite
<1>2. new \in Invite /\ new.uses = 0 /\ new.max \in Nat
  <2>1. clock \in 0 .. MaxClock /\ MaxClock \in Nat /\ MaxUses \in Nat \ {0}
    BY <1>1, ConstantsAssumption DEF TypeOK
  <2>2. new.expires \in 0 .. MaxClock + 1 \cup {NULL}
    <3>1. CASE ttl = NULL
      BY <3>1
    <3>2. CASE ttl # NULL
      BY <2>1, <3>2
    <3> QED BY <3>1, <3>2
  <2>3. new.max \in 1 .. MaxUses /\ new.uses \in 0 .. MaxUses
    BY <2>1
  <2> QED BY <2>2, <2>3 DEF Invite
<1> HIDE DEF new
<1>3. /\ invites'[c] = new /\ new # NULL
      /\ \A d \in Code : d # c => invites'[d] = invites[d]
      /\ invites' \in [Code -> Invite \cup {NULL}]
  BY <1>1, <1>2, RecordsAreNotNull DEF TypeOK
<1>4. TypeOK'
  BY <1>1, <1>3 DEF TypeOK
<1>5. RowsTraced' /\ CreatedHasRow' /\ FirstIsAdmin' /\ VaultHasAdmin'
  BY <1>1 DEF IInv, RowsTraced, CreatedHasRow, FirstIsAdmin,
     VaultHasAdmin, NoUsers, AdminExists, ScriptMadeUser, Owner, Registered, Is
<1>6. RequestsEntitled'
  <2> SUFFICES ASSUME NEW q \in Request, Is(q, {"hashing", "created"})
               PROVE  Entitled(q)'
    BY <1>1 DEF RequestsEntitled, Is
  <2>1. Entitled(q) /\ req[q] \in Asked
    BY <1>1 DEF IInv, RequestsEntitled, Is, TypeOK
  <2>2. req[q].code # NULL => req[q].code # c /\ req[q].code \in Code
    BY <1>1, <2>1 DEF Entitled, Asked
  <2> QED BY <1>1, <1>3, <2>1, <2>2 DEF Entitled
<1>7. UsesCoverHolders'
  <2> SUFFICES ASSUME NEW d \in Code
               PROVE  /\ IsFiniteSet(Holders(d))
                      /\ invites'[d] = NULL => Holders(d) = {}
                      /\ invites'[d] # NULL => /\ Cardinality(Holders(d)) <= invites'[d].uses
                                               /\ invites'[d].uses <= invites'[d].max
    BY <1>1 DEF UsesCoverHolders, Holders, Is
  <2>1. CASE d = c
    <3>1. Holders(c) = {}
      BY <1>1 DEF IInv, UsesCoverHolders
    <3> QED BY <1>2, <1>3, <2>1, <3>1, FS_EmptySet
  <2>2. CASE d # c
    BY <1>3, <2>2 DEF IInv, UsesCoverHolders
  <2> QED BY <2>1, <2>2
<1> QED BY <1>4, <1>5, <1>6, <1>7 DEF IInv

\* Every action preserves the invariant.
LEMMA NextIInv == IInv /\ [Next]_vars => IInv'
<1> SUFFICES ASSUME IInv, [Next]_vars PROVE IInv'
  OBVIOUS
<1>1. CASE Tick \/ UNCHANGED vars
  <2>1. clock' \in 0 .. MaxClock /\ UNCHANGED <<users, invites, req, registerMode>>
    BY <1>1, ConstantsAssumption DEF Tick, vars, IInv, TypeOK
  <2>2. TypeOK' /\ RowsTraced' /\ CreatedHasRow'
    BY <2>1 DEF IInv, TypeOK, RowsTraced, CreatedHasRow, Is
  <2>3. FirstIsAdmin' /\ VaultHasAdmin'
    BY <2>1 DEF IInv, FirstIsAdmin, VaultHasAdmin, NoUsers, AdminExists,
       ScriptMadeUser, Owner, Registered, Is
  <2>4. RequestsEntitled'
    BY <2>1 DEF IInv, RequestsEntitled, Entitled, Is
  <2>5. UsesCoverHolders'
    <3>1. \A c \in Code : Holders(c)' = Holders(c)
      BY <2>1 DEF Holders, Is
    <3> QED BY <2>1, <3>1, HoldersShrink DEF IInv
  <2> QED BY <2>2, <2>3, <2>4, <2>5 DEF IInv
<1>2. ASSUME NEW r \in Request, NEW e \in Email, NEW c \in Code \cup {NULL}, Register(r, e, c)
      PROVE  IInv'
  BY <1>2, RegisterStep
<1>3. ASSUME NEW r \in Request, NEW e \in Email, NEW role \in Role,
             AdminAddsUser(r, e, role) \/ ScriptAddsUser(r, e, role)
      PROVE  IInv'
  BY <1>3, AddUserStep
<1>4. ASSUME NEW r \in Request, Create(r)
      PROVE  IInv'
  BY <1>4, CreateStep
<1>5. ASSUME NEW c \in Code, NEW alvo \in Email \cup {NULL}, NEW max \in 1 .. MaxUses,
             NEW ttl \in {NULL, 1}, CreateInvite(c, alvo, max, ttl)
      PROVE  IInv'
  BY <1>5, CreateInviteStep
<1>6. ASSUME NEW c \in Code, NEW alvo \in Email, ProxyInvite(c, alvo)
      PROVE  IInv'
  BY <1>6, CreateInviteStep, ConstantsAssumption DEF ProxyInvite
<1> QED BY <1>1, <1>2, <1>3, <1>4, <1>5, <1>6, RestartStep DEF Next

\* The invariant holds in every state.
LEMMA Invariance == Spec => []IInv
  BY InitIInv, NextIInv, PTL DEF Spec

---------------------------------------------------------------------------
(* From the invariant to the properties. *)

\* Rows and successful requests point at each other.
LEMMA OwnershipFollows == IInv => CreatedOwnsAccount
<1> SUFFICES ASSUME IInv, NEW r \in Request, req[r] # NULL
             PROVE  req[r].pc = "created" <=>
                      /\ Registered(req[r].email)
                      /\ users[req[r].email] = [role |-> req[r].role, password |-> r]
  BY DEF CreatedOwnsAccount
<1>1. req[r] \in Asked /\ req[r].email \in Email
  BY DEF IInv, TypeOK, Asked
<1>2. [role |-> req[r].role, password |-> r] # NULL
  <2>1. [role |-> req[r].role, password |-> r] \in User
    BY <1>1 DEF User, Asked
  <2> QED BY <2>1, RecordsAreNotNull
<1>3. ASSUME req[r].pc = "created"
      PROVE  users[req[r].email] = [role |-> req[r].role, password |-> r]
  BY <1>3 DEF IInv, CreatedHasRow, Is
<1>4. ASSUME users[req[r].email] = [role |-> req[r].role, password |-> r]
      PROVE  req[r].pc = "created"
  BY <1>1, <1>2, <1>4 DEF IInv, RowsTraced, Is
<1> QED BY <1>2, <1>3, <1>4 DEF Registered

\* The owner of a self-served account is one of the entitled requests.
LEMMA EntitlementFollows == IInv => SelfServeIsPaid
<1> SUFFICES ASSUME IInv, NEW e \in Email, users[e] # NULL, Owner(e).kind = "register"
             PROVE  IF Owner(e).code = NULL
                    THEN registerMode # "open" => users[e].role = "admin"
                    ELSE users[e].role = "user" /\ invites[Owner(e).code].alvo \in {NULL, e}
  BY DEF SelfServeIsPaid, Registered
<1> DEFINE r == users[e].password
<1>1. r \in Request /\ Is(r, {"created"}) /\ req[r].email = e /\ req[r].role = users[e].role
  BY DEF IInv, RowsTraced, TypeOK, User
<1>2. Entitled(r)
  BY <1>1 DEF IInv, RequestsEntitled, Is
<1> QED BY <1>1, <1>2 DEF Entitled, Owner

\* The accounts paid with c map one to one to the requests that made them.
LEMMA CoverFollows == IInv => InviteCoversAccounts
<1> SUFFICES ASSUME IInv, NEW c \in Code, invites[c] # NULL
             PROVE  /\ Cardinality(Paid(c)) + Cardinality(AboutToCreate(c)) <= invites[c].uses
                    /\ invites[c].uses <= invites[c].max
  BY DEF InviteCoversAccounts
<1> DEFINE done == {r \in Request : Is(r, {"created"}) /\ req[r].code = c}
           wait == AboutToCreate(c)
           f == [e \in Paid(c) |-> users[e].password]
<1>1. done \cup wait = Holders(c) /\ done \cap wait = {}
  BY DEF Holders, AboutToCreate, Is
<1>2. /\ IsFiniteSet(done) /\ IsFiniteSet(wait) /\ IsFiniteSet(Holders(c))
      /\ Cardinality(done) \in Nat /\ Cardinality(wait) \in Nat
      /\ Cardinality(Holders(c)) \in Nat
  BY <1>1, FewerHolders DEF IInv, UsesCoverHolders
<1>3. Cardinality(done) + Cardinality(wait) = Cardinality(Holders(c))
  <2>1. Cardinality(done \cap wait) = 0
    BY <1>1, FS_EmptySet
  <2>2. Cardinality(done \cup wait)
          = Cardinality(done) + Cardinality(wait) - Cardinality(done \cap wait)
    BY <1>2, FS_Union, Zenon
  <2>3. Cardinality(done \cup wait) = Cardinality(Holders(c))
    BY <1>1, Zenon
  <2> HIDE DEF done, wait
  <2> QED BY <1>2, <2>1, <2>2, <2>3
<1>4. \A e \in Paid(c) : f[e] \in done /\ req[f[e]].email = e
  BY DEF Paid, Registered, Owner, IInv, RowsTraced, TypeOK, User, Is
<1>5. f \in Injection(Paid(c), done)
  BY <1>4 DEF Injection, IsInjective
<1>6. IsFiniteSet(Paid(c)) /\ Cardinality(Paid(c)) <= Cardinality(done)
  <2> HIDE DEF done, f
  <2> QED BY <1>2, <1>5, FS_Injection, Zenon
<1>7. Cardinality(Paid(c)) \in Nat
  BY <1>6, FS_CardinalityType
<1>8. /\ Cardinality(Holders(c)) <= invites[c].uses /\ invites[c].uses <= invites[c].max
      /\ invites[c].uses \in Nat
  BY DEF IInv, UsesCoverHolders, TypeOK, Invite
<1> HIDE DEF done, wait, f
<1> QED BY <1>2, <1>3, <1>6, <1>7, <1>8 DEF wait

\* An admission that needs an empty vault finds no account made by a request.
LEMMA BootstrapStep ==
    ASSUME IInv, Next, NEW r \in Request, req[r] = NULL, req'[r] # NULL,
           req'[r].kind = "register", req'[r].pc = "hashing",
           req'[r].role = "admin" \/ registerMode = "closed"
    PROVE  \A q \in Request : req[q] = NULL \/ req[q].pc # "created"
<1>1. PICK e \in Email, c \in Code \cup {NULL} : Register(r, e, c)
  <2>1. ~ Tick /\ ~ \E d \in Code, alvo \in Email \cup {NULL}, max \in 1 .. MaxUses,
                       ttl \in {NULL, 1} : CreateInvite(d, alvo, max, ttl)
    BY DEF Tick, CreateInvite
  <2>2. ~ Restart
    BY DEF Restart, OfServer
  <2>3. ASSUME NEW q \in Request, Create(q) PROVE FALSE
    <3>1. q # r
      BY <2>3 DEF Create
    <3> QED BY <2>3, <3>1 DEF Create, IInv, TypeOK
  <2>4. ASSUME NEW q \in Request, NEW f \in Email, NEW role \in Role,
               AdminAddsUser(q, f, role) \/ ScriptAddsUser(q, f, role)
        PROVE  FALSE
    BY <2>4 DEF AdminAddsUser, ScriptAddsUser, AddUser, IInv, TypeOK
  <2>5. ASSUME NEW q \in Request, NEW f \in Email, NEW d \in Code \cup {NULL},
               Register(q, f, d)
        PROVE  q = r
    BY <2>5 DEF Register, IInv, TypeOK
  <2>6. ASSUME NEW d \in Code, NEW alvo \in Email, ProxyInvite(d, alvo)
        PROVE  FALSE
    BY <2>6 DEF ProxyInvite, CreateInvite
  <2> QED BY <2>1, <2>2, <2>3, <2>4, <2>5, <2>6 DEF Next
<1>2. /\ req'[r].role = IF EffectiveMode = "first_user" THEN "admin" ELSE "user"
      /\ req'[r].pc = IF Admits(e, c) THEN "hashing" ELSE "refused"
  BY <1>1 DEF Register, IInv, TypeOK
<1>3. Admits(e, c) /\ EffectiveMode # "closed"
  BY <1>2 DEF Admits
<1>4. NoUsers
  <2>1. CASE registerMode = "closed"
    BY <1>3, <2>1 DEF EffectiveMode
  <2>2. CASE req'[r].role = "admin"
    <3>1. EffectiveMode = "first_user"
      BY <1>2, <2>2
    <3>2. registerMode # "first_user"
      BY ConstantsAssumption DEF IInv, TypeOK
    <3> QED BY <3>1, <3>2 DEF EffectiveMode
  <2> QED BY <2>1, <2>2
<1> QED BY <1>4, OwnershipFollows DEF IInv, TypeOK, Asked, CreatedOwnsAccount, NoUsers

---------------------------------------------------------------------------
(* The theorems. *)

\* The rows of users and invite_codes, and the requests, are well formed.
THEOREM TypeCorrect == Spec => []TypeOK
  BY Invariance, PTL DEF IInv

\* An invite never admits more people than it has uses, whatever the number of
\* requests that race for it (findActive, consume).
THEOREM InviteCapacity == Spec => []InviteCoversAccounts
  BY Invariance, CoverFollows, PTL

\* Who is answered 201 owns the account, and nobody else does (users.create).
THEOREM AccountOwnership == Spec => []CreatedOwnsAccount
  BY Invariance, OwnershipFollows, PTL

\* Self-served accounts are the bootstrap admin's, those of an open vault, or
\* those of people invited (POST /auth/register).
THEOREM SelfServeEntitled == Spec => []SelfServeIsPaid
  BY Invariance, EntitlementFollows, PTL

\* A vault with users has an admin, whatever registrations, the script and restarts
\* come together; only after the script made a user may there be none
\* (create-user.js, effectiveMode of auth/routes.js).
THEOREM AdminAvailable == Spec => []VaultHasAdmin
  BY Invariance, PTL DEF IInv

\* Once an account was made, nobody registers as admin, nor at all in the
\* closed mode (effectiveMode of POST /auth/register).
THEOREM BootstrapEnds == Spec => BootstrapCloses
<1>1. IInv /\ [Next]_vars =>
        [\A r \in Request :
            req[r] = NULL /\ req'[r] # NULL /\ req'[r].kind = "register"
                /\ req'[r].pc = "hashing"
                /\ (req'[r].role = "admin" \/ registerMode = "closed")
            => \A q \in Request : req[q] = NULL \/ req[q].pc # "created"]_vars
  BY BootstrapStep
<1> QED BY <1>1, Invariance, PTL DEF Spec, BootstrapCloses
=============================================================================
