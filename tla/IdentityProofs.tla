--------------------------- MODULE IdentityProofs ---------------------------
(***************************************************************************)
(* Proofs about accounts, sessions and addresses, for any number of        *)
(* requests, users, sessions and addresses.                                *)
(***************************************************************************)
EXTENDS Identity, TLAPS

\* What a request that is at work asks for, by its kind.
LEMMA OpFields ==
    ASSUME NEW w \in Ops
    PROVE  /\ w.kind \in {"register", "login", "refresh", "logout", "add_address"}
           /\ w.kind \in {"register", "login"} => w.user \in Users
           /\ w.kind \in {"refresh", "logout"} => w.session \in Sessions
           /\ w.kind = "add_address" => w.user \in Users /\ w.default \in BOOLEAN
BY DEF Ops

\* Closing a request keeps the types of what requests remember, and leaves the
\* others alone.
LEMMA CloseKeeps ==
    ASSUME IdentityTypeOK, NEW r \in Requests, Close(r)
    PROVE  /\ step' \in [Requests -> {"idle", "loaded"}]
           /\ op' \in [Requests -> Ops \cup {NoOp}]
           /\ \A t \in Requests : step'[t] = "loaded" => op'[t] \in Ops
           /\ admitted' \in [Requests -> BOOLEAN]
           /\ seen' \in [Requests -> SUBSET Addresses]
           /\ step'[r] = "idle" /\ seen'[r] = {}
           /\ \A t \in Requests \ {r} : /\ step'[t] = step[t] /\ op'[t] = op[t]
                                        /\ admitted'[t] = admitted[t] /\ seen'[t] = seen[t]
BY DEF IdentityTypeOK, Close

\* What the invariant says of the requests that are at work.
RequestsOK ==
    /\ ReadIsCurrent
    /\ \A r \in Requests : step[r] = "loaded" /\ op[r].kind \in {"refresh", "logout"} =>
                              op[r].session \in Issued
    /\ \A r \in Requests : step[r] = "loaded" /\ op[r].kind \in {"add_address", "login"}
                              /\ admitted[r] => op[r].user \in accounts
    /\ \A r \in Requests : \A a \in seen[r] : resident[a] = op[r].user /\ resident[a] # NoUser

\* A commit leaves the other requests current, or marks them as overtaken.
LEMMA CommitKeepsRequests ==
    ASSUME IdentityTypeOK, RequestsOK, NEW r \in Requests, NEW about, Commit(r, about),
           Issued \subseteq Issued', accounts \subseteq accounts',
           \A a \in Addresses : resident[a] # NoUser => resident'[a] = resident[a]
    PROVE  RequestsOK' /\ stale' \subseteq Requests
<1>1. Close(r) /\ stale' = {t \in Requests \ {r} :
                              t \in stale \/ (step[t] = "loaded" /\ Overtaken(t))}
  BY DEF Commit
<1>2. /\ step'[r] = "idle" /\ seen'[r] = {}
      /\ \A t \in Requests \ {r} : /\ step'[t] = step[t] /\ op'[t] = op[t]
                                   /\ admitted'[t] = admitted[t] /\ seen'[t] = seen[t]
  BY <1>1, CloseKeeps
<1>3. ReadIsCurrent'
  <2> SUFFICES ASSUME NEW t \in Requests, t \notin stale', step'[t] = "loaded", admitted'[t]
               PROVE  /\ op'[t].kind = "refresh" => op'[t].session \in Live'
                      /\ op'[t].kind = "add_address" /\ op'[t].default =>
                            seen'[t] = {a \in Addresses : resident'[a] = op'[t].user}
    BY DEF ReadIsCurrent, AddressesOf
  <2>1. t # r /\ t \notin stale /\ ~Overtaken(t) /\ step[t] = "loaded" /\ admitted[t]
        /\ op'[t] = op[t] /\ seen'[t] = seen[t]
    BY <1>1, <1>2
  <2>2. /\ op[t].kind = "refresh" => op[t].session \in Live
        /\ op[t].kind = "add_address" /\ op[t].default => seen[t] = AddressesOf(op[t].user)
    BY <2>1 DEF RequestsOK, ReadIsCurrent
  <2>3. op[t].kind = "refresh" => op[t].session \in Live'
    BY <2>1, <2>2 DEF Overtaken, Live
  <2>4. ASSUME op[t].kind = "add_address", op[t].default
        PROVE  seen[t] = {a \in Addresses : resident'[a] = op[t].user}
    <3>1. op[t] \in Ops
      BY <2>1 DEF IdentityTypeOK
    <3>2. op[t].user # NoUser
      BY <3>1, <2>4, OpFields, IdentityAssumption
    <3>3. \A a \in Addresses : resident[a] = op[t].user <=> resident'[a] = op[t].user
      BY <2>1, <2>4, <3>2 DEF Overtaken
    <3> QED
      BY <2>2, <2>4, <3>3 DEF AddressesOf
  <2> QED
    BY <2>1, <2>3, <2>4
<1>4. \A t \in Requests : step'[t] = "loaded" /\ op'[t].kind \in {"refresh", "logout"} =>
                              op'[t].session \in Issued'
  BY <1>2 DEF RequestsOK
<1>5. \A t \in Requests : step'[t] = "loaded" /\ op'[t].kind \in {"add_address", "login"}
                              /\ admitted'[t] => op'[t].user \in accounts'
  BY <1>2 DEF RequestsOK
<1>6. \A t \in Requests : \A a \in seen'[t] :
            resident'[a] = op'[t].user /\ resident'[a] # NoUser
  <2> SUFFICES ASSUME NEW t \in Requests, NEW a \in seen'[t]
               PROVE  resident'[a] = op'[t].user /\ resident'[a] # NoUser
    OBVIOUS
  <2>1. t # r /\ a \in seen[t] /\ op'[t] = op[t] /\ a \in Addresses
    BY <1>2 DEF IdentityTypeOK
  <2> QED
    BY <2>1 DEF RequestsOK
<1> QED
  BY <1>1, <1>3, <1>4, <1>5, <1>6 DEF RequestsOK

-----------------------------------------------------------------------------
(* One lemma per kind of step. *)

\* The rows that carry the properties, without the requests.
RowsOK ==
    /\ OneLivePerSignIn
    /\ SignedOutIsOver
    /\ OneDefault
    /\ \A s \in Issued : root[s] \in Issued

LEMMA InvIsParts ==
    IdentityInv <=> IdentityTypeOK /\ RequestsOK /\ RowsOK
BY DEF IdentityInv, RequestsOK, RowsOK

LEMMA InitEstablishes ==
    ASSUME IdentityInit
    PROVE  IdentityInv
<1>1. IdentityTypeOK
  BY DEF IdentityInit, IdentityTypeOK, Issued
<1>2. RequestsOK
  BY DEF IdentityInit, RequestsOK, ReadIsCurrent
<1>3. RowsOK
  BY DEF IdentityInit, RowsOK, OneLivePerSignIn, SignedOutIsOver, OneDefault, Issued, Live
<1> QED
  BY <1>1, <1>2, <1>3, InvIsParts

\* A step that changes no row keeps what is said of the rows.
LEMMA RowsUnchanged ==
    ASSUME RowsOK, UNCHANGED <<accountRows, sessionRows, addressRows, raced>>
    PROVE  RowsOK'
BY DEF RowsOK, OneLivePerSignIn, SignedOutIsOver, OneDefault, Issued, Live,
       accountRows, sessionRows, addressRows

\* A request begins with what there is to read.
LEMMA LoadKeeps ==
    ASSUME IdentityInv, NEW r \in Requests, NEW w \in Ops, Load(r, w)
    PROVE  IdentityInv'
<1> USE DEF accountRows, sessionRows, addressRows
<1>1. IdentityTypeOK /\ RequestsOK /\ RowsOK
  BY InvIsParts
<1>2. RowsOK'
  BY <1>1, RowsUnchanged DEF Load
<1>3. Admits(w) \in BOOLEAN /\ AddressesOf(w.user) \subseteq Addresses
  BY DEF Admits, AddressesOf, Authenticates, CurrentUser, Usable
<1>4. IdentityTypeOK'
  BY <1>1, <1>3 DEF Load, IdentityTypeOK, Issued
<1>5. \A t \in Requests \ {r} : /\ step'[t] = step[t] /\ op'[t] = op[t]
                                /\ admitted'[t] = admitted[t] /\ seen'[t] = seen[t]
  BY <1>1 DEF Load, IdentityTypeOK
<1>6. /\ op'[r] = w /\ admitted'[r] = Admits(w)
      /\ seen'[r] = IF w.kind = "add_address" /\ w.default THEN AddressesOf(w.user) ELSE {}
  BY <1>1 DEF Load, IdentityTypeOK
<1>7. UNCHANGED <<session, resident, accounts, active, stale, Issued, Live>>
  BY DEF Load, Issued, Live
<1>8. ReadIsCurrent'
  <2> SUFFICES ASSUME NEW t \in Requests, t \notin stale, step'[t] = "loaded", admitted'[t]
               PROVE  /\ op'[t].kind = "refresh" => op'[t].session \in Live
                      /\ op'[t].kind = "add_address" /\ op'[t].default =>
                            seen'[t] = {a \in Addresses : resident[a] = op'[t].user}
    BY <1>7 DEF ReadIsCurrent, AddressesOf
  <2>1. CASE t # r
    BY <1>1, <1>5, <2>1 DEF RequestsOK, ReadIsCurrent, AddressesOf
  <2>2. CASE t = r
    <3>1. w.kind = "refresh" => w.session \in Live
      BY <1>6, <2>2, OpFields DEF Admits, Usable, Live
    <3> QED
      BY <1>6, <2>2, <3>1 DEF AddressesOf
  <2> QED
    BY <2>1, <2>2
<1>9. \A t \in Requests : step'[t] = "loaded" /\ op'[t].kind \in {"refresh", "logout"} =>
                              op'[t].session \in Issued
  BY <1>1, <1>5, <1>6 DEF RequestsOK, Load
<1>10. \A t \in Requests : step'[t] = "loaded" /\ op'[t].kind \in {"add_address", "login"}
                              /\ admitted'[t] => op'[t].user \in accounts
  <2>1. w.kind \in {"add_address", "login"} /\ Admits(w) => w.user \in accounts
    BY <1>1 DEF Admits, Authenticates, CurrentUser, IdentityTypeOK
  <2> QED
    BY <1>1, <1>5, <1>6, <2>1 DEF RequestsOK
<1>11. \A t \in Requests : \A a \in seen'[t] : resident[a] = op'[t].user /\ resident[a] # NoUser
  <2>1. w.kind = "add_address" => w.user # NoUser
    BY OpFields, IdentityAssumption
  <2> QED
    BY <1>1, <1>5, <1>6, <2>1 DEF RequestsOK, AddressesOf
<1>12. RequestsOK'
  BY <1>7, <1>8, <1>9, <1>10, <1>11 DEF RequestsOK
<1> QED
  BY <1>2, <1>4, <1>12 DEF IdentityInv, RequestsOK, RowsOK

\* A request that ends without a commit changes nothing but itself.
LEMMA QuitKeeps ==
    ASSUME IdentityInv, NEW r \in Requests, Refuse(r) \/ Abort(r)
    PROVE  IdentityInv'
<1> USE DEF accountRows, sessionRows, addressRows
<1>1. IdentityTypeOK /\ RequestsOK /\ RowsOK
  BY InvIsParts
<1>2. Close(r) /\ stale' = stale \ {r}
      /\ UNCHANGED <<accountRows, sessionRows, addressRows, raced>>
  BY DEF Refuse, Abort
<1>3. /\ step'[r] = "idle" /\ seen'[r] = {}
      /\ \A t \in Requests \ {r} : /\ step'[t] = step[t] /\ op'[t] = op[t]
                                   /\ admitted'[t] = admitted[t] /\ seen'[t] = seen[t]
  BY <1>1, <1>2, CloseKeeps
<1>4. IdentityTypeOK'
  BY <1>1, <1>2, CloseKeeps DEF IdentityTypeOK, Issued
<1>5. UNCHANGED <<Issued, Live>>
  BY <1>2 DEF Issued, Live
<1>6. RequestsOK'
  BY <1>1, <1>2, <1>3, <1>5 DEF RequestsOK, ReadIsCurrent, AddressesOf
<1>7. RowsOK'
  BY <1>1, <1>2, RowsUnchanged
<1> QED
  BY <1>4, <1>6, <1>7 DEF IdentityInv, RequestsOK, RowsOK

\* A sign-in of an account, new or old, starts a family of its own.
LEMMA SignInKeeps ==
    ASSUME IdentityInv, NEW r \in Requests, Register(r) \/ Login(r)
    PROVE  IdentityInv'
<1> USE DEF addressRows
<1>1. IdentityTypeOK /\ RequestsOK /\ RowsOK
  BY InvIsParts
<1> DEFINE u == op[r].user
<1>2. /\ u \in accounts' /\ accounts \subseteq accounts' /\ accounts' \subseteq Users
      /\ active' \subseteq accounts'
  <2>1. op[r] \in Ops
    BY <1>1 DEF Register, Login, Serves, IdentityTypeOK
  <2>2. u \in Users
    BY <2>1, OpFields DEF Register, Login, Serves
  <2>3. CASE Register(r)
    BY <1>1, <2>2, <2>3 DEF Register, IdentityTypeOK
  <2>4. CASE Login(r)
    BY <1>1, <2>4 DEF Login, Serves, RequestsOK, accountRows, IdentityTypeOK
  <2> QED
    BY <2>3, <2>4
<1>3. PICK t \in Sessions : StartSession(t, u, t, session)
  BY DEF Register, Login
<1>4. /\ session' \in [Sessions -> {"none", "live", "revoked"}]
      /\ holder' \in [Sessions -> Users \cup {NoUser}]
      /\ root' \in [Sessions -> Sessions]
      /\ session'[t] = "live" /\ holder'[t] = u /\ root'[t] = t /\ t \notin Issued
      /\ \A s \in Sessions \ {t} :
            session'[s] = session[s] /\ holder'[s] = holder[s] /\ root'[s] = root[s]
  BY <1>1, <1>2, <1>3 DEF StartSession, IdentityTypeOK, Issued
<1>5. /\ UNCHANGED <<expired, signedOut, resident, default, raced>>
      /\ Close(r) /\ Commit(r, {})
  BY DEF Register, Login, Commit
<1>6. Issued' = Issued \cup {t} /\ Live' = Live \cup {t}
  BY <1>4 DEF Issued, Live
<1>7. RequestsOK' /\ stale' \subseteq Requests
  BY <1>1, <1>2, <1>5, <1>6, CommitKeepsRequests
<1>8. IdentityTypeOK'
  <2>1. \A s \in Issued' : holder'[s] \in accounts'
    BY <1>1, <1>2, <1>4, <1>6 DEF IdentityTypeOK, Issued
  <2>2. resident' \in [Addresses -> accounts' \cup {NoUser}]
    BY <1>1, <1>2, <1>5 DEF IdentityTypeOK
  <2> QED
    BY <1>1, <1>2, <1>4, <1>5, <1>6, <1>7, <2>1, <2>2, CloseKeeps DEF IdentityTypeOK
<1>9. RowsOK'
  <2>1. \A s \in Live : s \in Issued /\ root[s] \in Issued /\ root[s] # t
    BY <1>1, <1>4 DEF RowsOK, Live, Issued
  <2>2. OneLivePerSignIn'
    BY <1>1, <1>4, <1>5, <1>6, <2>1 DEF RowsOK, OneLivePerSignIn, Live
  <2>3. SignedOutIsOver'
    BY <1>1, <1>4, <1>5, <1>6, <2>1 DEF RowsOK, SignedOutIsOver, IdentityTypeOK, Live
  <2>4. OneDefault'
    BY <1>1, <1>5 DEF RowsOK, OneDefault
  <2>5. \A s \in Issued' : root'[s] \in Issued'
    BY <1>1, <1>4, <1>6 DEF RowsOK, Issued
  <2> QED
    BY <2>2, <2>3, <2>4, <2>5 DEF RowsOK
<1> QED
  BY <1>7, <1>8, <1>9 DEF IdentityInv, RequestsOK, RowsOK

\* A refresh replaces one live session by another, or is recorded as raced.
LEMMA RefreshKeeps ==
    ASSUME IdentityInv, NEW r \in Requests, Refresh(r)
    PROVE  IdentityInv'
<1> USE DEF addressRows
<1>1. IdentityTypeOK /\ RequestsOK /\ RowsOK
  BY InvIsParts
<1> DEFINE s == op[r].session
           before == [session EXCEPT ![s] = "revoked"]
<1>2. s \in Issued /\ holder[s] \in accounts
  BY <1>1 DEF Refresh, Serves, RequestsOK, IdentityTypeOK
<1>3. before \in [Sessions -> {"none", "live", "revoked"}]
  BY <1>1 DEF IdentityTypeOK
<1>4. root[s] \in Issued /\ s \in Sessions
  BY <1>1, <1>2 DEF RowsOK, Issued
<1>5. PICK t \in Sessions : StartSession(t, holder[s], root[s], before)
  BY DEF Refresh
<1>6. /\ session' \in [Sessions -> {"none", "live", "revoked"}]
      /\ holder' \in [Sessions -> Users \cup {NoUser}]
      /\ root' \in [Sessions -> Sessions]
      /\ session'[t] = "live" /\ holder'[t] = holder[s] /\ root'[t] = root[s] /\ t \notin Issued
      /\ \A x \in Sessions \ {t} :
            session'[x] = before[x] /\ holder'[x] = holder[x] /\ root'[x] = root[x]
  BY <1>1, <1>2, <1>3, <1>4, <1>5 DEF StartSession, IdentityTypeOK, Issued
<1>7. /\ UNCHANGED <<accounts, active, expired, signedOut, resident, default>>
      /\ Close(r) /\ Commit(r, {root[s]})
      /\ raced' = IF r \in stale THEN raced \cup {root[s]} ELSE raced
  BY DEF Refresh, Commit, accountRows
<1>8. Issued' = Issued \cup {t} /\ Live' = (Live \ {s}) \cup {t}
  BY <1>1, <1>2, <1>6 DEF Issued, Live, IdentityTypeOK
<1>9. RequestsOK' /\ stale' \subseteq Requests
  BY <1>1, <1>7, <1>8, CommitKeepsRequests
<1>10. IdentityTypeOK'
  <2>1. \A x \in Issued' : holder'[x] \in accounts'
    BY <1>1, <1>2, <1>6, <1>7, <1>8 DEF IdentityTypeOK, Issued
  <2>2. raced' \subseteq Sessions \cup Users
    BY <1>1, <1>4, <1>7 DEF IdentityTypeOK, Issued
  <2> QED
    BY <1>1, <1>6, <1>7, <1>8, <1>9, <2>1, <2>2, CloseKeeps DEF IdentityTypeOK
<1>11. r \notin stale => s \in Live
  BY <1>1 DEF Refresh, Serves, RequestsOK, ReadIsCurrent
<1>12. root[s] \notin raced' => r \notin stale
  BY <1>7
<1>13. \A x \in Live \ {s} : x \in Sessions /\ x # t /\ root'[x] = root[x]
  BY <1>6 DEF Live, Issued
<1>14. RowsOK'
  <2>1. \A x \in Live \ {s} : root[x] = root[s] => root[s] \in raced'
    BY <1>1, <1>4, <1>7, <1>11, <1>12 DEF RowsOK, OneLivePerSignIn
  <2>2. OneLivePerSignIn'
    BY <1>1, <1>6, <1>7, <1>8, <1>13, <2>1 DEF RowsOK, OneLivePerSignIn
  <2>3. root[s] \in signedOut => root[s] \in raced'
    BY <1>1, <1>7, <1>11, <1>12 DEF RowsOK, SignedOutIsOver
  <2>4. SignedOutIsOver'
    BY <1>1, <1>6, <1>7, <1>8, <1>13, <2>3 DEF RowsOK, SignedOutIsOver
  <2>5. OneDefault'
    BY <1>1, <1>7 DEF RowsOK, OneDefault
  <2>6. \A x \in Issued' : root'[x] \in Issued'
    BY <1>1, <1>4, <1>6, <1>8 DEF RowsOK, Issued
  <2> QED
    BY <2>2, <2>4, <2>5, <2>6 DEF RowsOK
<1> QED
  BY <1>9, <1>10, <1>14 DEF IdentityInv, RequestsOK, RowsOK

\* Signing out leaves no live session in the sign-in, unless it had raced.
LEMMA LogoutKeeps ==
    ASSUME IdentityInv, NEW r \in Requests, Logout(r)
    PROVE  IdentityInv'
<1> USE DEF addressRows
<1>1. IdentityTypeOK /\ RequestsOK /\ RowsOK
  BY InvIsParts
<1> DEFINE s == op[r].session
<1>2. s \in Issued /\ s \in Sessions
  BY <1>1 DEF Logout, Serves, RequestsOK, Issued
<1>3. /\ UNCHANGED <<accounts, active, holder, root, expired, resident, default, raced>>
      /\ session' = [session EXCEPT ![s] = "revoked"]
      /\ signedOut' = IF session[s] = "live" THEN signedOut \cup {root[s]} ELSE signedOut
      /\ Close(r) /\ Commit(r, {})
  BY DEF Logout, Commit, accountRows
<1>4. Issued' = Issued /\ Live' = Live \ {s}
  BY <1>1, <1>2, <1>3 DEF Issued, Live, IdentityTypeOK
<1>5. RequestsOK' /\ stale' \subseteq Requests
  BY <1>1, <1>3, <1>4, CommitKeepsRequests
<1>6. root[s] \in Issued
  BY <1>1, <1>2 DEF RowsOK
<1>7. IdentityTypeOK'
  BY <1>1, <1>3, <1>4, <1>5, <1>6, CloseKeeps DEF IdentityTypeOK
<1>8. SignedOutIsOver'
  BY <1>1, <1>2, <1>3, <1>4 DEF RowsOK, SignedOutIsOver, OneLivePerSignIn, Live
<1>9. RowsOK'
  BY <1>1, <1>3, <1>4, <1>8 DEF RowsOK, OneLivePerSignIn, OneDefault
<1> QED
  BY <1>5, <1>7, <1>9 DEF IdentityInv, RequestsOK, RowsOK

\* A new default address takes the default of those in its snapshot, which are
\* all there are unless it has been overtaken.
LEMMA AddAddressKeeps ==
    ASSUME IdentityInv, NEW r \in Requests, AddAddress(r)
    PROVE  IdentityInv'
<1> USE DEF accountRows, sessionRows
<1>1. IdentityTypeOK /\ RequestsOK /\ RowsOK
  BY InvIsParts
<1> DEFINE u == op[r].user
           about == IF op[r].default THEN {u} ELSE {}
<1>2. u \in accounts /\ u \in Users /\ u # NoUser
  BY <1>1, IdentityAssumption DEF AddAddress, Serves, RequestsOK, IdentityTypeOK
<1>3. PICK a \in Addresses :
         /\ resident[a] = NoUser
         /\ resident' = [resident EXCEPT ![a] = u]
         /\ default' = (default \ seen[r]) \cup (IF op[r].default THEN {a} ELSE {})
  BY DEF AddAddress, Remaining
<1>4. /\ UNCHANGED <<accounts, active, session, holder, expired, root, signedOut>>
      /\ Close(r) /\ Commit(r, about)
      /\ raced' = IF r \in stale THEN raced \cup about ELSE raced
  BY DEF AddAddress, Commit
<1>5. Issued' = Issued /\ Live' = Live
  BY <1>4 DEF Issued, Live
<1>6. \A b \in Addresses : resident[b] # NoUser => b # a /\ resident'[b] = resident[b]
  BY <1>1, <1>3 DEF IdentityTypeOK
<1>7. RequestsOK' /\ stale' \subseteq Requests
  BY <1>1, <1>4, <1>5, <1>6, CommitKeepsRequests
<1>8. IdentityTypeOK'
  <2>1. resident' \in [Addresses -> accounts \cup {NoUser}]
    BY <1>1, <1>2, <1>3 DEF IdentityTypeOK
  <2>2. default' \subseteq {b \in Addresses : resident'[b] # NoUser}
    BY <1>1, <1>2, <1>3, <1>6 DEF IdentityTypeOK
  <2>3. raced' \subseteq Sessions \cup Users
    BY <1>1, <1>2, <1>4 DEF IdentityTypeOK
  <2> QED
    BY <1>1, <1>4, <1>5, <1>7, <2>1, <2>2, <2>3, CloseKeeps DEF IdentityTypeOK
<1>9. \A b \in default : b # a /\ resident'[b] = resident[b]
  BY <1>1, <1>6 DEF IdentityTypeOK
<1>10. resident'[a] = u
  BY <1>1, <1>3 DEF IdentityTypeOK
<1>11. ASSUME op[r].default, r \notin stale, NEW b \in default \ seen[r]
       PROVE  resident[b] # u
  <2>1. seen[r] = AddressesOf(u)
    BY <1>1, <1>11 DEF AddAddress, Serves, RequestsOK, ReadIsCurrent
  <2> QED
    BY <1>1, <1>11, <2>1 DEF AddressesOf, IdentityTypeOK
<1>12. OneDefault'
  <2> SUFFICES ASSUME NEW b \in default', NEW c \in default', resident'[b] = resident'[c],
                      resident'[b] \notin raced', b # c
               PROVE  FALSE
    BY DEF OneDefault
  <2>1. CASE b \in default /\ c \in default
    BY <1>1, <1>4, <1>9, <2>1 DEF RowsOK, OneDefault
  <2>2. CASE b \notin default \/ c \notin default
    <3>1. op[r].default /\ (b = a \/ c = a)
      BY <1>3, <2>2
    <3>2. r \notin stale
      BY <1>4, <1>10, <3>1
    <3> QED
      BY <1>3, <1>9, <1>10, <1>11, <3>1, <3>2
  <2> QED
    BY <2>1, <2>2
<1>13. RowsOK'
  BY <1>1, <1>4, <1>5, <1>12 DEF RowsOK, OneLivePerSignIn, SignedOutIsOver
<1> QED
  BY <1>7, <1>8, <1>13 DEF IdentityInv, RequestsOK, RowsOK

\* A token runs out, or an account is disabled.
LEMMA EnvironmentKeeps ==
    ASSUME IdentityInv, \/ \E s \in Sessions : Expire(s)
                        \/ \E u \in Users : Disable(u)
    PROVE  IdentityInv'
<1> USE DEF accountRows, sessionRows, addressRows, requestVars
<1>1. IdentityTypeOK /\ RequestsOK /\ RowsOK
  BY InvIsParts
<1>2. /\ UNCHANGED <<accounts, session, holder, root, signedOut, resident, default>>
      /\ UNCHANGED <<step, op, admitted, seen, stale, raced>>
      /\ UNCHANGED <<Issued, Live>>
  BY DEF Expire, Disable, Issued, Live
<1>3. active' \subseteq accounts /\ expired' \subseteq Issued
  BY <1>1 DEF Expire, Disable, IdentityTypeOK
<1>4. IdentityTypeOK'
  BY <1>1, <1>2, <1>3 DEF IdentityTypeOK
<1>5. RequestsOK'
  BY <1>1, <1>2 DEF RequestsOK, ReadIsCurrent, AddressesOf
<1>6. RowsOK'
  BY <1>1, <1>2 DEF RowsOK, OneLivePerSignIn, SignedOutIsOver, OneDefault
<1> QED
  BY <1>4, <1>5, <1>6 DEF IdentityInv, RequestsOK, RowsOK

LEMMA StepKeeps ==
    ASSUME IdentityInv, [IdentityNext]_identityVars
    PROVE  IdentityInv'
<1>1. CASE \E r \in Requests : \E w \in Ops : Load(r, w)
  BY <1>1, LoadKeeps
<1>2. CASE \E r \in Requests : Write(r)
  BY <1>2, SignInKeeps, RefreshKeeps, LogoutKeeps, AddAddressKeeps DEF Write
<1>3. CASE \E r \in Requests : Refuse(r) \/ Abort(r)
  BY <1>3, QuitKeeps
<1>4. CASE \/ \E s \in Sessions : Expire(s)
           \/ \E u \in Users : Disable(u)
  BY <1>4, EnvironmentKeeps
<1>5. CASE UNCHANGED identityVars
  BY <1>5 DEF identityVars, accountRows, sessionRows, addressRows, requestVars, IdentityInv,
       IdentityTypeOK, ReadIsCurrent, OneLivePerSignIn, SignedOutIsOver, OneDefault,
       Issued, Live, AddressesOf
<1> QED
  BY <1>1, <1>2, <1>3, <1>4, <1>5 DEF IdentityNext

-----------------------------------------------------------------------------
(* The theorems. *)

\* The invariant holds in every reachable state: types, what requests have
\* read, and the rows of sessions and addresses (rotate, sign_out, add_address).
THEOREM IdentityInvariance == IdentitySpec => []IdentityInv
<1>1. IdentityInit => IdentityInv
  BY InitEstablishes
<1>2. IdentityInv /\ [IdentityNext]_identityVars => IdentityInv'
  BY StepKeeps
<1> QED
  BY <1>1, <1>2, PTL DEF IdentitySpec

\* However often a sign-in is refreshed, one session of it is live, unless a
\* refresh committed after the token it had checked was retired.
THEOREM OneSessionPerSignIn == IdentitySpec => []OneLivePerSignIn
<1>1. IdentityInv => OneLivePerSignIn
  BY DEF IdentityInv
<1> QED
  BY <1>1, IdentityInvariance, PTL

\* Signing out with the current token ends the sign-in for good.
THEOREM SignOutEnds == IdentitySpec => []SignedOutIsOver
<1>1. IdentityInv => SignedOutIsOver
  BY DEF IdentityInv
<1> QED
  BY <1>1, IdentityInvariance, PTL

\* A user has one default address, unless two additions of one overlapped.
THEOREM OneDefaultAddress == IdentitySpec => []OneDefault
<1>1. IdentityInv => OneDefault
  BY DEF IdentityInv
<1> QED
  BY <1>1, IdentityInvariance, PTL
=============================================================================
