------------------------------ MODULE Identity ------------------------------
(***************************************************************************)
(* Accounts, sessions and addresses (backend/app/modules/identity/service.py*)
(* and the handlers of backend/app/api/routers/identity.py), under requests *)
(* that overlap or are sent again.                                         *)
(*                                                                         *)
(* A request checks what it has read and then commits its writes; nothing  *)
(* is locked in between.  The refresh token of a session stands for its    *)
(* row: the token carries the row's id, and the row the hash of the one    *)
(* token that was issued with it.                                          *)
(***************************************************************************)
EXTENDS Integers, FiniteSets

CONSTANTS
    Requests,      \* requests in flight, one after another in each place
    Users,         \* e-mail addresses, each of one account at most
    NoUser,
    Sessions,      \* identities of rows of session_tokens
    Addresses      \* identities of rows of addresses

ASSUME IdentityAssumption == NoUser \notin Users

VARIABLES
    accounts,   \* users with an account
    active,     \* those with is_active
    session,    \* "none" without a row, "live", "revoked" with revoked_at set
    holder,     \* user_id of a session
    expired,    \* sessions whose refresh token has run out
    resident,   \* user_id of an address, NoUser without a row
    default,    \* addresses with is_default
    step,       \* where a request is
    op,         \* what it asks for
    admitted,   \* whether it passed the checks on what it read
    seen,       \* add_address: rows in the snapshot of its UPDATE
    root,       \* history: the sign-in a session descends from
    signedOut,  \* history: sign-ins whose current session was signed out
    stale,      \* history: requests that another has overtaken since they read
    raced       \* history: sign-ins and users for which one committed nevertheless

accountRows  == <<accounts, active>>
sessionRows  == <<session, holder, expired, root, signedOut>>
addressRows  == <<resident, default>>
requestVars  == <<step, op, admitted, seen>>
identityVars == <<accountRows, sessionRows, addressRows, requestVars, stale, raced>>

Ops == [kind : {"register", "login"}, user : Users]
         \cup [kind : {"refresh", "logout"}, session : Sessions]
         \cup [kind : {"add_address"}, user : Users, default : BOOLEAN]
NoOp == [kind |-> "none"]

Issued == {s \in Sessions : session[s] # "none"}

IdentityTypeOK ==
    /\ accounts \subseteq Users
    /\ active \subseteq accounts
    /\ session \in [Sessions -> {"none", "live", "revoked"}]
    /\ holder \in [Sessions -> Users \cup {NoUser}]
    /\ \A s \in Issued : holder[s] \in accounts
    /\ expired \subseteq Issued
    /\ resident \in [Addresses -> accounts \cup {NoUser}]
    /\ default \subseteq {a \in Addresses : resident[a] # NoUser}
    /\ step \in [Requests -> {"idle", "loaded"}]
    /\ op \in [Requests -> Ops \cup {NoOp}]
    /\ \A r \in Requests : step[r] = "loaded" => op[r] \in Ops
    /\ admitted \in [Requests -> BOOLEAN]
    /\ seen \in [Requests -> SUBSET Addresses]
    /\ root \in [Sessions -> Sessions]
    /\ signedOut \subseteq Issued
    /\ stale \subseteq Requests
    /\ raced \subseteq Sessions \cup Users

IdentityInit ==
    /\ accounts = {} /\ active = {}
    /\ session = [s \in Sessions |-> "none"]
    /\ holder = [s \in Sessions |-> NoUser]
    /\ expired = {}
    /\ resident = [a \in Addresses |-> NoUser]
    /\ default = {}
    /\ step = [r \in Requests |-> "idle"]
    /\ op = [r \in Requests |-> NoOp]
    /\ admitted = [r \in Requests |-> FALSE]
    /\ seen = [r \in Requests |-> {}]
    /\ root = [s \in Sessions |-> s]
    /\ signedOut = {} /\ stale = {} /\ raced = {}

-----------------------------------------------------------------------------
(* Reading. *)

\* Mutant: rotate does not look at revoked_at.
UsableOnceIssued(s) == s \notin expired /\ holder[s] \in active

\* rotate: the record is not revoked, not expired, its user not disabled.
Usable(s) == session[s] = "live" /\ s \notin expired /\ holder[s] \in active

\* The account is there, the password right (or Abort), and is_active.
Authenticates(u) == u \in active

\* An access token names its user; the session it was issued with is not asked.
CurrentUser(u) == u \in active

Admits(w) ==
    \/ w.kind = "register" /\ w.user \notin accounts
    \/ w.kind = "login" /\ Authenticates(w.user)
    \/ w.kind = "add_address" /\ CurrentUser(w.user)
    \/ w.kind = "refresh" /\ Usable(w.session)
    \/ w.kind = "logout" /\ w.session \notin expired

AddressesOf(u) == {a \in Addresses : resident[a] = u}

\* A token that is presented has been issued.
Load(r, w) ==
    /\ step[r] = "idle"
    /\ w.kind \in {"refresh", "logout"} => w.session \in Issued
    /\ step' = [step EXCEPT ![r] = "loaded"]
    /\ op' = [op EXCEPT ![r] = w]
    /\ admitted' = [admitted EXCEPT ![r] = Admits(w)]
    /\ seen' = [seen EXCEPT ![r] = IF w.kind = "add_address" /\ w.default
                                   THEN AddressesOf(w.user) ELSE {}]
    /\ UNCHANGED <<accountRows, sessionRows, addressRows, stale, raced>>

-----------------------------------------------------------------------------
(* Ending. *)

Close(r) ==
    /\ step' = [step EXCEPT ![r] = "idle"]
    /\ op' = [op EXCEPT ![r] = NoOp]
    /\ admitted' = [admitted EXCEPT ![r] = FALSE]
    /\ seen' = [seen EXCEPT ![r] = {}]

\* What a request acts upon no longer holds after the step.
Overtaken(t) ==
    \/ op[t].kind = "refresh" /\ session'[op[t].session] # session[op[t].session]
    \/ /\ op[t].kind = "add_address"
       /\ \E a \in Addresses : resident[a] # op[t].user /\ resident'[a] = op[t].user

\* uow.commit(); "about" is the sign-in, or the user, the request writes for.
Commit(r, about) ==
    /\ Close(r)
    /\ stale' = {t \in Requests \ {r} : t \in stale \/ (step[t] = "loaded" /\ Overtaken(t))}
    /\ raced' = IF r \in stale THEN raced \cup about ELSE raced

\* The error that is raised leaves everything as it was.  The hash of a retired
\* token is still that of its row, so that rotate refuses it as expired and gets
\* to _revoke_all only with a token that start_session has never issued.
Refuse(r) ==
    /\ step[r] = "loaded" /\ ~admitted[r]
    /\ Close(r)
    /\ stale' = stale \ {r}
    /\ UNCHANGED <<accountRows, sessionRows, addressRows, raced>>

\* A wrong password, the merge of a cart that fails, the unique key on e-mail,
\* a deadlock of two UPDATEs, the process.
Abort(r) ==
    /\ step[r] = "loaded" /\ admitted[r]
    /\ Close(r)
    /\ stale' = stale \ {r}
    /\ UNCHANGED <<accountRows, sessionRows, addressRows, raced>>

-----------------------------------------------------------------------------
(* Writing. *)

Serves(r, kind) == step[r] = "loaded" /\ admitted[r] /\ op[r].kind = kind

\* start_session: a row of its own for every token, on top of "before".
StartSession(t, u, from, before) ==
    /\ session[t] = "none"
    /\ session' = [before EXCEPT ![t] = "live"]
    /\ holder' = [holder EXCEPT ![t] = u]
    /\ root' = [root EXCEPT ![t] = from]

\* The unique key refuses the second of two that found no account.
Register(r) ==
    /\ Serves(r, "register")
    /\ op[r].user \notin accounts
    /\ accounts' = accounts \cup {op[r].user}
    /\ active' = active \cup {op[r].user}
    /\ \E t \in Sessions : StartSession(t, op[r].user, t, session)
    /\ UNCHANGED <<expired, signedOut, addressRows>>
    /\ Commit(r, {})

Login(r) ==
    /\ Serves(r, "login")
    /\ \E t \in Sessions : StartSession(t, op[r].user, t, session)
    /\ UNCHANGED <<accountRows, expired, signedOut, addressRows>>
    /\ Commit(r, {})

\* rotate: the UPDATE names the row by its key alone, whatever has become of it.
Refresh(r) ==
    LET s == op[r].session IN
    /\ Serves(r, "refresh")
    /\ \E t \in Sessions :
          StartSession(t, holder[s], root[s], [session EXCEPT ![s] = "revoked"])
    /\ UNCHANGED <<accountRows, expired, signedOut, addressRows>>
    /\ Commit(r, {root[s]})

\* sign_out: UPDATE ... WHERE revoked_at IS NULL.
Logout(r) ==
    LET s == op[r].session IN
    /\ Serves(r, "logout")
    /\ session' = [session EXCEPT ![s] = "revoked"]
    /\ signedOut' = IF session[s] = "live" THEN signedOut \cup {root[s]} ELSE signedOut
    /\ UNCHANGED <<accountRows, holder, expired, root, addressRows>>
    /\ Commit(r, {})

\* Mutant: the default of before is not taken back.
Undefaulted(r) == default

\* The UPDATE of add_address reaches the rows of its snapshot.
Remaining(r) == default \ seen[r]

AddAddress(r) ==
    /\ Serves(r, "add_address")
    /\ \E a \in Addresses :
          /\ resident[a] = NoUser
          /\ resident' = [resident EXCEPT ![a] = op[r].user]
          /\ default' = Remaining(r) \cup (IF op[r].default THEN {a} ELSE {})
    /\ UNCHANGED <<accountRows, sessionRows>>
    /\ Commit(r, IF op[r].default THEN {op[r].user} ELSE {})

-----------------------------------------------------------------------------
(* Time, and the operator of the shop, who disables accounts in the database. *)

Expire(s) ==
    /\ s \in Issued \ expired
    /\ expired' = expired \cup {s}
    /\ UNCHANGED <<accountRows, session, holder, root, signedOut, addressRows,
                   requestVars, stale, raced>>

Disable(u) ==
    /\ u \in active
    /\ active' = active \ {u}
    /\ UNCHANGED <<accounts, sessionRows, addressRows, requestVars, stale, raced>>

Write(r) == Register(r) \/ Login(r) \/ Refresh(r) \/ Logout(r) \/ AddAddress(r)

IdentityNext ==
    \/ \E r \in Requests :
          \/ \E w \in Ops : Load(r, w)
          \/ Write(r) \/ Refuse(r) \/ Abort(r)
    \/ \E s \in Sessions : Expire(s)
    \/ \E u \in Users : Disable(u)

IdentitySpec == IdentityInit /\ [][IdentityNext]_identityVars

-----------------------------------------------------------------------------
(* What holds. *)

Live == {s \in Sessions : session[s] = "live"}

\* "Each refresh issues a brand new token and retires the old one" (rotate): a
\* sign-in has one live session however often it is refreshed, its tokens are
\* sent again or arrive late, unless a refresh commits after another request
\* has retired the token it had checked.
OneLivePerSignIn ==
    \A s, t \in Live : root[s] = root[t] /\ root[s] \notin raced => s = t

\* Signing out with the current token ends the sign-in: no session that
\* descends from it is live again, except by a refresh under way meanwhile.
SignedOutIsOver ==
    \A s \in Live : root[s] \in signedOut => root[s] \in raced

\* add_address leaves a user one default address, unless two that make their
\* address the default overlap.
OneDefault ==
    \A a, b \in default :
        resident[a] = resident[b] /\ resident[a] \notin raced => a = b

\* A token that a refresh has replaced, and that nothing else speaks against.
Retired(s) ==
    /\ session[s] = "revoked" /\ root[s] \notin signedOut
    /\ s \notin expired /\ holder[s] \in active

\* "If a retired token is presented again the family is assumed stolen and every
\* session for that user is revoked" (rotate).  It is refused, and nothing else.
ReuseEndsAll ==
    [][\A r \in Requests :
          op[r].kind = "refresh" /\ Retired(op[r].session) /\ Refuse(r) =>
              \A s \in Sessions : holder[s] = holder[op[r].session] => session'[s] # "live"
      ]_identityVars

\* What a request that nobody has overtaken has read still holds.
ReadIsCurrent ==
    \A r \in Requests \ stale :
        step[r] = "loaded" /\ admitted[r] =>
            /\ op[r].kind = "refresh" => op[r].session \in Live
            /\ op[r].kind = "add_address" /\ op[r].default => seen[r] = AddressesOf(op[r].user)

IdentityInv ==
    /\ IdentityTypeOK
    /\ ReadIsCurrent
    /\ OneLivePerSignIn
    /\ SignedOutIsOver
    /\ OneDefault
    /\ \A s \in Issued : root[s] \in Issued
    /\ \A r \in Requests : step[r] = "loaded" /\ op[r].kind \in {"refresh", "logout"} =>
                              op[r].session \in Issued
    /\ \A r \in Requests : step[r] = "loaded" /\ op[r].kind \in {"add_address", "login"}
                              /\ admitted[r] => op[r].user \in accounts
    /\ \A r \in Requests : \A a \in seen[r] : resident[a] = op[r].user /\ resident[a] # NoUser
=============================================================================
