-------------------------------- MODULE Sessions --------------------------------
(***************************************************************************)
(* Who is logged in: login with its lockout, the rotation of refresh       *)
(* tokens and the detection of their reuse in services/auth.service, what  *)
(* an administrator does to an account in services/user-admin.service,     *)
(* the synchronisation of the account from the access token that runs      *)
(* before every request (services/user.service), and the nightly deletion  *)
(* of old tokens (lib/cleanup).                                            *)
(*                                                                         *)
(* As in Booking, a request is handled by a worker and one action is one   *)
(* awaited statement.  A refresh token is its row, numbered in the order   *)
(* of insertion; an access token is what was signed into it.  Whether the  *)
(* answer reaches the client is not modelled: a token that was made may    *)
(* be used.                                                                *)
(***************************************************************************)
EXTENDS Naturals, Sequences, FiniteSetsExt, Functions, Combinatorics

CONSTANTS
  Users, Masters,  \* the accounts, and the master administrators among them
  FirstRole, Roles, \* the role that accounts have at first, and those they are given
  Workers,         \* requests served at the same time
  Threshold,       \* wrong passwords that lock an account
  Mixes            \* bound: what clients do together: the operations they use, the refresh
                   \* tokens ever inserted, the administrator's requests

AllRoles == {"student", "professor", "staff", "maintenance"}
NoToken == 0
TokenIds == Nat \ {NoToken}
NoRequest == [op |-> "none"]

ASSUME SessionsAssumption ==
  /\ Masters \subseteq Users /\ FirstRole \in AllRoles /\ Roles \subseteq AllRoles
  /\ Threshold \in Nat \ {0} /\ IsFiniteSet(Workers)
  /\ \A m \in Mixes : m.tokens \in Nat /\ m.orders \in Nat

VARIABLES
  accounts,    \* table users
  credentials, \* table user_credentials
  tokens,      \* table refresh_tokens, in the order of insertion
  expired, purged,  \* the tokens up to here are past their expiry, and deleted
  access,      \* access tokens that have not expired
  pc, req,     \* per worker: the next statement, and what the handler remembers
  mix, orders, \* what clients do, one of Mixes; administrator's requests so far
  born,        \* history: how each token came about
  seen,        \* history: per worker, tokens rotated from the one it presents since its read
  dirty,       \* history: the worker's account was disabled or swept since its read
  forks,       \* history: pairs of tokens rotated from one token past each other
  exposed,     \* history: tokens whose reuse was detected and followed to the end
  unswept,     \* history: accounts disabled by a handler that died before its sweep
  edits, ordered, undone, \* history: role changes; the last one; those a token overwrote
  guesses      \* history: wrong passwords since the account was last locked or cleared

tables == <<accounts, credentials, tokens, expired, purged, access>>
roleGhosts == <<edits, ordered, undone>>
ghosts == <<born, seen, dirty, forks, exposed, unswept, roleGhosts, guesses>>
vars == <<tables, pc, req, mix, orders, ghosts>>

AccountRow == [disabled : BOOLEAN, deleted : BOOLEAN, role : AllRoles]
CredentialRow == [failed : 0 .. Threshold - 1, locked : BOOLEAN]
TokenRow == [user : Users, revoked : BOOLEAN, next : TokenIds \union {NoToken}]
(* What buildAccessToken signs, and how many role changes it knows of.     *)
AccessToken == [user : Users, role : AllRoles, asOf : Nat]

(* `on` is the token a handler is about to write, `next` the replaced_by   *)
(* it read with it; `from` is the token a client presented; `failed`, the  *)
(* attempts it read; `role` and `asOf`, the account as it read it.         *)
Handler == [op : {"login", "guess", "reset", "refresh", "reuse", "logout", "disable", "enable",
                  "delete", "revokeAll", "changeRole"},
            user : Users, from : TokenIds \union {NoToken}, on : TokenIds \union {NoToken},
            next : TokenIds \union {NoToken}, failed : 0 .. Threshold - 1,
            role : AllRoles, asOf : Nat]
Call(op, user) ==
  [op |-> op, user |-> user, from |-> NoToken, on |-> NoToken, next |-> NoToken, failed |-> 0,
   role |-> accounts[user].role, asOf |-> edits[user]]

Issued == DOMAIN tokens
Stored == {t \in Issued : t > purged}
Live(t) == t > expired /\ ~tokens[t].revoked

Init ==
  /\ accounts = [u \in Users |-> [disabled |-> FALSE, deleted |-> FALSE, role |-> FirstRole]]
  /\ credentials = [u \in Users |-> [failed |-> 0, locked |-> FALSE]]
  /\ tokens = <<>> /\ expired = 0 /\ purged = 0 /\ access = {}
  /\ pc = [w \in Workers |-> "idle"] /\ req = [w \in Workers |-> NoRequest]
  /\ mix \in Mixes /\ orders = 0
  /\ born = <<>> /\ forks = {} /\ exposed = {} /\ unswept = {}
  /\ seen = [w \in Workers |-> {}] /\ dirty = [w \in Workers |-> FALSE]
  /\ edits = [u \in Users |-> 0] /\ ordered = [u \in Users |-> accounts[u].role]
  /\ undone = {} /\ guesses = [u \in Users |-> 0]

Goto(w, to, request) ==
  /\ pc' = [pc EXCEPT ![w] = to]
  /\ req' = [req EXCEPT ![w] = request]
Finish(w) == Goto(w, "idle", NoRequest)
Forget(w) ==
  /\ seen' = [seen EXCEPT ![w] = {}]
  /\ dirty' = [dirty EXCEPT ![w] = FALSE]

Start(w, op, to, request) ==
  /\ pc[w] = "idle" /\ op \in mix.ops
  /\ Goto(w, to, request)
  /\ UNCHANGED <<tables, mix, ghosts>>

(* Bound: every handler that may insert a token has room for it. *)
Inserting == {v \in Workers : req[v].op \in {"login", "reset", "refresh"}}
RoomForToken == Cardinality(Inserting) + Len(tokens) < mix.tokens
RoomForOrder == orders < mix.orders

-------------------------------------------------------------------------------
(* Login. *)

(* Variant: whoever has an account gets in. *)
MayEnter_Anyone(u) == TRUE
MayEnter(u) == ~accounts[u].disabled

(* "guess" is a login with a wrong password. *)
SubmitLogin(w) ==
  /\ \E op \in {"login", "guess"}, u \in Users :
       /\ op = "login" => RoomForToken
       /\ MayEnter(u)
       /\ Start(w, op, "readCredentials", Call(op, u))
  /\ UNCHANGED orders

ReadCredentials(w) ==
  /\ pc[w] = "readCredentials"
  /\ LET c == credentials[req[w].user]
     IN  IF c.locked THEN Finish(w) /\ Forget(w)
         ELSE /\ Goto(w, "writeAttempts", [req[w] EXCEPT !.failed = c.failed])
              /\ UNCHANGED <<seen, dirty>>
  /\ UNCHANGED <<tables, mix, orders, born, forks, exposed, unswept, roleGhosts, guesses>>

(* A wrong password writes what the attempts were when they were read, and *)
(* one more.                                                               *)
(* Variant: locks one attempt later.                                       *)
Locks_OneMore(failed) == failed + 1 > Threshold
Locks(failed) == failed + 1 >= Threshold
AfterWrong(c, failed) ==
  IF Locks(failed) THEN [failed |-> 0, locked |-> TRUE] ELSE [c EXCEPT !.failed = failed + 1]
Cleared == [failed |-> 0, locked |-> FALSE]

WriteAttempts(w) ==
  /\ pc[w] = "writeAttempts"
  /\ LET r == req[w]
         wrong == r.op = "guess"
     IN  /\ credentials' = [credentials EXCEPT
              ![r.user] = IF wrong THEN AfterWrong(@, r.failed) ELSE Cleared]
         /\ guesses' = [guesses EXCEPT
              ![r.user] = IF wrong /\ ~Locks(r.failed) THEN @ + 1 ELSE 0]
         /\ IF wrong THEN Finish(w) /\ Forget(w)
            ELSE Goto(w, "insertToken", r) /\ UNCHANGED <<seen, dirty>>
  /\ UNCHANGED <<accounts, tokens, expired, purged, access, mix, orders, born, forks, exposed,
                 unswept, roleGhosts>>

(* The link of a password reset was followed (Invitations tells when): the *)
(* account is looked up, whatever its state, and its attempts cleared.     *)
SubmitReset(w) ==
  /\ RoomForToken
  /\ \E u \in Users : Start(w, "reset", "writePassword", Call("reset", u))
  /\ UNCHANGED orders

WritePassword(w) ==
  /\ pc[w] = "writePassword"
  /\ credentials' = [credentials EXCEPT ![req[w].user] = Cleared]
  /\ guesses' = [guesses EXCEPT ![req[w].user] = 0]
  /\ Goto(w, "insertToken", req[w])
  /\ UNCHANGED <<accounts, tokens, expired, purged, access, mix, orders, born, seen, dirty, forks,
                 exposed, unswept, roleGhosts>>

(* history: a token of an account that the handler could no longer have    *)
(* read as open, or of a reset, which does not ask; or one that fell       *)
(* between the sweep and the mark of a deletion.                           *)
Slips(w) ==
  \/ dirty[w] \/ req[w].op = "reset"
  \/ \E v \in Workers : pc[v] = "markDeleted" /\ req[v].user = req[w].user
Birth(w, lineage, late) == [lineage |-> lineage, late |-> late, slipped |-> Slips(w)]

(* Bound: access tokens are followed where clients use them.               *)
Sign(r) ==
  access' = IF "use" \in mix.ops
            THEN access \union {[user |-> r.user, role |-> r.role, asOf |-> r.asOf]}
            ELSE access
NewToken(u) == [user |-> u, revoked |-> FALSE, next |-> NoToken]

(* issueTokenPair. *)
InsertToken(w) ==
  /\ pc[w] = "insertToken"
  /\ Sign(req[w])
  /\ tokens' = Append(tokens, NewToken(req[w].user))
  /\ born' = Append(born, Birth(w, {Len(tokens) + 1}, FALSE))
  /\ Finish(w) /\ Forget(w)
  /\ UNCHANGED <<accounts, credentials, expired, purged, mix, orders, forks, exposed, unswept,
                 roleGhosts, guesses>>

-------------------------------------------------------------------------------
(* Refresh.  A token that was revoked is being reused: what replaced it,   *)
(* and what replaced that, is revoked.                                     *)

Reused(t) == tokens[t].revoked

SubmitRefresh(w) ==
  /\ \E t \in Stored :
       LET call == [Call(IF Reused(t) THEN "reuse" ELSE "refresh", tokens[t].user)
                      EXCEPT !.from = t]
       IN  IF Reused(t)
           THEN Start(w, "refresh", "walkRead", [call EXCEPT !.on = tokens[t].next])
           ELSE t > expired /\ RoomForToken /\ Start(w, "refresh", "readUser", call)
  /\ UNCHANGED orders

ReadUser(w) ==
  /\ pc[w] = "readUser"
  /\ LET r == req[w]
     IN  IF MayEnter(r.user)
         THEN /\ Goto(w, "rotate", [r EXCEPT !.role = accounts[r.user].role,
                                             !.asOf = edits[r.user]])
              /\ dirty' = [dirty EXCEPT ![w] = FALSE]
              /\ UNCHANGED seen
         ELSE Finish(w) /\ Forget(w)
  /\ UNCHANGED <<tables, mix, orders, born, forks, exposed, unswept, roleGhosts, guesses>>

(* The row of the token that was presented, which the batch updates as it  *)
(* is now.                                                                 *)
(* Variant: leaves the old token valid.                                    *)
Replaced_StaysValid(row, next) == [row EXCEPT !.next = next]
Replaced(row, next) == [row EXCEPT !.revoked = TRUE, !.next = next]

(* The batch, and the access token signed after it. *)
Rotate(w) ==
  /\ pc[w] = "rotate"
  /\ LET r == req[w]
         id == Len(tokens) + 1
         late == \/ tokens[r.from].revoked
                 \/ \E v \in Workers : pc[v] = "walkRevoke" /\ req[v].on = r.from
     IN  /\ tokens' = Append([tokens EXCEPT ![r.from] = Replaced(@, id)], NewToken(r.user))
         /\ Sign(r)
         /\ born' = Append(born, Birth(w, born[r.from].lineage \union {id}, late))
         /\ forks' = forks \union {<<t, id>> : t \in seen[w]}
         /\ seen' = [v \in Workers |->
              IF v # w /\ pc[v] \in {"readUser", "rotate"} /\ req[v].from = r.from
              THEN seen[v] \union {id}
              ELSE IF v = w THEN {} ELSE seen[v]]
         /\ dirty' = [dirty EXCEPT ![w] = FALSE]
  /\ Finish(w)
  /\ UNCHANGED <<accounts, credentials, expired, purged, mix, orders, exposed, unswept,
                 roleGhosts, guesses>>

(* revokeChain: each token is read, revoked if it is valid, and left by    *)
(* the replaced_by that was read.  What replaces a token is younger (see   *)
(* TypeOK), so the set of visited tokens never cuts the walk short.        *)
(* Variant: the chain is taken to end at the first revoked token.          *)
Onward_StopsAtRevoked(row) == IF row.revoked THEN NoToken ELSE row.next
Onward(row) == row.next

WalkRead(w) ==
  /\ pc[w] = "walkRead"
  /\ LET r == req[w]
     IN  IF r.on \notin Stored
         THEN /\ Finish(w) /\ Forget(w)
              /\ exposed' = IF r.on = NoToken THEN exposed \union {r.from} ELSE exposed
         ELSE /\ IF tokens[r.on].revoked
                 THEN Goto(w, "walkRead", [r EXCEPT !.on = Onward(tokens[r.on])])
                 ELSE Goto(w, "walkRevoke", [r EXCEPT !.next = Onward(tokens[r.on])])
              /\ UNCHANGED <<seen, dirty, exposed>>
  /\ UNCHANGED <<tables, mix, orders, born, forks, unswept, roleGhosts, guesses>>

Revoke(set) == tokens' = [t \in Issued |-> [tokens[t] EXCEPT !.revoked = @ \/ t \in set]]

WalkRevoke(w) ==
  /\ pc[w] = "walkRevoke"
  /\ Revoke({req[w].on})
  /\ Goto(w, "walkRead", [req[w] EXCEPT !.on = req[w].next, !.next = NoToken])
  /\ UNCHANGED <<accounts, credentials, expired, purged, access, mix, orders, ghosts>>

SubmitLogout(w) ==
  /\ \E t \in Stored :
       /\ ~tokens[t].revoked
       /\ Start(w, "logout", "writeLogout",
                [Call("logout", tokens[t].user) EXCEPT !.from = t, !.on = t])
  /\ UNCHANGED orders

WriteLogout(w) ==
  /\ pc[w] = "writeLogout"
  /\ Revoke({req[w].on})
  /\ Finish(w) /\ Forget(w)
  /\ UNCHANGED <<accounts, credentials, expired, purged, access, mix, orders, born, forks, exposed,
                 unswept, roleGhosts, guesses>>

-------------------------------------------------------------------------------
(* UserAdminService.  Each reads the account first and refuses the master  *)
(* administrator's.  Disabling marks the account and then sweeps its       *)
(* sessions; deleting sweeps first.                                        *)

Order(w, op, to) ==
  /\ RoomForOrder /\ orders' = orders + 1
  /\ \E u \in Users \ Masters : Start(w, op, to, Call(op, u))
SubmitDisable(w) == Order(w, "disable", "markDisabled")
SubmitEnable(w) == Order(w, "enable", "markEnabled")
SubmitDelete(w) == Order(w, "delete", "sweep")
SubmitChangeRole(w) == Order(w, "changeRole", "writeRole")

(* Closing everybody's sessions is possible for the master's account too.  *)
SubmitRevokeAll(w) ==
  /\ RoomForOrder /\ orders' = orders + 1
  /\ \E u \in Users : Start(w, "revokeAll", "sweep", Call("revokeAll", u))

SetAccount(u, row) == accounts' = [accounts EXCEPT ![u] = row]

(* history: those who had read the account as open no longer could.        *)
Closed(w, u) ==
  dirty' = [v \in Workers |-> v # w /\ (dirty[v] \/ (pc[v] # "idle" /\ req[v].user = u))]

MarkDisabled(w) ==
  /\ pc[w] = "markDisabled"
  /\ LET u == req[w].user
     IN  SetAccount(u, [accounts[u] EXCEPT !.disabled = TRUE]) /\ Closed(w, u)
  /\ Goto(w, "sweep", req[w])
  /\ UNCHANGED <<credentials, tokens, expired, purged, access, mix, orders, born, seen, forks,
                 exposed, unswept, roleGhosts, guesses>>

(* Nothing asks whether the account was deleted. *)
MarkEnabled(w) ==
  /\ pc[w] = "markEnabled"
  /\ LET u == req[w].user IN SetAccount(u, [accounts[u] EXCEPT !.disabled = FALSE])
  /\ Finish(w) /\ Forget(w)
  /\ UNCHANGED <<credentials, tokens, expired, purged, access, mix, orders, born, forks, exposed,
                 unswept, roleGhosts, guesses>>

(* The sessions that a sweep revokes.                                      *)
SessionsOf(u) == {t \in Issued : tokens[t].user = u}

Sweep(w) ==
  /\ pc[w] = "sweep"
  /\ LET r == req[w]
     IN  /\ Revoke(SessionsOf(r.user))
         /\ Closed(w, r.user)
         /\ unswept' = unswept \ {r.user}
         /\ IF r.op = "delete" THEN Goto(w, "markDeleted", r) ELSE Finish(w)
  /\ UNCHANGED <<accounts, credentials, expired, purged, access, mix, orders, born, seen, forks,
                 exposed, roleGhosts, guesses>>

MarkDeleted(w) ==
  /\ pc[w] = "markDeleted"
  /\ LET u == req[w].user
     IN  /\ SetAccount(u, [accounts[u] EXCEPT !.disabled = TRUE, !.deleted = TRUE])
         /\ Closed(w, u)
  /\ Finish(w)
  /\ UNCHANGED <<credentials, tokens, expired, purged, access, mix, orders, born, seen, forks,
                 exposed, unswept, roleGhosts, guesses>>

WriteRole(w) ==
  /\ pc[w] = "writeRole"
  /\ LET u == req[w].user
     IN  \E role \in Roles :
           /\ SetAccount(u, [accounts[u] EXCEPT !.role = role])
           /\ edits' = [edits EXCEPT ![u] = @ + 1]
           /\ ordered' = [ordered EXCEPT ![u] = role]
           /\ undone' = undone \ {u}
  /\ Finish(w) /\ Forget(w)
  /\ UNCHANGED <<credentials, tokens, expired, purged, access, mix, orders, born, forks, exposed,
                 unswept, guesses>>

-------------------------------------------------------------------------------
(* syncUserMiddleware: any request that carries an access token writes     *)
(* what is signed into it over the account, and asks nothing else.         *)
(* extractRole finds the role behind its name in the token. The same       *)
(* UPSERT writes name, e-mail and department; of an account only the role  *)
(* is kept here, on which what its owner may do depends.                   *)
(* Variant: does not know of maintenance, and falls back to student.       *)
ExtractRole_NoMaintenance(role) == IF role = "maintenance" THEN "student" ELSE role
ExtractRole(role) == role

SyncFromToken ==
  /\ "use" \in mix.ops
  /\ \E a \in access :
       /\ SetAccount(a.user, [accounts[a.user] EXCEPT !.role = ExtractRole(a.role)])
       /\ undone' = IF a.asOf < edits[a.user] THEN undone \union {a.user} ELSE undone
  /\ UNCHANGED <<credentials, tokens, expired, purged, access, pc, req, mix, orders, born, seen,
                 dirty, forks, exposed, unswept, edits, ordered, guesses>>

-------------------------------------------------------------------------------
(* Time: fifteen minutes end an access token, or a lock; thirty days       *)
(* without rotation, a refresh token, the oldest first.  No request lasts  *)
(* for days.                                                               *)
Idle == \A w \in Workers : pc[w] = "idle"

AccessExpires ==
  /\ \E a \in access : access' = access \ {a}
  /\ UNCHANGED <<accounts, credentials, tokens, expired, purged, pc, req, mix, orders, ghosts>>

Unlock ==
  /\ \E u \in Users :
       /\ credentials[u].locked
       /\ credentials' = [credentials EXCEPT ![u].locked = FALSE]
  /\ UNCHANGED <<accounts, tokens, expired, purged, access, pc, req, mix, orders, ghosts>>

TokenExpires ==
  /\ Idle /\ expired < Len(tokens)
  /\ expired' = expired + 1
  /\ UNCHANGED <<accounts, credentials, tokens, purged, access, pc, req, mix, orders, ghosts>>

(* runNightlyCleanup, its second statement: all that are past the grace.   *)
NightlyCleanup ==
  /\ \E t \in purged + 1 .. expired : purged' = t
  /\ UNCHANGED <<accounts, credentials, tokens, expired, access, pc, req, mix, orders, ghosts>>

(* A request that its first read refuses changes nothing.                  *)
RefuseRequest(w) == pc[w] = "idle" /\ UNCHANGED vars

(* A statement throws or the Worker is evicted: what ran, stays.           *)
Die(w) ==
  /\ pc[w] # "idle"
  /\ unswept' = IF pc[w] = "sweep" /\ req[w].op = "disable"
                THEN unswept \union {req[w].user} ELSE unswept
  /\ Finish(w) /\ Forget(w)
  /\ UNCHANGED <<tables, mix, orders, born, forks, exposed, roleGhosts, guesses>>

Submit(w) ==
  \/ SubmitLogin(w) \/ SubmitReset(w) \/ SubmitRefresh(w) \/ SubmitLogout(w)
  \/ SubmitDisable(w) \/ SubmitEnable(w) \/ SubmitDelete(w) \/ SubmitRevokeAll(w)
  \/ SubmitChangeRole(w)
Proceed(w) ==
  \/ ReadCredentials(w) \/ WriteAttempts(w) \/ WritePassword(w) \/ InsertToken(w)
  \/ ReadUser(w) \/ Rotate(w) \/ WalkRead(w) \/ WalkRevoke(w) \/ WriteLogout(w)
  \/ MarkDisabled(w) \/ MarkEnabled(w) \/ Sweep(w) \/ MarkDeleted(w) \/ WriteRole(w)

Next ==
  \/ SyncFromToken \/ AccessExpires \/ Unlock \/ TokenExpires \/ NightlyCleanup
  \/ \E w \in Workers : Submit(w) \/ RefuseRequest(w) \/ Proceed(w) \/ Die(w)

Spec == Init /\ [][Next]_vars

-------------------------------------------------------------------------------
(* Properties. *)

Labels ==
  {"idle", "readCredentials", "writeAttempts", "writePassword", "insertToken", "readUser",
   "rotate", "walkRead", "walkRevoke", "writeLogout", "markDisabled", "markEnabled", "sweep",
   "markDeleted", "writeRole"}

TablesOK ==
  /\ accounts \in [Users -> AccountRow]
  /\ credentials \in [Users -> CredentialRow]
  /\ tokens \in Seq(TokenRow) /\ mix \in Mixes /\ Len(tokens) <= mix.tokens
  /\ expired \in 0 .. Len(tokens) /\ purged \in 0 .. expired
  /\ \A a \in access : a \in AccessToken /\ a.asOf <= edits[a.user]
HandlersOK ==
  /\ pc \in [Workers -> Labels]
  /\ DOMAIN req = Workers
  /\ \A w \in Workers :
       IF pc[w] = "idle" THEN req[w] = NoRequest
       ELSE /\ req[w] \in Handler
            /\ {req[w].from, req[w].on, req[w].next} \subseteq Issued \union {NoToken}
            /\ pc[w] \in {"readUser", "rotate", "walkRead", "walkRevoke"} => req[w].from \in Issued
HistoryOK ==
  /\ DOMAIN born = Issued
  /\ \A t \in Issued : t \in born[t].lineage /\ born[t].lineage \subseteq 1 .. t
  /\ seen \in [Workers -> SUBSET Issued] /\ dirty \in [Workers -> BOOLEAN]
  /\ exposed \subseteq Issued /\ unswept \subseteq Users /\ undone \subseteq Users
  /\ edits \in [Users -> Nat] /\ ordered \in [Users -> AllRoles] /\ guesses \in [Users -> Nat]

(* Every table and handler has its type; and what replaces a token is      *)
(* younger than the token, so that revokeChain always comes to an end.     *)
TypeOK ==
  /\ TablesOK /\ HandlersOK /\ HistoryOK
  /\ \A t \in Issued : tokens[t].next = NoToken \/ (t < tokens[t].next /\ tokens[t].next \in Issued)

(* Rotation: a login has one valid token at a time.  Two of them descend   *)
(* from one login only if two refreshes of one token ran past each other.  *)
Forked(a, b) ==
  \E f \in forks : \/ f[1] \in born[a].lineage /\ f[2] \in born[b].lineage
                   \/ f[2] \in born[a].lineage /\ f[1] \in born[b].lineage
OneValidToken ==
  \A a, b \in Issued :
    /\ a # b /\ Live(a) /\ Live(b)
    /\ born[a].lineage \intersect born[b].lineage # {}
    => Forked(a, b)

(* "reuse-detection -> revoga a cadeia" (docs/ARCHITECTURE.md): once the   *)
(* reuse of a token has been detected and its chain followed to the end,   *)
(* nothing that descends from it is valid, except below a token that the   *)
(* chain does not lead to (the loser of a fork), or that was inserted over *)
(* one which was revoked already or was just being revoked.                *)
Parent(t) == Max(born[t].lineage \ {t})
OffChain(t) == born[t].late \/ tokens[Parent(t)].next # t
ReuseEndsSession ==
  \A t \in exposed, d \in Issued :
    /\ Live(d) /\ d # t /\ t \in born[d].lineage
    => \E x \in born[d].lineage : x > t /\ OffChain(x)

(* A disabled account holds no valid token once the handler that disabled  *)
(* it has swept, except one that was made by a request which had read the  *)
(* account before, by a password reset, or between the two statements of a *)
(* deletion, which sweeps before it marks.                                 *)
SweepPending(u) ==
  \E w \in Workers : pc[w] = "sweep" /\ req[w].op = "disable" /\ req[w].user = u
DisabledStayOut ==
  \A t \in Issued :
    /\ Live(t) /\ accounts[tokens[t].user].disabled
    /\ ~SweepPending(tokens[t].user) /\ tokens[t].user \notin unswept
    => born[t].slipped

(* A role is what an administrator last made it, unless a request came in  *)
(* with an access token that was signed from the account before that.      *)
RoleFollowsAdministrator ==
  \A u \in Users : accounts[u].role # ordered[u] => u \in undone

(* "lockout apos 5 tentativas": attempts are read and written back, so W   *)
(* requests at a time judge up to C(T + W - 1, W) wrong passwords before   *)
(* the account locks, T of them when W is one.                             *)
LockoutBounded ==
  \A u \in Users :
    guesses[u] < choose(Threshold + Cardinality(Workers) - 1, Cardinality(Workers))
===============================================================================
