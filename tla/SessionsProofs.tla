----------------------------- MODULE SessionsProofs -----------------------------
(***************************************************************************)
(* What Sessions promises of rotation and reuse, of closed accounts and of *)
(* roles and of wrong passwords, for any number of accounts, tokens and    *)
(* simultaneous requests; and, last, what the limiter before its routes    *)
(* promises.                                                               *)
(***************************************************************************)
EXTENDS Sessions, RateLimit, Sums

LEMMA SessionConstants ==
  /\ Masters \subseteq Users /\ FirstRole \in AllRoles /\ Roles \subseteq AllRoles
  /\ Threshold \in Nat \ {0} /\ IsFiniteSet(Workers)
  /\ \A m \in Mixes : m.tokens \in Nat /\ m.orders \in Nat
BY Zenon, SessionsAssumption

-------------------------------------------------------------------------------
(* Types, strengthened by what a handler at each statement is handling, by *)
(* the room that the handlers have for their tokens, and by the role       *)
(* changes that a handler and an access token know of.                     *)

OpsAt(label) ==
  CASE label \in {"readCredentials", "writeAttempts"} -> {"login", "guess"}
    [] label = "writePassword" -> {"reset"}
    [] label = "insertToken" -> {"login", "reset"}
    [] label \in {"readUser", "rotate"} -> {"refresh"}
    [] label \in {"walkRead", "walkRevoke"} -> {"reuse"}
    [] label = "writeLogout" -> {"logout"}
    [] label = "markDisabled" -> {"disable"}
    [] label = "markEnabled" -> {"enable"}
    [] label = "sweep" -> {"disable", "delete", "revokeAll"}
    [] label = "markDeleted" -> {"delete"}
    [] label = "writeRole" -> {"changeRole"}
    [] OTHER -> {}
Fits(label, r) ==
  IF label = "idle" THEN r = NoRequest
  ELSE /\ r \in Handler /\ r.op \in OpsAt(label)
       /\ {r.from, r.on, r.next} \subseteq Issued \union {NoToken}
       /\ label \in {"readUser", "rotate", "walkRead", "walkRevoke"} => r.from \in Issued
       /\ label \in {"walkRevoke", "writeLogout"} => r.on \in Issued
       /\ r.asOf <= edits[r.user]
HandlersFit ==
  /\ pc \in [Workers -> Labels]
  /\ DOMAIN req = Workers /\ \A w \in Workers : Fits(pc[w], req[w])
BirthRow == [lineage : SUBSET Nat, late : BOOLEAN, slipped : BOOLEAN]
NextIsYounger ==
  \A t \in Issued : tokens[t].next = NoToken \/ (t < tokens[t].next /\ tokens[t].next \in Issued)
RoomLeft == Cardinality(Inserting) + Len(tokens) <= mix.tokens

TypeInvariant ==
  /\ TablesOK /\ HandlersFit /\ HistoryOK /\ NextIsYounger
  /\ born \in Seq(BirthRow) /\ RoomLeft

-------------------------------------------------------------------------------
(* Who knows of every role change, knows the role.                         *)
RolesKnown ==
  /\ \A a \in access :
       a.asOf = edits[a.user] /\ a.user \notin undone => a.role = ordered[a.user]
  /\ \A w \in Workers :
       LET r == req[w]
       IN  pc[w] # "idle" /\ r.asOf = edits[r.user] /\ r.user \notin undone
             => r.role = ordered[r.user]
RoleInvariant == RolesKnown /\ RoleFollowsAdministrator

-------------------------------------------------------------------------------
(* Sessions of closed accounts: who is about to make a token knows that    *)
(* the account was closed since; between the two statements of a deletion  *)
(* only tokens that slipped are valid; and afterwards.                     *)
Valid(t) == ~tokens[t].revoked
MakersKnow ==
  \A w \in Workers :
    /\ pc[w] # "idle" /\ (req[w].op = "login" \/ pc[w] = "rotate")
    /\ accounts[req[w].user].disabled
    => dirty[w]
OnlySlipped(u) == \A t \in Issued : tokens[t].user = u /\ Valid(t) => born[t].slipped
DeletionSwept == \A w \in Workers : pc[w] = "markDeleted" => OnlySlipped(req[w].user)
ClosedSwept ==
  \A u \in Users :
    accounts[u].disabled /\ ~SweepPending(u) /\ u \notin unswept => OnlySlipped(u)
ClosedInvariant == MakersKnow /\ DeletionSwept /\ ClosedSwept

-------------------------------------------------------------------------------
(* Lineages: what a token descends from was rotated and revoked; two       *)
(* tokens that have an ancestor in common descend from one another or from *)
(* the two sides of a fork; and whoever rotates a token has seen whatever  *)
(* descends from it.                                                       *)
Lineage(t) == born[t].lineage
AncestorsRevoked ==
  \A a, b \in Issued : a \in Lineage(b) /\ a # b => ~Valid(a)
RelativesFork ==
  \A a, b \in Issued : Lineage(a) \intersect Lineage(b) # {} =>
    a \in Lineage(b) \/ b \in Lineage(a) \/ Forked(a, b)
RotatorsSaw ==
  \A w \in Workers : pc[w] \in {"readUser", "rotate"} =>
    \A b \in Issued : req[w].from \in Lineage(b) /\ b # req[w].from =>
      seen[w] \intersect Lineage(b) # {}
LineageInvariant == AncestorsRevoked /\ RelativesFork /\ RotatorsSaw

-------------------------------------------------------------------------------
(* The walk along a chain: the lineage of a token is the one of any token  *)
(* in it, and what came after; a token was rotated from the youngest other *)
(* in its lineage; and everything valid that descends from the reused      *)
(* token, and only by links of the chain, is ahead of the walker.          *)
Nested ==
  \A d \in Issued : \A x, a \in Lineage(d) : a <= x => a \in Lineage(x)
ParentsKnown ==
  \A x \in Issued :
    Lineage(x) = {x} \/ (Parent(x) \in Lineage(x) /\ Parent(x) < x)
ChildOnTheWay ==
  \A d \in Issued : \A a \in Lineage(d) \ {d} :
    \E x \in Lineage(d) : x > a /\ Parent(x) = a
TreeInvariant == Nested /\ ParentsKnown /\ ChildOnTheWay

OnChain(t, d) ==
  /\ t \in Lineage(d) /\ t # d
  /\ \A x \in Lineage(d) : x > t => ~OffChain(x)
Ahead(t, on) ==
  \A d \in Issued : OnChain(t, d) /\ Valid(d) => on # NoToken /\ on \in Lineage(d)
Walks(label, r) ==
  /\ label \in {"walkRead", "walkRevoke"} => ~Valid(r.from)
  /\ label = "walkRead" => Ahead(r.from, r.on) /\ (r.on = NoToken \/ r.on > r.from)
  /\ label = "walkRevoke" =>
       /\ \A d \in Issued : OnChain(r.from, d) /\ Valid(d) => d = r.on
       /\ r.next = NoToken \/ r.next > r.from
WalkersAhead == \A w \in Workers : Walks(pc[w], req[w])
Ended(t) == ~Valid(t) /\ \A d \in Issued : OnChain(t, d) => ~Valid(d)
ExposedEnded == \A t \in exposed : Ended(t)
WalkInvariant == WalkersAhead /\ ExposedEnded

-------------------------------------------------------------------------------
(* How a step changes the tokens that the others are handling: whose they  *)
(* are and what replaced them stays, and a revoked one stays revoked.      *)

TokensKept ==
  /\ tokens' \in Seq(TokenRow) /\ Issued' = Issued /\ Len(tokens') = Len(tokens)
  /\ \A t \in Issued : /\ tokens'[t].user = tokens[t].user /\ tokens'[t].next = tokens[t].next
                       /\ tokens[t].revoked => tokens'[t].revoked
EditsGrow ==
  /\ edits' \in [Users -> Nat]
  /\ \A u \in Users : edits[u] <= edits'[u]

(* A step that makes no token.                                             *)
Calm ==
  /\ TokensKept /\ EditsGrow
  /\ accounts' \in [Users -> AccountRow] /\ credentials' \in [Users -> CredentialRow]
  /\ mix' = mix /\ expired' \in 0 .. Len(tokens) /\ purged' \in 0 .. expired'
  /\ access' \subseteq access /\ born' = born
  /\ seen' \in [Workers -> SUBSET Issued] /\ dirty' \in [Workers -> BOOLEAN]
  /\ exposed' \subseteq Issued /\ unswept' \subseteq Users /\ undone' \subseteq Users
  /\ ordered' \in [Users -> AllRoles] /\ guesses' \in [Users -> Nat]

LEMMA TypeParts ==
  ASSUME TypeInvariant
  PROVE  /\ accounts \in [Users -> AccountRow] /\ credentials \in [Users -> CredentialRow]
         /\ tokens \in Seq(TokenRow) /\ mix \in Mixes
         /\ Len(tokens) \in Nat /\ Issued = 1 .. Len(tokens)
         /\ expired \in 0 .. Len(tokens) /\ purged \in 0 .. expired
         /\ \A t \in Issued : /\ tokens[t] \in TokenRow /\ tokens[t].user \in Users
                              /\ tokens[t].revoked \in BOOLEAN
                              /\ tokens[t].next \in Issued \union {NoToken} /\ t # NoToken
                              /\ born[t] \in BirthRow
         /\ seen \in [Workers -> SUBSET Issued] /\ dirty \in [Workers -> BOOLEAN]
         /\ exposed \subseteq Issued /\ unswept \subseteq Users /\ undone \subseteq Users
         /\ edits \in [Users -> Nat] /\ ordered \in [Users -> AllRoles]
         /\ guesses \in [Users -> Nat]
         /\ pc \in [Workers -> Labels] /\ DOMAIN req = Workers
<1>1. tokens \in Seq(TokenRow) /\ Len(tokens) \in Nat /\ Issued = 1 .. Len(tokens)
  BY DEF TypeInvariant, TablesOK, Issued
<1>2. \A t \in Issued : tokens[t] \in TokenRow BY <1>1
<1>3. \A t \in Issued : /\ tokens[t].user \in Users /\ tokens[t].revoked \in BOOLEAN
                        /\ tokens[t].next \in Issued \union {NoToken} /\ t # NoToken
  BY <1>1, <1>2 DEF TypeInvariant, NextIsYounger, TokenRow, NoToken
<1>4. \A t \in Issued : born[t] \in BirthRow BY DEF TypeInvariant, HistoryOK
<1> QED BY <1>1, <1>2, <1>3, <1>4 DEF TypeInvariant, TablesOK, HistoryOK, HandlersFit

LEMMA HandlerParts ==
  ASSUME TypeInvariant, NEW w \in Workers
  PROVE  /\ pc[w] = "idle" => req[w] = NoRequest
         /\ pc[w] # "idle" =>
              /\ req[w] \in Handler /\ req[w].op \in OpsAt(pc[w])
              /\ req[w].user \in Users /\ req[w].role \in AllRoles
              /\ req[w].asOf \in Nat /\ req[w].asOf <= edits[req[w].user]
              /\ req[w].failed \in 0 .. Threshold - 1
              /\ {req[w].from, req[w].on, req[w].next} \subseteq Issued \union {NoToken}
         /\ pc[w] \in {"readUser", "rotate", "walkRead", "walkRevoke"} => req[w].from \in Issued
         /\ pc[w] \in {"walkRevoke", "writeLogout"} => req[w].on \in Issued
<1>1. Fits(pc[w], req[w]) BY DEF TypeInvariant, HandlersFit
<1>2. pc[w] # "idle" => req[w] \in Handler BY <1>1 DEF Fits
<1> QED BY <1>1, <1>2 DEF Fits, Handler

LEMMA TokensIdle ==
  ASSUME TypeInvariant, UNCHANGED tokens
  PROVE  TokensKept
BY DEF TypeInvariant, TablesOK, TokensKept, Issued

LEMMA EditsIdle ==
  ASSUME TypeInvariant, UNCHANGED edits
  PROVE  EditsGrow
BY TypeParts DEF EditsGrow

(* revoked is all that revoking changes.                                   *)
LEMMA RevokeRows ==
  ASSUME TypeInvariant, NEW set, Revoke(set)
  PROVE  /\ TokensKept
         /\ \A t \in Issued :
              tokens'[t].revoked = (tokens[t].revoked \/ t \in set)
<1>1. /\ tokens' = [t \in Issued |-> [tokens[t] EXCEPT !.revoked = @ \/ t \in set]]
      /\ Len(tokens) \in Nat /\ Issued = 1 .. Len(tokens)
      /\ \A t \in Issued : tokens[t] \in TokenRow
  BY TypeParts DEF Revoke
<1>2. DOMAIN tokens' = Issued BY <1>1
<1>3. \A t \in Issued : tokens'[t] = [tokens[t] EXCEPT !.revoked = @ \/ t \in set] BY <1>1
<1>4. \A row \in TokenRow :
        /\ [row EXCEPT !.revoked = TRUE] \in TokenRow
        /\ [row EXCEPT !.revoked = TRUE].user = row.user
        /\ [row EXCEPT !.revoked = TRUE].next = row.next
        /\ [row EXCEPT !.revoked = TRUE].revoked
        /\ [row EXCEPT !.revoked = row.revoked] = row
  BY DEF TokenRow
<1>5. ASSUME NEW t \in Issued
      PROVE  /\ tokens'[t] \in TokenRow
             /\ tokens'[t].user = tokens[t].user /\ tokens'[t].next = tokens[t].next
             /\ tokens'[t].revoked = (tokens[t].revoked \/ t \in set)
  <2>1. tokens[t] \in TokenRow /\ tokens[t].revoked \in BOOLEAN BY <1>1, TypeParts
  <2>2. CASE t \in set
    <3>1. tokens'[t] = [tokens[t] EXCEPT !.revoked = TRUE] BY <1>3, <2>2
    <3> QED BY <1>4, <2>1, <2>2, <3>1
  <2>3. CASE t \notin set
    <3>1. tokens'[t] = [tokens[t] EXCEPT !.revoked = tokens[t].revoked] BY <1>3, <2>1, <2>3
    <3>2. tokens'[t] = tokens[t] BY <1>4, <2>1, <3>1
    <3> QED BY <2>1, <2>3, <3>2
  <2> QED BY <2>2, <2>3
<1>6. tokens' \in Seq(TokenRow) /\ Len(tokens') = Len(tokens)
  <2>1. tokens' = [t \in 1 .. Len(tokens) |-> tokens'[t]] BY <1>1
  <2> QED BY <1>1, <1>2, <1>5, <2>1
<1>7. Issued' = Issued BY <1>2 DEF Issued
<1> QED BY <1>5, <1>6, <1>7 DEF TokensKept

LEMMA FitsStable ==
  ASSUME TypeInvariant, Issued \subseteq Issued', EditsGrow, NEW label, NEW r, Fits(label, r)
  PROVE  Fits(label, r)'
<1>1. CASE label = "idle" BY <1>1 DEF Fits
<1>2. CASE label # "idle"
  <2>1. r \in Handler /\ r.asOf <= edits[r.user] BY <1>2 DEF Fits
  <2>2. r.asOf \in Nat /\ r.user \in Users BY <2>1 DEF Handler
  <2>3. r.asOf <= edits'[r.user] BY <2>1, <2>2, TypeParts DEF EditsGrow
  <2> QED BY <1>2, <2>3 DEF Fits
<1> QED BY <1>1, <1>2

LEMMA GotoFits ==
  ASSUME TypeInvariant, Issued \subseteq Issued', EditsGrow, NEW w \in Workers,
         NEW to \in Labels, NEW request, Fits(to, request), Goto(w, to, request)
  PROVE  HandlersFit'
<1>1. pc' \in [Workers -> Labels] /\ DOMAIN req' = Workers
  BY TypeParts DEF Goto
<1>2. ASSUME NEW v \in Workers PROVE Fits(pc[v], req[v])'
  <2>1. PICK label, r : label = pc'[v] /\ r = req'[v] OBVIOUS
  <2>2. Fits(label, r) BY <2>1, TypeParts DEF Goto, TypeInvariant, HandlersFit
  <2>3. Fits(label, r)' BY <2>2, FitsStable
  <2> QED BY <2>1, <2>3 DEF Fits
<1> QED BY <1>1, <1>2 DEF HandlersFit

LEMMA IdleFits ==
  ASSUME TypeInvariant, Issued \subseteq Issued', EditsGrow, UNCHANGED <<pc, req>>
  PROVE  HandlersFit'
<1>1. pc' \in [Workers -> Labels] /\ DOMAIN req' = Workers BY TypeParts
<1>2. ASSUME NEW v \in Workers PROVE Fits(pc[v], req[v])'
  <2>1. PICK label, r : label = pc[v] /\ r = req[v] OBVIOUS
  <2>2. Fits(label, r) BY <2>1 DEF TypeInvariant, HandlersFit
  <2>3. Fits(label, r)' BY <2>2, FitsStable
  <2> QED BY <2>1, <2>3 DEF Fits
<1> QED BY <1>1, <1>2 DEF HandlersFit

LEMMA InsertingFinite ==
  /\ IsFiniteSet(Inserting) /\ Cardinality(Inserting) \in Nat
  /\ IsFiniteSet(Inserting') /\ Cardinality(Inserting') \in Nat
BY SessionConstants, FS_Subset, FS_CardinalityType DEF Inserting

LEMMA CalmType ==
  ASSUME TypeInvariant, Calm, HandlersFit'
  PROVE  /\ TablesOK' /\ HandlersFit' /\ HistoryOK' /\ NextIsYounger' /\ (born \in Seq(BirthRow))'
         /\ Inserting' \subseteq Inserting => TypeInvariant'
<1>1. TablesOK'
  <2>1. mix.tokens \in Nat /\ Len(tokens) <= mix.tokens
    BY SessionConstants DEF TypeInvariant, TablesOK
  <2>2. \A a \in access' : a \in AccessToken /\ a.asOf <= edits'[a.user]
    <3>1. \A a \in access' : a \in AccessToken /\ a.asOf <= edits[a.user]
      BY DEF TypeInvariant, TablesOK, Calm
    <3> QED BY <3>1, TypeParts DEF AccessToken, Calm, EditsGrow
  <2>3. Len(tokens') = Len(tokens) /\ tokens' \in Seq(TokenRow) BY DEF Calm, TokensKept
  <2> QED BY <2>1, <2>2, <2>3, TypeParts DEF TablesOK, Calm
<1>2. HistoryOK'
  BY DEF TypeInvariant, HistoryOK, Calm, TokensKept, EditsGrow
<1>3. NextIsYounger'
  BY DEF TypeInvariant, NextIsYounger, Calm, TokensKept
<1>4. (born \in Seq(BirthRow))' BY DEF TypeInvariant, Calm
<1>5. ASSUME Inserting' \subseteq Inserting PROVE RoomLeft'
  <2>1. Cardinality(Inserting') <= Cardinality(Inserting) BY <1>5, InsertingFinite, FS_Subset
  <2>2. mix.tokens \in Nat /\ Len(tokens) \in Nat /\ Len(tokens') = Len(tokens) /\ mix' = mix
    BY TypeParts, SessionConstants DEF Calm, TokensKept
  <2>3. Cardinality(Inserting) + Len(tokens) <= mix.tokens BY DEF TypeInvariant, RoomLeft
  <2> QED BY <2>1, <2>2, <2>3, InsertingFinite DEF RoomLeft
<1> QED BY <1>1, <1>2, <1>3, <1>4, <1>5 DEF TypeInvariant

(* A handler that goes on, or ends, with or without room for a token.      *)
LEMMA CalmGoto ==
  ASSUME TypeInvariant, Calm, NEW w \in Workers, NEW to \in Labels, NEW request,
         Fits(to, request), Goto(w, to, request),
         request.op \in {"login", "reset", "refresh"} => req[w].op = request.op
  PROVE  TypeInvariant'
<1>1. HandlersFit' BY GotoFits DEF Calm, TokensKept
<1>2. Inserting' \subseteq Inserting BY TypeParts DEF Inserting, Goto
<1> QED BY <1>1, <1>2, CalmType

LEMMA CalmFinish ==
  ASSUME TypeInvariant, Calm, NEW w \in Workers, Finish(w)
  PROVE  TypeInvariant'
<1>1. "idle" \in Labels /\ Fits("idle", NoRequest) BY DEF Labels, Fits
<1>2. NoRequest.op \notin {"login", "reset", "refresh"} BY DEF NoRequest
<1> QED BY <1>1, <1>2, CalmGoto DEF Finish

LEMMA CalmIdle ==
  ASSUME TypeInvariant, Calm, UNCHANGED <<pc, req>>
  PROVE  TypeInvariant'
<1>1. HandlersFit' BY IdleFits DEF Calm, TokensKept
<1>2. Inserting' \subseteq Inserting BY DEF Inserting
<1> QED BY <1>1, <1>2, CalmType

-------------------------------------------------------------------------------
(* The steps that let a request in. *)

LEMMA CallParts ==
  ASSUME TypeInvariant, NEW op, NEW u \in Users,
         op \in {"login", "guess", "reset", "refresh", "reuse", "logout", "disable", "enable",
                 "delete", "revokeAll", "changeRole"}
  PROVE  /\ Call(op, u) \in Handler /\ Call(op, u).op = op /\ Call(op, u).user = u
         /\ Call(op, u).from = NoToken /\ Call(op, u).on = NoToken /\ Call(op, u).next = NoToken
         /\ Call(op, u).asOf = edits[u] /\ Call(op, u).role = accounts[u].role
<1>1. accounts[u].role \in AllRoles /\ edits[u] \in Nat
  BY TypeParts DEF AccountRow
<1>2. 0 \in 0 .. Threshold - 1 BY SessionConstants
<1> QED BY <1>1, <1>2 DEF Call, Handler

LEMMA CallFits ==
  ASSUME TypeInvariant, NEW to \in Labels \ {"idle"}, NEW op \in OpsAt(to), NEW u \in Users,
         op \in {"login", "guess", "reset", "refresh", "reuse", "logout", "disable", "enable",
                 "delete", "revokeAll", "changeRole"},
         to \notin {"readUser", "rotate", "walkRead", "walkRevoke", "writeLogout"}
  PROVE  Fits(to, Call(op, u))
<1> DEFINE request == Call(op, u)
<1>1. /\ request \in Handler /\ request.op = op /\ request.user = u
      /\ request.from = NoToken /\ request.on = NoToken /\ request.next = NoToken
      /\ request.asOf = edits[u]
  BY CallParts
<1> HIDE DEF request
<1>2. edits[u] \in Nat BY TypeParts
<1>3. Fits(to, request) BY <1>1, <1>2 DEF Fits
<1> QED BY <1>3 DEF request

LEMMA StartCalm ==
  ASSUME TypeInvariant, UNCHANGED <<tables, mix, ghosts>>
  PROVE  Calm
BY TypeParts, TokensIdle, EditsIdle DEF tables, ghosts, roleGhosts, Calm

(* Letting in a request that will not insert a token, or finds room for it. *)
LEMMA LetIn ==
  ASSUME TypeInvariant, NEW w \in Workers, NEW to \in Labels, NEW request, pc[w] = "idle",
         Fits(to, request), Goto(w, to, request), UNCHANGED <<tables, mix, ghosts>>,
         request.op \in {"login", "reset", "refresh"} => RoomForToken
  PROVE  TypeInvariant'
<1>1. Calm BY StartCalm
<1>2. CASE request.op \notin {"login", "reset", "refresh"} BY <1>1, <1>2, CalmGoto
<1>3. CASE RoomForToken
  <2>1. HandlersFit' BY <1>1, GotoFits DEF Calm, TokensKept
  <2> DEFINE S == Inserting
             T == Inserting'
  <2>2. T \subseteq S \union {w} BY TypeParts DEF Inserting, Goto
  <2>3. /\ IsFiniteSet(S) /\ Cardinality(S) \in Nat /\ Cardinality(T) \in Nat
    BY InsertingFinite
  <2>4. /\ mix.tokens \in Nat /\ Len(tokens) \in Nat /\ Len(tokens') = Len(tokens) /\ mix' = mix
        /\ Cardinality(S) + Len(tokens) < mix.tokens
    BY <1>1, <1>3, TypeParts, SessionConstants DEF Calm, TokensKept, RoomForToken
  <2> HIDE DEF S, T
  <2>5. /\ IsFiniteSet(S \union {w}) /\ Cardinality(S \union {w}) <= Cardinality(S) + 1
    <3>1. /\ IsFiniteSet(S \union {w})
          /\ Cardinality(S \union {w}) = IF w \in S THEN Cardinality(S) ELSE Cardinality(S) + 1
      BY <2>3, FS_AddElement
    <3> QED BY <2>3, <3>1
  <2>6. /\ Cardinality(T) <= Cardinality(S \union {w}) /\ Cardinality(S \union {w}) \in Nat
    BY <2>2, <2>5, FS_Subset, FS_CardinalityType
  <2>7. RoomLeft' BY <2>3, <2>4, <2>5, <2>6 DEF RoomLeft, T
  <2> QED BY <1>1, <2>1, <2>7, CalmType DEF TypeInvariant
<1> QED BY <1>2, <1>3

LEMMA SubmitType ==
  ASSUME TypeInvariant, NEW w \in Workers, Submit(w)
  PROVE  TypeInvariant'
<1>1. ASSUME NEW to \in Labels \ {"idle"}, NEW op \in OpsAt(to), NEW u \in Users,
             op \in {"login", "guess", "reset", "refresh", "reuse", "logout", "disable", "enable",
                     "delete", "revokeAll", "changeRole"},
             to \notin {"readUser", "rotate", "walkRead", "walkRevoke", "writeLogout"},
             op \in {"login", "reset", "refresh"} => RoomForToken, Start(w, op, to, Call(op, u))
      PROVE  TypeInvariant'
  <2> DEFINE request == Call(op, u)
  <2>1. Fits(to, request) /\ request.op = op BY <1>1, CallFits, CallParts
  <2>2. pc[w] = "idle" /\ Goto(w, to, request) /\ UNCHANGED <<tables, mix, ghosts>>
    BY <1>1 DEF Start
  <2> HIDE DEF request
  <2> QED BY <1>1, <2>1, <2>2, LetIn
<1>2. CASE SubmitLogin(w)
  <2>1. PICK op \in {"login", "guess"}, u \in Users :
          /\ op = "login" => RoomForToken
          /\ Start(w, op, "readCredentials", Call(op, u))
    BY <1>2 DEF SubmitLogin
  <2>2. "readCredentials" \in Labels \ {"idle"} /\ op \in OpsAt("readCredentials")
    BY DEF Labels, OpsAt
  <2> QED BY <1>1, <2>1, <2>2
<1>3. CASE SubmitReset(w)
  <2>1. "writePassword" \in Labels \ {"idle"} /\ "reset" \in OpsAt("writePassword")
    BY DEF Labels, OpsAt
  <2> QED BY <1>1, <1>3, <2>1 DEF SubmitReset
<1>4. CASE SubmitDisable(w)
  <2>1. "markDisabled" \in Labels \ {"idle"} /\ "disable" \in OpsAt("markDisabled")
    BY DEF Labels, OpsAt
  <2> QED BY <1>1, <1>4, <2>1 DEF SubmitDisable, Order
<1>5. CASE SubmitEnable(w)
  <2>1. "markEnabled" \in Labels \ {"idle"} /\ "enable" \in OpsAt("markEnabled")
    BY DEF Labels, OpsAt
  <2> QED BY <1>1, <1>5, <2>1 DEF SubmitEnable, Order
<1>6. CASE SubmitDelete(w)
  <2>1. "sweep" \in Labels \ {"idle"} /\ "delete" \in OpsAt("sweep")
    BY DEF Labels, OpsAt
  <2> QED BY <1>1, <1>6, <2>1 DEF SubmitDelete, Order
<1>7. CASE SubmitRevokeAll(w)
  <2>1. "sweep" \in Labels \ {"idle"} /\ "revokeAll" \in OpsAt("sweep")
    BY DEF Labels, OpsAt
  <2> QED BY <1>1, <1>7, <2>1 DEF SubmitRevokeAll
<1>8. CASE SubmitChangeRole(w)
  <2>1. "writeRole" \in Labels \ {"idle"} /\ "changeRole" \in OpsAt("writeRole")
    BY DEF Labels, OpsAt
  <2> QED BY <1>1, <1>8, <2>1 DEF SubmitChangeRole, Order
<1>9. CASE SubmitLogout(w)
  <2> DEFINE request(t) ==
        [Call("logout", tokens[t].user) EXCEPT !.from = t, !.on = t]
  <2>1. PICK t \in Issued : Start(w, "logout", "writeLogout", request(t))
    BY <1>9 DEF SubmitLogout, Stored
  <2>2. tokens[t].user \in Users /\ edits[tokens[t].user] \in Nat /\ t \in TokenIds
    BY TypeParts DEF TokenIds, NoToken
  <2>3. /\ request(t) \in Handler /\ request(t).op = "logout" /\ request(t).from = t
        /\ request(t).on = t /\ request(t).next = NoToken
        /\ request(t).user = tokens[t].user /\ request(t).asOf = edits[tokens[t].user]
    <3> DEFINE c == Call("logout", tokens[t].user)
    <3>1. /\ c \in Handler /\ c.op = "logout" /\ c.user = tokens[t].user
          /\ c.next = NoToken /\ c.asOf = edits[tokens[t].user]
      BY <2>2, CallParts
    <3> HIDE DEF c
    <3>2. request(t) = [c EXCEPT !.from = t, !.on = t] BY DEF c
    <3> HIDE DEF request
    <3> QED BY <2>2, <3>1, <3>2 DEF Handler
  <2>4. pc[w] = "idle" /\ Goto(w, "writeLogout", request(t)) /\ UNCHANGED <<tables, mix, ghosts>>
    BY <2>1 DEF Start
  <2> HIDE DEF request
  <2>5. Fits("writeLogout", request(t)) /\ "writeLogout" \in Labels
    BY <2>2, <2>3 DEF Fits, OpsAt, Labels
  <2> QED BY <2>3, <2>4, <2>5, LetIn
<1>10. CASE SubmitRefresh(w)
  <2> DEFINE call(t) ==
        [Call(IF Reused(t) THEN "reuse" ELSE "refresh", tokens[t].user) EXCEPT !.from = t]
  <2>1. PICK t \in Issued :
          IF Reused(t) THEN Start(w, "refresh", "walkRead", [call(t) EXCEPT !.on = tokens[t].next])
          ELSE t > expired /\ RoomForToken /\ Start(w, "refresh", "readUser", call(t))
    BY <1>10 DEF SubmitRefresh, Stored
  <2>2. /\ tokens[t].user \in Users /\ edits[tokens[t].user] \in Nat /\ t \in TokenIds
        /\ tokens[t].next \in Issued \union {NoToken}
        /\ tokens[t].next \in TokenIds \union {NoToken}
    BY TypeParts DEF TokenIds, NoToken
  <2>3. CASE Reused(t)
    <3> DEFINE request == [call(t) EXCEPT !.on = tokens[t].next]
    <3>1. /\ request \in Handler /\ request.op = "reuse" /\ request.from = t
          /\ request.on = tokens[t].next /\ request.next = NoToken
          /\ request.user = tokens[t].user /\ request.asOf = edits[tokens[t].user]
      <4> DEFINE c == Call("reuse", tokens[t].user)
      <4>1. /\ c \in Handler /\ c.op = "reuse" /\ c.user = tokens[t].user
            /\ c.next = NoToken /\ c.asOf = edits[tokens[t].user]
        BY <2>2, CallParts
      <4>2. request = [[c EXCEPT !.from = t] EXCEPT !.on = tokens[t].next] BY <2>3
      <4> HIDE DEF request, c
      <4>3. request = [c EXCEPT !.from = t, !.on = tokens[t].next] BY <4>1, <4>2 DEF Handler
      <4> QED BY <2>2, <4>1, <4>3 DEF Handler
    <3>2. pc[w] = "idle" /\ Goto(w, "walkRead", request) /\ UNCHANGED <<tables, mix, ghosts>>
      BY <2>1, <2>3 DEF Start
    <3> HIDE DEF request, call
    <3>3. Fits("walkRead", request) /\ "walkRead" \in Labels
      BY <2>2, <3>1 DEF Fits, OpsAt, Labels
    <3> QED BY <3>1, <3>2, <3>3, LetIn
  <2>4. CASE ~Reused(t)
    <3>1. /\ call(t) \in Handler /\ call(t).op = "refresh" /\ call(t).from = t
          /\ call(t).on = NoToken /\ call(t).next = NoToken
          /\ call(t).user = tokens[t].user /\ call(t).asOf = edits[tokens[t].user]
      BY <2>2, <2>4, CallParts DEF Handler
    <3>2. /\ pc[w] = "idle" /\ Goto(w, "readUser", call(t)) /\ UNCHANGED <<tables, mix, ghosts>>
          /\ RoomForToken
      BY <2>1, <2>4 DEF Start
    <3> HIDE DEF call
    <3>3. Fits("readUser", call(t)) /\ "readUser" \in Labels
      BY <2>2, <3>1 DEF Fits, OpsAt, Labels
    <3> QED BY <3>1, <3>2, <3>3, LetIn
  <2> QED BY <2>3, <2>4
<1> QED BY <1>2, <1>3, <1>4, <1>5, <1>6, <1>7, <1>8, <1>9, <1>10 DEF Submit

-------------------------------------------------------------------------------
(* The steps of a request that make no token. *)

LEMMA ForgetType ==
  ASSUME TypeInvariant, NEW w \in Workers, Forget(w)
  PROVE  seen' \in [Workers -> SUBSET Issued] /\ dirty' \in [Workers -> BOOLEAN]
BY TypeParts DEF Forget

LEMMA ClosedType ==
  ASSUME TypeInvariant, NEW w \in Workers, NEW u, Closed(w, u)
  PROVE  dirty' \in [Workers -> BOOLEAN]
BY TypeParts DEF Closed

LEMMA ReadCredentialsType ==
  ASSUME TypeInvariant, NEW w \in Workers, ReadCredentials(w)
  PROVE  TypeInvariant'
<1>1. /\ pc[w] = "readCredentials"
      /\ UNCHANGED <<tables, mix, orders, born, forks, exposed, unswept, roleGhosts, guesses>>
  BY DEF ReadCredentials
<1>2. /\ req[w] \in Handler /\ req[w].op \in {"login", "guess"} /\ req[w].user \in Users
      /\ {req[w].from, req[w].on, req[w].next} \subseteq Issued \union {NoToken}
      /\ req[w].asOf <= edits[req[w].user]
  BY <1>1, HandlerParts DEF OpsAt
<1>3. Calm
  <2>1. seen' \in [Workers -> SUBSET Issued] /\ dirty' \in [Workers -> BOOLEAN]
    BY ForgetType, TypeParts DEF ReadCredentials
  <2> QED BY <1>1, <2>1, TypeParts, TokensIdle, EditsIdle DEF tables, roleGhosts, Calm
<1>4. CASE Finish(w) BY <1>3, <1>4, CalmFinish
<1>5. CASE ~Finish(w)
  <2> DEFINE c == credentials[req[w].user]
             request == [req[w] EXCEPT !.failed = c.failed]
  <2>1. Goto(w, "writeAttempts", request) BY <1>5 DEF ReadCredentials
  <2>2. c.failed \in 0 .. Threshold - 1 BY <1>2, TypeParts DEF CredentialRow
  <2>3. /\ request \in Handler /\ request.op = req[w].op /\ request.from = req[w].from
        /\ request.on = req[w].on /\ request.next = req[w].next
        /\ request.asOf = req[w].asOf /\ request.user = req[w].user
    BY <1>2, <2>2 DEF Handler
  <2> HIDE DEF request
  <2>4. Fits("writeAttempts", request) /\ "writeAttempts" \in Labels
    BY <1>2, <2>3 DEF Fits, OpsAt, Labels
  <2> QED BY <1>3, <2>1, <2>3, <2>4, CalmGoto
<1> QED BY <1>4, <1>5

LEMMA AttemptsType ==
  ASSUME TypeInvariant, NEW w \in Workers, WriteAttempts(w) \/ WritePassword(w)
  PROVE  TypeInvariant'
<1>1. /\ pc[w] \in {"writeAttempts", "writePassword"}
      /\ UNCHANGED <<accounts, tokens, expired, purged, access, mix, orders, born, forks,
                     exposed, unswept, roleGhosts>>
  BY DEF WriteAttempts, WritePassword
<1>2. /\ req[w] \in Handler /\ req[w].user \in Users /\ req[w].failed \in 0 .. Threshold - 1
      /\ pc[w] = "writeAttempts" => req[w].op \in {"login", "guess"}
      /\ pc[w] = "writePassword" => req[w].op = "reset"
      /\ {req[w].from, req[w].on, req[w].next} \subseteq Issued \union {NoToken}
      /\ req[w].asOf <= edits[req[w].user]
  BY <1>1, HandlerParts DEF OpsAt
<1>3. Cleared \in CredentialRow
      /\ \A c \in CredentialRow : AfterWrong(c, req[w].failed) \in CredentialRow
  BY <1>2, SessionConstants DEF Cleared, AfterWrong, Locks, CredentialRow
<1>4. credentials' \in [Users -> CredentialRow]
  <2>1. PICK row : /\ credentials' = [credentials EXCEPT ![req[w].user] = row]
                   /\ \/ row = AfterWrong(credentials[req[w].user], req[w].failed)
                      \/ row = Cleared
    BY DEF WriteAttempts, WritePassword
  <2>2. credentials[req[w].user] \in CredentialRow BY <1>2, TypeParts
  <2>3. row \in CredentialRow BY <1>3, <2>1, <2>2
  <2> QED BY <1>2, <2>1, <2>3, TypeParts
<1>5. guesses' \in [Users -> Nat]
  BY <1>2, TypeParts DEF WriteAttempts, WritePassword
<1>6. seen' \in [Workers -> SUBSET Issued] /\ dirty' \in [Workers -> BOOLEAN]
  BY ForgetType, TypeParts DEF WriteAttempts, WritePassword
<1>7. Calm
  BY <1>1, <1>4, <1>5, <1>6, TypeParts, TokensIdle, EditsIdle DEF roleGhosts, Calm
<1>8. CASE Finish(w) BY <1>7, <1>8, CalmFinish
<1>9. CASE ~Finish(w)
  <2>1. Goto(w, "insertToken", req[w]) /\ req[w].op # "guess"
    BY <1>2, <1>9 DEF WriteAttempts, WritePassword
  <2>2. Fits("insertToken", req[w]) /\ "insertToken" \in Labels
    BY <1>1, <1>2, <2>1 DEF Fits, OpsAt, Labels
  <2> QED BY <1>7, <2>1, <2>2, CalmGoto
<1> QED BY <1>8, <1>9

LEMMA ReadUserType ==
  ASSUME TypeInvariant, NEW w \in Workers, ReadUser(w)
  PROVE  TypeInvariant'
<1>1. /\ pc[w] = "readUser"
      /\ UNCHANGED <<tables, mix, orders, born, forks, exposed, unswept, roleGhosts, guesses>>
  BY DEF ReadUser
<1>2. /\ req[w] \in Handler /\ req[w].op = "refresh" /\ req[w].user \in Users
      /\ {req[w].from, req[w].on, req[w].next} \subseteq Issued \union {NoToken}
      /\ req[w].from \in Issued
  BY <1>1, HandlerParts DEF OpsAt
<1>3. Calm
  <2>1. seen' \in [Workers -> SUBSET Issued] /\ dirty' \in [Workers -> BOOLEAN]
    BY ForgetType, TypeParts DEF ReadUser
  <2> QED BY <1>1, <2>1, TypeParts, TokensIdle, EditsIdle DEF tables, roleGhosts, Calm
<1>4. CASE Finish(w) BY <1>3, <1>4, CalmFinish
<1>5. CASE ~Finish(w)
  <2> DEFINE u == req[w].user
             request == [req[w] EXCEPT !.role = accounts[u].role, !.asOf = edits[u]]
  <2>1. Goto(w, "rotate", request) BY <1>5 DEF ReadUser
  <2>2. accounts[u].role \in AllRoles /\ edits[u] \in Nat BY <1>2, TypeParts DEF AccountRow
  <2>3. /\ request \in Handler /\ request.op = req[w].op /\ request.from = req[w].from
        /\ request.on = req[w].on /\ request.next = req[w].next
        /\ request.asOf = edits[u] /\ request.user = u
    BY <1>2, <2>2 DEF Handler
  <2> HIDE DEF request
  <2>4. Fits("rotate", request) /\ "rotate" \in Labels
    BY <1>2, <2>2, <2>3 DEF Fits, OpsAt, Labels
  <2> QED BY <1>3, <2>1, <2>3, <2>4, CalmGoto
<1> QED BY <1>4, <1>5

(* Where a walker goes is a token that was issued, or none.                *)
LEMMA WalkType ==
  ASSUME TypeInvariant, NEW w \in Workers, WalkRead(w) \/ WalkRevoke(w)
  PROVE  TypeInvariant'
<1>1. /\ pc[w] \in {"walkRead", "walkRevoke"}
      /\ UNCHANGED <<accounts, credentials, expired, purged, access, mix, orders, born, forks,
                     unswept, roleGhosts, guesses>>
  BY DEF WalkRead, WalkRevoke, tables, ghosts
<1>2. /\ req[w] \in Handler /\ req[w].op = "reuse" /\ req[w].user \in Users
      /\ {req[w].from, req[w].on, req[w].next} \subseteq Issued \union {NoToken}
      /\ req[w].from \in Issued /\ req[w].asOf <= edits[req[w].user]
      /\ pc[w] = "walkRevoke" => req[w].on \in Issued
  BY <1>1, HandlerParts DEF OpsAt
<1>3. seen' \in [Workers -> SUBSET Issued] /\ dirty' \in [Workers -> BOOLEAN]
  BY ForgetType, TypeParts DEF WalkRead, WalkRevoke, ghosts
<1>4. exposed' \subseteq Issued BY <1>2, TypeParts DEF WalkRead, WalkRevoke, ghosts
<1>5. TokensKept BY TokensIdle, RevokeRows DEF WalkRead, WalkRevoke, tables
<1>6. Calm BY <1>1, <1>3, <1>4, <1>5, TypeParts, EditsIdle DEF roleGhosts, Calm
<1>7. \A n \in Issued \union {NoToken} : n \in TokenIds \union {NoToken}
  BY TypeParts DEF TokenIds, NoToken
<1>8. CASE WalkRevoke(w)
  <2> DEFINE request == [req[w] EXCEPT !.on = req[w].next, !.next = NoToken]
  <2>1. Goto(w, "walkRead", request) BY <1>8 DEF WalkRevoke
  <2>2. /\ request \in Handler /\ request.op = "reuse" /\ request.from = req[w].from
        /\ request.on = req[w].next /\ request.next = NoToken
        /\ request.asOf = req[w].asOf /\ request.user = req[w].user
    BY <1>2, <1>7 DEF Handler
  <2> HIDE DEF request
  <2>3. Fits("walkRead", request) /\ "walkRead" \in Labels
    BY <1>2, <2>2 DEF Fits, OpsAt, Labels
  <2> QED BY <1>6, <2>1, <2>2, <2>3, CalmGoto
<1>9. CASE WalkRead(w) /\ req[w].on \notin Stored
  <2>1. Finish(w) BY <1>9 DEF WalkRead
  <2> QED BY <1>6, <2>1, CalmFinish
<1>10. CASE WalkRead(w) /\ req[w].on \in Stored
  <2> DEFINE on == req[w].on
             next == Onward(tokens[on])
             request1 == [req[w] EXCEPT !.on = next]
             request2 == [req[w] EXCEPT !.next = next]
  <2>1. on \in Issued BY <1>10 DEF Stored
  <2>2. next \in Issued \union {NoToken} BY <2>1, TypeParts DEF Onward
  <2>3. CASE tokens[on].revoked
    <3>1. Goto(w, "walkRead", request1) BY <1>10, <2>3 DEF WalkRead
    <3> HIDE DEF next
    <3>2. /\ request1 \in Handler /\ request1.op = "reuse" /\ request1.from = req[w].from
          /\ request1.on = next /\ request1.next = req[w].next
          /\ request1.asOf = req[w].asOf /\ request1.user = req[w].user
      BY <1>2, <1>7, <2>2 DEF Handler
    <3> HIDE DEF request1
    <3>3. Fits("walkRead", request1) /\ "walkRead" \in Labels
      BY <1>2, <2>2, <3>2 DEF Fits, OpsAt, Labels
    <3> QED BY <1>6, <3>1, <3>2, <3>3, CalmGoto
  <2>4. CASE ~tokens[on].revoked
    <3>1. Goto(w, "walkRevoke", request2) BY <1>10, <2>4 DEF WalkRead
    <3> HIDE DEF next
    <3>2. /\ request2 \in Handler /\ request2.op = "reuse" /\ request2.from = req[w].from
          /\ request2.on = on /\ request2.next = next
          /\ request2.asOf = req[w].asOf /\ request2.user = req[w].user
      BY <1>2, <1>7, <2>2 DEF Handler
    <3> HIDE DEF request2
    <3>3. Fits("walkRevoke", request2) /\ "walkRevoke" \in Labels
      BY <1>2, <2>1, <2>2, <3>2 DEF Fits, OpsAt, Labels
    <3> QED BY <1>6, <3>1, <3>2, <3>3, CalmGoto
  <2> QED BY <2>3, <2>4
<1> QED BY <1>8, <1>9, <1>10

LEMMA LogoutType ==
  ASSUME TypeInvariant, NEW w \in Workers, WriteLogout(w)
  PROVE  TypeInvariant'
<1>1. /\ Revoke({req[w].on}) /\ Finish(w) /\ Forget(w)
      /\ UNCHANGED <<accounts, credentials, expired, purged, access, mix, orders, born, forks,
                     exposed, unswept, roleGhosts, guesses>>
  BY DEF WriteLogout
<1>2. Calm BY <1>1, TypeParts, RevokeRows, EditsIdle, ForgetType DEF roleGhosts, Calm
<1> QED BY <1>1, <1>2, CalmFinish

(* What the administrator's handlers write. *)
LEMMA SetAccountType ==
  ASSUME TypeInvariant, NEW u \in Users, NEW row \in AccountRow, SetAccount(u, row)
  PROVE  accounts' \in [Users -> AccountRow]
BY TypeParts DEF SetAccount

LEMMA MarkType ==
  ASSUME TypeInvariant, NEW w \in Workers,
         MarkDisabled(w) \/ MarkEnabled(w) \/ MarkDeleted(w)
  PROVE  TypeInvariant'
<1> DEFINE u == req[w].user
<1>1. /\ pc[w] \in {"markDisabled", "markEnabled", "markDeleted"}
      /\ UNCHANGED <<credentials, tokens, expired, purged, access, mix, orders, born, forks,
                     exposed, unswept, roleGhosts, guesses>>
  BY DEF MarkDisabled, MarkEnabled, MarkDeleted
<1>2. /\ req[w] \in Handler /\ u \in Users
      /\ pc[w] = "markDisabled" => req[w].op = "disable"
      /\ {req[w].from, req[w].on, req[w].next} \subseteq Issued \union {NoToken}
      /\ req[w].asOf <= edits[u]
  BY <1>1, HandlerParts DEF OpsAt
<1>3. accounts' \in [Users -> AccountRow]
  <2>1. \E row \in AccountRow : SetAccount(u, row)
    <3>1. accounts[u] \in AccountRow BY <1>2, TypeParts
    <3> HIDE DEF u
    <3>2. /\ [accounts[u] EXCEPT !.disabled = TRUE] \in AccountRow
          /\ [accounts[u] EXCEPT !.disabled = FALSE] \in AccountRow
          /\ [accounts[u] EXCEPT !.disabled = TRUE, !.deleted = TRUE] \in AccountRow
      BY <3>1 DEF AccountRow
    <3> QED BY <3>2 DEF MarkDisabled, MarkEnabled, MarkDeleted, u
  <2> QED BY <1>2, <2>1, SetAccountType
<1>4. seen' \in [Workers -> SUBSET Issued] /\ dirty' \in [Workers -> BOOLEAN]
  BY ForgetType, ClosedType, TypeParts DEF MarkDisabled, MarkEnabled, MarkDeleted
<1>5. Calm BY <1>1, <1>3, <1>4, TypeParts, TokensIdle, EditsIdle DEF roleGhosts, Calm
<1>6. CASE Finish(w) BY <1>5, <1>6, CalmFinish
<1>7. CASE ~Finish(w)
  <2>1. Goto(w, "sweep", req[w]) /\ pc[w] = "markDisabled"
    BY <1>7 DEF MarkDisabled, MarkEnabled, MarkDeleted
  <2>2. Fits("sweep", req[w]) /\ "sweep" \in Labels
    BY <1>2, <2>1 DEF Fits, OpsAt, Labels
  <2> QED BY <1>5, <2>1, <2>2, CalmGoto
<1> QED BY <1>6, <1>7

LEMMA SweepType ==
  ASSUME TypeInvariant, NEW w \in Workers, Sweep(w)
  PROVE  TypeInvariant'
<1>1. /\ pc[w] = "sweep" /\ Revoke(SessionsOf(req[w].user)) /\ Closed(w, req[w].user)
      /\ unswept' = unswept \ {req[w].user}
      /\ UNCHANGED <<accounts, credentials, expired, purged, access, mix, orders, born, seen,
                     forks, exposed, roleGhosts, guesses>>
  BY DEF Sweep
<1>2. /\ req[w] \in Handler
      /\ {req[w].from, req[w].on, req[w].next} \subseteq Issued \union {NoToken}
      /\ req[w].asOf <= edits[req[w].user]
  BY <1>1, HandlerParts
<1>3. Calm BY <1>1, TypeParts, RevokeRows, EditsIdle, ClosedType DEF roleGhosts, Calm
<1>4. CASE Finish(w) BY <1>3, <1>4, CalmFinish
<1>5. CASE ~Finish(w)
  <2>1. Goto(w, "markDeleted", req[w]) /\ req[w].op = "delete" BY <1>5 DEF Sweep
  <2>2. Fits("markDeleted", req[w]) /\ "markDeleted" \in Labels
    BY <1>2, <2>1 DEF Fits, OpsAt, Labels
  <2> QED BY <1>3, <2>1, <2>2, CalmGoto
<1> QED BY <1>4, <1>5

LEMMA WriteRoleType ==
  ASSUME TypeInvariant, NEW w \in Workers, WriteRole(w)
  PROVE  TypeInvariant'
<1> DEFINE u == req[w].user
<1>1. /\ pc[w] = "writeRole" /\ Finish(w) /\ Forget(w)
      /\ UNCHANGED <<credentials, tokens, expired, purged, access, mix, orders, born, forks,
                     exposed, unswept, guesses>>
  BY DEF WriteRole
<1>2. u \in Users BY <1>1, HandlerParts
<1>3. PICK role \in Roles :
        /\ SetAccount(u, [accounts[u] EXCEPT !.role = role])
        /\ edits' = [edits EXCEPT ![u] = @ + 1]
        /\ ordered' = [ordered EXCEPT ![u] = role]
        /\ undone' = undone \ {u}
  BY DEF WriteRole
<1> HIDE DEF u
<1>4. role \in AllRoles BY SessionConstants
<1>5. accounts' \in [Users -> AccountRow]
  <2>1. accounts[u] \in AccountRow BY <1>2, TypeParts
  <2>2. [accounts[u] EXCEPT !.role = role] \in AccountRow BY <1>4, <2>1 DEF AccountRow
  <2> QED BY <1>2, <1>3, <2>2, SetAccountType
<1>6. EditsGrow /\ ordered' \in [Users -> AllRoles] /\ undone' \subseteq Users
  BY <1>2, <1>3, <1>4, TypeParts DEF EditsGrow
<1>7. Calm BY <1>1, <1>5, <1>6, TypeParts, TokensIdle, ForgetType DEF Calm
<1> QED BY <1>1, <1>7, CalmFinish

LEMMA DieType ==
  ASSUME TypeInvariant, NEW w \in Workers, Die(w)
  PROVE  TypeInvariant'
<1>1. /\ pc[w] # "idle" /\ Finish(w) /\ Forget(w)
      /\ UNCHANGED <<tables, mix, orders, born, forks, exposed, roleGhosts, guesses>>
  BY DEF Die
<1>2. unswept' \subseteq Users BY <1>1, HandlerParts, TypeParts DEF Die
<1>3. Calm
  BY <1>1, <1>2, TypeParts, TokensIdle, EditsIdle, ForgetType DEF tables, roleGhosts, Calm
<1> QED BY <1>1, <1>3, CalmFinish

-------------------------------------------------------------------------------
(* The steps that are no request's. *)

LEMMA ElsewhereType ==
  ASSUME TypeInvariant,
         \/ SyncFromToken \/ AccessExpires \/ Unlock \/ TokenExpires \/ NightlyCleanup
         \/ UNCHANGED vars
  PROVE  TypeInvariant'
<1>1. CASE SyncFromToken
  <2>1. PICK a \in access :
          /\ SetAccount(a.user, [accounts[a.user] EXCEPT !.role = ExtractRole(a.role)])
          /\ undone' = IF a.asOf < edits[a.user] THEN undone \union {a.user} ELSE undone
    BY <1>1 DEF SyncFromToken
  <2>2. a.user \in Users /\ a.role \in AllRoles
    BY DEF TypeInvariant, TablesOK, AccessToken
  <2>3. accounts' \in [Users -> AccountRow]
    <3>1. accounts[a.user] \in AccountRow BY <2>2, TypeParts
    <3>2. [accounts[a.user] EXCEPT !.role = ExtractRole(a.role)] \in AccountRow
      BY <2>2, <3>1 DEF AccountRow, ExtractRole
    <3> QED BY <2>1, <2>2, <3>2, SetAccountType
  <2>4. undone' \subseteq Users BY <2>1, <2>2, TypeParts
  <2>5. Calm
    BY <1>1, <2>3, <2>4, TypeParts, TokensIdle, EditsIdle DEF SyncFromToken, Calm
  <2> QED BY <1>1, <2>5, CalmIdle DEF SyncFromToken
<1>2. CASE AccessExpires
  <2>1. access' \subseteq access BY <1>2 DEF AccessExpires
  <2>2. Calm
    BY <1>2, <2>1, TypeParts, TokensIdle, EditsIdle DEF AccessExpires, ghosts, roleGhosts, Calm
  <2> QED BY <1>2, <2>2, CalmIdle DEF AccessExpires
<1>3. CASE Unlock
  <2>1. credentials' \in [Users -> CredentialRow]
    <3>1. PICK u \in Users : credentials' = [credentials EXCEPT ![u].locked = FALSE]
      BY <1>3 DEF Unlock
    <3>2. credentials[u] \in CredentialRow BY TypeParts
    <3>3. [credentials[u] EXCEPT !.locked = FALSE] \in CredentialRow BY <3>2 DEF CredentialRow
    <3> QED BY <3>1, <3>3, TypeParts
  <2>2. Calm
    BY <1>3, <2>1, TypeParts, TokensIdle, EditsIdle DEF Unlock, ghosts, roleGhosts, Calm
  <2> QED BY <1>3, <2>2, CalmIdle DEF Unlock
<1>4. CASE TokenExpires \/ NightlyCleanup
  <2>1. expired' \in 0 .. Len(tokens) /\ purged' \in 0 .. expired'
    BY <1>4, TypeParts DEF TokenExpires, NightlyCleanup
  <2>2. Calm
    BY <1>4, <2>1, TypeParts, TokensIdle, EditsIdle
    DEF TokenExpires, NightlyCleanup, ghosts, roleGhosts, Calm
  <2> QED BY <1>4, <2>2, CalmIdle DEF TokenExpires, NightlyCleanup
<1>5. CASE UNCHANGED vars
  <2>1. Calm
    BY <1>5, TypeParts, TokensIdle, EditsIdle DEF vars, tables, ghosts, roleGhosts, Calm
  <2> QED BY <1>5, <2>1, CalmIdle DEF vars
<1> QED BY <1>1, <1>2, <1>3, <1>4, <1>5

-------------------------------------------------------------------------------
(* The steps that make a token: an insertion, and a rotation. *)

NextId == Len(tokens) + 1
Makes(w) == InsertToken(w) \/ Rotate(w)

LEMMA BornParts ==
  ASSUME TypeInvariant
  PROVE  /\ born \in Seq(BirthRow) /\ Len(born) = Len(tokens) /\ DOMAIN born = Issued
         /\ \A t \in Issued : /\ born[t] \in BirthRow /\ Lineage(t) \subseteq Issued
                              /\ t \in Lineage(t) /\ Lineage(t) \subseteq 1 .. t
                              /\ born[t].slipped \in BOOLEAN /\ born[t].late \in BOOLEAN
<1>1. born \in Seq(BirthRow) /\ DOMAIN born = 1 .. Len(born) /\ Len(born) \in Nat
  BY DEF TypeInvariant
<1>2. DOMAIN born = Issued /\ Issued = 1 .. Len(tokens) /\ Len(tokens) \in Nat
  BY TypeParts DEF TypeInvariant, HistoryOK
<1>3. Len(born) = Len(tokens) BY <1>1, <1>2
<1>4. \A t \in Issued : t \in Lineage(t) /\ Lineage(t) \subseteq 1 .. t
  BY DEF TypeInvariant, HistoryOK, Lineage
<1>5. \A t \in Issued : Lineage(t) \subseteq Issued
  <2>1. \A t \in Issued : 1 .. t \subseteq Issued BY <1>2
  <2> QED BY <1>4, <2>1
<1>6. \A t \in Issued : /\ born[t] \in BirthRow /\ born[t].slipped \in BOOLEAN
                        /\ born[t].late \in BOOLEAN
  <2>1. \A t \in Issued : born[t] \in BirthRow BY TypeParts
  <2> QED BY <2>1 DEF BirthRow
<1> QED BY <1>1, <1>2, <1>3, <1>4, <1>5, <1>6

LEMMA MakesParts ==
  ASSUME TypeInvariant, NEW w \in Workers, Makes(w)
  PROVE  /\ req[w] \in Handler /\ req[w].user \in Users /\ req[w].role \in AllRoles
         /\ req[w].asOf \in Nat /\ req[w].asOf <= edits[req[w].user]
         /\ req[w].op \in {"login", "reset", "refresh"} /\ pc[w] \in {"insertToken", "rotate"}
         /\ Rotate(w) => req[w].from \in Issued /\ req[w].op = "refresh" /\ pc[w] = "rotate"
         /\ InsertToken(w) => req[w].op # "refresh" /\ pc[w] = "insertToken"
         /\ Finish(w)
         /\ UNCHANGED <<accounts, credentials, expired, purged, mix, exposed, unswept, roleGhosts,
                        guesses>>
         /\ Sign(req[w])
<1>1. /\ Finish(w) /\ Sign(req[w])
      /\ UNCHANGED <<accounts, credentials, expired, purged, mix, exposed, unswept, roleGhosts,
                     guesses>>
  BY DEF Makes, InsertToken, Rotate
<1>2. pc[w] \in {"insertToken", "rotate"} /\ (Rotate(w) => pc[w] = "rotate")
      /\ (InsertToken(w) => pc[w] = "insertToken")
  BY DEF Makes, InsertToken, Rotate
<1>3. /\ pc[w] = "insertToken" => req[w].op \in {"login", "reset"}
      /\ pc[w] = "rotate" => req[w].op = "refresh" /\ req[w].from \in Issued
  BY HandlerParts DEF OpsAt
<1> QED BY <1>1, <1>2, <1>3, HandlerParts

(* The tokens and how they were born, after an insertion or a rotation.    *)
LEMMA MakesTokens ==
  ASSUME TypeInvariant, NEW w \in Workers, Makes(w)
  PROVE  /\ tokens' \in Seq(TokenRow) /\ NextId \in Nat \ {NoToken}
         /\ Len(tokens') = NextId /\ NextId \notin Issued /\ Issued' = Issued \union {NextId}
         /\ \A t \in Issued : t < NextId
         /\ tokens'[NextId] = NewToken(req[w].user)
         /\ \A t \in Issued : /\ tokens'[t].user = tokens[t].user
                              /\ tokens[t].revoked => tokens'[t].revoked
         /\ InsertToken(w) => \A t \in Issued : tokens'[t] = tokens[t]
         /\ Rotate(w) =>
              /\ \A t \in Issued \ {req[w].from} : tokens'[t] = tokens[t]
              /\ tokens'[req[w].from].revoked /\ tokens'[req[w].from].next = NextId
<1>1. /\ Len(tokens) \in Nat /\ Issued = 1 .. Len(tokens) /\ tokens \in Seq(TokenRow)
      /\ \A t \in Issued : tokens[t] \in TokenRow
  BY TypeParts
<1>2. NextId \in Nat \ {NoToken} /\ NextId \notin Issued /\ \A t \in Issued : t < NextId
  BY <1>1 DEF NextId, NoToken
<1>3. NewToken(req[w].user) \in TokenRow BY MakesParts DEF NewToken, TokenRow
<1> DEFINE new == NewToken(req[w].user)
<1> HIDE DEF new
<1>4. CASE InsertToken(w)
  <2>1. tokens' = Append(tokens, new) BY <1>4 DEF InsertToken, new
  <2>2. /\ tokens' \in Seq(TokenRow) /\ Len(tokens') = Len(tokens) + 1
        /\ tokens'[Len(tokens) + 1] = new /\ \A t \in 1 .. Len(tokens) : tokens'[t] = tokens[t]
    BY <1>1, <1>3, <2>1 DEF new
  <2>3. Issued' = Issued \union {NextId}
    <3>1. DOMAIN tokens' = 1 .. Len(tokens) + 1 BY <2>2
    <3> QED BY <1>1, <3>1 DEF Issued, NextId
  <2>4. ~Rotate(w) BY <1>4, MakesParts
  <2> QED BY <1>1, <1>2, <2>2, <2>3, <2>4 DEF NextId, new
<1>5. CASE Rotate(w)
  <2> DEFINE from == req[w].from
             old == [tokens EXCEPT ![from] = Replaced(@, NextId)]
  <2>1. tokens' = Append(old, new) /\ from \in Issued
    BY <1>5, MakesParts DEF Rotate, new, NextId
  <2>2. /\ Replaced(tokens[from], NextId) \in TokenRow
        /\ Replaced(tokens[from], NextId).revoked
        /\ Replaced(tokens[from], NextId).next = NextId
        /\ Replaced(tokens[from], NextId).user = tokens[from].user
    BY <1>1, <1>2, <2>1 DEF Replaced, TokenRow, TokenIds, NoToken
  <2>3. /\ old \in Seq(TokenRow) /\ Len(old) = Len(tokens)
        /\ old[from] = Replaced(tokens[from], NextId)
        /\ \A t \in Issued \ {from} : old[t] = tokens[t]
    BY <1>1, <2>1, <2>2
  <2> HIDE DEF old
  <2>4. /\ tokens' \in Seq(TokenRow) /\ Len(tokens') = Len(tokens) + 1
        /\ tokens'[Len(tokens) + 1] = new /\ \A t \in 1 .. Len(tokens) : tokens'[t] = old[t]
    BY <1>1, <1>3, <2>1, <2>3 DEF new
  <2>5. Issued' = Issued \union {NextId}
    <3>1. DOMAIN tokens' = 1 .. Len(tokens) + 1 BY <2>4
    <3> QED BY <1>1, <3>1 DEF Issued, NextId
  <2>6. ~InsertToken(w) BY <1>5, MakesParts
  <2>7. tokens'[from] = Replaced(tokens[from], NextId)
        /\ \A t \in Issued \ {from} : tokens'[t] = tokens[t]
    BY <1>1, <2>1, <2>3, <2>4
  <2> HIDE DEF from
  <2>8. \A t \in Issued : /\ tokens'[t].user = tokens[t].user
                          /\ tokens[t].revoked => tokens'[t].revoked
    BY <2>2, <2>7
  <2> QED BY <1>1, <1>2, <2>2, <2>4, <2>5, <2>6, <2>7, <2>8 DEF NextId, new, from
<1> QED BY <1>4, <1>5 DEF Makes

LEMMA MakesBorn ==
  ASSUME TypeInvariant, NEW w \in Workers, Makes(w)
  PROVE  /\ born' \in Seq(BirthRow) /\ DOMAIN born' = Issued'
         /\ \A t \in Issued : born'[t] = born[t]
         /\ InsertToken(w) => born'[NextId] = Birth(w, {NextId}, FALSE)
         /\ Rotate(w) =>
              born'[NextId] = Birth(w, Lineage(req[w].from) \union {NextId},
                                    \/ tokens[req[w].from].revoked
                                    \/ \E v \in Workers :
                                         pc[v] = "walkRevoke" /\ req[v].on = req[w].from)
         /\ born'[NextId].lineage =
              IF Rotate(w) THEN Lineage(req[w].from) \union {NextId} ELSE {NextId}
         /\ born'[NextId].slipped = Slips(w)
<1> DEFINE late == \/ tokens[req[w].from].revoked
                   \/ \E v \in Workers : pc[v] = "walkRevoke" /\ req[v].on = req[w].from
           row == IF Rotate(w) THEN Birth(w, Lineage(req[w].from) \union {NextId}, late)
                  ELSE Birth(w, {NextId}, FALSE)
<1>1. born' = Append(born, row)
  BY MakesParts DEF Makes, InsertToken, Rotate, NextId, Lineage
<1>2. born \in Seq(BirthRow) /\ Len(born) = Len(tokens) /\ Len(tokens) \in Nat
      /\ Issued = 1 .. Len(tokens)
  BY BornParts, TypeParts
<1>3. NextId \in Nat /\ Issued' = Issued \union {NextId} BY MakesTokens
<1>4. \A lineage \in SUBSET Nat : \A b \in BOOLEAN :
        /\ Birth(w, lineage, b) \in BirthRow /\ Birth(w, lineage, b).lineage = lineage
        /\ Birth(w, lineage, b).slipped = Slips(w)
  <2>1. Slips(w) \in BOOLEAN BY DEF Slips
  <2> QED BY <2>1 DEF Birth, BirthRow
<1>5. /\ row \in BirthRow /\ row.slipped = Slips(w)
      /\ row.lineage = IF Rotate(w) THEN Lineage(req[w].from) \union {NextId} ELSE {NextId}
  <2>1. CASE Rotate(w)
    <3>1. Lineage(req[w].from) \union {NextId} \in SUBSET Nat
      BY <1>2, <1>3, <2>1, BornParts, MakesParts
    <3>2. late \in BOOLEAN
      <4>1. tokens[req[w].from].revoked \in BOOLEAN BY <2>1, MakesParts, TypeParts
      <4> QED BY <4>1
    <3> HIDE DEF late
    <3>3. row = Birth(w, Lineage(req[w].from) \union {NextId}, late) BY <2>1
    <3> HIDE DEF row
    <3> QED BY <1>4, <2>1, <3>1, <3>2, <3>3
  <2>2. CASE ~Rotate(w)
    <3>1. row = Birth(w, {NextId}, FALSE) BY <2>2
    <3>2. {NextId} \in SUBSET Nat BY <1>3
    <3> HIDE DEF row
    <3> QED BY <1>4, <2>2, <3>1, <3>2
  <2> QED BY <2>1, <2>2
<1>6. InsertToken(w) => ~Rotate(w) BY MakesParts
<1>7. /\ InsertToken(w) => row = Birth(w, {NextId}, FALSE)
      /\ Rotate(w) => row = Birth(w, Lineage(req[w].from) \union {NextId}, late)
  BY <1>6
<1> HIDE DEF row
<1>8. /\ born' \in Seq(BirthRow) /\ Len(born') = Len(tokens) + 1
      /\ born'[Len(tokens) + 1] = row /\ \A t \in 1 .. Len(tokens) : born'[t] = born[t]
  BY <1>1, <1>2, <1>5
<1>9. DOMAIN born' = Issued'
  <2>1. DOMAIN born' = 1 .. Len(tokens) + 1 BY <1>8
  <2> QED BY <1>2, <1>3, <2>1 DEF NextId
<1> QED BY <1>2, <1>5, <1>7, <1>8, <1>9 DEF NextId

LEMMA MakesSeen ==
  ASSUME TypeInvariant, NEW w \in Workers, Makes(w)
  PROVE  /\ seen' \in [Workers -> SUBSET Issued'] /\ dirty' \in [Workers -> BOOLEAN]
         /\ seen'[w] = {} /\ dirty'[w] = FALSE
         /\ \A v \in Workers \ {w} :
              /\ dirty'[v] = dirty[v] /\ seen[v] \subseteq seen'[v]
              /\ Rotate(w) /\ pc[v] \in {"readUser", "rotate"} /\ req[v].from = req[w].from =>
                   NextId \in seen'[v]
         /\ InsertToken(w) => forks' = forks
         /\ Rotate(w) => forks' = forks \union {<<t, NextId>> : t \in seen[w]}
<1>1. /\ seen \in [Workers -> SUBSET Issued] /\ dirty \in [Workers -> BOOLEAN]
      /\ Issued' = Issued \union {NextId}
  BY TypeParts, MakesTokens
<1>2. CASE InsertToken(w)
  <2>1. forks' = forks /\ seen' = [seen EXCEPT ![w] = {}] /\ dirty' = [dirty EXCEPT ![w] = FALSE]
    BY <1>2 DEF InsertToken, Forget
  <2>2. ~Rotate(w) BY <1>2, MakesParts
  <2> QED BY <1>1, <1>2, <2>1, <2>2
<1>3. CASE Rotate(w)
  <2>1. /\ forks' = forks \union {<<t, NextId>> : t \in seen[w]}
        /\ seen' = [v \in Workers |->
              IF v # w /\ pc[v] \in {"readUser", "rotate"} /\ req[v].from = req[w].from
              THEN seen[v] \union {NextId}
              ELSE IF v = w THEN {} ELSE seen[v]]
        /\ dirty' = [dirty EXCEPT ![w] = FALSE]
    BY <1>3 DEF Rotate, NextId
  <2>2. ~InsertToken(w) BY <1>3, MakesParts
  <2> QED BY <1>1, <1>3, <2>1, <2>2
<1> QED BY <1>2, <1>3 DEF Makes

LEMMA MakesType ==
  ASSUME TypeInvariant, NEW w \in Workers, Makes(w)
  PROVE  TypeInvariant'
<1>1. /\ tokens' \in Seq(TokenRow) /\ Len(tokens') = NextId /\ NextId \in Nat
      /\ Issued' = Issued \union {NextId} /\ NextId \notin Issued
      /\ Len(tokens) \in Nat /\ Issued = 1 .. Len(tokens) /\ NextId = Len(tokens) + 1
  BY MakesTokens, TypeParts DEF NextId
<1>2. EditsGrow /\ UNCHANGED <<accounts, credentials, expired, purged, mix, exposed, unswept,
                               roleGhosts, guesses>>
  BY MakesParts, EditsIdle DEF roleGhosts
<1>3. HandlersFit'
  <2>1. Fits("idle", NoRequest) /\ "idle" \in Labels BY DEF Fits, Labels
  <2> QED BY <1>1, <1>2, <2>1, MakesParts, GotoFits DEF Finish
<1>4. RoomLeft'
  <2> DEFINE S == Inserting
             T == Inserting'
  <2>1. w \in S BY MakesParts DEF Inserting
  <2>2. req' = [req EXCEPT ![w] = NoRequest] /\ DOMAIN req = Workers
    BY MakesParts, TypeParts DEF Finish, Goto
  <2>3. T \subseteq S \ {w} BY <2>2 DEF Inserting, NoRequest
  <2>4. IsFiniteSet(S) /\ Cardinality(S) \in Nat /\ Cardinality(T) \in Nat
    BY InsertingFinite
  <2>5. mix.tokens \in Nat /\ mix' = mix /\ Cardinality(S) + Len(tokens) <= mix.tokens
    BY <1>2, TypeParts, SessionConstants DEF TypeInvariant, RoomLeft
  <2> HIDE DEF S, T
  <2>6. IsFiniteSet(S \ {w}) /\ Cardinality(S \ {w}) = Cardinality(S) - 1
    BY <2>1, <2>4, FS_RemoveElement
  <2>7. Cardinality(T) <= Cardinality(S \ {w}) BY <2>3, <2>6, FS_Subset
  <2> QED BY <1>1, <2>4, <2>5, <2>6, <2>7 DEF RoomLeft, T
<1>5. TablesOK'
  <2>1. Len(tokens') <= mix'.tokens
    BY <1>1, <1>2, <1>4, InsertingFinite, SessionConstants, TypeParts DEF RoomLeft
  <2>2. expired' \in 0 .. Len(tokens') /\ purged' \in 0 .. expired'
    BY <1>1, <1>2, TypeParts
  <2>3. ASSUME NEW a \in access' PROVE a \in AccessToken /\ a.asOf <= edits'[a.user]
    <3>1. CASE a \in access BY <1>2, <3>1 DEF TypeInvariant, TablesOK, roleGhosts
    <3>2. CASE a \notin access
      <4>1. a = [user |-> req[w].user, role |-> req[w].role, asOf |-> req[w].asOf]
        BY <3>2, MakesParts DEF Sign
      <4> QED BY <1>2, <4>1, MakesParts DEF AccessToken, roleGhosts
    <3> QED BY <3>1, <3>2
  <2> QED BY <1>1, <1>2, <2>1, <2>2, <2>3, TypeParts DEF TablesOK
<1>6. HistoryOK'
  <2>1. \A t \in Issued' : t \in born'[t].lineage /\ born'[t].lineage \subseteq 1 .. t
    <3>1. \A t \in Issued : t \in born'[t].lineage /\ born'[t].lineage \subseteq 1 .. t
      BY MakesBorn, BornParts DEF Lineage
    <3>2. NextId \in born'[NextId].lineage /\ born'[NextId].lineage \subseteq 1 .. NextId
      <4>1. Issued \subseteq 1 .. NextId /\ NextId \in 1 .. NextId BY <1>1
      <4>2. CASE Rotate(w)
        <5>1. Lineage(req[w].from) \subseteq Issued BY <4>2, MakesParts, BornParts
        <5> QED BY <4>1, <4>2, <5>1, MakesBorn
      <4>3. CASE ~Rotate(w) BY <4>1, <4>3, MakesBorn
      <4> QED BY <4>2, <4>3
    <3> QED BY <1>1, <3>1, <3>2
  <2>2. exposed' \subseteq Issued' BY <1>1, <1>2, TypeParts
  <2> QED BY <1>1, <1>2, <2>1, <2>2, MakesBorn, MakesSeen, TypeParts DEF HistoryOK, roleGhosts
<1>7. NextIsYounger'
  <2>1. ASSUME NEW t \in Issued'
        PROVE  \/ tokens'[t].next = NoToken
               \/ t < tokens'[t].next /\ tokens'[t].next \in Issued'
    <3>1. CASE t = NextId
      <4>1. tokens'[NextId] = NewToken(req[w].user) BY MakesTokens
      <4>2. tokens'[NextId].next = NoToken BY <4>1 DEF NewToken
      <4> QED BY <3>1, <4>2
    <3>2. CASE t \in Issued /\ tokens'[t].next = tokens[t].next
      BY <1>1, <3>2 DEF TypeInvariant, NextIsYounger
    <3>3. CASE t \in Issued /\ tokens'[t].next = NextId BY <1>1, <3>3
    <3>4. t \in Issued => tokens'[t].next \in {tokens[t].next, NextId}
      BY MakesTokens DEF Makes
    <3> QED BY <1>1, <3>1, <3>2, <3>3, <3>4
  <2> QED BY <2>1 DEF NextIsYounger
<1>8. (born \in Seq(BirthRow))' BY MakesBorn
<1> QED BY <1>3, <1>4, <1>5, <1>6, <1>7, <1>8 DEF TypeInvariant

-------------------------------------------------------------------------------
LEMMA TypeInit == Init => TypeInvariant
<1> SUFFICES ASSUME Init PROVE TypeInvariant
  OBVIOUS
<1>1. /\ tokens = <<>> /\ Issued = {} /\ Len(tokens) = 0 /\ born = <<>> /\ DOMAIN born = {}
      /\ mix \in Mixes /\ access = {}
      /\ expired = 0 /\ purged = 0 /\ mix.tokens \in Nat
  BY SessionConstants DEF Init, Issued
<1>2. accounts \in [Users -> AccountRow] /\ credentials \in [Users -> CredentialRow]
  BY SessionConstants DEF Init, AccountRow, CredentialRow
<1>3. TablesOK BY <1>1, <1>2 DEF TablesOK
<1>4. /\ pc = [w \in Workers |-> "idle"] /\ req = [w \in Workers |-> NoRequest]
      /\ seen = [w \in Workers |-> {}] /\ dirty = [w \in Workers |-> FALSE]
      /\ exposed = {} /\ unswept = {} /\ undone = {}
      /\ edits = [u \in Users |-> 0] /\ ordered = [u \in Users |-> accounts[u].role]
      /\ guesses = [u \in Users |-> 0]
  BY DEF Init
<1>5. HandlersFit BY <1>4 DEF HandlersFit, Fits, Labels
<1>6. ordered \in [Users -> AllRoles] BY <1>2, <1>4 DEF AccountRow
<1>7. HistoryOK BY <1>1, <1>4, <1>6 DEF HistoryOK
<1>8. NextIsYounger /\ born \in Seq(BirthRow) BY <1>1 DEF NextIsYounger
<1>9. RoomLeft
  <2>1. Inserting = {} BY <1>4 DEF Inserting, NoRequest
  <2>2. Cardinality(Inserting) = 0 BY <2>1, FS_EmptySet
  <2> QED BY <1>1, <2>2 DEF RoomLeft
<1> QED BY <1>3, <1>5, <1>7, <1>8, <1>9 DEF TypeInvariant

LEMMA TypeNext == TypeInvariant /\ [Next]_vars => TypeInvariant'
<1> SUFFICES ASSUME TypeInvariant, [Next]_vars PROVE TypeInvariant'
  OBVIOUS
<1>1. ASSUME NEW w \in Workers, Submit(w) PROVE TypeInvariant' BY <1>1, SubmitType
<1>2. ASSUME NEW w \in Workers, RefuseRequest(w) PROVE TypeInvariant'
  BY <1>2, ElsewhereType DEF RefuseRequest
<1>3. ASSUME NEW w \in Workers, Proceed(w) PROVE TypeInvariant'
  BY <1>3, ReadCredentialsType, AttemptsType, MakesType, ReadUserType, WalkType, LogoutType,
     MarkType, SweepType, WriteRoleType
  DEF Proceed, Makes
<1>4. ASSUME NEW w \in Workers, Die(w) PROVE TypeInvariant' BY <1>4, DieType
<1> QED BY <1>1, <1>2, <1>3, <1>4, ElsewhereType DEF Next

LEMMA TypeAlways == Spec => []TypeInvariant
BY TypeInit, TypeNext, PTL DEF Spec

(* Every table and handler has its type, what replaces a token is younger  *)
(* than it, so that revokeChain always comes to an end, and no handler     *)
(* that was let in to insert a token lacks room for it.                    *)
THEOREM SessionsTypeCorrect == Spec => []TypeOK
<1>1. TypeInvariant => TypeOK
  <2> SUFFICES ASSUME TypeInvariant PROVE TypeOK
    OBVIOUS
  <2>1. HandlersOK
    <3>1. \A w \in Workers : Fits(pc[w], req[w]) BY DEF TypeInvariant, HandlersFit
    <3> QED BY <3>1, TypeParts DEF HandlersOK, Fits
  <2> QED BY <2>1 DEF TypeInvariant, TypeOK, NextIsYounger
<1> QED BY <1>1, TypeAlways, PTL

-------------------------------------------------------------------------------
(* Roles. *)

(* What the handlers know: what they knew, or the account as it is.        *)
Informed(w) ==
  pc'[w] # "idle" =>
    \/ /\ pc[w] # "idle" /\ req'[w].user = req[w].user
       /\ req'[w].role = req[w].role /\ req'[w].asOf = req[w].asOf
    \/ /\ req'[w].user \in Users /\ req'[w].role = accounts[req'[w].user].role

LEMMA RoleQuiet ==
  ASSUME TypeInvariant, RoleInvariant, UNCHANGED roleGhosts,
         \A u \in Users : accounts'[u].role = accounts[u].role,
         \A w \in Workers : Informed(w),
         \A a \in access' : \/ a \in access
                            \/ \E w \in Workers : /\ pc[w] # "idle" /\ a.user = req[w].user
                                                  /\ a.role = req[w].role /\ a.asOf = req[w].asOf
  PROVE  RoleInvariant'
<1>1. /\ \A w \in Workers : pc[w] # "idle" /\ req[w].asOf = edits[req[w].user]
                            /\ req[w].user \notin undone => req[w].role = ordered[req[w].user]
      /\ \A a \in access : a.asOf = edits[a.user] /\ a.user \notin undone =>
                             a.role = ordered[a.user]
      /\ \A u \in Users : u \notin undone => accounts[u].role = ordered[u]
  BY DEF RoleInvariant, RolesKnown, RoleFollowsAdministrator
<1>2. edits' = edits /\ ordered' = ordered /\ undone' = undone BY DEF roleGhosts
<1>3. ASSUME NEW w \in Workers, pc'[w] # "idle", req'[w].asOf = edits'[req'[w].user],
             req'[w].user \notin undone'
      PROVE  req'[w].role = ordered'[req'[w].user]
  BY <1>1, <1>2, <1>3 DEF Informed
<1>4. ASSUME NEW a \in access', a.asOf = edits'[a.user], a.user \notin undone'
      PROVE  a.role = ordered'[a.user]
  BY <1>1, <1>2, <1>4
<1>5. RoleFollowsAdministrator' BY <1>1, <1>2 DEF RoleFollowsAdministrator
<1> QED BY <1>3, <1>4, <1>5 DEF RoleInvariant, RolesKnown

(* A handler that goes on or ends, and one that is let in.                 *)
LEMMA InformedGoto ==
  ASSUME TypeInvariant, NEW w \in Workers, NEW to, NEW request, Goto(w, to, request),
         \/ to = "idle"
         \/ /\ pc[w] # "idle" /\ request.user = req[w].user
            /\ request.role = req[w].role /\ request.asOf = req[w].asOf
         \/ request.user \in Users /\ request.role = accounts[request.user].role
  PROVE  \A v \in Workers : Informed(v)
BY TypeParts DEF Informed, Goto

LEMMA InformedFinish ==
  ASSUME TypeInvariant, NEW w \in Workers, Finish(w)
  PROVE  \A v \in Workers : Informed(v)
BY InformedGoto DEF Finish

LEMMA InformedSubmit ==
  ASSUME TypeInvariant, NEW w \in Workers, Submit(w)
  PROVE  \A v \in Workers : Informed(v)
<1>1. PICK to, request :
        /\ Goto(w, to, request)
        /\ request.user \in Users /\ request.role = accounts[request.user].role
  <2>1. ASSUME NEW op, NEW to, NEW u \in Users, Start(w, op, to, Call(op, u))
        PROVE  \E x, request : Goto(w, x, request) /\ request.user \in Users
                               /\ request.role = accounts[request.user].role
    BY <2>1 DEF Start, Call
  <2>2. CASE SubmitRefresh(w) \/ SubmitLogout(w)
    <3>1. PICK t, op, to, request :
            /\ t \in Issued
            /\ Start(w, op, to, request) /\ request.user = tokens[t].user
            /\ request.role = accounts[tokens[t].user].role
      <4>1. CASE SubmitLogout(w)
        <5> DEFINE request(t) == [Call("logout", tokens[t].user) EXCEPT !.from = t, !.on = t]
        <5>1. \A t : /\ request(t).user = tokens[t].user
                     /\ request(t).role = accounts[tokens[t].user].role
          BY DEF Call
        <5>2. PICK t \in Issued : Start(w, "logout", "writeLogout", request(t))
          BY <4>1 DEF SubmitLogout, Stored
        <5> HIDE DEF request
        <5> QED BY <5>1, <5>2
      <4>2. CASE SubmitRefresh(w)
        <5> DEFINE call(t) ==
              [Call(IF Reused(t) THEN "reuse" ELSE "refresh", tokens[t].user) EXCEPT !.from = t]
                   walk(t) == [call(t) EXCEPT !.on = tokens[t].next]
        <5>1. \A t : /\ call(t).user = tokens[t].user
                     /\ call(t).role = accounts[tokens[t].user].role
                     /\ walk(t).user = tokens[t].user
                     /\ walk(t).role = accounts[tokens[t].user].role
          BY DEF Call
        <5>2. PICK t \in Issued :
                \/ Start(w, "refresh", "walkRead", walk(t))
                \/ Start(w, "refresh", "readUser", call(t))
          BY <4>2 DEF SubmitRefresh, Stored
        <5> HIDE DEF walk, call
        <5> QED BY <5>1, <5>2
      <4> QED BY <2>2, <4>1, <4>2
    <3>2. tokens[t].user \in Users BY <3>1, TypeParts
    <3>3. Goto(w, to, request) BY <3>1 DEF Start
    <3> QED BY <3>1, <3>2, <3>3
  <2>3. CASE ~(SubmitRefresh(w) \/ SubmitLogout(w))
    <3>1. PICK op, to, u : u \in Users /\ Start(w, op, to, Call(op, u))
      BY <2>3 DEF Submit, SubmitLogin, SubmitReset, SubmitDisable, SubmitEnable, SubmitDelete,
                  SubmitRevokeAll, SubmitChangeRole, Order
    <3> QED BY <2>1, <3>1
  <2> QED BY <2>2, <2>3
<1> QED BY <1>1, InformedGoto

LEMMA InformedReads ==
  ASSUME TypeInvariant, NEW w \in Workers,
         ReadCredentials(w) \/ ReadUser(w) \/ WalkRead(w) \/ WalkRevoke(w)
  PROVE  \A v \in Workers : Informed(v)
<1>1. CASE Finish(w) BY <1>1, InformedFinish
<1>2. CASE ~Finish(w) /\ ~ReadUser(w)
  <2>1. pc[w] # "idle" BY <1>2 DEF ReadCredentials, WalkRead, WalkRevoke
  <2>2. req[w] \in Handler BY <2>1, HandlerParts
  <2>3. PICK to, request :
          /\ Goto(w, to, request) /\ request.user = req[w].user
          /\ request.role = req[w].role /\ request.asOf = req[w].asOf
    <3> DEFINE failing(x) == [req[w] EXCEPT !.failed = x]
               onto(x) == [req[w] EXCEPT !.on = x]
               past(x) == [req[w] EXCEPT !.next = x]
               moved(x) == [req[w] EXCEPT !.on = x, !.next = NoToken]
    <3>1. \A x : \A r \in {failing(x), onto(x), past(x), moved(x)} :
            r.user = req[w].user /\ r.role = req[w].role /\ r.asOf = req[w].asOf
      BY <2>2 DEF Handler
    <3>2. \E to, x : \E r \in {failing(x), onto(x), past(x), moved(x)} : Goto(w, to, r)
      BY <1>2 DEF ReadCredentials, WalkRead, WalkRevoke
    <3> HIDE DEF failing, onto, past, moved
    <3> QED BY <3>1, <3>2
  <2> QED BY <2>1, <2>3, InformedGoto
<1>3. CASE ~Finish(w) /\ ReadUser(w)
  <2> DEFINE u == req[w].user
             request == [req[w] EXCEPT !.role = accounts[u].role, !.asOf = edits[u]]
  <2>1. pc[w] = "readUser" /\ Goto(w, "rotate", request) BY <1>3 DEF ReadUser
  <2>2. req[w] \in Handler /\ u \in Users BY <2>1, HandlerParts
  <2>3. request.user = u /\ request.role = accounts[u].role BY <2>2 DEF Handler
  <2> HIDE DEF request
  <2> QED BY <2>1, <2>2, <2>3, InformedGoto
<1> QED BY <1>1, <1>2, <1>3

LEMMA RoleNext ==
  ASSUME TypeInvariant, RoleInvariant, [Next]_vars
  PROVE  RoleInvariant'
<1>1. ASSUME NEW w \in Workers, Submit(w) PROVE RoleInvariant'
  <2>1. UNCHANGED <<accounts, access, roleGhosts>>
    BY <1>1 DEF Submit, SubmitLogin, SubmitReset, SubmitRefresh, SubmitLogout, SubmitDisable,
                SubmitEnable, SubmitDelete, SubmitRevokeAll, SubmitChangeRole, Order, Start,
                tables, ghosts
  <2> QED BY <1>1, <2>1, InformedSubmit, RoleQuiet
<1>2. ASSUME NEW w \in Workers,
             ReadCredentials(w) \/ ReadUser(w) \/ WalkRead(w) \/ WalkRevoke(w)
      PROVE  RoleInvariant'
  <2>1. UNCHANGED <<accounts, access, roleGhosts>>
    BY <1>2 DEF ReadCredentials, ReadUser, WalkRead, WalkRevoke, tables, ghosts
  <2> QED BY <1>2, <2>1, InformedReads, RoleQuiet
<1>3. ASSUME NEW w \in Workers,
             WriteAttempts(w) \/ WritePassword(w) \/ WriteLogout(w) \/ Sweep(w) \/ Die(w)
      PROVE  RoleInvariant'
  <2>1. UNCHANGED <<accounts, access, roleGhosts>>
    BY <1>3 DEF WriteAttempts, WritePassword, WriteLogout, Sweep, Die, tables
  <2>2. \A v \in Workers : Informed(v)
    <3>1. pc[w] # "idle" BY <1>3 DEF WriteAttempts, WritePassword, WriteLogout, Sweep, Die
    <3>2. \E to : Goto(w, to, req[w]) \/ Finish(w)
      BY <1>3 DEF WriteAttempts, WritePassword, WriteLogout, Sweep, Die
    <3> QED BY <3>1, <3>2, InformedGoto, InformedFinish
  <2> QED BY <2>1, <2>2, RoleQuiet
<1>4. ASSUME NEW w \in Workers, Makes(w) PROVE RoleInvariant'
  <2>1. UNCHANGED <<accounts, roleGhosts>> /\ Finish(w) /\ Sign(req[w]) /\ pc[w] # "idle"
    BY <1>4, MakesParts
  <2>2. \A a \in access' : \/ a \in access
                           \/ /\ a.user = req[w].user /\ a.role = req[w].role
                              /\ a.asOf = req[w].asOf
    BY <2>1 DEF Sign
  <2> QED BY <2>1, <2>2, InformedFinish, RoleQuiet
<1>5. ASSUME NEW w \in Workers, MarkDisabled(w) \/ MarkEnabled(w) \/ MarkDeleted(w)
      PROVE  RoleInvariant'
  <2>1. UNCHANGED <<access, roleGhosts>> /\ pc[w] # "idle"
    BY <1>5 DEF MarkDisabled, MarkEnabled, MarkDeleted
  <2>2. \A u \in Users : accounts'[u].role = accounts[u].role
    <3>1. \A u \in Users : accounts[u] \in AccountRow BY TypeParts
    <3>2. \A row \in AccountRow :
            /\ [row EXCEPT !.disabled = TRUE].role = row.role
            /\ [row EXCEPT !.disabled = FALSE].role = row.role
            /\ [row EXCEPT !.disabled = TRUE, !.deleted = TRUE].role = row.role
      BY DEF AccountRow
    <3>3. accounts \in [Users -> AccountRow] BY TypeParts
    <3>4. PICK row : /\ accounts' = [accounts EXCEPT ![req[w].user] = row]
                     /\ req[w].user \in Users => row.role = accounts[req[w].user].role
      BY <1>5, <3>1, <3>2 DEF MarkDisabled, MarkEnabled, MarkDeleted, SetAccount
    <3> QED BY <3>3, <3>4
  <2>3. \A v \in Workers : Informed(v)
    <3>1. Goto(w, "sweep", req[w]) \/ Finish(w)
      BY <1>5 DEF MarkDisabled, MarkEnabled, MarkDeleted
    <3> QED BY <2>1, <3>1, InformedGoto, InformedFinish
  <2> QED BY <2>1, <2>2, <2>3, RoleQuiet
<1>6. ASSUME NEW w \in Workers, WriteRole(w) PROVE RoleInvariant'
  <2> DEFINE u == req[w].user
  <2>1. pc[w] = "writeRole" /\ Finish(w) /\ access' = access
    BY <1>6 DEF WriteRole
  <2>2. u \in Users BY <2>1, HandlerParts
  <2>3. PICK role \in Roles :
          /\ accounts' = [accounts EXCEPT ![u] = [accounts[u] EXCEPT !.role = role]]
          /\ edits' = [edits EXCEPT ![u] = @ + 1]
          /\ ordered' = [ordered EXCEPT ![u] = role]
          /\ undone' = undone \ {u}
    BY <1>6 DEF WriteRole, SetAccount
  <2> HIDE DEF u
  <2>4. /\ edits \in [Users -> Nat] /\ ordered \in [Users -> AllRoles]
        /\ accounts \in [Users -> AccountRow]
    BY TypeParts
  <2>5. RoleFollowsAdministrator'
    <3>1. accounts[u] \in AccountRow BY <2>2, <2>4
    <3>2. [accounts[u] EXCEPT !.role = role].role = role BY <3>1 DEF AccountRow
    <3>3. accounts'[u].role = role /\ \A v \in Users \ {u} : accounts'[v] = accounts[v]
      BY <2>2, <2>3, <2>4, <3>2
    <3> QED BY <2>2, <2>3, <2>4, <3>3 DEF RoleInvariant, RoleFollowsAdministrator
  <2>6. ASSUME NEW a \in access', a.asOf = edits'[a.user], a.user \notin undone'
        PROVE  a.role = ordered'[a.user]
    <3>1. a \in access /\ a.user \in Users /\ a.asOf \in Nat /\ a.asOf <= edits[a.user]
      BY <2>1, <2>6 DEF TypeInvariant, TablesOK, AccessToken
    <3>2. a.user # u BY <2>2, <2>3, <2>4, <2>6, <3>1
    <3> QED BY <2>3, <2>4, <2>6, <3>1, <3>2 DEF RoleInvariant, RolesKnown
  <2>7. ASSUME NEW v \in Workers, pc'[v] # "idle", req'[v].asOf = edits'[req'[v].user],
               req'[v].user \notin undone'
        PROVE  req'[v].role = ordered'[req'[v].user]
    <3>1. v # w /\ pc[v] # "idle" /\ req'[v] = req[v]
      BY <2>1, <2>7, TypeParts DEF Finish, Goto
    <3>2. req[v].user \in Users /\ req[v].asOf \in Nat /\ req[v].asOf <= edits[req[v].user]
      BY <3>1, HandlerParts
    <3>3. req[v].user # u BY <2>2, <2>3, <2>4, <2>7, <3>1, <3>2
    <3> QED BY <2>3, <2>4, <2>7, <3>1, <3>2, <3>3 DEF RoleInvariant, RolesKnown
  <2> QED BY <2>5, <2>6, <2>7 DEF RoleInvariant, RolesKnown
<1>7. CASE SyncFromToken
  <2>1. PICK a \in access :
          /\ accounts' = [accounts EXCEPT ![a.user] =
                            [accounts[a.user] EXCEPT !.role = ExtractRole(a.role)]]
          /\ undone' = IF a.asOf < edits[a.user] THEN undone \union {a.user} ELSE undone
    BY <1>7 DEF SyncFromToken, SetAccount
  <2>2. UNCHANGED <<access, pc, req, edits, ordered>> BY <1>7 DEF SyncFromToken
  <2>3. a.user \in Users /\ a.asOf \in Nat /\ a.asOf <= edits[a.user]
    BY DEF TypeInvariant, TablesOK, AccessToken
  <2>4. accounts \in [Users -> AccountRow] /\ edits \in [Users -> Nat] BY TypeParts
  <2>5. undone \subseteq undone' BY <2>1
  <2>6. RolesKnown' BY <2>2, <2>5 DEF RoleInvariant, RolesKnown
  <2>7. RoleFollowsAdministrator'
    <3>1. accounts[a.user] \in AccountRow BY <2>3, <2>4
    <3>2. [accounts[a.user] EXCEPT !.role = ExtractRole(a.role)].role = a.role
      BY <3>1 DEF AccountRow, ExtractRole
    <3>3. /\ accounts'[a.user].role = a.role
          /\ \A v \in Users \ {a.user} : accounts'[v] = accounts[v]
      BY <2>1, <2>3, <2>4, <3>2
    <3>4. a.user \notin undone' => a.role = ordered[a.user]
      BY <2>1, <2>3, <2>4 DEF RoleInvariant, RolesKnown
    <3> QED BY <2>2, <2>5, <3>3, <3>4 DEF RoleInvariant, RoleFollowsAdministrator
  <2> QED BY <2>6, <2>7 DEF RoleInvariant
<1>8. CASE AccessExpires \/ Unlock \/ TokenExpires \/ NightlyCleanup \/ UNCHANGED vars
  <2>1. UNCHANGED <<accounts, pc, req, roleGhosts>> /\ access' \subseteq access
    BY <1>8 DEF AccessExpires, Unlock, TokenExpires, NightlyCleanup, vars, tables, ghosts
  <2>2. \A v \in Workers : Informed(v) BY <2>1 DEF Informed
  <2> QED BY <2>1, <2>2, RoleQuiet
<1>9. ASSUME NEW w \in Workers, RefuseRequest(w) PROVE RoleInvariant'
  BY <1>8, <1>9 DEF RefuseRequest
<1> QED BY <1>1, <1>2, <1>3, <1>4, <1>5, <1>6, <1>7, <1>8, <1>9 DEF Next, Proceed, Makes

(* syncUserMiddleware overwrites the role of an account only from a token  *)
(* that was signed before the administrator's last change: whoever signed  *)
(* from the account as it is now agrees with it.                           *)
THEOREM RolesFollow == Spec => []RoleFollowsAdministrator
<1>1. Init => RoleInvariant
  BY DEF Init, RoleInvariant, RolesKnown, RoleFollowsAdministrator
<1>2. RoleInvariant => RoleFollowsAdministrator BY DEF RoleInvariant
<1> QED BY <1>1, <1>2, RoleNext, TypeAlways, PTL DEF Spec

-------------------------------------------------------------------------------
(* Closed accounts. *)

SameDisabled == \A u \in Users : accounts'[u].disabled = accounts[u].disabled

LEMMA SlippedKept ==
  ASSUME TypeInvariant, TokensKept, born' = born, NEW u, OnlySlipped(u)
  PROVE  OnlySlipped(u)'
<1>1. \A t \in Issued : tokens[t].revoked \in BOOLEAN BY TypeParts
<1> QED BY <1>1 DEF OnlySlipped, Valid, TokensKept

(* One handler moves, which neither sweeps nor gets past a sweep.          *)
LEMMA ClosedGoto ==
  ASSUME TypeInvariant, ClosedInvariant, TokensKept, born' = born, SameDisabled,
         unswept' = unswept, NEW w \in Workers, NEW to, NEW request, Goto(w, to, request),
         to # "markDeleted", pc[w] # "sweep",
         to # "idle" /\ (request.op = "login" \/ to = "rotate") =>
           dirty'[w] \/ (request.user \in Users /\ ~accounts[request.user].disabled),
         \A v \in Workers \ {w} : dirty'[v] = dirty[v]
  PROVE  ClosedInvariant'
<1>1. /\ pc'[w] = to /\ req'[w] = request
      /\ \A v \in Workers \ {w} : pc'[v] = pc[v] /\ req'[v] = req[v]
  BY TypeParts DEF Goto
<1>2. MakersKnow'
  <2> SUFFICES ASSUME NEW v \in Workers, pc'[v] # "idle", req'[v].op = "login" \/ pc'[v] = "rotate",
                      accounts'[req'[v].user].disabled
               PROVE  dirty'[v]
    BY DEF MakersKnow
  <2>1. CASE v = w BY <1>1, <2>1 DEF SameDisabled
  <2>2. CASE v # w
    <3>1. pc[v] # "idle" /\ req'[v] = req[v] /\ pc'[v] = pc[v] BY <1>1, <2>2
    <3>2. req[v].user \in Users BY <3>1, HandlerParts
    <3>3. accounts[req[v].user].disabled BY <3>1, <3>2 DEF SameDisabled
    <3> QED BY <2>2, <3>1, <3>3 DEF ClosedInvariant, MakersKnow
  <2> QED BY <2>1, <2>2
<1>3. DeletionSwept'
  <2> SUFFICES ASSUME NEW v \in Workers, pc'[v] = "markDeleted" PROVE OnlySlipped(req[v].user)'
    BY DEF DeletionSwept
  <2>1. PICK u : u = req[v].user OBVIOUS
  <2>2. pc[v] = "markDeleted" /\ req'[v] = req[v] BY <1>1
  <2>3. OnlySlipped(u) BY <2>1, <2>2 DEF ClosedInvariant, DeletionSwept
  <2>4. OnlySlipped(u)' BY <2>3, SlippedKept
  <2> QED BY <2>1, <2>2, <2>4 DEF OnlySlipped
<1>4. ClosedSwept'
  <2> SUFFICES ASSUME NEW u \in Users, accounts'[u].disabled, ~SweepPending(u)', u \notin unswept'
               PROVE  OnlySlipped(u)'
    BY DEF ClosedSwept
  <2>1. ~SweepPending(u)
    <3> SUFFICES ASSUME NEW v \in Workers, pc[v] = "sweep", req[v].op = "disable", req[v].user = u
                 PROVE  FALSE
      BY DEF SweepPending
    <3> QED BY <1>1 DEF SweepPending
  <2>2. OnlySlipped(u) BY <2>1 DEF ClosedInvariant, ClosedSwept, SameDisabled
  <2> QED BY <2>2, SlippedKept
<1> QED BY <1>2, <1>3, <1>4 DEF ClosedInvariant

LEMMA ClosedFinish ==
  ASSUME TypeInvariant, ClosedInvariant, TokensKept, born' = born, SameDisabled,
         unswept' = unswept, NEW w \in Workers, Finish(w), pc[w] # "sweep", Forget(w)
  PROVE  ClosedInvariant'
<1>1. \A v \in Workers \ {w} : dirty'[v] = dirty[v] BY TypeParts DEF Forget
<1> QED BY <1>1, ClosedGoto DEF Finish

LEMMA ClosedIdle ==
  ASSUME TypeInvariant, ClosedInvariant, TokensKept, born' = born, SameDisabled,
         UNCHANGED <<pc, req, dirty, unswept>>
  PROVE  ClosedInvariant'
<1>1. MakersKnow'
  <2>1. \A v \in Workers : pc[v] # "idle" => req[v].user \in Users BY HandlerParts
  <2> QED BY <2>1 DEF ClosedInvariant, MakersKnow, SameDisabled
<1>2. DeletionSwept'
  <2> SUFFICES ASSUME NEW v \in Workers, pc[v] = "markDeleted" PROVE OnlySlipped(req[v].user)'
    BY DEF DeletionSwept
  <2>1. PICK u : u = req[v].user OBVIOUS
  <2>2. OnlySlipped(u) BY <2>1 DEF ClosedInvariant, DeletionSwept
  <2>3. OnlySlipped(u)' BY <2>2, SlippedKept
  <2> QED BY <2>1, <2>3 DEF OnlySlipped
<1>3. ClosedSwept'
  <2> SUFFICES ASSUME NEW u \in Users, accounts'[u].disabled, ~SweepPending(u)', u \notin unswept'
               PROVE  OnlySlipped(u)'
    BY DEF ClosedSwept
  <2>1. ~SweepPending(u) BY DEF SweepPending
  <2>2. OnlySlipped(u) BY <2>1 DEF ClosedInvariant, ClosedSwept, SameDisabled
  <2> QED BY <2>2, SlippedKept
<1> QED BY <1>1, <1>2, <1>3 DEF ClosedInvariant

LetsIn(w) ==
  /\ pc[w] = "idle" /\ UNCHANGED <<accounts, tokens, born, unswept, dirty>>
  /\ \E to, request : /\ Goto(w, to, request) /\ to \notin {"markDeleted", "rotate"}
                      /\ request.op = "login" => MayEnter(request.user)
                                                 /\ request.user \in Users

LEMMA ClosedSubmit ==
  ASSUME TypeInvariant, ClosedInvariant, NEW w \in Workers, Submit(w)
  PROVE  ClosedInvariant'
<1>1. LetsIn(w)
  <2>1. ASSUME NEW op, NEW to, NEW request, Start(w, op, to, request),
               to \notin {"markDeleted", "rotate"}, request.op # "login"
        PROVE  LetsIn(w)
    BY <2>1 DEF Start, tables, ghosts, LetsIn
  <2>2. CASE SubmitLogin(w)
    <3>1. PICK op \in {"login", "guess"}, u \in Users :
            MayEnter(u) /\ Start(w, op, "readCredentials", Call(op, u))
      BY <2>2 DEF SubmitLogin
    <3>2. Call(op, u).user = u BY DEF Call
    <3> QED BY <3>1, <3>2 DEF Start, tables, ghosts, LetsIn
  <2>3. CASE SubmitLogout(w)
    <3> DEFINE request(t) == [Call("logout", tokens[t].user) EXCEPT !.from = t, !.on = t]
    <3>1. \A t : request(t).op = "logout" BY DEF Call
    <3>2. PICK t \in Issued : Start(w, "logout", "writeLogout", request(t))
      BY <2>3 DEF SubmitLogout, Stored
    <3> HIDE DEF request
    <3> QED BY <2>1, <3>1, <3>2
  <2>4. CASE SubmitRefresh(w)
    <3> DEFINE call(t) ==
          [Call(IF Reused(t) THEN "reuse" ELSE "refresh", tokens[t].user) EXCEPT !.from = t]
               walk(t) == [call(t) EXCEPT !.on = tokens[t].next]
    <3>1. \A t : call(t).op # "login" /\ walk(t).op # "login" BY DEF Call
    <3>2. PICK t \in Issued :
            \/ Start(w, "refresh", "walkRead", walk(t))
            \/ Start(w, "refresh", "readUser", call(t))
      BY <2>4 DEF SubmitRefresh, Stored
    <3> HIDE DEF walk, call
    <3> QED BY <2>1, <3>1, <3>2
  <2>5. CASE ~(SubmitLogin(w) \/ SubmitLogout(w) \/ SubmitRefresh(w))
    <3>1. PICK op, to, u : /\ to \notin {"markDeleted", "rotate"} /\ op # "login"
                           /\ Start(w, op, to, Call(op, u))
      BY <2>5 DEF Submit, SubmitReset, SubmitDisable, SubmitEnable, SubmitDelete,
                  SubmitRevokeAll, SubmitChangeRole, Order
    <3>2. Call(op, u).op = op BY DEF Call
    <3> QED BY <2>1, <3>1, <3>2
  <2> QED BY <2>2, <2>3, <2>4, <2>5
<1>2. PICK to, request : /\ Goto(w, to, request) /\ to \notin {"markDeleted", "rotate"}
                         /\ request.op = "login" => MayEnter(request.user)
                                                    /\ request.user \in Users
  BY <1>1 DEF LetsIn
<1>3. SameDisabled /\ TokensKept BY <1>1, TokensIdle DEF SameDisabled, LetsIn
<1> QED BY <1>1, <1>2, <1>3, ClosedGoto DEF MayEnter, LetsIn

LEMMA ClosedReads ==
  ASSUME TypeInvariant, ClosedInvariant, NEW w \in Workers,
         \/ ReadCredentials(w) \/ WriteAttempts(w) \/ WritePassword(w) \/ ReadUser(w)
         \/ WalkRead(w) \/ WalkRevoke(w) \/ WriteLogout(w)
  PROVE  ClosedInvariant'
<1>1. UNCHANGED <<accounts, born, unswept>> /\ pc[w] \notin {"idle", "sweep"} /\ TokensKept
  <2>1. UNCHANGED <<accounts, born, unswept>> /\ pc[w] \notin {"idle", "sweep"}
    BY DEF ReadCredentials, WriteAttempts, WritePassword, ReadUser, WalkRead, WalkRevoke,
           WriteLogout, tables, ghosts
  <2>2. UNCHANGED tokens \/ \E set : Revoke(set)
    BY DEF ReadCredentials, WriteAttempts, WritePassword, ReadUser, WalkRead, WalkRevoke,
           WriteLogout, tables
  <2> QED BY <2>1, <2>2, TokensIdle, RevokeRows
<1>2. SameDisabled BY <1>1 DEF SameDisabled
<1>3. CASE Finish(w) /\ Forget(w) BY <1>1, <1>2, <1>3, ClosedFinish
<1>4. CASE ~(Finish(w) /\ Forget(w)) /\ ~ReadUser(w)
  <2>1. req[w] \in Handler BY <1>1, HandlerParts
  <2>2. dirty' = dirty
    BY <1>4 DEF ReadCredentials, WriteAttempts, WritePassword, WalkRead, WalkRevoke,
                WriteLogout, ghosts
  <2>3. PICK to, request : /\ Goto(w, to, request) /\ request.op = req[w].op
                           /\ request.user = req[w].user /\ to \notin {"markDeleted", "rotate"}
    <3> DEFINE failing(x) == [req[w] EXCEPT !.failed = x]
               onto(x) == [req[w] EXCEPT !.on = x]
               past(x) == [req[w] EXCEPT !.next = x]
               moved(x) == [req[w] EXCEPT !.on = x, !.next = NoToken]
    <3>1. \A x : \A r \in {req[w], failing(x), onto(x), past(x), moved(x)} :
            r.user = req[w].user /\ r.op = req[w].op
      BY <2>1 DEF Handler
    <3>2. \E x : \E r \in {req[w], failing(x), onto(x), past(x), moved(x)},
                    to \in {"writeAttempts", "insertToken", "walkRead", "walkRevoke"} :
            Goto(w, to, r)
      BY <1>4 DEF ReadCredentials, WriteAttempts, WritePassword, WalkRead, WalkRevoke,
                  WriteLogout
    <3> HIDE DEF failing, onto, past, moved
    <3> QED BY <3>1, <3>2
  <2>4. to # "idle" /\ request.op = "login" =>
          dirty'[w] \/ (request.user \in Users /\ ~accounts[request.user].disabled)
    BY <1>1, <2>2, <2>3, HandlerParts DEF ClosedInvariant, MakersKnow
  <2> QED BY <1>1, <1>2, <2>2, <2>3, <2>4, ClosedGoto
<1>5. CASE ~(Finish(w) /\ Forget(w)) /\ ReadUser(w)
  <2> DEFINE u == req[w].user
             request == [req[w] EXCEPT !.role = accounts[u].role, !.asOf = edits[u]]
  <2>1. /\ pc[w] = "readUser" /\ Goto(w, "rotate", request) /\ MayEnter(u)
        /\ dirty' = [dirty EXCEPT ![w] = FALSE]
    BY <1>5 DEF ReadUser
  <2>2. req[w] \in Handler /\ u \in Users BY <2>1, HandlerParts
  <2>3. request.user = u BY <2>2 DEF Handler
  <2>4. \A v \in Workers \ {w} : dirty'[v] = dirty[v] BY <2>1, TypeParts
  <2> HIDE DEF request
  <2> QED BY <1>1, <1>2, <2>1, <2>2, <2>3, <2>4, ClosedGoto DEF MayEnter
<1> QED BY <1>3, <1>4, <1>5

(* A token that an account holds in spite of a sweep has slipped.          *)
LEMMA ClosedMakes ==
  ASSUME TypeInvariant, ClosedInvariant, NEW w \in Workers, Makes(w)
  PROVE  ClosedInvariant'
<1> DEFINE owner == req[w].user
<1>1. /\ Finish(w) /\ UNCHANGED <<accounts, unswept>> /\ pc[w] \in {"insertToken", "rotate"}
      /\ req[w].op \in {"login", "reset", "refresh"} /\ owner \in Users
      /\ InsertToken(w) => req[w].op # "refresh" /\ pc[w] = "insertToken"
      /\ Rotate(w) => pc[w] = "rotate"
  BY MakesParts
<1>2. /\ pc'[w] = "idle" /\ \A v \in Workers \ {w} : pc'[v] = pc[v] /\ req'[v] = req[v]
  BY <1>1, TypeParts DEF Finish, Goto
<1>3. \A v \in Workers \ {w} : dirty'[v] = dirty[v] BY MakesSeen
<1>4. ASSUME NEW u, OnlySlipped(u), u = owner => Slips(w)
      PROVE  OnlySlipped(u)'
  <2> SUFFICES ASSUME NEW t \in Issued', tokens'[t].user = u, ~tokens'[t].revoked
               PROVE  born'[t].slipped
    BY DEF OnlySlipped, Valid
  <2>1. CASE t \in Issued
    <3>1. tokens[t].user = u /\ ~tokens[t].revoked BY <2>1, MakesTokens
    <3> QED BY <1>4, <2>1, <3>1, MakesBorn DEF OnlySlipped, Valid
  <2>2. CASE t = NextId
    <3>1. u = owner
      <4>1. tokens'[NextId] = NewToken(owner) BY MakesTokens
      <4> QED BY <2>2, <4>1 DEF NewToken
    <3> QED BY <1>4, <2>2, <3>1, MakesBorn
  <2> QED BY <2>1, <2>2, MakesTokens
<1>5. MakersKnow'
  <2> SUFFICES ASSUME NEW v \in Workers, pc'[v] # "idle", req'[v].op = "login" \/ pc'[v] = "rotate",
                      accounts'[req'[v].user].disabled
               PROVE  dirty'[v]
    BY DEF MakersKnow
  <2> QED BY <1>1, <1>2, <1>3 DEF ClosedInvariant, MakersKnow
<1>6. DeletionSwept'
  <2> SUFFICES ASSUME NEW v \in Workers, pc'[v] = "markDeleted" PROVE OnlySlipped(req[v].user)'
    BY DEF DeletionSwept
  <2>1. PICK u : u = req[v].user OBVIOUS
  <2>2. pc[v] = "markDeleted" /\ req'[v] = req[v] BY <1>2
  <2>3. OnlySlipped(u) BY <2>1, <2>2 DEF ClosedInvariant, DeletionSwept
  <2>4. u = owner => Slips(w) BY <2>1, <2>2 DEF Slips
  <2>5. OnlySlipped(u)' BY <1>4, <2>3, <2>4
  <2> QED BY <2>1, <2>2, <2>5 DEF OnlySlipped
<1>7. ClosedSwept'
  <2> SUFFICES ASSUME NEW u \in Users, accounts'[u].disabled, ~SweepPending(u)', u \notin unswept'
               PROVE  OnlySlipped(u)'
    BY DEF ClosedSwept
  <2>1. ~SweepPending(u)
    <3> SUFFICES ASSUME NEW v \in Workers, pc[v] = "sweep", req[v].op = "disable", req[v].user = u
                 PROVE  FALSE
      BY DEF SweepPending
    <3> QED BY <1>1, <1>2 DEF SweepPending
  <2>2. OnlySlipped(u) BY <1>1, <2>1 DEF ClosedInvariant, ClosedSwept
  <2>3. ASSUME u = owner PROVE Slips(w)
    <3>1. CASE req[w].op = "reset" BY <3>1 DEF Slips
    <3>2. CASE req[w].op = "login" \/ pc[w] = "rotate"
      <4>1. dirty[w] BY <1>1, <2>3, <3>2 DEF ClosedInvariant, MakersKnow
      <4> QED BY <4>1 DEF Slips
    <3> QED BY <1>1, <3>1, <3>2 DEF Makes
  <2> QED BY <1>4, <2>2, <2>3
<1> QED BY <1>5, <1>6, <1>7 DEF ClosedInvariant

(* The handlers that close an account, or open it again.                   *)
LEMMA ClosedMarks ==
  ASSUME TypeInvariant, ClosedInvariant, NEW w \in Workers,
         MarkDisabled(w) \/ MarkEnabled(w) \/ MarkDeleted(w)
  PROVE  ClosedInvariant'
<1>1. /\ UNCHANGED <<tokens, born, unswept>>
      /\ pc[w] \in {"markDisabled", "markEnabled", "markDeleted"}
      /\ MarkDisabled(w) => pc[w] = "markDisabled" /\ Goto(w, "sweep", req[w])
      /\ MarkEnabled(w) => pc[w] = "markEnabled" /\ Finish(w) /\ Forget(w)
      /\ MarkDeleted(w) => pc[w] = "markDeleted" /\ Finish(w)
      /\ MarkDisabled(w) \/ MarkDeleted(w) => Closed(w, req[w].user)
  BY DEF MarkDisabled, MarkEnabled, MarkDeleted
<1>2. PICK u \in Users : u = req[w].user BY <1>1, HandlerParts
<1>3. /\ accounts \in [Users -> AccountRow] /\ TokensKept /\ DOMAIN req = Workers
      /\ pc \in [Workers -> Labels] /\ dirty \in [Workers -> BOOLEAN]
  BY <1>1, TypeParts, TokensIdle
<1>4. /\ \A x \in Users \ {u} : accounts'[x] = accounts[x]
      /\ MarkEnabled(w) => ~accounts'[u].disabled
  <2>1. accounts[u] \in AccountRow BY <1>3
  <2>2. /\ [accounts[u] EXCEPT !.disabled = FALSE] \in AccountRow
        /\ ~[accounts[u] EXCEPT !.disabled = FALSE].disabled
    BY <2>1 DEF AccountRow
  <2>3. PICK row : accounts' = [accounts EXCEPT ![u] = row]
                   /\ (MarkEnabled(w) => row = [accounts[u] EXCEPT !.disabled = FALSE])
    BY <1>1, <1>2 DEF MarkDisabled, MarkEnabled, MarkDeleted, SetAccount
  <2> QED BY <1>3, <2>2, <2>3
<1>5. /\ \A v \in Workers \ {w} : /\ pc'[v] = pc[v] /\ req'[v] = req[v]
                                  /\ dirty[v] => dirty'[v]
                                  /\ ~MarkEnabled(w) /\ pc[v] # "idle" /\ req[v].user = u =>
                                       dirty'[v]
      /\ pc'[w] \in {"idle", "sweep"}
      /\ pc'[w] = "sweep" => MarkDisabled(w) /\ req'[w] = req[w] /\ req[w].op = "disable"
      /\ MarkDisabled(w) => pc'[w] = "sweep"
  <2>1. \A v \in Workers \ {w} : pc'[v] = pc[v] /\ req'[v] = req[v]
    BY <1>1, <1>3 DEF Goto, Finish
  <2>2. /\ pc'[w] \in {"idle", "sweep"}
        /\ MarkDisabled(w) => pc'[w] = "sweep"
        /\ pc'[w] = "sweep" => MarkDisabled(w) /\ req'[w] = req[w]
    BY <1>1, <1>3 DEF Goto, Finish
  <2>3. pc[w] = "markDisabled" => req[w].op = "disable" BY HandlerParts DEF OpsAt
  <2>4. \A v \in Workers \ {w} :
          /\ dirty[v] => dirty'[v]
          /\ ~MarkEnabled(w) /\ pc[v] # "idle" /\ req[v].user = u => dirty'[v]
    <3>1. CASE MarkEnabled(w) BY <1>1, <1>3, <3>1 DEF Forget
    <3>2. CASE ~MarkEnabled(w) BY <1>1, <1>2, <3>2 DEF Closed
    <3> QED BY <3>1, <3>2
  <2> QED BY <1>1, <2>1, <2>2, <2>3, <2>4
<1>6. MakersKnow'
  <2> SUFFICES ASSUME NEW v \in Workers, pc'[v] # "idle", req'[v].op = "login" \/ pc'[v] = "rotate",
                      accounts'[req'[v].user].disabled
               PROVE  dirty'[v]
    BY DEF MakersKnow
  <2>1. v # w BY <1>5
  <2>2. pc[v] # "idle" /\ req'[v] = req[v] /\ pc'[v] = pc[v] BY <1>5, <2>1
  <2>3. req[v].user \in Users BY <2>2, HandlerParts
  <2>4. CASE req[v].user = u BY <1>4, <1>5, <2>1, <2>2, <2>4
  <2>5. CASE req[v].user # u
    <3>1. accounts[req[v].user].disabled BY <1>4, <2>2, <2>3, <2>5
    <3>2. dirty[v] BY <2>2, <3>1 DEF ClosedInvariant, MakersKnow
    <3> QED BY <1>5, <2>1, <3>2
  <2> QED BY <2>4, <2>5
<1>7. DeletionSwept'
  <2> SUFFICES ASSUME NEW v \in Workers, pc'[v] = "markDeleted" PROVE OnlySlipped(req[v].user)'
    BY DEF DeletionSwept
  <2>1. PICK x : x = req[v].user OBVIOUS
  <2>2. pc[v] = "markDeleted" /\ req'[v] = req[v] BY <1>5
  <2>3. OnlySlipped(x) BY <2>1, <2>2 DEF ClosedInvariant, DeletionSwept
  <2>4. OnlySlipped(x)' BY <1>1, <1>3, <2>3, SlippedKept
  <2> QED BY <2>1, <2>2, <2>4 DEF OnlySlipped
<1>8. ClosedSwept'
  <2> SUFFICES ASSUME NEW x \in Users, accounts'[x].disabled, ~SweepPending(x)', x \notin unswept'
               PROVE  OnlySlipped(x)'
    BY DEF ClosedSwept
  <2>1. CASE x # u
    <3>1. ~SweepPending(x)
      <4> SUFFICES ASSUME NEW v \in Workers, pc[v] = "sweep", req[v].op = "disable",
                          req[v].user = x
                   PROVE  FALSE
        BY DEF SweepPending
      <4> QED BY <1>1, <1>5 DEF SweepPending
    <3>2. OnlySlipped(x) BY <1>1, <1>4, <2>1, <3>1 DEF ClosedInvariant, ClosedSwept
    <3> QED BY <1>1, <1>3, <3>2, SlippedKept
  <2>2. CASE x = u
    <3>1. ~MarkEnabled(w) BY <1>4, <2>2
    <3>2. ~MarkDisabled(w) BY <1>2, <1>5, <2>2 DEF SweepPending
    <3>3. pc[w] = "markDeleted" BY <1>1, <3>1, <3>2
    <3>4. OnlySlipped(x) BY <1>2, <2>2, <3>3 DEF ClosedInvariant, DeletionSwept
    <3> QED BY <1>1, <1>3, <3>4, SlippedKept
  <2> QED BY <2>1, <2>2
<1> QED BY <1>6, <1>7, <1>8 DEF ClosedInvariant

(* A sweep leaves nothing valid; a handler that dies before it is noted.   *)
LEMMA ClosedSweeps ==
  ASSUME TypeInvariant, ClosedInvariant, NEW w \in Workers, Sweep(w) \/ Die(w)
  PROVE  ClosedInvariant'
<1>1. /\ UNCHANGED <<accounts, born>> /\ pc[w] # "idle"
      /\ Sweep(w) => pc[w] = "sweep" /\ (Finish(w) \/ Goto(w, "markDeleted", req[w]))
                     /\ Revoke(SessionsOf(req[w].user)) /\ Closed(w, req[w].user)
                     /\ unswept' = unswept \ {req[w].user}
      /\ Die(w) => Finish(w) /\ Forget(w) /\ UNCHANGED tokens
                   /\ unswept' = IF pc[w] = "sweep" /\ req[w].op = "disable"
                                 THEN unswept \union {req[w].user} ELSE unswept
  BY DEF Sweep, Die, tables
<1>2. PICK u \in Users : u = req[w].user BY <1>1, HandlerParts
<1>3. /\ TokensKept /\ DOMAIN req = Workers /\ \A t \in Issued : tokens[t].revoked \in BOOLEAN
      /\ pc \in [Workers -> Labels] /\ dirty \in [Workers -> BOOLEAN]
  BY <1>1, TypeParts, TokensIdle, RevokeRows
<1>4. \A x : OnlySlipped(x) => OnlySlipped(x)'
  <2> SUFFICES ASSUME NEW x, OnlySlipped(x) PROVE OnlySlipped(x)'
    OBVIOUS
  <2> QED BY <1>1, <1>3, SlippedKept
<1>5. Sweep(w) => OnlySlipped(u)'
  <2> SUFFICES ASSUME Sweep(w), NEW t \in Issued', tokens'[t].user = u, ~tokens'[t].revoked
               PROVE  FALSE
    BY DEF OnlySlipped, Valid
  <2>1. t \in Issued /\ tokens[t].user = u BY <1>3 DEF TokensKept
  <2>2. t \in SessionsOf(req[w].user) BY <1>2, <2>1 DEF SessionsOf
  <2>3. tokens'[t].revoked = (tokens[t].revoked \/ t \in SessionsOf(req[w].user))
    BY <1>1, <2>1, RevokeRows
  <2> QED BY <2>2, <2>3
<1>6. /\ \A v \in Workers \ {w} : pc'[v] = pc[v] /\ req'[v] = req[v] /\ (dirty[v] => dirty'[v])
      /\ pc'[w] \in {"idle", "markDeleted"}
      /\ pc'[w] = "markDeleted" => Sweep(w) /\ req'[w] = req[w]
  <2>1. /\ \A v \in Workers \ {w} : pc'[v] = pc[v] /\ req'[v] = req[v]
        /\ pc'[w] \in {"idle", "markDeleted"}
        /\ pc'[w] = "markDeleted" => Sweep(w) /\ req'[w] = req[w]
    BY <1>1, <1>3 DEF Goto, Finish
  <2>2. \A v \in Workers \ {w} : dirty[v] => dirty'[v]
    <3>1. CASE Die(w) BY <1>1, <1>3, <3>1 DEF Forget
    <3>2. CASE Sweep(w) BY <1>1, <3>2 DEF Closed
    <3> QED BY <3>1, <3>2
  <2> QED BY <2>1, <2>2
<1>7. MakersKnow'
  <2> SUFFICES ASSUME NEW v \in Workers, pc'[v] # "idle", req'[v].op = "login" \/ pc'[v] = "rotate",
                      accounts'[req'[v].user].disabled
               PROVE  dirty'[v]
    BY DEF MakersKnow
  <2>1. CASE v # w
    BY <1>1, <1>6, <2>1 DEF ClosedInvariant, MakersKnow
  <2>2. CASE v = w
    <3>1. Sweep(w) /\ req'[w] = req[w] /\ pc'[w] = "markDeleted" BY <1>6, <2>2
    <3>2. req[w].op # "login" BY <1>1, <3>1, HandlerParts DEF OpsAt
    <3> QED BY <2>2, <3>1, <3>2
  <2> QED BY <2>1, <2>2
<1>8. DeletionSwept'
  <2> SUFFICES ASSUME NEW v \in Workers, pc'[v] = "markDeleted" PROVE OnlySlipped(req[v].user)'
    BY DEF DeletionSwept
  <2>1. PICK x : x = req[v].user OBVIOUS
  <2>2. req'[v] = req[v] BY <1>6
  <2>3. OnlySlipped(x)'
    <3>1. CASE v = w BY <1>2, <1>5, <1>6, <2>1, <3>1
    <3>2. CASE v # w
      <4>1. OnlySlipped(x) BY <1>6, <2>1, <3>2 DEF ClosedInvariant, DeletionSwept
      <4> QED BY <1>4, <4>1
    <3> QED BY <3>1, <3>2
  <2> QED BY <2>1, <2>2, <2>3 DEF OnlySlipped
<1>9. ClosedSwept'
  <2> SUFFICES ASSUME NEW x \in Users, accounts'[x].disabled, ~SweepPending(x)', x \notin unswept'
               PROVE  OnlySlipped(x)'
    BY DEF ClosedSwept
  <2>1. CASE Sweep(w) /\ x = u BY <1>5, <2>1
  <2>2. CASE ~(Sweep(w) /\ x = u)
    <3>1. x \notin unswept BY <1>1, <1>2, <2>2
    <3>2. ~SweepPending(x)
      <4> SUFFICES ASSUME NEW v \in Workers, pc[v] = "sweep", req[v].op = "disable",
                          req[v].user = x
                   PROVE  FALSE
        BY DEF SweepPending
      <4>1. v = w BY <1>6 DEF SweepPending
      <4>2. x = u BY <1>2, <4>1
      <4> QED BY <1>1, <2>2, <4>1, <4>2
    <3>3. OnlySlipped(x) BY <1>1, <3>1, <3>2 DEF ClosedInvariant, ClosedSwept
    <3> QED BY <1>4, <3>3
  <2> QED BY <2>1, <2>2
<1> QED BY <1>7, <1>8, <1>9 DEF ClosedInvariant

LEMMA ClosedNext ==
  ASSUME TypeInvariant, ClosedInvariant, [Next]_vars
  PROVE  ClosedInvariant'
<1>1. ASSUME NEW w \in Workers, WriteRole(w) PROVE ClosedInvariant'
  <2>1. /\ pc[w] = "writeRole" /\ Finish(w) /\ Forget(w) /\ UNCHANGED <<tokens, born, unswept>>
        /\ \E role : accounts' = [accounts EXCEPT ![req[w].user] = [@ EXCEPT !.role = role]]
    BY <1>1 DEF WriteRole, SetAccount
  <2>2. SameDisabled
    <3>1. PICK role : accounts' = [accounts EXCEPT ![req[w].user] =
                                     [accounts[req[w].user] EXCEPT !.role = role]]
      BY <2>1
    <3>2. accounts \in [Users -> AccountRow] BY TypeParts
    <3>3. \A row \in AccountRow : [row EXCEPT !.role = role].disabled = row.disabled
      BY DEF AccountRow
    <3> QED BY <3>1, <3>2, <3>3 DEF SameDisabled
  <2> QED BY <2>1, <2>2, TokensIdle, ClosedFinish
<1>2. CASE SyncFromToken
  <2>1. UNCHANGED <<tokens, born, pc, req, dirty, unswept>> BY <1>2 DEF SyncFromToken
  <2>2. SameDisabled
    <3>1. PICK u, role : accounts' = [accounts EXCEPT ![u] = [accounts[u] EXCEPT !.role = role]]
      BY <1>2 DEF SyncFromToken, SetAccount
    <3>2. accounts \in [Users -> AccountRow] BY TypeParts
    <3>3. \A row \in AccountRow : [row EXCEPT !.role = role].disabled = row.disabled
      BY DEF AccountRow
    <3> QED BY <3>1, <3>2, <3>3 DEF SameDisabled
  <2> QED BY <2>1, <2>2, TokensIdle, ClosedIdle
<1>3. CASE AccessExpires \/ Unlock \/ TokenExpires \/ NightlyCleanup \/ UNCHANGED vars
  <2>1. UNCHANGED <<accounts, tokens, born, pc, req, dirty, unswept>>
    BY <1>3 DEF AccessExpires, Unlock, TokenExpires, NightlyCleanup, vars, tables, ghosts
  <2> QED BY <2>1, TokensIdle, ClosedIdle DEF SameDisabled
<1>4. ASSUME NEW w \in Workers, RefuseRequest(w) PROVE ClosedInvariant'
  BY <1>3, <1>4 DEF RefuseRequest
<1> QED BY <1>1, <1>2, <1>3, <1>4, ClosedSubmit, ClosedReads, ClosedMakes, ClosedMarks,
           ClosedSweeps
        DEF Next, Proceed, Makes

(* Once the handler that disabled an account has swept its sessions, what  *)
(* is still valid was made by a request that had read the account before,  *)
(* by a password reset, or between the two statements of a deletion.       *)
THEOREM DisabledAreOut == Spec => []DisabledStayOut
<1>1. Init => ClosedInvariant
  BY DEF Init, ClosedInvariant, MakersKnow, DeletionSwept, ClosedSwept
<1>2. ClosedInvariant /\ TypeInvariant => DisabledStayOut
  <2> SUFFICES ASSUME ClosedInvariant, TypeInvariant PROVE DisabledStayOut
    OBVIOUS
  <2>1. \A t \in Issued : tokens[t].user \in Users BY TypeParts
  <2> QED BY <2>1 DEF ClosedInvariant, ClosedSwept, OnlySlipped, Valid, Live, DisabledStayOut
<1> QED BY <1>1, <1>2, ClosedNext, TypeAlways, PTL DEF Spec

-------------------------------------------------------------------------------
(* Lineages. *)

Rotating == {"readUser", "rotate"}

(* A step that makes no token: a handler that is to rotate a token was so  *)
(* before, or has just found it valid.                                     *)
LEMMA LineageQuiet ==
  ASSUME TypeInvariant, LineageInvariant, TokensKept, born' = born, forks' = forks,
         \A v \in Workers : pc'[v] \in Rotating =>
           \/ pc[v] \in Rotating /\ req'[v].from = req[v].from /\ seen'[v] = seen[v]
           \/ req'[v].from \in Issued /\ Valid(req'[v].from)
  PROVE  LineageInvariant'
<1>1. Issued' = Issued /\ \A t \in Issued : Lineage(t)' = Lineage(t) /\ (~Valid(t) => ~Valid(t)')
  BY DEF TokensKept, Lineage, Valid
<1>2. AncestorsRevoked'
  BY <1>1 DEF LineageInvariant, AncestorsRevoked
<1>3. RelativesFork'
  <2> SUFFICES ASSUME NEW a \in Issued, NEW b \in Issued, Lineage(a) \intersect Lineage(b) # {}
               PROVE  a \in Lineage(b) \/ b \in Lineage(a) \/ Forked(a, b)'
    BY <1>1 DEF RelativesFork
  <2>1. Forked(a, b) => Forked(a, b)' BY DEF Forked
  <2> QED BY <2>1 DEF LineageInvariant, RelativesFork
<1>4. RotatorsSaw'
  <2> SUFFICES ASSUME NEW v \in Workers, pc'[v] \in Rotating,
                      NEW b \in Issued, req'[v].from \in Lineage(b), b # req'[v].from
               PROVE  seen'[v] \intersect Lineage(b) # {}
    BY <1>1 DEF RotatorsSaw, Rotating
  <2>1. CASE pc[v] \in Rotating /\ req'[v].from = req[v].from /\ seen'[v] = seen[v]
    BY <2>1 DEF LineageInvariant, RotatorsSaw, Rotating
  <2>2. CASE req'[v].from \in Issued /\ Valid(req'[v].from)
    BY <2>2 DEF LineageInvariant, AncestorsRevoked
  <2> QED BY <2>1, <2>2
<1> QED BY <1>2, <1>3, <1>4 DEF LineageInvariant

LEMMA LineageGoto ==
  ASSUME TypeInvariant, LineageInvariant, TokensKept, born' = born, forks' = forks,
         NEW w \in Workers, NEW to, NEW request, Goto(w, to, request),
         to \in Rotating =>
           \/ pc[w] \in Rotating /\ request.from = req[w].from /\ seen'[w] = seen[w]
           \/ request.from \in Issued /\ Valid(request.from),
         \A v \in Workers \ {w} : seen'[v] = seen[v]
  PROVE  LineageInvariant'
<1>1. /\ pc'[w] = to /\ req'[w] = request
      /\ \A v \in Workers \ {w} : pc'[v] = pc[v] /\ req'[v] = req[v]
  BY TypeParts DEF Goto
<1>2. ASSUME NEW v \in Workers, pc'[v] \in Rotating
      PROVE  \/ pc[v] \in Rotating /\ req'[v].from = req[v].from /\ seen'[v] = seen[v]
             \/ req'[v].from \in Issued /\ Valid(req'[v].from)
  BY <1>1, <1>2
<1> QED BY <1>2, LineageQuiet

LEMMA LineageInsert ==
  ASSUME TypeInvariant, LineageInvariant, NEW w \in Workers, InsertToken(w)
  PROVE  LineageInvariant'
<1>0. Makes(w) BY DEF Makes
<1>1. PICK id :
      /\ id = NextId /\ Issued' = Issued \union {id} /\ id \notin Issued
      /\ \A t \in Issued : tokens'[t] = tokens[t]
  BY <1>0, MakesTokens
<1>2. /\ \A t \in Issued : Lineage(t)' = Lineage(t) /\ Lineage(t) \subseteq Issued
      /\ Lineage(id)' = {id}
  <2>1. ~Rotate(w) BY <1>0, MakesParts
  <2>2. /\ \A t \in Issued : born'[t] = born[t] BY <1>0, MakesBorn
  <2>3. born'[id].lineage = {id} BY <1>0, <1>1, <2>1, MakesBorn
  <2>4. \A t \in Issued : Lineage(t) \subseteq Issued BY BornParts
  <2>5. \A t : Lineage(t)' = born'[t].lineage BY DEF Lineage
  <2> QED BY <2>2, <2>3, <2>4, <2>5 DEF Lineage
<1>3. AncestorsRevoked'
  BY <1>1, <1>2 DEF LineageInvariant, AncestorsRevoked, Valid
<1>4. forks' = forks BY <1>0, MakesSeen
<1>5. RelativesFork'
  <2> SUFFICES ASSUME NEW a \in Issued', NEW b \in Issued',
                      Lineage(a)' \intersect Lineage(b)' # {}
               PROVE  a \in Lineage(b)' \/ b \in Lineage(a)' \/ Forked(a, b)'
    BY DEF RelativesFork
  <2>1. CASE a \in Issued /\ b \in Issued
    <3>1. Forked(a, b) => Forked(a, b)' BY <1>2, <1>4, <2>1 DEF Forked, Lineage
    <3> QED BY <1>2, <2>1, <3>1 DEF LineageInvariant, RelativesFork
  <2>2. CASE a = id \/ b = id
    <3>1. \A t \in Issued : Lineage(t)' \intersect {id} = {} BY <1>1, <1>2
    <3>2. a = id /\ b = id BY <1>1, <1>2, <2>2, <3>1
    <3> QED BY <1>2, <3>2
  <2> QED BY <1>1, <2>1, <2>2
<1>6. RotatorsSaw'
  <2> SUFFICES ASSUME NEW v \in Workers, pc'[v] \in Rotating,
                      NEW b \in Issued', req'[v].from \in Lineage(b)', b # req'[v].from
               PROVE  seen'[v] \intersect Lineage(b)' # {}
    BY DEF RotatorsSaw, Rotating
  <2>1. v # w /\ pc'[v] = pc[v] /\ req'[v] = req[v]
    BY <1>0, MakesParts, TypeParts DEF Finish, Goto, Rotating
  <2>2. seen[v] \subseteq seen'[v] BY <1>0, <2>1, MakesSeen
  <2>3. b \in Issued
    <3>1. req[v].from \in Issued BY <2>1, HandlerParts DEF Rotating
    <3> QED BY <1>1, <1>2, <2>1, <3>1
  <2> QED BY <1>2, <2>1, <2>2, <2>3 DEF LineageInvariant, RotatorsSaw, Rotating
<1> QED BY <1>3, <1>5, <1>6 DEF LineageInvariant

(* The row that a rotation inserts descends from the token it replaces;    *)
(* what else descends from that one, the handler saw.                      *)
LEMMA LineageRotate ==
  ASSUME TypeInvariant, LineageInvariant, NEW w \in Workers, Rotate(w)
  PROVE  LineageInvariant'
<1> DEFINE from == req[w].from
<1>0. Makes(w) /\ from \in Issued /\ pc[w] \in Rotating /\ Finish(w)
  BY MakesParts DEF Makes, Rotating
<1>1. PICK id :
      /\ id = NextId /\ Issued' = Issued \union {id} /\ id \notin Issued
      /\ \A t \in Issued : tokens[t].revoked => tokens'[t].revoked
      /\ tokens'[from].revoked
  BY <1>0, MakesTokens
<1>2. /\ \A t \in Issued : /\ Lineage(t)' = Lineage(t) /\ Lineage(t) \subseteq Issued
                           /\ t \in Lineage(t)
      /\ Lineage(id)' = Lineage(from) \union {id}
  <2>1. \A t \in Issued : born'[t] = born[t] BY <1>0, MakesBorn
  <2>2. born'[id].lineage = Lineage(from) \union {id} BY <1>0, <1>1, MakesBorn
  <2>3. \A t \in Issued : Lineage(t) \subseteq Issued /\ t \in Lineage(t) BY BornParts
  <2>4. \A t : Lineage(t)' = born'[t].lineage BY DEF Lineage
  <2> HIDE DEF from
  <2> QED BY <2>1, <2>2, <2>3, <2>4 DEF Lineage
<1>3. forks' = forks \union {<<t, id>> : t \in seen[w]} BY <1>0, <1>1, MakesSeen
<1> HIDE DEF from
<1>4. AncestorsRevoked'
  <2> SUFFICES ASSUME NEW a \in Issued', NEW b \in Issued', a \in Lineage(b)', a # b
               PROVE  tokens'[a].revoked
    BY DEF AncestorsRevoked, Valid
  <2>1. CASE b \in Issued
    BY <1>1, <1>2, <2>1 DEF LineageInvariant, AncestorsRevoked, Valid
  <2>2. CASE b = id
    <3>1. a \in Lineage(from) BY <1>2, <2>2
    <3>2. CASE a = from BY <1>1, <3>2
    <3>3. CASE a # from
      BY <1>0, <1>1, <1>2, <3>1, <3>3 DEF LineageInvariant, AncestorsRevoked, Valid
    <3> QED BY <3>2, <3>3
  <2> QED BY <1>1, <2>1, <2>2
<1>5. ASSUME NEW a \in Issued, Lineage(a)' \intersect Lineage(id)' # {}
      PROVE  a \in Lineage(id)' \/ Forked(a, id)'
  <2>1. Lineage(a) \intersect Lineage(from) # {} BY <1>1, <1>2, <1>5
  <2>2. a \in Lineage(from) \/ from \in Lineage(a) \/ Forked(a, from)
    BY <1>0, <2>1 DEF LineageInvariant, RelativesFork
  <2>3. CASE a \in Lineage(from) BY <1>2, <2>3
  <2>4. CASE from \in Lineage(a) /\ a # from
    <3>1. seen[w] \intersect Lineage(a) # {}
      BY <1>0, <2>4 DEF LineageInvariant, RotatorsSaw, Rotating, from
    <3>2. PICK c : c \in seen[w] /\ c \in Lineage(a) BY <3>1
    <3> DEFINE f == <<c, id>>
    <3>3. f \in forks' /\ f[1] = c /\ f[2] = id BY <1>3, <3>2
    <3> HIDE DEF f
    <3>4. f[1] \in Lineage(a)' /\ f[2] \in Lineage(id)' BY <1>2, <3>2, <3>3
    <3> QED BY <3>3, <3>4 DEF Forked, Lineage
  <2>5. CASE Forked(a, from)
    <3>1. PICK f \in forks : \/ f[1] \in Lineage(a) /\ f[2] \in Lineage(from)
                             \/ f[2] \in Lineage(a) /\ f[1] \in Lineage(from)
      BY <2>5 DEF Forked, Lineage
    <3>2. f \in forks' BY <1>3
    <3>3. \/ f[1] \in Lineage(a)' /\ f[2] \in Lineage(id)'
          \/ f[2] \in Lineage(a)' /\ f[1] \in Lineage(id)'
      BY <1>2, <3>1
    <3> QED BY <3>2, <3>3 DEF Forked, Lineage
  <2> QED BY <1>0, <1>2, <2>2, <2>3, <2>4, <2>5
<1>6. RelativesFork'
  <2> SUFFICES ASSUME NEW a \in Issued', NEW b \in Issued',
                      Lineage(a)' \intersect Lineage(b)' # {}
               PROVE  a \in Lineage(b)' \/ b \in Lineage(a)' \/ Forked(a, b)'
    BY DEF RelativesFork
  <2>1. CASE a \in Issued /\ b \in Issued
    <3>1. Forked(a, b) => Forked(a, b)' BY <1>2, <1>3, <2>1 DEF Forked, Lineage
    <3> QED BY <1>2, <2>1, <3>1 DEF LineageInvariant, RelativesFork
  <2>2. CASE a \in Issued /\ b = id BY <1>5, <2>2
  <2>3. CASE a = id /\ b \in Issued
    <3>1. b \in Lineage(id)' \/ Forked(b, id)' BY <1>5, <2>3
    <3>2. Forked(b, id)' => Forked(id, b)' BY DEF Forked
    <3> QED BY <2>3, <3>1, <3>2
  <2>4. CASE a = id /\ b = id BY <1>2, <2>4
  <2> QED BY <1>1, <2>1, <2>2, <2>3, <2>4
<1>7. RotatorsSaw'
  <2> SUFFICES ASSUME NEW v \in Workers, pc'[v] \in Rotating,
                      NEW b \in Issued', req'[v].from \in Lineage(b)', b # req'[v].from
               PROVE  seen'[v] \intersect Lineage(b)' # {}
    BY DEF RotatorsSaw, Rotating
  <2>1. v # w /\ pc'[v] = pc[v] /\ req'[v] = req[v]
    BY <1>0, TypeParts DEF Finish, Goto, Rotating
  <2>2. seen[v] \subseteq seen'[v] BY <1>0, <2>1, MakesSeen
  <2>3. CASE b \in Issued
    BY <1>2, <2>1, <2>2, <2>3 DEF LineageInvariant, RotatorsSaw, Rotating
  <2>4. CASE b = id
    <3>1. req[v].from \in Lineage(from) BY <1>2, <2>1, <2>4
    <3>2. CASE req[v].from = from
      <4>1. id \in seen'[v] BY <1>0, <1>1, <2>1, <3>2, MakesSeen DEF Rotating, from
      <4> QED BY <1>2, <2>4, <4>1
    <3>3. CASE req[v].from # from
      <4>1. seen[v] \intersect Lineage(from) # {}
        BY <1>0, <2>1, <3>1, <3>3 DEF LineageInvariant, RotatorsSaw, Rotating
      <4> QED BY <1>2, <2>2, <2>4, <4>1
    <3> QED BY <3>2, <3>3
  <2> QED BY <1>1, <2>3, <2>4
<1> QED BY <1>4, <1>6, <1>7 DEF LineageInvariant

LEMMA StartsElsewhere ==
  ASSUME NEW w \in Workers, Submit(w), ~SubmitRefresh(w)
  PROVE  \E to, request :
           Goto(w, to, request) /\ to \notin Rotating \union {"walkRead", "walkRevoke"}
<1>1. ASSUME NEW op, NEW to, NEW request, Start(w, op, to, request),
             to \notin Rotating \union {"walkRead", "walkRevoke"}
      PROVE  \E x, r : Goto(w, x, r) /\ x \notin Rotating \union {"walkRead", "walkRevoke"}
  BY <1>1 DEF Start
<1>2. CASE SubmitLogout(w)
  <2> DEFINE request(t) == [Call("logout", tokens[t].user) EXCEPT !.from = t, !.on = t]
  <2>1. PICK t \in Issued : Start(w, "logout", "writeLogout", request(t))
    BY <1>2 DEF SubmitLogout, Stored
  <2> HIDE DEF request
  <2> QED BY <1>1, <2>1 DEF Rotating
<1>3. CASE ~SubmitLogout(w)
  <2>1. PICK op, to, u :
          /\ to \notin Rotating \union {"walkRead", "walkRevoke"}
          /\ Start(w, op, to, Call(op, u))
    BY <1>3 DEF Submit, SubmitLogin, SubmitReset, SubmitDisable, SubmitEnable, SubmitDelete,
                SubmitRevokeAll, SubmitChangeRole, Order, Rotating
  <2> QED BY <1>1, <2>1
<1> QED BY <1>2, <1>3

LEMMA LineageNext ==
  ASSUME TypeInvariant, LineageInvariant, [Next]_vars
  PROVE  LineageInvariant'
<1>1. ASSUME NEW w \in Workers, Submit(w) PROVE LineageInvariant'
  <2>1. UNCHANGED <<tokens, born, forks, seen>>
    BY <1>1 DEF Submit, SubmitLogin, SubmitReset, SubmitRefresh, SubmitLogout, SubmitDisable,
                SubmitEnable, SubmitDelete, SubmitRevokeAll, SubmitChangeRole, Order, Start,
                tables, ghosts
  <2>2. CASE ~SubmitRefresh(w)
    <3>1. PICK to, request :
            Goto(w, to, request) /\ to \notin Rotating \union {"walkRead", "walkRevoke"}
      BY <1>1, <2>2, StartsElsewhere
    <3> QED BY <2>1, <3>1, TokensIdle, LineageGoto
  <2>3. CASE SubmitRefresh(w)
    <3> DEFINE call(t) ==
          [Call(IF Reused(t) THEN "reuse" ELSE "refresh", tokens[t].user) EXCEPT !.from = t]
               walk(t) == [call(t) EXCEPT !.on = tokens[t].next]
    <3>1. \A t : call(t).from = t BY DEF Call
    <3>2. PICK t \in Issued :
            \/ Goto(w, "walkRead", walk(t))
            \/ Valid(t) /\ Goto(w, "readUser", call(t))
      BY <2>3 DEF SubmitRefresh, Start, Stored, Reused, Valid
    <3> HIDE DEF walk, call
    <3>3. CASE Goto(w, "walkRead", walk(t))
      BY <2>1, <3>3, TokensIdle, LineageGoto DEF Rotating
    <3>4. CASE Valid(t) /\ Goto(w, "readUser", call(t))
      <4>1. call(t).from \in Issued /\ Valid(call(t).from) BY <3>1, <3>4
      <4> QED BY <2>1, <3>4, <4>1, TokensIdle, LineageGoto
    <3> QED BY <3>2, <3>3, <3>4
  <2> QED BY <2>2, <2>3
<1>2. ASSUME NEW w \in Workers,
             \/ ReadCredentials(w) \/ WriteAttempts(w) \/ WritePassword(w) \/ WalkRead(w)
             \/ WalkRevoke(w) \/ WriteLogout(w) \/ MarkDisabled(w) \/ MarkEnabled(w)
             \/ Sweep(w) \/ MarkDeleted(w) \/ WriteRole(w) \/ Die(w)
      PROVE  LineageInvariant'
  <2>1. UNCHANGED <<born, forks>> /\ (UNCHANGED seen \/ Forget(w))
    BY <1>2 DEF ReadCredentials, WriteAttempts, WritePassword, WalkRead, WalkRevoke, WriteLogout,
                MarkDisabled, MarkEnabled, Sweep, MarkDeleted, WriteRole, Die, ghosts
  <2>2. UNCHANGED tokens \/ \E set : Revoke(set)
    BY <1>2 DEF ReadCredentials, WriteAttempts, WritePassword, WalkRead, WalkRevoke, WriteLogout,
                MarkDisabled, MarkEnabled, Sweep, MarkDeleted, WriteRole, Die, tables
  <2>3. TokensKept BY <2>2, TokensIdle, RevokeRows
  <2>4. \A v \in Workers \ {w} : seen'[v] = seen[v] BY <2>1, TypeParts DEF Forget
  <2>5. PICK to, request : Goto(w, to, request) /\ to \notin Rotating
    BY <1>2 DEF ReadCredentials, WriteAttempts, WritePassword, WalkRead, WalkRevoke, WriteLogout,
                MarkDisabled, MarkEnabled, Sweep, MarkDeleted, WriteRole, Die, Finish, Rotating
  <2> QED BY <2>1, <2>3, <2>4, <2>5, LineageGoto
<1>3. ASSUME NEW w \in Workers, ReadUser(w) PROVE LineageInvariant'
  <2>1. UNCHANGED <<tokens, born, forks>> BY <1>3 DEF ReadUser, tables
  <2>2. CASE Finish(w) /\ Forget(w)
    <3>1. \A v \in Workers \ {w} : seen'[v] = seen[v] BY <2>2, TypeParts DEF Forget
    <3>2. "idle" \notin Rotating BY DEF Rotating
    <3> QED BY <2>1, <2>2, <3>1, <3>2, TokensIdle, LineageGoto DEF Finish
  <2>3. CASE ~(Finish(w) /\ Forget(w))
    <3> DEFINE u == req[w].user
               request == [req[w] EXCEPT !.role = accounts[u].role, !.asOf = edits[u]]
    <3>1. pc[w] = "readUser" /\ Goto(w, "rotate", request) /\ seen' = seen
      BY <1>3, <2>3 DEF ReadUser
    <3>2. req[w] \in Handler BY <3>1, HandlerParts
    <3>3. request.from = req[w].from BY <3>2 DEF Handler
    <3>4. pc[w] \in Rotating BY <3>1 DEF Rotating
    <3> HIDE DEF request
    <3> QED BY <2>1, <3>1, <3>3, <3>4, TokensIdle, LineageGoto
  <2> QED BY <2>2, <2>3
<1>4. CASE \/ SyncFromToken \/ AccessExpires \/ Unlock \/ TokenExpires \/ NightlyCleanup
           \/ UNCHANGED vars
  <2>1. UNCHANGED <<tokens, born, forks, pc, req, seen>>
    BY <1>4 DEF SyncFromToken, AccessExpires, Unlock, TokenExpires, NightlyCleanup, vars, tables,
                ghosts
  <2> QED BY <2>1, TokensIdle, LineageQuiet
<1>5. ASSUME NEW w \in Workers, RefuseRequest(w) PROVE LineageInvariant'
  BY <1>4, <1>5 DEF RefuseRequest
<1> QED BY <1>1, <1>2, <1>3, <1>4, <1>5, LineageInsert, LineageRotate DEF Next, Proceed

LEMMA LineageAlways == Spec => []LineageInvariant
<1>1. Init => LineageInvariant
  BY DEF Init, LineageInvariant, AncestorsRevoked, RelativesFork, RotatorsSaw, Issued
<1> QED BY <1>1, LineageNext, TypeAlways, PTL DEF Spec

(* Rotation leaves a login one valid token, unless two refreshes of one    *)
(* token ran past each other: then the two descend from the two sides of   *)
(* that fork.                                                              *)
THEOREM OneTokenPerLogin == Spec => []OneValidToken
<1>1. LineageInvariant => OneValidToken
  BY DEF LineageInvariant, RelativesFork, AncestorsRevoked, OneValidToken, Live, Valid, Lineage
<1> QED BY <1>1, LineageAlways, PTL

-------------------------------------------------------------------------------
(* The tree of tokens, and the chains in it. *)

LEMMA OthersKeep ==
  ASSUME TypeInvariant, [Next]_vars, \A w \in Workers : ~Makes(w)
  PROVE  TokensKept /\ born' = born
<1>1. ASSUME NEW w \in Workers, Submit(w) PROVE UNCHANGED <<tokens, born>>
  BY <1>1 DEF Submit, SubmitLogin, SubmitReset, SubmitRefresh, SubmitLogout, SubmitDisable,
              SubmitEnable, SubmitDelete, SubmitRevokeAll, SubmitChangeRole, Order, Start,
              tables, ghosts
<1>2. ASSUME NEW w \in Workers, Proceed(w) \/ Die(w)
      PROVE  (UNCHANGED tokens \/ \E set : Revoke(set)) /\ born' = born
  <2>1. ~Makes(w) OBVIOUS
  <2> QED BY <1>2, <2>1
          DEF Proceed, Makes, ReadCredentials, WriteAttempts, WritePassword, ReadUser, WalkRead,
              WalkRevoke, WriteLogout, MarkDisabled, MarkEnabled, Sweep, MarkDeleted, WriteRole,
              Die, tables, ghosts
<1>3. CASE \/ SyncFromToken \/ AccessExpires \/ Unlock \/ TokenExpires \/ NightlyCleanup
           \/ UNCHANGED vars
  <2>1. UNCHANGED <<tokens, born>>
    BY <1>3 DEF SyncFromToken, AccessExpires, Unlock, TokenExpires, NightlyCleanup, vars, tables,
                ghosts
  <2> QED BY <2>1, TokensIdle
<1>4. ASSUME NEW w \in Workers, RefuseRequest(w) PROVE TokensKept /\ born' = born
  BY <1>3, <1>4 DEF RefuseRequest
<1>5. ASSUME NEW w \in Workers, Submit(w) PROVE TokensKept /\ born' = born
  BY <1>1, <1>5, TokensIdle
<1>6. ASSUME NEW w \in Workers, Proceed(w) \/ Die(w) PROVE TokensKept /\ born' = born
  BY <1>2, <1>6, TokensIdle, RevokeRows
<1> QED BY <1>3, <1>4, <1>5, <1>6 DEF Next

LEMMA MaxOfLineage ==
  ASSUME NEW n \in Nat, NEW S, S \subseteq 1 .. n, n \in S
  PROVE  Max(S) = n
<1>1. \A y \in S : y \in Nat /\ n >= y OBVIOUS
<1> DEFINE Greatest(x) == x \in S /\ \A y \in S : x >= y
<1>2. \E x : Greatest(x) BY <1>1
<1>3. Max(S) = CHOOSE x : Greatest(x) BY DEF Max
<1> HIDE DEF Greatest
<1>4. Greatest(Max(S)) BY <1>2, <1>3, Zenon
<1>5. Max(S) \in S /\ \A y \in S : Max(S) >= y BY <1>4 DEF Greatest
<1>6. PICK m : m = Max(S) OBVIOUS
<1>7. m \in Nat /\ n >= m /\ m >= n BY <1>1, <1>5, <1>6
<1>8. m = n BY <1>7
<1> QED BY <1>6, <1>8

LEMMA TreeNext ==
  ASSUME TypeInvariant, TreeInvariant, [Next]_vars
  PROVE  TreeInvariant'
<1>1. CASE \A w \in Workers : ~Makes(w)
  <2>1. Issued' = Issued /\ born' = born BY <1>1, OthersKeep DEF TokensKept
  <2> QED BY <2>1
          DEF TreeInvariant, Nested, ParentsKnown, ChildOnTheWay, Lineage, Parent
<1>2. ASSUME NEW w \in Workers, Makes(w) PROVE TreeInvariant'
  <2>1. PICK id : /\ id = NextId /\ id \in Nat /\ Issued' = Issued \union {id} /\ id \notin Issued
                  /\ \A t \in Issued : t \in Nat /\ t < id
    BY <1>2, MakesTokens, TypeParts
  <2>2. \A t \in Issued : /\ born'[t] = born[t] /\ born[t].lineage = Lineage(t)
                          /\ Lineage(t) \subseteq Issued /\ t \in Lineage(t)
    BY <1>2, MakesBorn, BornParts DEF Lineage
  <2>3. \A t \in Issued : Lineage(t)' = Lineage(t) /\ Parent(t)' = Parent(t)
    <3> SUFFICES ASSUME NEW t \in Issued
                 PROVE  Lineage(t)' = Lineage(t) /\ Parent(t)' = Parent(t)
      OBVIOUS
    <3>1. born'[t] = born[t] BY <2>2
    <3> QED BY <3>1 DEF Lineage, Parent
  <2>4. CASE InsertToken(w)
    <3>1. Lineage(id)' = {id}
      <4>1. ~Rotate(w) BY <1>2, <2>4, MakesParts
      <4> QED BY <1>2, <2>1, <4>1, MakesBorn DEF Lineage
    <3>2. \A a \in Issued' : a = id \/ a \in Issued BY <2>1
    <3>3. Nested'
      BY <2>1, <2>2, <2>3, <3>1, <3>2 DEF TreeInvariant, Nested
    <3>4. ParentsKnown'
      BY <2>1, <2>2, <2>3, <3>1, <3>2 DEF TreeInvariant, ParentsKnown
    <3>5. ChildOnTheWay'
      <4> SUFFICES ASSUME NEW d \in Issued', NEW a \in Lineage(d)', a # d
                   PROVE  \E x \in Lineage(d)' : x > a /\ Parent(x)' = a
        BY DEF ChildOnTheWay
      <4>1. d \in Issued BY <3>1, <3>2
      <4>2. PICK x \in Lineage(d) : x > a /\ Parent(x) = a
        BY <2>3, <4>1 DEF TreeInvariant, ChildOnTheWay
      <4> QED BY <2>2, <2>3, <4>1, <4>2
    <3> QED BY <3>3, <3>4, <3>5 DEF TreeInvariant
  <2>5. CASE Rotate(w)
    <3>1. PICK from : from = req[w].from OBVIOUS
    <3>2. from \in Issued BY <1>2, <2>5, <3>1, MakesParts
    <3>3. Lineage(id)' = Lineage(from) \union {id}
      BY <1>2, <2>1, <2>5, <3>1, MakesBorn DEF Lineage
    <3>4. Parent(id)' = from
      <4>1. Lineage(id)' \ {id} = Lineage(from) BY <2>1, <2>2, <3>2, <3>3
      <4>2. from \in Nat /\ Lineage(from) \subseteq 1 .. from /\ from \in Lineage(from)
        BY <2>1, <3>2, BornParts
      <4>3. Max(Lineage(from)) = from BY <4>2, MaxOfLineage
      <4>4. Parent(id)' = Max(Lineage(id)' \ {id}) BY DEF Parent, Lineage
      <4> QED BY <4>1, <4>3, <4>4
    <3>5. from < id BY <2>1, <3>2
    <3>6. Nested'
      <4> SUFFICES ASSUME NEW d \in Issued', NEW x \in Lineage(d)', NEW a \in Lineage(d)', a <= x
                   PROVE  a \in Lineage(x)'
        BY DEF Nested
      <4>1. CASE d \in Issued BY <2>2, <2>3, <4>1 DEF TreeInvariant, Nested
      <4>2. CASE d = id /\ x = id BY <4>2
      <4>3. CASE d = id /\ x # id
        <5>1. x \in Lineage(from) BY <3>3, <4>3
        <5>2. x \in Issued BY <2>2, <3>2, <5>1
        <5>3. x < id BY <2>1, <5>2
        <5>4. a # id BY <2>1, <5>2, <5>3
        <5>5. a \in Lineage(from) BY <3>3, <4>3, <5>4
        <5> QED BY <2>3, <3>2, <5>1, <5>2, <5>5 DEF TreeInvariant, Nested
      <4> QED BY <2>1, <4>1, <4>2, <4>3
    <3>7. ParentsKnown'
      <4> SUFFICES ASSUME NEW x \in Issued'
                   PROVE  Lineage(x)' = {x} \/ (Parent(x)' \in Lineage(x)' /\ Parent(x)' < x)
        BY DEF ParentsKnown
      <4>1. CASE x \in Issued BY <2>3, <4>1 DEF TreeInvariant, ParentsKnown
      <4>2. CASE x = id BY <2>2, <3>2, <3>3, <3>4, <3>5, <4>2
      <4> QED BY <2>1, <4>1, <4>2
    <3>8. ChildOnTheWay'
      <4> SUFFICES ASSUME NEW d \in Issued', NEW a \in Lineage(d)', a # d
                   PROVE  \E x \in Lineage(d)' : x > a /\ Parent(x)' = a
        BY DEF ChildOnTheWay
      <4>1. CASE d \in Issued
        <5>1. PICK x \in Lineage(d) : x > a /\ Parent(x) = a
          BY <2>3, <4>1 DEF TreeInvariant, ChildOnTheWay
        <5> QED BY <2>2, <2>3, <4>1, <5>1
      <4>2. CASE d = id /\ a = from BY <2>1, <3>2, <3>3, <3>4, <3>5, <4>2
      <4>3. CASE d = id /\ a # from
        <5>1. a \in Lineage(from) BY <3>3, <4>3
        <5>2. PICK x \in Lineage(from) : x > a /\ Parent(x) = a
          BY <3>2, <4>3, <5>1 DEF TreeInvariant, ChildOnTheWay
        <5>3. x \in Issued BY <2>2, <3>2
        <5> QED BY <2>3, <3>3, <4>3, <5>2, <5>3
      <4> QED BY <2>1, <4>1, <4>2, <4>3
    <3> QED BY <3>6, <3>7, <3>8 DEF TreeInvariant
  <2> QED BY <1>2, <2>4, <2>5 DEF Makes
<1> QED BY <1>1, <1>2

(* No step makes a chain lead where it did not: what replaces a token that *)
(* was rotated before is new.                                              *)
ChainsKept ==
  /\ Issued \subseteq Issued'
  /\ \A t \in Issued : /\ born'[t] = born[t]
                       /\ tokens[t].revoked => tokens'[t].revoked
                       /\ tokens'[t].next = tokens[t].next \/ tokens'[t].next \notin Issued

LEMMA OnChainKept ==
  ASSUME TypeInvariant, TreeInvariant, ChainsKept, NEW d \in Issued, NEW t, OnChain(t, d)'
  PROVE  OnChain(t, d)
<1>1. Lineage(d)' = Lineage(d) /\ d \in Issued /\ Lineage(d) \subseteq Issued
  BY BornParts DEF ChainsKept, Lineage
<1>2. t \in Lineage(d) /\ t # d /\ t \in Nat
  BY <1>1, TypeParts DEF OnChain
<1>3. ASSUME NEW x \in Lineage(d), x > t
      PROVE  ~OffChain(x)
  <2>1. x \in Issued /\ x \in Nat /\ born'[x] = born[x] BY <1>1, TypeParts DEF ChainsKept
  <2>2. t \in Lineage(x) BY <1>2, <1>3, <2>1 DEF TreeInvariant, Nested
  <2>3. t # x BY <1>2, <1>3, <2>1
  <2>4. Parent(x) \in Lineage(x) BY <2>1, <2>2, <2>3 DEF TreeInvariant, ParentsKnown
  <2>5. Parent(x) \in Issued BY <2>1, <2>4, BornParts
  <2>6. ~OffChain(x)' BY <1>1, <1>3 DEF OnChain
  <2>7. Parent(x)' = Parent(x) BY <2>1 DEF Parent
  <2>8. ~born'[x].late /\ tokens'[Parent(x)].next = x BY <2>6, <2>7 DEF OffChain
  <2>9. tokens[Parent(x)].next = x BY <2>1, <2>5, <2>8 DEF ChainsKept
  <2> QED BY <2>1, <2>8, <2>9 DEF OffChain
<1> QED BY <1>2, <1>3 DEF OnChain

-------------------------------------------------------------------------------
(* Reuse. *)

(* The chain leads from a token to whatever descends from it on the chain. *)
LEMMA NextOnChain ==
  ASSUME TypeInvariant, TreeInvariant, NEW d \in Issued, NEW t, OnChain(t, d),
         NEW a \in Lineage(d), a # d, a = t \/ a > t
  PROVE  tokens[a].next \in Lineage(d) /\ tokens[a].next # NoToken
<1>1. PICK x \in Lineage(d) : x > a /\ Parent(x) = a
  BY DEF TreeInvariant, ChildOnTheWay
<1>2. x \in Nat /\ a \in Nat /\ t \in Nat /\ x # NoToken
  BY BornParts, TypeParts DEF OnChain
<1>3. x > t BY <1>1, <1>2
<1>4. ~OffChain(x) BY <1>3 DEF OnChain
<1> QED BY <1>1, <1>2, <1>4 DEF OffChain

LEMMA KeptChains ==
  ASSUME TypeInvariant, TokensKept, born' = born
  PROVE  ChainsKept
BY DEF TokensKept, ChainsKept

LEMMA WalksKept ==
  ASSUME TypeInvariant, TreeInvariant, TokensKept, born' = born, NEW label, NEW r,
         label \in {"walkRead", "walkRevoke"} => r.from \in Issued, Walks(label, r)
  PROVE  Walks(label, r)'
<1>1. Issued' = Issued /\ \A d \in Issued : Lineage(d)' = Lineage(d) /\ (Valid(d)' => Valid(d))
  BY DEF TokensKept, Valid, Lineage
<1>2. \A d \in Issued : OnChain(r.from, d)' => OnChain(r.from, d)
  <2> SUFFICES ASSUME NEW d \in Issued, OnChain(r.from, d)' PROVE OnChain(r.from, d)
    OBVIOUS
  <2> QED BY KeptChains, OnChainKept
<1>3. label = "walkRead" => Ahead(r.from, r.on)' BY <1>1, <1>2 DEF Walks, Ahead
<1>4. label = "walkRevoke" => \A d \in Issued' : OnChain(r.from, d)' /\ Valid(d)' => d = r.on
  BY <1>1, <1>2 DEF Walks
<1>5. label \in {"walkRead", "walkRevoke"} => ~Valid(r.from)' BY <1>1 DEF Walks
<1> QED BY <1>3, <1>4, <1>5 DEF Walks

LEMMA EndedKept ==
  ASSUME TypeInvariant, TreeInvariant, TokensKept, born' = born, NEW t \in Issued, Ended(t)
  PROVE  Ended(t)'
<1>1. Issued' = Issued /\ \A d \in Issued : Valid(d)' => Valid(d)
  BY DEF TokensKept, Valid
<1>2. \A d \in Issued : OnChain(t, d)' => OnChain(t, d)
  <2> SUFFICES ASSUME NEW d \in Issued, OnChain(t, d)' PROVE OnChain(t, d)
    OBVIOUS
  <2> QED BY KeptChains, OnChainKept
<1> QED BY <1>1, <1>2 DEF Ended

LEMMA WalkGoto ==
  ASSUME TypeInvariant, TreeInvariant, WalkInvariant, TokensKept, born' = born,
         NEW w \in Workers, NEW to, NEW request, Goto(w, to, request), Walks(to, request)',
         \A t \in exposed' : t \in Issued /\ Ended(t)
  PROVE  WalkInvariant'
<1>1. ASSUME NEW v \in Workers PROVE Walks(pc[v], req[v])'
  <2>1. PICK label, r : label = pc'[v] /\ r = req'[v] OBVIOUS
  <2>2. CASE v = w
    <3>1. label = to /\ r = request BY <2>1, <2>2, TypeParts DEF Goto
    <3> QED BY <2>1, <3>1 DEF Walks
  <2>3. CASE v # w
    <3>1. label = pc[v] /\ r = req[v] BY <2>1, <2>3, TypeParts DEF Goto
    <3>2. Walks(label, r) BY <3>1 DEF WalkInvariant, WalkersAhead
    <3>3. label \in {"walkRead", "walkRevoke"} => r.from \in Issued BY <3>1, HandlerParts
    <3>4. Walks(label, r)' BY <3>2, <3>3, WalksKept
    <3> QED BY <2>1, <3>4 DEF Walks
  <2> QED BY <2>2, <2>3
<1>2. ExposedEnded' BY EndedKept DEF ExposedEnded
<1> QED BY <1>1, <1>2 DEF WalkInvariant, WalkersAhead

LEMMA WalkIdle ==
  ASSUME TypeInvariant, TreeInvariant, WalkInvariant, TokensKept, born' = born,
         UNCHANGED <<pc, req, exposed>>
  PROVE  WalkInvariant'
<1>1. ASSUME NEW v \in Workers PROVE Walks(pc[v], req[v])'
  <2>1. PICK label, r : label = pc[v] /\ r = req[v] OBVIOUS
  <2>2. Walks(label, r) BY <2>1 DEF WalkInvariant, WalkersAhead
  <2>3. label \in {"walkRead", "walkRevoke"} => r.from \in Issued BY <2>1, HandlerParts
  <2>4. Walks(label, r)' BY <2>2, <2>3, WalksKept
  <2> QED BY <2>1, <2>4 DEF Walks
<1>2. ExposedEnded' BY EndedKept, TypeParts DEF WalkInvariant, ExposedEnded
<1> QED BY <1>1, <1>2 DEF WalkInvariant, WalkersAhead

(* A handler that does not walk.                                           *)
LEMMA WalkElse ==
  ASSUME TypeInvariant, TreeInvariant, WalkInvariant, TokensKept, born' = born,
         NEW w \in Workers, NEW to, NEW request, Goto(w, to, request),
         to \notin {"walkRead", "walkRevoke"}, exposed' = exposed
  PROVE  WalkInvariant'
<1>1. Walks(to, request)' BY DEF Walks
<1>2. \A t \in exposed' : t \in Issued /\ Ended(t)
  BY TypeParts DEF WalkInvariant, ExposedEnded
<1> QED BY <1>1, <1>2, WalkGoto

(* Reuse is detected: the walk begins with what replaced the token.        *)
LEMMA WalkBegins ==
  ASSUME TypeInvariant, TreeInvariant, WalkInvariant, NEW w \in Workers, SubmitRefresh(w)
  PROVE  WalkInvariant'
<1> DEFINE call(t) ==
      [Call(IF Reused(t) THEN "reuse" ELSE "refresh", tokens[t].user) EXCEPT !.from = t]
           walk(t) == [call(t) EXCEPT !.on = tokens[t].next]
<1>1. UNCHANGED <<tokens, born, exposed>> BY DEF SubmitRefresh, Start, tables, ghosts
<1>2. TokensKept BY <1>1, TokensIdle
<1>3. \A t : walk(t).from = t /\ walk(t).on = tokens[t].next BY DEF Call
<1>4. PICK t \in Issued :
        \/ Goto(w, "walkRead", walk(t)) /\ ~Valid(t)
        \/ Goto(w, "readUser", call(t))
  BY DEF SubmitRefresh, Start, Stored, Reused, Valid
<1> HIDE DEF walk, call
<1>5. CASE Goto(w, "walkRead", walk(t)) /\ ~Valid(t)
  <2>1. PICK r : r = walk(t) OBVIOUS
  <2>2. r.from = t /\ r.on = tokens[t].next BY <1>3, <2>1
  <2>3. Ahead(t, r.on)
    <3> SUFFICES ASSUME NEW d \in Issued, OnChain(t, d), Valid(d)
                 PROVE  r.on # NoToken /\ r.on \in Lineage(d)
      BY DEF Ahead
    <3>1. t \in Lineage(d) /\ t # d BY DEF OnChain
    <3> QED BY <2>2, <3>1, NextOnChain
  <2>4. r.on = NoToken \/ r.on > t
    BY <2>2, TypeParts DEF TypeInvariant, NextIsYounger
  <2>5. Walks("walkRead", r) BY <1>5, <2>2, <2>3, <2>4 DEF Walks
  <2>6. Walks("walkRead", r)' BY <1>1, <1>2, <2>2, <2>5, WalksKept
  <2>7. \A x \in exposed' : x \in Issued /\ Ended(x)
    BY <1>1, TypeParts DEF WalkInvariant, ExposedEnded
  <2>8. Goto(w, "walkRead", r) BY <1>5, <2>1
  <2> QED BY <1>1, <1>2, <2>6, <2>7, <2>8, WalkGoto
<1>6. CASE Goto(w, "readUser", call(t))
  BY <1>1, <1>2, <1>6, WalkElse
<1> QED BY <1>4, <1>5, <1>6

(* A token on the way is read: it is passed by if it was revoked; else     *)
(* nothing valid is behind it.                                             *)
LEMMA WalkReads ==
  ASSUME TypeInvariant, LineageInvariant, TreeInvariant, WalkInvariant,
         NEW w \in Workers, WalkRead(w)
  PROVE  WalkInvariant'
<1>1. PICK r : r = req[w] OBVIOUS
<1>2. pc[w] = "walkRead" /\ UNCHANGED <<tokens, born>> BY DEF WalkRead, tables
<1>3. r \in Handler /\ r.from \in Issued /\ r.on \in Issued \union {NoToken} /\ TokensKept
  BY <1>1, <1>2, HandlerParts, TokensIdle
<1>4. ~Valid(r.from) /\ Ahead(r.from, r.on) /\ (r.on = NoToken \/ r.on > r.from)
  BY <1>1, <1>2 DEF WalkInvariant, WalkersAhead, Walks
<1>5. \A t \in exposed : t \in Issued /\ Ended(t)
  BY TypeParts DEF WalkInvariant, ExposedEnded
<1>6. CASE r.on \notin Stored
  <2>1. Finish(w) /\ exposed' = IF r.on = NoToken THEN exposed \union {r.from} ELSE exposed
    BY <1>1, <1>6 DEF WalkRead
  <2>2. r.on = NoToken => Ended(r.from) BY <1>4 DEF Ended, Ahead
  <2>3. \A t \in exposed' : t \in Issued /\ Ended(t) BY <1>3, <1>5, <2>1, <2>2
  <2>4. Walks("idle", NoRequest)' BY DEF Walks
  <2> QED BY <1>2, <1>3, <2>1, <2>3, <2>4, WalkGoto DEF Finish
<1>7. CASE r.on \in Stored
  <2> DEFINE next == tokens[r.on].next
  <2>1. r.on \in Issued /\ exposed' = exposed BY <1>1, <1>7 DEF WalkRead, Stored
  <2>2. r.on > r.from /\ r.on \in Nat /\ r.from \in Nat /\ r.on # NoToken
    BY <1>3, <1>4, <2>1, TypeParts
  <2>3. next = NoToken \/ next > r.from
    <3>1. next = NoToken \/ r.on < next BY <2>1 DEF TypeInvariant, NextIsYounger
    <3>2. next \in Nat BY <2>1, TypeParts DEF NoToken
    <3> QED BY <2>2, <3>1, <3>2
  <2>4. \A t \in exposed' : t \in Issued /\ Ended(t) BY <1>5, <2>1
  <2>5. CASE tokens[r.on].revoked
    <3> DEFINE request == [r EXCEPT !.on = next]
    <3>1. Goto(w, "walkRead", request) BY <1>1, <1>7, <2>5 DEF WalkRead, Onward
    <3>2. request.from = r.from /\ request.on = next BY <1>3 DEF Handler
    <3>3. PICK q : q = request OBVIOUS
    <3> HIDE DEF request
    <3>4. Ahead(r.from, next)
      <4> SUFFICES ASSUME NEW d \in Issued, OnChain(r.from, d), Valid(d)
                   PROVE  next # NoToken /\ next \in Lineage(d)
        BY DEF Ahead
      <4>1. r.on \in Lineage(d) BY <1>4 DEF Ahead
      <4>2. r.on # d BY <2>5 DEF Valid
      <4> QED BY <2>2, <4>1, <4>2, NextOnChain
    <3>5. Walks("walkRead", q) BY <1>4, <2>3, <3>2, <3>3, <3>4 DEF Walks
    <3>6. Walks("walkRead", q)' BY <1>2, <1>3, <3>2, <3>3, <3>5, WalksKept
    <3> QED BY <1>2, <1>3, <2>4, <3>1, <3>3, <3>6, WalkGoto
  <2>6. CASE ~tokens[r.on].revoked
    <3> DEFINE request == [r EXCEPT !.next = next]
    <3>1. Goto(w, "walkRevoke", request) BY <1>1, <1>7, <2>6 DEF WalkRead, Onward
    <3>2. request.from = r.from /\ request.on = r.on /\ request.next = next
      BY <1>3 DEF Handler
    <3>3. PICK q : q = request OBVIOUS
    <3> HIDE DEF request
    <3>4. \A d \in Issued : OnChain(r.from, d) /\ Valid(d) => d = r.on
      <4> SUFFICES ASSUME NEW d \in Issued, OnChain(r.from, d), Valid(d), d # r.on
                   PROVE  FALSE
        OBVIOUS
      <4>1. r.on \in Lineage(d) BY <1>4 DEF Ahead
      <4>2. ~Valid(r.on) BY <2>1, <4>1 DEF LineageInvariant, AncestorsRevoked
      <4> QED BY <2>6, <4>2 DEF Valid
    <3>5. Walks("walkRevoke", q) BY <1>4, <2>3, <3>2, <3>3, <3>4 DEF Walks
    <3>6. Walks("walkRevoke", q)' BY <1>2, <1>3, <3>2, <3>3, <3>5, WalksKept
    <3> QED BY <1>2, <1>3, <2>4, <3>1, <3>3, <3>6, WalkGoto
  <2> QED BY <2>5, <2>6
<1> QED BY <1>6, <1>7

(* It is revoked: nothing valid is left on the chain.                      *)
LEMMA WalkRevokes ==
  ASSUME TypeInvariant, TreeInvariant, WalkInvariant, NEW w \in Workers, WalkRevoke(w)
  PROVE  WalkInvariant'
<1>1. PICK r : r = req[w] OBVIOUS
<1>2. /\ pc[w] = "walkRevoke" /\ Revoke({r.on}) /\ born' = born /\ exposed' = exposed
      /\ Goto(w, "walkRead", [r EXCEPT !.on = r.next, !.next = NoToken])
  BY <1>1 DEF WalkRevoke, ghosts
<1>3. r \in Handler /\ r.from \in Issued /\ r.on \in Issued /\ TokensKept
  BY <1>1, <1>2, HandlerParts, RevokeRows
<1>4. /\ ~Valid(r.from) /\ (r.next = NoToken \/ r.next > r.from)
      /\ \A d \in Issued : OnChain(r.from, d) /\ Valid(d) => d = r.on
  BY <1>1, <1>2 DEF WalkInvariant, WalkersAhead, Walks
<1>5. PICK q : q = [r EXCEPT !.on = r.next, !.next = NoToken] OBVIOUS
<1>6. q.from = r.from /\ q.on = r.next BY <1>3, <1>5 DEF Handler
<1>7. Issued' = Issued /\ \A d \in Issued : Valid(d)' => Valid(d)
  BY <1>3 DEF TokensKept, Valid
<1>8. ~Valid(r.on)'
  <2>1. tokens'[r.on].revoked = (tokens[r.on].revoked \/ r.on \in {r.on})
    BY <1>2, <1>3, RevokeRows
  <2> QED BY <2>1 DEF Valid
<1>9. \A d \in Issued : OnChain(r.from, d)' => OnChain(r.from, d)
  <2> SUFFICES ASSUME NEW d \in Issued, OnChain(r.from, d)' PROVE OnChain(r.from, d)
    OBVIOUS
  <2> QED BY <1>2, <1>3, KeptChains, OnChainKept
<1>10. Ahead(r.from, r.next)' BY <1>4, <1>7, <1>8, <1>9 DEF Ahead
<1>11. ~Valid(r.from)' BY <1>3, <1>4, <1>7
<1>12. Walks("walkRead", q)' BY <1>4, <1>6, <1>10, <1>11 DEF Walks
<1>13. \A t \in exposed' : t \in Issued /\ Ended(t)
  BY <1>2, TypeParts DEF WalkInvariant, ExposedEnded
<1> QED BY <1>2, <1>3, <1>5, <1>12, <1>13, WalkGoto

LEMMA MakesKeepsChains ==
  ASSUME TypeInvariant, NEW w \in Workers, Makes(w)
  PROVE  /\ ChainsKept
         /\ \A d \in Issued : Lineage(d)' = Lineage(d) /\ (Valid(d)' => Valid(d))
<1>1. PICK id : id = NextId /\ id \notin Issued /\ Issued' = Issued \union {id}
  BY MakesTokens
<1>2. ASSUME NEW t \in Issued
      PROVE  /\ born'[t] = born[t]
             /\ tokens[t].revoked => tokens'[t].revoked
             /\ tokens'[t].next = tokens[t].next \/ tokens'[t].next \notin Issued
  <2>1. born'[t] = born[t] BY MakesBorn
  <2>2. tokens[t].revoked => tokens'[t].revoked BY MakesTokens
  <2>3. CASE InsertToken(w) BY <2>1, <2>2, <2>3, MakesTokens
  <2>4. CASE Rotate(w) /\ t # req[w].from BY <2>1, <2>2, <2>4, MakesTokens
  <2>5. CASE Rotate(w) /\ t = req[w].from
    <3>1. tokens'[t].next = id BY <1>1, <2>5, MakesTokens
    <3> QED BY <1>1, <2>1, <2>2, <3>1
  <2> QED BY <2>3, <2>4, <2>5 DEF Makes
<1>3. \A d \in Issued : Lineage(d)' = Lineage(d) /\ (Valid(d)' => Valid(d))
  <2> SUFFICES ASSUME NEW d \in Issued PROVE Lineage(d)' = Lineage(d) /\ (Valid(d)' => Valid(d))
    OBVIOUS
  <2> QED BY <1>2 DEF Lineage, Valid
<1> QED BY <1>1, <1>2, <1>3 DEF ChainsKept

(* A chain that leads to the new token led to the one it was rotated from, *)
(* which was valid, and which no walker was about to revoke.               *)
LEMMA ChainToMade ==
  ASSUME TypeInvariant, TreeInvariant, NEW w \in Workers, Makes(w), NEW id, id = NextId,
         NEW t \in Issued, OnChain(t, id)'
  PROVE  \E from \in Issued :
           /\ Valid(from) /\ Lineage(from) \subseteq Lineage(id)'
           /\ \A v \in Workers : pc[v] = "walkRevoke" => req[v].on # from
           /\ t = from \/ OnChain(t, from)
<1>1. /\ id \in Nat /\ Issued' = Issued \union {id} /\ id \notin Issued
      /\ \A x \in Issued : x \in Nat /\ x < id
  BY MakesTokens, TypeParts
<1>2. t \in Lineage(id)' /\ t # id BY <1>1 DEF OnChain
<1>3. Rotate(w)
  <2> SUFFICES ASSUME ~Rotate(w) PROVE FALSE
    OBVIOUS
  <2>1. Lineage(id)' = {id} BY MakesBorn DEF Lineage
  <2> QED BY <1>2, <2>1
<1>4. PICK from : from = req[w].from OBVIOUS
<1>5. from \in Issued BY <1>3, <1>4, MakesParts
<1>6. Lineage(id)' = Lineage(from) \union {id} BY <1>3, <1>4, MakesBorn DEF Lineage
<1> DEFINE late == \/ tokens[from].revoked
                   \/ \E v \in Workers : pc[v] = "walkRevoke" /\ req[v].on = from
<1>7. ~late
  <2>1. born'[id] = Birth(w, Lineage(from) \union {id}, late) BY <1>3, <1>4, MakesBorn
  <2> HIDE DEF late
  <2>2. born'[id].late = late BY <2>1 DEF Birth
  <2>3. ~OffChain(id)' BY <1>1, <1>6 DEF OnChain
  <2> QED BY <2>2, <2>3 DEF OffChain
<1>8. t \in Lineage(from) BY <1>2, <1>6
<1>9. ASSUME t # from PROVE OnChain(t, from)
  <2>1. Lineage(from)' = Lineage(from) BY <1>5, MakesKeepsChains
  <2>2. OnChain(t, from)' BY <1>6, <1>8, <1>9, <2>1 DEF OnChain
  <2> QED BY <1>5, <2>2, MakesKeepsChains, OnChainKept
<1> QED BY <1>5, <1>6, <1>7, <1>9 DEF Valid

(* The new token is ahead of every walker whose chain leads to it.         *)
LEMMA WalkMakes ==
  ASSUME TypeInvariant, TreeInvariant, WalkInvariant, NEW w \in Workers, Makes(w)
  PROVE  WalkInvariant'
<1>1. PICK id : id = NextId /\ id \notin Issued /\ Issued' = Issued \union {id}
  BY MakesTokens
<1>2. /\ Finish(w) /\ exposed' = exposed /\ pc[w] \notin {"walkRead", "walkRevoke"}
  BY MakesParts
<1>3. \A d \in Issued : Lineage(d)' = Lineage(d) /\ (Valid(d)' => Valid(d))
  BY MakesKeepsChains
<1>4. \A t : \A d \in Issued : OnChain(t, d)' => OnChain(t, d)
  <2> SUFFICES ASSUME NEW t, NEW d \in Issued, OnChain(t, d)' PROVE OnChain(t, d)
    OBVIOUS
  <2> QED BY MakesKeepsChains, OnChainKept
<1>5. ASSUME NEW v \in Workers PROVE Walks(pc[v], req[v])'
  <2>1. PICK label, r : label = pc'[v] /\ r = req'[v] OBVIOUS
  <2>2. CASE label \notin {"walkRead", "walkRevoke"} BY <2>1, <2>2 DEF Walks
  <2>3. CASE label \in {"walkRead", "walkRevoke"}
    <3>1. v # w BY <1>2, <2>1, <2>3, TypeParts DEF Finish, Goto
    <3>2. label = pc[v] /\ r = req[v] BY <1>2, <2>1, <3>1, TypeParts DEF Finish, Goto
    <3>3. Walks(label, r) /\ r.from \in Issued
      BY <2>3, <3>2, HandlerParts DEF WalkInvariant, WalkersAhead
    <3>4. ~Valid(r.from) /\ ~Valid(r.from)' BY <1>3, <2>3, <3>3 DEF Walks
    <3>5. ASSUME OnChain(r.from, id)'
          PROVE  \E from \in Issued :
                   /\ Valid(from) /\ OnChain(r.from, from) /\ Lineage(from) \subseteq Lineage(id)'
                   /\ label = "walkRevoke" => r.on # from
      <4>1. PICK from \in Issued :
              /\ Valid(from) /\ Lineage(from) \subseteq Lineage(id)'
              /\ \A u \in Workers : pc[u] = "walkRevoke" => req[u].on # from
              /\ r.from = from \/ OnChain(r.from, from)
        BY <1>1, <3>3, <3>5, ChainToMade
      <4> QED BY <3>2, <3>4, <4>1
    <3>6. CASE label = "walkRead"
      <4>1. Ahead(r.from, r.on) /\ (r.on = NoToken \/ r.on > r.from) BY <3>3, <3>6 DEF Walks
      <4>2. Ahead(r.from, r.on)'
        <5> SUFFICES ASSUME NEW d \in Issued', OnChain(r.from, d)', Valid(d)'
                     PROVE  r.on # NoToken /\ r.on \in Lineage(d)'
          BY DEF Ahead
        <5>1. CASE d \in Issued BY <1>3, <1>4, <4>1, <5>1 DEF Ahead
        <5>2. CASE d = id BY <3>5, <4>1, <5>2 DEF Ahead
        <5> QED BY <1>1, <5>1, <5>2
      <4>3. Walks(label, r)' BY <3>4, <3>6, <4>1, <4>2 DEF Walks
      <4> QED BY <2>1, <4>3 DEF Walks
    <3>7. CASE label = "walkRevoke"
      <4>1. /\ \A d \in Issued : OnChain(r.from, d) /\ Valid(d) => d = r.on
            /\ r.next = NoToken \/ r.next > r.from
        BY <3>3, <3>7 DEF Walks
      <4>2. ASSUME NEW d \in Issued', OnChain(r.from, d)', Valid(d)' PROVE d = r.on
        <5>1. CASE d \in Issued BY <1>3, <1>4, <4>1, <4>2, <5>1
        <5>2. CASE d = id BY <3>5, <3>7, <4>1, <4>2, <5>2
        <5> QED BY <1>1, <5>1, <5>2
      <4>3. Walks(label, r)' BY <3>4, <3>7, <4>1, <4>2 DEF Walks
      <4> QED BY <2>1, <4>3 DEF Walks
    <3> QED BY <2>3, <3>6, <3>7
  <2> QED BY <2>2, <2>3
<1>6. ExposedEnded'
  <2> SUFFICES ASSUME NEW t \in exposed PROVE Ended(t)'
    BY <1>2 DEF ExposedEnded
  <2>1. t \in Issued /\ Ended(t) BY TypeParts DEF WalkInvariant, ExposedEnded
  <2>2. ~Valid(t)' BY <1>3, <2>1 DEF Ended
  <2>3. ASSUME NEW d \in Issued', OnChain(t, d)' PROVE ~Valid(d)'
    <3>1. CASE d \in Issued BY <1>3, <1>4, <2>1, <2>3, <3>1 DEF Ended
    <3>2. CASE d = id
      <4>1. PICK from \in Issued : Valid(from) /\ (t = from \/ OnChain(t, from))
        BY <1>1, <2>1, <2>3, <3>2, ChainToMade
      <4> QED BY <2>1, <4>1 DEF Ended
    <3> QED BY <1>1, <3>1, <3>2
  <2> QED BY <2>2, <2>3 DEF Ended
<1> QED BY <1>5, <1>6 DEF WalkInvariant, WalkersAhead

LEMMA WalkNext ==
  ASSUME TypeInvariant, LineageInvariant, TreeInvariant, WalkInvariant, [Next]_vars
  PROVE  WalkInvariant'
<1>1. CASE \A w \in Workers : ~Makes(w)
  <2>1. TokensKept /\ born' = born BY <1>1, OthersKeep
  <2>2. ASSUME NEW w \in Workers, Submit(w) PROVE WalkInvariant'
    <3>1. exposed' = exposed
      BY <2>2 DEF Submit, SubmitLogin, SubmitReset, SubmitRefresh, SubmitLogout, SubmitDisable,
                  SubmitEnable, SubmitDelete, SubmitRevokeAll, SubmitChangeRole, Order, Start,
                  ghosts
    <3>2. CASE ~SubmitRefresh(w)
      <4>1. PICK to, request :
              Goto(w, to, request) /\ to \notin Rotating \union {"walkRead", "walkRevoke"}
        BY <2>2, <3>2, StartsElsewhere
      <4> QED BY <2>1, <3>1, <4>1, WalkElse
    <3> QED BY <3>2, WalkBegins
  <2>3. ASSUME NEW w \in Workers,
               \/ ReadCredentials(w) \/ WriteAttempts(w) \/ WritePassword(w) \/ ReadUser(w)
               \/ WriteLogout(w) \/ MarkDisabled(w) \/ MarkEnabled(w)
               \/ Sweep(w) \/ MarkDeleted(w) \/ WriteRole(w) \/ Die(w)
        PROVE  WalkInvariant'
    <3>1. exposed' = exposed
      BY <2>3 DEF ReadCredentials, WriteAttempts, WritePassword, ReadUser, WriteLogout,
                  MarkDisabled, MarkEnabled, Sweep, MarkDeleted, WriteRole, Die, ghosts
    <3>2. PICK to, request : Goto(w, to, request) /\ to \notin {"walkRead", "walkRevoke"}
      BY <2>3 DEF ReadCredentials, WriteAttempts, WritePassword, ReadUser, WriteLogout,
                  MarkDisabled, MarkEnabled, Sweep, MarkDeleted, WriteRole, Die, Finish
    <3> QED BY <2>1, <3>1, <3>2, WalkElse
  <2>4. CASE \/ SyncFromToken \/ AccessExpires \/ Unlock \/ TokenExpires \/ NightlyCleanup
             \/ UNCHANGED vars
    <3>1. UNCHANGED <<pc, req, exposed>>
      BY <2>4 DEF SyncFromToken, AccessExpires, Unlock, TokenExpires, NightlyCleanup, vars, tables,
                  ghosts
    <3> QED BY <2>1, <3>1, WalkIdle
  <2>5. ASSUME NEW w \in Workers, RefuseRequest(w) PROVE WalkInvariant'
    BY <2>4, <2>5 DEF RefuseRequest
  <2> QED BY <1>1, <2>2, <2>3, <2>4, <2>5, WalkReads, WalkRevokes DEF Next, Proceed, Makes
<1> QED BY <1>1, WalkMakes

(* Once the reuse of a token was followed to the end of its chain, nothing *)
(* that descends from it is valid, except below a token that the chain     *)
(* does not lead to.                                                       *)
THEOREM ReuseEnds == Spec => []ReuseEndsSession
<1>1. Init => TreeInvariant /\ WalkInvariant
  BY DEF Init, TreeInvariant, Nested, ParentsKnown, ChildOnTheWay, WalkInvariant, WalkersAhead,
         ExposedEnded, Walks, Issued
<1>2. WalkInvariant => ReuseEndsSession
  BY DEF WalkInvariant, ExposedEnded, Ended, OnChain, ReuseEndsSession, Live, Valid, Lineage
<1>3. /\ TypeInvariant /\ LineageInvariant /\ TreeInvariant /\ WalkInvariant /\ [Next]_vars
      => (TreeInvariant /\ WalkInvariant)'
  BY TreeNext, WalkNext
<1> QED BY <1>1, <1>2, <1>3, TypeAlways, LineageAlways, PTL DEF Spec

-------------------------------------------------------------------------------
(* The lockout.  Attempts are read and written back, so wrong passwords    *)
(* that are judged at the same time count as one.  Look at the attempts    *)
(* that each worker will start from next: what it has read, or what the    *)
(* account has, if that is less.  Sorted, they make a ladder, and each     *)
(* wrong password that does not lock raises the lowest step it changes, so *)
(* that no ladder comes twice before the account locks or is cleared.      *)
(* There are choose(Threshold + W - 1, W) ladders for W workers.           *)

(* The factorial of the library is the factorial.                          *)
FactorialTo(n) ==
  {g \in [0 .. n -> Nat] : g[0] = 1 /\ \A i \in 1 .. n : g[i] = i * g[i - 1]}

LEMMA FactorialToExists == \A n \in Nat : FactorialTo(n) # {}
<1> DEFINE S == {n \in Nat : FactorialTo(n) # {}}
<1>1. 0 \in S
  <2> DEFINE g == [i \in 0 .. 0 |-> 1]
  <2>1. g \in FactorialTo(0) BY DEF FactorialTo
  <2> QED BY <2>1
<1>2. ASSUME NEW n \in Nat, n \in S PROVE n + 1 \in S
  <2>1. PICK g : g \in FactorialTo(n) BY <1>2
  <2> DEFINE h == [i \in 0 .. n + 1 |-> IF i = n + 1 THEN (n + 1) * g[n] ELSE g[i]]
  <2>2. g \in [0 .. n -> Nat] /\ g[0] = 1 /\ \A i \in 1 .. n : g[i] = i * g[i - 1]
    BY <2>1 DEF FactorialTo
  <2>3. h \in [0 .. n + 1 -> Nat]
    <3>1. ASSUME NEW i \in 0 .. n + 1 PROVE h[i] \in Nat
      <4>1. CASE i = n + 1
        <5>1. g[n] \in Nat BY <2>2
        <5>2. \A a, b \in Nat : a * b \in Nat OBVIOUS
        <5>3. (n + 1) * g[n] \in Nat BY <5>1, <5>2
        <5> QED BY <4>1, <5>3
      <4>2. CASE i # n + 1 BY <2>2, <4>2
      <4> QED BY <4>1, <4>2
    <3> QED BY <3>1
  <2>4. h[0] = 1 BY <2>2
  <2>5. ASSUME NEW i \in 1 .. n + 1 PROVE h[i] = i * h[i - 1]
    <3>1. i - 1 \in 0 .. n + 1 /\ i - 1 # n + 1 OBVIOUS
    <3>2. h[i - 1] = g[i - 1] BY <3>1
    <3>3. CASE i = n + 1
      <4>1. i - 1 = n BY <3>3
      <4> QED BY <3>2, <3>3, <4>1
    <3>4. CASE i # n + 1
      <4>1. i \in 1 .. n BY <3>4
      <4>2. h[i] = g[i] BY <3>4
      <4> QED BY <2>2, <3>2, <4>1, <4>2
    <3> QED BY <3>3, <3>4
  <2>6. h \in FactorialTo(n + 1)
    <3> HIDE DEF h
    <3> QED BY <2>3, <2>4, <2>5 DEF FactorialTo
  <2> QED BY <2>6
<1> HIDE DEF S
<1>3. Nat \subseteq S BY <1>1, <1>2, InductiveSet
<1> QED BY <1>3 DEF S

LEMMA FactorialToAgree ==
  ASSUME NEW n \in Nat, NEW k \in Nat, NEW g \in FactorialTo(n), NEW h \in FactorialTo(k)
  PROVE  \A i \in Nat : i <= n /\ i <= k => g[i] = h[i]
<1> DEFINE S == {i \in Nat : i <= n /\ i <= k => g[i] = h[i]}
<1>1. 0 \in S BY DEF FactorialTo
<1>2. ASSUME NEW i \in Nat, i \in S PROVE i + 1 \in S
  <2> SUFFICES ASSUME i + 1 <= n, i + 1 <= k PROVE g[i + 1] = h[i + 1] OBVIOUS
  <2>1. i + 1 \in 1 .. n /\ i + 1 \in 1 .. k /\ i + 1 - 1 = i OBVIOUS
  <2>2. g[i + 1] = (i + 1) * g[i] /\ h[i + 1] = (i + 1) * h[i] BY <2>1 DEF FactorialTo
  <2>3. g[i] = h[i] BY <1>2
  <2> QED BY <2>2, <2>3
<1> HIDE DEF S
<1>3. Nat \subseteq S BY <1>1, <1>2, InductiveSet
<1> QED BY <1>3 DEF S

LEMMA FactorialIs ==
  /\ factorial \in [Nat -> Nat] /\ factorial[0] = 1
  /\ \A n \in Nat : factorial[n + 1] = (n + 1) * factorial[n]
<1> DEFINE to(n) == CHOOSE g : g \in FactorialTo(n)
           f == [n \in Nat |-> to(n)[n]]
<1>1. \A n \in Nat : to(n) \in FactorialTo(n) BY FactorialToExists
<1> HIDE DEF to
<1>2. \A n \in Nat : f[n] \in Nat BY <1>1 DEF FactorialTo
<1>3. f[0] = 1 BY <1>1 DEF FactorialTo
<1>4. ASSUME NEW n \in Nat, n # 0 PROVE f[n] = n * f[n - 1]
  <2>1. n - 1 \in Nat /\ n \in 1 .. n /\ n - 1 <= n BY <1>4
  <2>2. to(n)[n] = n * to(n)[n - 1] BY <1>1, <2>1 DEF FactorialTo
  <2>3. to(n) \in FactorialTo(n) /\ to(n - 1) \in FactorialTo(n - 1) BY <1>1, <2>1
  <2>4. n - 1 <= n - 1 BY <2>1
  <2>5. to(n)[n - 1] = to(n - 1)[n - 1] BY <2>1, <2>3, <2>4, FactorialToAgree
  <2> QED BY <2>1, <2>2, <2>5
<1>5. f = [n \in Nat |-> IF n = 0 THEN 1 ELSE n * f[n - 1]]
  <2> DEFINE e == [n \in Nat |-> IF n = 0 THEN 1 ELSE n * f[n - 1]]
  <2>1. ASSUME NEW n \in Nat PROVE f[n] = e[n]
    <3> HIDE DEF f
    <3> QED BY <1>3, <1>4
  <2>2. DOMAIN f = Nat /\ DOMAIN e = Nat /\ f = [n \in DOMAIN f |-> f[n]] /\ e = [n \in DOMAIN e |-> e[n]] OBVIOUS
  <2> HIDE DEF f, e
  <2>3. f = e BY <2>1, <2>2
  <2> QED BY <2>3 DEF e
<1> HIDE DEF f
<1>6. factorial = [n \in Nat |-> IF n = 0 THEN 1 ELSE n * factorial[n - 1]]
  BY <1>5, Zenon DEF factorial
<1>7. factorial[0] = 1 BY <1>6
<1>8. ASSUME NEW n \in Nat PROVE factorial[n + 1] = (n + 1) * factorial[n]
  <2>1. \A m \in Nat : m # 0 => factorial[m] = m * factorial[m - 1] BY <1>6
  <2>2. n + 1 \in Nat /\ n + 1 # 0 /\ n + 1 - 1 = n OBVIOUS
  <2> QED BY <2>1, <2>2
<1>9. \A n \in Nat : factorial[n] \in Nat
  <2> DEFINE S == {n \in Nat : factorial[n] \in Nat}
  <2>1. 0 \in S BY <1>7
  <2>2. ASSUME NEW n \in Nat, n \in S PROVE n + 1 \in S
    <3>1. \A a, b \in Nat : a * b \in Nat OBVIOUS
    <3> QED BY <1>8, <2>2, <3>1
  <2> HIDE DEF S
  <2>3. Nat \subseteq S BY <2>1, <2>2, InductiveSet
  <2> QED BY <2>3 DEF S
<1> QED BY <1>6, <1>7, <1>8, <1>9

(* The ladders of n steps that climb to m at most; there are as many as    *)
(* ways to choose m of n + m.                                              *)
Ladders(n, m) ==
  {f \in [1 .. n -> 0 .. m] : \A i, j \in 1 .. n : i <= j => f[i] <= f[j]}

LEMMA OneLadder ==
  ASSUME NEW n \in Nat, NEW m \in Nat, n = 0 \/ m = 0
  PROVE  IsFiniteSet(Ladders(n, m)) /\ Cardinality(Ladders(n, m)) = 1
<1> DEFINE z == [i \in 1 .. n |-> 0]
<1>1. z \in Ladders(n, m) BY DEF Ladders
<1>2. ASSUME NEW f \in Ladders(n, m) PROVE f = z
  <2>1. f \in [1 .. n -> 0 .. m] BY DEF Ladders
  <2>2. \A i \in 1 .. n : f[i] = 0
    <3>1. CASE n = 0 BY <3>1
    <3>2. CASE m = 0 BY <2>1, <3>2
    <3> QED BY <3>1, <3>2
  <2> QED BY <2>1, <2>2
<1> HIDE DEF z
<1>3. Ladders(n, m) = {z} BY <1>1, <1>2
<1> QED BY <1>3, FS_Singleton

(* Pascal's rule: the last step of a ladder is at the top, or the ladder   *)
(* fits below it.                                                          *)
LEMMA LadderRule ==
  ASSUME NEW n \in Nat, NEW m \in Nat,
         IsFiniteSet(Ladders(n, m + 1)), IsFiniteSet(Ladders(n + 1, m))
  PROVE  /\ IsFiniteSet(Ladders(n + 1, m + 1))
         /\ Cardinality(Ladders(n + 1, m + 1))
              = Cardinality(Ladders(n, m + 1)) + Cardinality(Ladders(n + 1, m))
<1> DEFINE Short == Ladders(n, m + 1)
           Low == Ladders(n + 1, m)
           All == Ladders(n + 1, m + 1)
           High == {f \in All : f[n + 1] = m + 1}
           up(g) == [i \in 1 .. n + 1 |-> IF i = n + 1 THEN m + 1 ELSE g[i]]
           map == [g \in Short |-> up(g)]
<1>0. n + 1 \in 1 .. n + 1 /\ m + 1 \in 0 .. m + 1 OBVIOUS
<1>1. ASSUME NEW g \in Short PROVE up(g) \in High
  <2>1. g \in [1 .. n -> 0 .. m + 1] /\ \A i, j \in 1 .. n : i <= j => g[i] <= g[j]
    BY DEF Ladders
  <2>2. \A i \in 1 .. n + 1 : i # n + 1 => i \in 1 .. n OBVIOUS
  <2>3. up(g) \in [1 .. n + 1 -> 0 .. m + 1] BY <1>0, <2>1, <2>2
  <2>4. ASSUME NEW i \in 1 .. n + 1, NEW j \in 1 .. n + 1, i <= j PROVE up(g)[i] <= up(g)[j]
    <3>1. CASE j = n + 1
      <4>1. up(g)[j] = m + 1 /\ up(g)[i] \in 0 .. m + 1 BY <2>3, <3>1
      <4> HIDE DEF up
      <4> QED BY <4>1
    <3>2. CASE j # n + 1
      <4>1. i # n + 1 /\ i \in 1 .. n /\ j \in 1 .. n BY <2>2, <2>4, <3>2
      <4> QED BY <2>1, <2>4, <3>2, <4>1
    <3> QED BY <3>1, <3>2
  <2>5. up(g)[n + 1] = m + 1 BY <1>0
  <2> HIDE DEF up
  <2> QED BY <2>3, <2>4, <2>5 DEF Ladders
<1>2. ASSUME NEW g \in Short, NEW h \in Short, up(g) = up(h) PROVE g = h
  <2>1. g \in [1 .. n -> 0 .. m + 1] /\ h \in [1 .. n -> 0 .. m + 1] BY DEF Ladders
  <2>2. ASSUME NEW i \in 1 .. n PROVE g[i] = h[i]
    <3>1. i \in 1 .. n + 1 /\ i # n + 1 OBVIOUS
    <3>2. up(g)[i] = g[i] /\ up(h)[i] = h[i] BY <3>1
    <3> QED BY <1>2, <3>2
  <2> QED BY <2>1, <2>2
<1>3. ASSUME NEW f \in High PROVE \E g \in Short : up(g) = f
  <2> DEFINE g == [i \in 1 .. n |-> f[i]]
  <2>1. /\ f \in [1 .. n + 1 -> 0 .. m + 1] /\ f[n + 1] = m + 1
        /\ \A i, j \in 1 .. n + 1 : i <= j => f[i] <= f[j] BY DEF Ladders
  <2>2. \A i \in 1 .. n : i \in 1 .. n + 1 OBVIOUS
  <2>3. g \in Short
    <3>1. g \in [1 .. n -> 0 .. m + 1] BY <2>1, <2>2
    <3>2. \A i, j \in 1 .. n : i <= j => g[i] <= g[j] BY <2>1, <2>2
    <3> HIDE DEF g
    <3> QED BY <3>1, <3>2 DEF Ladders
  <2>4. up(g) = f
    <3>1. \A i \in 1 .. n + 1 : up(g)[i] = f[i]
      <4> TAKE i \in 1 .. n + 1
      <4>1. CASE i = n + 1 BY <2>1, <4>1
      <4>2. CASE i # n + 1
        <5>1. i \in 1 .. n BY <4>2
        <5> QED BY <4>2, <5>1
      <4> QED BY <4>1, <4>2
    <3> QED BY <2>1, <3>1
  <2> QED BY <2>3, <2>4
<1>4. High \intersect Low = {} /\ High \union Low = All
  <2>1. ASSUME NEW f \in Low PROVE f \in All /\ f[n + 1] # m + 1
    <3>1. f \in [1 .. n + 1 -> 0 .. m] /\ \A i, j \in 1 .. n + 1 : i <= j => f[i] <= f[j]
      BY DEF Ladders
    <3>2. f[n + 1] \in 0 .. m /\ f \in [1 .. n + 1 -> 0 .. m + 1] BY <1>0, <3>1
    <3>3. f \in All BY <3>1, <3>2 DEF Ladders
    <3> QED BY <3>2, <3>3
  <2>2. ASSUME NEW f \in All, f[n + 1] # m + 1 PROVE f \in Low
    <3>1. f \in [1 .. n + 1 -> 0 .. m + 1] /\ \A i, j \in 1 .. n + 1 : i <= j => f[i] <= f[j]
      BY DEF Ladders
    <3>2. ASSUME NEW i \in 1 .. n + 1 PROVE f[i] \in 0 .. m
      <4>1. i <= n + 1 /\ f[i] <= f[n + 1] BY <1>0, <3>1
      <4>2. f[i] \in 0 .. m + 1 /\ f[n + 1] \in 0 .. m + 1 BY <1>0, <3>1
      <4> QED BY <2>2, <4>1, <4>2
    <3>3. f \in [1 .. n + 1 -> 0 .. m] BY <3>1, <3>2
    <3> QED BY <3>1, <3>3 DEF Ladders
  <2> HIDE DEF Low, All
  <2> QED BY <2>1, <2>2
<1> HIDE DEF Short, Low, All, High, up
<1>5. map \in Bijection(Short, High)
  BY <1>1, <1>2, <1>3 DEF Bijection, Injection, Surjection, IsInjective
<1>6. IsFiniteSet(Short) /\ IsFiniteSet(Low) BY DEF Short, Low
<1>7. IsFiniteSet(High) /\ Cardinality(High) = Cardinality(Short)
  BY <1>5, <1>6, FS_Bijection DEF ExistsBijection
<1>8. /\ IsFiniteSet(All)
      /\ Cardinality(All) = Cardinality(High) + Cardinality(Low) - Cardinality({})
  BY <1>4, <1>6, <1>7, FS_Union
<1>9. Cardinality({}) = 0 /\ Cardinality(Short) \in Nat /\ Cardinality(Low) \in Nat
  BY <1>6, FS_EmptySet, FS_CardinalityType
<1>10. Cardinality(All) = Cardinality(Short) + Cardinality(Low) BY <1>7, <1>8, <1>9
<1> QED BY <1>8, <1>10 DEF Short, Low, All

LEMMA FactorialPositive == \A n \in Nat : factorial[n] \in Nat \ {0}
<1> DEFINE S == {n \in Nat : factorial[n] \in Nat \ {0}}
<1>1. 0 \in S BY FactorialIs
<1>2. ASSUME NEW n \in Nat, n \in S PROVE n + 1 \in S
  <2>1. \A a, b \in Nat \ {0} : a * b \in Nat \ {0} OBVIOUS
  <2>2. n + 1 \in Nat \ {0} /\ factorial[n] \in Nat \ {0} BY <1>2
  <2> QED BY <2>1, <2>2, FactorialIs
<1> HIDE DEF S
<1>3. Nat \subseteq S BY <1>1, <1>2, InductiveSet
<1> QED BY <1>3 DEF S

(* The factorials are multiplied, so that nothing is divided before the end. *)
Counted(n, m) ==
  /\ IsFiniteSet(Ladders(n, m))
  /\ Cardinality(Ladders(n, m)) * (factorial[n] * factorial[m]) = factorial[n + m]

LEMMA CountedEdge ==
  ASSUME NEW n \in Nat, NEW m \in Nat, n = 0 \/ m = 0
  PROVE  Counted(n, m)
<1>1. IsFiniteSet(Ladders(n, m)) /\ Cardinality(Ladders(n, m)) = 1 BY OneLadder
<1>2. factorial[n] \in Nat /\ factorial[m] \in Nat /\ factorial[0] = 1 BY FactorialIs
<1>3. factorial[n] * factorial[m] = factorial[n + m]
  <2>1. CASE n = 0
    <3>1. n + m = m BY <2>1
    <3> QED BY <1>2, <2>1, <3>1
  <2>2. CASE m = 0
    <3>1. n + m = n BY <2>2
    <3> QED BY <1>2, <2>2, <3>1
  <2> QED BY <2>1, <2>2
<1>4. \A x \in Nat : 1 * x = x OBVIOUS
<1>5. factorial[n + m] \in Nat
  <2>1. \A k \in Nat : factorial[k] \in Nat BY FactorialIs
  <2> QED BY <2>1
<1>6. 1 * (factorial[n] * factorial[m]) = factorial[n + m]
  BY <1>3, <1>4, <1>5, Zenon
<1> QED BY <1>1, <1>6, Zenon DEF Counted

LEMMA CountedStep ==
  ASSUME NEW n \in Nat, NEW m \in Nat, Counted(n, m + 1), Counted(n + 1, m)
  PROVE  Counted(n + 1, m + 1)
<1> DEFINE a == Cardinality(Ladders(n, m + 1))
           b == Cardinality(Ladders(n + 1, m))
           fn == factorial[n]
           fm == factorial[m]
           s == factorial[n + m + 1]
<1>1. IsFiniteSet(Ladders(n, m + 1)) /\ IsFiniteSet(Ladders(n + 1, m)) BY DEF Counted
<1>2. a \in Nat /\ b \in Nat BY <1>1, FS_CardinalityType
<1>3. /\ IsFiniteSet(Ladders(n + 1, m + 1))
      /\ Cardinality(Ladders(n + 1, m + 1)) = a + b BY <1>1, LadderRule
<1>4. n + m + 1 \in Nat /\ n + (m + 1) = n + m + 1 /\ n + 1 + m = n + m + 1 OBVIOUS
<1>5. fn \in Nat /\ fm \in Nat /\ s \in Nat BY <1>4, FactorialIs
<1>6. factorial[n + 1] = (n + 1) * fn /\ factorial[m + 1] = (m + 1) * fm BY FactorialIs
<1>7. factorial[n + 1 + (m + 1)] = (n + m + 2) * s
  <2>1. n + 1 + (m + 1) = n + m + 1 + 1 /\ n + m + 2 = n + m + 1 + 1 OBVIOUS
  <2> HIDE DEF s
  <2>2. factorial[n + m + 1 + 1] = (n + m + 1 + 1) * s BY <1>4, FactorialIs DEF s
  <2> QED BY <2>1, <2>2
<1>8. a * (fn * factorial[m + 1]) = s /\ b * (factorial[n + 1] * fm) = s
  BY <1>4 DEF Counted
<1>9. a * (fn * ((m + 1) * fm)) = s /\ b * (((n + 1) * fn) * fm) = s BY <1>6, <1>8
<1> HIDE DEF a, b, fn, fm, s
<1>10. (a + b) * (((n + 1) * fn) * ((m + 1) * fm)) = (n + m + 2) * s
  <2> DEFINE p == fn * fm
  <2>1. p \in Nat BY <1>5
  <2>2. fn * ((m + 1) * fm) = (m + 1) * p /\ ((n + 1) * fn) * fm = (n + 1) * p BY <1>5
  <2>3. ((n + 1) * fn) * ((m + 1) * fm) = (n + 1) * ((m + 1) * p) BY <1>5
  <2> HIDE DEF p
  <2>4. a * ((m + 1) * p) = s /\ b * ((n + 1) * p) = s BY <1>9, <2>2
  <2>5. a * ((n + 1) * ((m + 1) * p)) = (n + 1) * (a * ((m + 1) * p)) BY <1>2, <2>1
  <2>6. b * ((n + 1) * ((m + 1) * p)) = (m + 1) * (b * ((n + 1) * p)) BY <1>2, <2>1
  <2>7. (a + b) * ((n + 1) * ((m + 1) * p))
          = a * ((n + 1) * ((m + 1) * p)) + b * ((n + 1) * ((m + 1) * p)) BY <1>2, <2>1
  <2>8. (n + 1) * s + (m + 1) * s = (n + m + 2) * s BY <1>5
  <2> QED BY <2>3, <2>4, <2>5, <2>6, <2>7, <2>8
<1> QED BY <1>3, <1>6, <1>7, <1>10 DEF Counted

LEMMA LaddersCounted == \A n, m \in Nat : Counted(n, m)
<1> DEFINE Rows == {n \in Nat : \A m \in Nat : Counted(n, m)}
<1>1. 0 \in Rows BY CountedEdge
<1>2. ASSUME NEW n \in Nat, n \in Rows PROVE n + 1 \in Rows
  <2> DEFINE Counts == {m \in Nat : Counted(n + 1, m)}
  <2>1. 0 \in Counts BY CountedEdge
  <2>2. ASSUME NEW m \in Nat, m \in Counts PROVE m + 1 \in Counts
    <3>1. Counted(n, m + 1) /\ Counted(n + 1, m) BY <1>2, <2>2
    <3> QED BY <3>1, CountedStep
  <2> HIDE DEF Counts
  <2>3. Nat \subseteq Counts BY <2>1, <2>2, InductiveSet
  <2> QED BY <2>3 DEF Counts
<1> HIDE DEF Rows
<1>3. Nat \subseteq Rows BY <1>1, <1>2, InductiveSet
<1> QED BY <1>3 DEF Rows

LEMMA LaddersChosen ==
  ASSUME NEW n \in Nat, NEW m \in Nat
  PROVE  /\ IsFiniteSet(Ladders(n, m))
         /\ Cardinality(Ladders(n, m)) = choose(n + m, m)
<1> DEFINE k == Cardinality(Ladders(n, m))
           p == factorial[m] * factorial[n]
<1>1. Counted(n, m) BY LaddersCounted
<1>2. k \in Nat BY <1>1, FS_CardinalityType DEF Counted
<1>3. factorial[n] \in Nat \ {0} /\ factorial[m] \in Nat \ {0} BY FactorialPositive
<1>4. p = factorial[n] * factorial[m] /\ p \in Nat \ {0}
  <2>1. \A a, b \in Nat \ {0} : a * b = b * a /\ a * b \in Nat \ {0} OBVIOUS
  <2> QED BY <1>3, <2>1
<1>5. n + m - m = n OBVIOUS
<1>6. k * p = factorial[n + m] BY <1>1, <1>4 DEF Counted
<1>7. choose(n + m, m) = (k * p) \div p BY <1>5, <1>6 DEF choose
<1> HIDE DEF k, p
<1>8. (k * p) \div p = k BY <1>2, <1>4
<1> QED BY <1>1, <1>7, <1>8 DEF Counted, k

-------------------------------------------------------------------------------
(* Guesses about to be written for the account, that read fewer than v     *)
(* attempts.                                                               *)
Judging(u, v) ==
  {w \in Workers : /\ pc[w] = "writeAttempts" /\ req[w].op = "guess" /\ req[w].user = u
                   /\ req[w].failed < v}
(* How many of the workers will write no more than v attempts next: all of *)
(* them, if that is what the account has.                                  *)
Stand(u) ==
  [v \in 1 .. Threshold - 1 |-> IF credentials[u].failed < v THEN Cardinality(Workers)
                                ELSE Cardinality(Judging(u, v))]

(* The ladders that are left behind by one: higher where they first differ. *)
Passed(n, m, f) ==
  {g \in Ladders(n, m) : \E i \in 1 .. n : /\ f[i] < g[i]
                                           /\ \A j \in 1 .. n : j < i => f[j] = g[j]}
GuessCounted(u) ==
  guesses[u] <= Cardinality(Passed(Threshold - 1, Cardinality(Workers), Stand(u)))
GuessesCounted == \A u \in Users : GuessCounted(u)

(* A ladder that is no higher up to k, and lower at k, has left the other  *)
(* behind, and all that it had.                                            *)
LEMMA PassedGrows ==
  ASSUME NEW n \in Nat, NEW m \in Nat, NEW f \in Ladders(n, m), NEW h \in Ladders(n, m),
         NEW k \in 1 .. n + 1, \A j \in 1 .. n : j <= k => h[j] <= f[j],
         k <= n => h[k] < f[k]
  PROVE  /\ Passed(n, m, f) \subseteq Passed(n, m, h)
         /\ k <= n => f \in Passed(n, m, h)
<1>1. ASSUME NEW g \in Ladders(n, m), NEW i \in 1 .. n, i <= k, h[i] < g[i],
             \A j \in 1 .. n : j <= i => h[j] <= g[j]
      PROVE  g \in Passed(n, m, h)
  <2> DEFINE D == {j \in 1 .. n : h[j] # g[j]}
  <2>1. /\ h \in [1 .. n -> 0 .. m] /\ g \in [1 .. n -> 0 .. m] BY DEF Ladders
  <2>2. i \in D BY <1>1, <2>1
  <2>3. PICK d \in D : \A j \in D : d <= j
    <3>1. D \in SUBSET Nat /\ D # {} BY <2>2
    <3> HIDE DEF D
    <3> QED BY <3>1, LeastOf
  <2>4. d \in 1 .. n /\ d <= i /\ h[d] # g[d] BY <2>2, <2>3
  <2>5. h[d] < g[d] BY <1>1, <2>1, <2>4
  <2>6. \A j \in 1 .. n : j < d => h[j] = g[j]
    <3> TAKE j \in 1 .. n
    <3> HAVE j < d
    <3>1. ~(d <= j) BY <2>4
    <3> QED BY <2>3, <3>1
  <2> QED BY <2>4, <2>5, <2>6 DEF Passed
<1>2. /\ h \in [1 .. n -> 0 .. m] /\ f \in [1 .. n -> 0 .. m] BY DEF Ladders
<1>3. ASSUME k <= n PROVE f \in Passed(n, m, h) BY <1>1, <1>3
<1>4. ASSUME NEW g \in Passed(n, m, f) PROVE g \in Passed(n, m, h)
  <2>1. g \in Ladders(n, m) /\ g \in [1 .. n -> 0 .. m] BY DEF Passed, Ladders
  <2>2. PICK i \in 1 .. n : f[i] < g[i] /\ \A j \in 1 .. n : j < i => f[j] = g[j]
    BY DEF Passed
  <2>3. CASE i <= k
    <3>1. \A j \in 1 .. n : j <= i => h[j] <= g[j]
      <4> TAKE j \in 1 .. n
      <4> HAVE j <= i
      <4>1. h[j] <= f[j] /\ f[j] <= g[j]
        <5>1. j <= k BY <2>3
        <5>2. CASE j < i BY <1>2, <2>1, <2>2, <5>1, <5>2
        <5>3. CASE j = i BY <1>2, <2>1, <2>2, <5>1, <5>3
        <5> QED BY <5>2, <5>3
      <4> QED BY <1>2, <2>1, <4>1
    <3>2. h[i] < g[i] BY <1>2, <2>1, <2>2, <2>3
    <3> QED BY <1>1, <2>1, <2>3, <3>1, <3>2
  <2>4. CASE ~(i <= k)
    <3>1. k \in 1 .. n /\ k <= n /\ k < i BY <2>4
    <3>2. \A j \in 1 .. n : j <= k => h[j] <= g[j]
      <4> TAKE j \in 1 .. n
      <4> HAVE j <= k
      <4>1. j < i BY <3>1
      <4> QED BY <1>2, <2>1, <2>2, <4>1
    <3>3. h[k] < g[k] BY <1>2, <2>1, <2>2, <3>1
    <3> QED BY <1>1, <2>1, <3>1, <3>2, <3>3
  <2> QED BY <2>3, <2>4
<1> QED BY <1>3, <1>4

(* No ladder leaves itself behind, so it never leaves all behind.          *)
LEMMA PassedFinite ==
  ASSUME NEW n \in Nat, NEW m \in Nat, NEW f \in Ladders(n, m)
  PROVE  /\ IsFiniteSet(Passed(n, m, f)) /\ Cardinality(Passed(n, m, f)) \in Nat
         /\ f \notin Passed(n, m, f)
         /\ Cardinality(Passed(n, m, f)) < Cardinality(Ladders(n, m))
<1> DEFINE P == Passed(n, m, f)
           L == Ladders(n, m)
<1>1. P \subseteq L BY DEF Passed
<1>2. f \notin P
  <2>1. f \in [1 .. n -> 0 .. m] BY DEF Ladders
  <2> QED BY <2>1 DEF Passed
<1>3. IsFiniteSet(L) BY LaddersChosen
<1>4. f \in L OBVIOUS
<1> HIDE DEF P, L
<1>5. /\ IsFiniteSet(P) /\ Cardinality(P) <= Cardinality(L)
      /\ Cardinality(L) = Cardinality(P) => L = P BY <1>1, <1>3, FS_Subset
<1>6. Cardinality(P) \in Nat /\ Cardinality(L) \in Nat BY <1>3, <1>5, FS_CardinalityType
<1>7. Cardinality(P) < Cardinality(L) BY <1>2, <1>4, <1>5, <1>6
<1> QED BY <1>2, <1>5, <1>6, <1>7 DEF P, L

(* One more is left behind. *)
LEMMA PassedOneMore ==
  ASSUME NEW n \in Nat, NEW m \in Nat, NEW f \in Ladders(n, m), NEW h \in Ladders(n, m),
         Passed(n, m, f) \subseteq Passed(n, m, h)
  PROVE  /\ Cardinality(Passed(n, m, f)) <= Cardinality(Passed(n, m, h))
         /\ f \in Passed(n, m, h) =>
              Cardinality(Passed(n, m, f)) + 1 <= Cardinality(Passed(n, m, h))
<1> DEFINE P == Passed(n, m, f)
           Q == Passed(n, m, h)
<1>1. /\ IsFiniteSet(P) /\ IsFiniteSet(Q) /\ f \notin P
      /\ Cardinality(P) \in Nat /\ Cardinality(Q) \in Nat BY PassedFinite
<1>2. P \subseteq Q OBVIOUS
<1> HIDE DEF P, Q
<1>3. Cardinality(P) <= Cardinality(Q) /\ (Cardinality(Q) = Cardinality(P) => Q = P)
  BY <1>1, <1>2, FS_Subset
<1>4. f \in Q => Cardinality(P) + 1 <= Cardinality(Q) BY <1>1, <1>3
<1> QED BY <1>3, <1>4 DEF P, Q

LEMMA WorkersCounted == IsFiniteSet(Workers) /\ Cardinality(Workers) \in Nat
BY SessionConstants, FS_CardinalityType

LEMMA JudgingCounted ==
  ASSUME NEW u, NEW v
  PROVE  /\ IsFiniteSet(Judging(u, v)) /\ Cardinality(Judging(u, v)) \in Nat
         /\ Cardinality(Judging(u, v)) <= Cardinality(Workers)
<1>1. Judging(u, v) \subseteq Workers BY DEF Judging
<1> QED BY <1>1, WorkersCounted, FS_Subset, FS_CardinalityType

(* Where the workers stand is a ladder: who reads less than v, reads less   *)
(* than v + 1.                                                             *)
LEMMA StandLadder ==
  ASSUME TypeInvariant, NEW u \in Users
  PROVE  Stand(u) \in Ladders(Threshold - 1, Cardinality(Workers))
<1> DEFINE W == Cardinality(Workers)
           c == credentials[u].failed
<1>1. Threshold - 1 \in Nat BY SessionConstants
<1>2. c \in Nat BY TypeParts, SessionConstants DEF CredentialRow
<1>3. W \in Nat BY WorkersCounted
<1> HIDE DEF W, c
<1>4. Stand(u) = [v \in 1 .. Threshold - 1 |-> IF c < v THEN W ELSE Cardinality(Judging(u, v))]
  BY DEF Stand, W, c
<1>5. \A v : Cardinality(Judging(u, v)) \in 0 .. W
  BY <1>3, JudgingCounted DEF W
<1>6. Stand(u) \in [1 .. Threshold - 1 -> 0 .. W] BY <1>3, <1>4, <1>5
<1>7. ASSUME NEW i \in 1 .. Threshold - 1, NEW j \in 1 .. Threshold - 1, i <= j
      PROVE  Stand(u)[i] <= Stand(u)[j]
  <2>1. Cardinality(Judging(u, i)) <= Cardinality(Judging(u, j))
    <3>1. \A w \in Workers : pc[w] = "writeAttempts" => req[w].failed \in Nat
      BY HandlerParts, SessionConstants
    <3>2. Judging(u, i) \subseteq Judging(u, j) BY <1>1, <1>7, <3>1 DEF Judging
    <3> QED BY <3>2, JudgingCounted, FS_Subset
  <2>2. CASE c < j
    <3>1. Stand(u)[j] = W /\ Stand(u)[i] \in 0 .. W BY <1>4, <1>6, <2>2
    <3> QED BY <1>3, <3>1
  <2>3. CASE ~(c < j)
    <3>1. ~(c < i) BY <1>1, <1>2, <1>7, <2>3
    <3> QED BY <1>4, <2>1, <2>3, <3>1
  <2> QED BY <2>2, <2>3
<1> QED BY <1>6, <1>7 DEF Ladders, W

(* The same, for the step that follows.                                    *)
StandsOK == \A u \in Users : Stand(u) \in Ladders(Threshold - 1, Cardinality(Workers))
LEMMA StandsTyped == TypeInvariant => StandsOK
BY StandLadder DEF StandsOK
LEMMA StandsTypedNext == TypeInvariant' => StandsOK'
BY StandsTyped, PTL

LEMMA GuessesBounded ==
  ASSUME TypeInvariant, GuessesCounted
  PROVE  LockoutBounded
<1> DEFINE n == Threshold - 1
           m == Cardinality(Workers)
<1>1. n \in Nat /\ m \in Nat /\ n + m = Threshold + m - 1 BY SessionConstants, WorkersCounted
<1>2. ASSUME NEW u \in Users PROVE guesses[u] < choose(n + m, m)
  <2>1. Stand(u) \in Ladders(n, m) BY StandLadder
  <2> DEFINE p == Cardinality(Passed(n, m, Stand(u)))
  <2>2. guesses[u] <= p BY DEF GuessesCounted, GuessCounted
  <2>3. guesses[u] \in Nat BY TypeParts
  <2> HIDE DEF n, m
  <2>4. p \in Nat /\ p < Cardinality(Ladders(n, m)) BY <1>1, <2>1, PassedFinite
  <2>5. /\ IsFiniteSet(Ladders(n, m))
        /\ Cardinality(Ladders(n, m)) = choose(n + m, m) BY <1>1, LaddersChosen
  <2>6. Cardinality(Ladders(n, m)) \in Nat BY <2>5, FS_CardinalityType
  <2> HIDE DEF p
  <2> QED BY <2>2, <2>3, <2>4, <2>5, <2>6
<1>3. choose(n + m, m) = choose(Threshold + m - 1, m) BY <1>1
<1> QED BY <1>2, <1>3 DEF LockoutBounded

-------------------------------------------------------------------------------
(* A step that stores no guess for the account, and reads what it has.     *)
QuietFor(u) ==
  /\ credentials'[u].failed = credentials[u].failed
  /\ \A v \in 1 .. Threshold - 1 :
       credentials[u].failed < v \/ Judging(u, v)' \subseteq Judging(u, v)

LEMMA GuessesStand ==
  ASSUME TypeInvariant, TypeInvariant', NEW u \in Users, GuessCounted(u), QuietFor(u),
         guesses'[u] = guesses[u]
  PROVE  GuessCounted(u)'
<1> DEFINE n == Threshold - 1
           m == Cardinality(Workers)
           f == Stand(u)
           h == Stand(u)'
           c == credentials[u].failed
<1>1. n \in Nat /\ m \in Nat BY SessionConstants, WorkersCounted
<1>2. f \in Ladders(n, m) BY StandLadder
<1>3. h \in Ladders(n, m)
  <2>1. StandsOK' BY StandsTypedNext
  <2> QED BY <2>1 DEF StandsOK
<1>4. ASSUME NEW v \in 1 .. n PROVE h[v] <= f[v]
  <2>1. f[v] = IF c < v THEN m ELSE Cardinality(Judging(u, v)) BY DEF Stand
  <2>2. h[v] = IF c < v THEN m ELSE Cardinality(Judging(u, v)') BY DEF Stand, QuietFor
  <2>3. CASE c < v BY <1>1, <2>1, <2>2, <2>3
  <2>4. CASE ~(c < v)
    <3>1. Judging(u, v)' \subseteq Judging(u, v) BY <2>4 DEF QuietFor
    <3>2. Cardinality(Judging(u, v)') <= Cardinality(Judging(u, v))
      BY <3>1, JudgingCounted, FS_Subset
    <3> QED BY <2>1, <2>2, <2>4, <3>2
  <2> QED BY <2>3, <2>4
<1>5. guesses[u] <= Cardinality(Passed(n, m, f)) BY DEF GuessCounted
<1>6. guesses[u] \in Nat BY TypeParts
<1> HIDE DEF n, m, f, h
<1>7. n + 1 \in 1 .. n + 1 /\ ~(n + 1 <= n) BY <1>1
<1>8. Passed(n, m, f) \subseteq Passed(n, m, h) BY <1>1, <1>2, <1>3, <1>4, <1>7, PassedGrows
<1>9. Cardinality(Passed(n, m, f)) <= Cardinality(Passed(n, m, h))
  BY <1>1, <1>2, <1>3, <1>8, PassedOneMore
<1>10. Cardinality(Passed(n, m, f)) \in Nat /\ Cardinality(Passed(n, m, h)) \in Nat
  BY <1>1, <1>2, <1>3, PassedFinite
<1>11. guesses'[u] <= Cardinality(Passed(n, m, h)) BY <1>5, <1>6, <1>9, <1>10
<1> QED BY <1>11 DEF GuessCounted, n, m, h

LEMMA GuessesCleared ==
  ASSUME TypeInvariant', NEW u \in Users, guesses'[u] = 0
  PROVE  GuessCounted(u)'
<1>1. Stand(u)' \in Ladders(Threshold - 1, Cardinality(Workers))
  <2>1. StandsOK' BY StandsTypedNext
  <2> QED BY <2>1 DEF StandsOK
<1>2. Threshold - 1 \in Nat /\ Cardinality(Workers) \in Nat BY SessionConstants, WorkersCounted
<1>3. Cardinality(Passed(Threshold - 1, Cardinality(Workers), Stand(u)')) \in Nat
  BY <1>1, <1>2, PassedFinite
<1> QED BY <1>3 DEF GuessCounted

(* A wrong password that does not lock the account: the one who judged it  *)
(* goes from the lowest place there was, or from the place of its own, to  *)
(* one above both.                                                         *)
LEMMA GuessWritten ==
  ASSUME TypeInvariant, TypeInvariant', NEW w \in Workers, NEW u \in Users, GuessCounted(u),
         pc[w] = "writeAttempts", req[w].op = "guess", req[w].user = u,
         ~Locks(req[w].failed), Finish(w),
         credentials'[u].failed = req[w].failed + 1, guesses'[u] = guesses[u] + 1
  PROVE  GuessCounted(u)'
<1> DEFINE n == Threshold - 1
           m == Cardinality(Workers)
           f == Stand(u)
           h == Stand(u)'
           c == credentials[u].failed
           p == req[w].failed
<1>1. n \in Nat /\ m \in Nat BY SessionConstants, WorkersCounted
<1>2. f \in Ladders(n, m) BY StandLadder
<1>3. h \in Ladders(n, m)
  <2>1. StandsOK' BY StandsTypedNext
  <2> QED BY <2>1 DEF StandsOK
<1>4. p \in Nat /\ p + 1 <= n BY HandlerParts, SessionConstants DEF Locks
<1>5. c \in Nat BY TypeParts, SessionConstants DEF CredentialRow
<1>6. PICK k \in 1 .. n : k = IF c <= p THEN c + 1 ELSE p + 1 BY <1>1, <1>4, <1>5
<1>61. k <= p + 1 /\ k <= n BY <1>1, <1>4, <1>5, <1>6
<1>7. \A v : Judging(u, v)' \subseteq Judging(u, v) \ {w}
  BY TypeParts DEF Judging, Finish, Goto
<1>8. \A v \in 1 .. n : f[v] = IF c < v THEN m ELSE Cardinality(Judging(u, v)) BY DEF Stand
<1>9. \A v \in 1 .. n : v <= k => h[v] = Cardinality(Judging(u, v)')
  <2> TAKE v \in 1 .. n
  <2> HAVE v <= k
  <2>1. ~(credentials'[u].failed < v) BY <1>4, <1>5, <1>61
  <2> QED BY <2>1 DEF Stand
<1>10. ASSUME NEW v \in 1 .. n, v <= k PROVE h[v] <= f[v]
  <2>1. Cardinality(Judging(u, v)') <= Cardinality(Judging(u, v))
    BY <1>7, JudgingCounted, FS_Subset
  <2>2. Judging(u, v)' \subseteq Workers BY <1>7 DEF Judging
  <2>3. Cardinality(Judging(u, v)') <= m BY <2>2, WorkersCounted, FS_Subset
  <2>4. h[v] = Cardinality(Judging(u, v)') BY <1>9, <1>10
  <2> HIDE DEF m, f, h, c
  <2> QED BY <1>8, <2>1, <2>3, <2>4
<1>11. h[k] < f[k]
  <2>1. h[k] = Cardinality(Judging(u, k)') BY <1>9, <1>61
  <2>2. CASE c <= p
    <3>1. k = c + 1 /\ c < k BY <1>5, <1>6, <2>2
    <3>2. f[k] = m BY <1>6, <1>8, <3>1
    <3>3. Judging(u, k)' \subseteq Workers \ {w} BY <1>7 DEF Judging
    <3>4. IsFiniteSet(Workers \ {w}) /\ Cardinality(Workers \ {w}) = m - 1
      BY WorkersCounted, FS_RemoveElement
    <3>5. Cardinality(Judging(u, k)') <= m - 1 BY <3>3, <3>4, FS_Subset
    <3>6. Cardinality(Judging(u, k)') \in Nat
      BY <3>3, <3>4, FS_Subset, FS_CardinalityType
    <3> HIDE DEF m, f, h
    <3> QED BY <1>1, <2>1, <3>2, <3>5, <3>6
  <2>3. CASE ~(c <= p)
    <3> DEFINE J == Judging(u, k)
               K == Judging(u, k)'
    <3>1. k = p + 1 /\ ~(c < k) /\ p < k BY <1>4, <1>5, <1>6, <2>3
    <3>2. f[k] = Cardinality(J) BY <1>6, <1>8, <3>1
    <3>3. w \in J BY <1>4, <3>1 DEF Judging
    <3>4. K \subseteq J \ {w} BY <1>7
    <3>5. IsFiniteSet(J) /\ Cardinality(J) \in Nat BY JudgingCounted
    <3> HIDE DEF J, K, m, f, h
    <3>6. IsFiniteSet(J \ {w}) /\ Cardinality(J \ {w}) = Cardinality(J) - 1
      BY <3>3, <3>5, FS_RemoveElement
    <3>7. Cardinality(K) <= Cardinality(J) - 1 /\ Cardinality(K) \in Nat
      BY <3>4, <3>6, FS_Subset, FS_CardinalityType
    <3>8. h[k] = Cardinality(K) BY <2>1 DEF K
    <3> QED BY <3>2, <3>5, <3>7, <3>8
  <2> QED BY <2>2, <2>3
<1>12. guesses[u] <= Cardinality(Passed(n, m, f)) BY DEF GuessCounted
<1>13. guesses[u] \in Nat BY TypeParts
<1> HIDE DEF n, m, f, h
<1>14. k \in 1 .. n + 1 /\ k <= n BY <1>1, <1>6, <1>61
<1>15. Passed(n, m, f) \subseteq Passed(n, m, h) /\ f \in Passed(n, m, h)
  BY <1>1, <1>2, <1>3, <1>10, <1>11, <1>14, PassedGrows
<1>16. Cardinality(Passed(n, m, f)) + 1 <= Cardinality(Passed(n, m, h))
  BY <1>1, <1>2, <1>3, <1>15, PassedOneMore
<1>17. Cardinality(Passed(n, m, f)) \in Nat /\ Cardinality(Passed(n, m, h)) \in Nat
  BY <1>1, <1>2, <1>3, PassedFinite
<1>18. guesses'[u] <= Cardinality(Passed(n, m, h)) BY <1>12, <1>13, <1>16, <1>17
<1> QED BY <1>18 DEF GuessCounted, n, m, h

(* A handler that goes anywhere but to writing an attempt is no longer     *)
(* about to write a guess.                                                 *)
LEMMA JudgingGoto ==
  ASSUME TypeInvariant, NEW w \in Workers, NEW to, NEW request, Goto(w, to, request),
         to # "writeAttempts", NEW u, NEW v
  PROVE  Judging(u, v)' \subseteq Judging(u, v)
BY TypeParts DEF Judging, Goto

LEMMA GuessesGoto ==
  ASSUME TypeInvariant, TypeInvariant', GuessesCounted, NEW w \in Workers, NEW to, NEW request,
         Goto(w, to, request), to # "writeAttempts", UNCHANGED <<credentials, guesses>>
  PROVE  GuessesCounted'
<1>1. ASSUME NEW u \in Users PROVE GuessCounted(u)'
  <2>1. QuietFor(u) BY JudgingGoto DEF QuietFor
  <2> QED BY <2>1, GuessesStand DEF GuessesCounted
<1> QED BY <1>1 DEF GuessesCounted

LEMMA GuessesIdle ==
  ASSUME TypeInvariant, TypeInvariant', GuessesCounted, UNCHANGED <<pc, req, guesses>>,
         \A u \in Users : credentials'[u].failed = credentials[u].failed
  PROVE  GuessesCounted'
<1>1. ASSUME NEW u \in Users PROVE GuessCounted(u)'
  <2>1. QuietFor(u) BY DEF QuietFor, Judging
  <2> QED BY <2>1, GuessesStand DEF GuessesCounted
<1> QED BY <1>1 DEF GuessesCounted

(* Who reads the attempts stands where the account does.                   *)
LEMMA GuessesRead ==
  ASSUME TypeInvariant, TypeInvariant', GuessesCounted, NEW w \in Workers, ReadCredentials(w)
  PROVE  GuessesCounted'
<1> DEFINE e == req[w].user
           request == [req[w] EXCEPT !.failed = credentials[e].failed]
<1>1. UNCHANGED <<credentials, guesses>> BY DEF ReadCredentials, tables
<1>2. CASE Finish(w) BY <1>1, <1>2, GuessesGoto DEF Finish
<1>3. CASE ~Finish(w)
  <2>1. pc[w] = "readCredentials" /\ Goto(w, "writeAttempts", request)
    BY <1>3 DEF ReadCredentials
  <2>2. req[w] \in Handler BY <2>1, HandlerParts
  <2>3. request.user = e /\ request.failed = credentials[e].failed BY <2>2 DEF Handler
  <2> HIDE DEF request
  <2>4. ASSUME NEW u \in Users PROVE GuessCounted(u)'
    <3>1. \A v \in 1 .. Threshold - 1 :
            credentials[u].failed < v \/ Judging(u, v)' \subseteq Judging(u, v)
      BY <2>1, <2>3, TypeParts DEF Judging, Goto
    <3>2. QuietFor(u) BY <1>1, <3>1 DEF QuietFor
    <3> QED BY <1>1, <3>2, GuessesStand DEF GuessesCounted
  <2> QED BY <2>4 DEF GuessesCounted
<1> QED BY <1>2, <1>3

LEMMA GuessesWritten ==
  ASSUME TypeInvariant, TypeInvariant', GuessesCounted, NEW w \in Workers,
         WriteAttempts(w) \/ WritePassword(w)
  PROVE  GuessesCounted'
<1>0. PICK e : e = req[w].user OBVIOUS
<1>1. pc[w] # "idle" /\ e \in Users /\ req[w] \in Handler
  BY <1>0, HandlerParts DEF WriteAttempts, WritePassword
<1>2. PICK to : Goto(w, to, NoRequest) \/ (Goto(w, to, req[w]) /\ to # "writeAttempts")
  BY DEF WriteAttempts, WritePassword, Finish
<1>3. \A u, v : Judging(u, v)' \subseteq Judging(u, v)
  <2>1. NoRequest.op # "guess" BY DEF NoRequest
  <2> QED BY <1>2, <2>1, TypeParts DEF Judging, Goto
<1>4. ASSUME NEW u \in Users, u # e PROVE GuessCounted(u)'
  <2>1. credentials'[u] = credentials[u] /\ guesses'[u] = guesses[u]
    BY <1>0, <1>4, TypeParts DEF WriteAttempts, WritePassword
  <2>2. QuietFor(u) BY <1>3, <2>1 DEF QuietFor
  <2> QED BY <2>1, <2>2, GuessesStand DEF GuessesCounted
<1>5. GuessCounted(e)'
  <2>1. CASE WriteAttempts(w) /\ req[w].op = "guess" /\ ~Locks(req[w].failed)
    <3>1. pc[w] = "writeAttempts" /\ Finish(w) /\ guesses'[e] = guesses[e] + 1
      BY <1>0, <1>1, <2>1, TypeParts DEF WriteAttempts
    <3>2. credentials'[e] = AfterWrong(credentials[e], req[w].failed)
      BY <1>0, <1>1, <2>1, TypeParts DEF WriteAttempts
    <3>3. credentials'[e] = [credentials[e] EXCEPT !.failed = req[w].failed + 1]
      BY <2>1, <3>2 DEF AfterWrong
    <3>4. credentials[e] \in CredentialRow BY <1>1, TypeParts
    <3>5. credentials'[e].failed = req[w].failed + 1 BY <3>3, <3>4 DEF CredentialRow
    <3>6. GuessCounted(e) BY <1>1 DEF GuessesCounted
    <3> QED BY <1>0, <1>1, <2>1, <3>1, <3>5, <3>6, GuessWritten
  <2>2. CASE ~(WriteAttempts(w) /\ req[w].op = "guess" /\ ~Locks(req[w].failed))
    <3>1. guesses'[e] = 0 BY <1>0, <1>1, <2>2, TypeParts DEF WriteAttempts, WritePassword
    <3> QED BY <1>1, <3>1, GuessesCleared
  <2> QED BY <2>1, <2>2
<1> QED BY <1>4, <1>5 DEF GuessesCounted

(* Reading the attempts is the only way to come to write one.              *)
Departs(w) == \E to, request : Goto(w, to, request) /\ to # "writeAttempts"

LEMMA SubmitDeparts ==
  ASSUME NEW w \in Workers, Submit(w)
  PROVE  Departs(w)
<1>1. ASSUME NEW op, NEW to, NEW request, Start(w, op, to, request), to # "writeAttempts"
      PROVE  Departs(w)
  BY <1>1 DEF Start, Departs
<1>2. CASE ~SubmitRefresh(w)
  <2>1. CASE SubmitLogin(w)
    <3>1. PICK op, u : Start(w, op, "readCredentials", Call(op, u))
      BY <2>1, Zenon DEF SubmitLogin
    <3> QED BY <1>1, <3>1
  <2>2. CASE SubmitReset(w)
    <3>1. PICK u : Start(w, "reset", "writePassword", Call("reset", u))
      BY <2>2, Zenon DEF SubmitReset
    <3> QED BY <1>1, <3>1
  <2>3. CASE SubmitLogout(w)
    <3>1. PICK r : Start(w, "logout", "writeLogout", r) BY <2>3, Zenon DEF SubmitLogout
    <3> QED BY <1>1, <3>1
  <2>4. CASE SubmitRevokeAll(w)
    <3>1. PICK u : Start(w, "revokeAll", "sweep", Call("revokeAll", u))
      BY <2>4, Zenon DEF SubmitRevokeAll
    <3> QED BY <1>1, <3>1
  <2>5. ASSUME NEW op, NEW to, Order(w, op, to), to # "writeAttempts" PROVE Departs(w)
    <3>1. PICK u : Start(w, op, to, Call(op, u)) BY <2>5, Zenon DEF Order
    <3> QED BY <1>1, <2>5, <3>1
  <2>6. CASE \/ SubmitDisable(w) \/ SubmitEnable(w) \/ SubmitDelete(w) \/ SubmitChangeRole(w)
    BY <2>5, <2>6 DEF SubmitDisable, SubmitEnable, SubmitDelete, SubmitChangeRole
  <2> QED BY <1>2, <2>1, <2>2, <2>3, <2>4, <2>6 DEF Submit
<1>3. CASE SubmitRefresh(w)
  <2>1. \E to, r : Start(w, "refresh", to, r) /\ to \in {"walkRead", "readUser"}
    <3> DEFINE call(t) ==
          [Call(IF Reused(t) THEN "reuse" ELSE "refresh", tokens[t].user) EXCEPT !.from = t]
               walk(t) == [call(t) EXCEPT !.on = tokens[t].next]
    <3>1. PICK t \in Stored :
            Start(w, "refresh", "walkRead", walk(t)) \/ Start(w, "refresh", "readUser", call(t))
      BY <1>3 DEF SubmitRefresh
    <3> HIDE DEF walk, call
    <3> QED BY <3>1
  <2> QED BY <1>1, <2>1
<1> QED BY <1>2, <1>3

LEMMA ProceedDeparts ==
  ASSUME NEW w \in Workers, Proceed(w) \/ Die(w), ~ReadCredentials(w)
  PROVE  Departs(w)
<1>1. CASE WriteAttempts(w)
  <2>1. Finish(w) \/ Goto(w, "insertToken", req[w]) BY <1>1 DEF WriteAttempts
  <2> QED BY <2>1 DEF Finish, Departs
<1>2. CASE WritePassword(w) BY <1>2 DEF WritePassword, Departs
<1>3. CASE InsertToken(w) \/ Rotate(w) \/ WriteLogout(w) \/ MarkEnabled(w) \/ MarkDeleted(w)
           \/ WriteRole(w) \/ Die(w)
  <2>1. Finish(w)
    BY <1>3 DEF InsertToken, Rotate, WriteLogout, MarkEnabled, MarkDeleted, WriteRole, Die
  <2> QED BY <2>1 DEF Finish, Departs
<1>4. CASE ReadUser(w)
  <2>1. PICK r : Goto(w, "rotate", r) \/ Finish(w) BY <1>4, Zenon DEF ReadUser
  <2> QED BY <2>1 DEF Finish, Departs
<1>5. CASE WalkRead(w)
  <2>1. PICK r : Goto(w, "walkRead", r) \/ Goto(w, "walkRevoke", r) \/ Finish(w)
    BY <1>5, Zenon DEF WalkRead
  <2> QED BY <2>1 DEF Finish, Departs
<1>6. CASE WalkRevoke(w) BY <1>6 DEF WalkRevoke, Departs
<1>7. CASE MarkDisabled(w) BY <1>7 DEF MarkDisabled, Departs
<1>8. CASE Sweep(w)
  <2>1. Goto(w, "markDeleted", req[w]) \/ Finish(w) BY <1>8 DEF Sweep
  <2> QED BY <2>1 DEF Finish, Departs
<1> QED BY <1>1, <1>2, <1>3, <1>4, <1>5, <1>6, <1>7, <1>8 DEF Proceed

LEMMA GuessesNext ==
  ASSUME TypeInvariant, TypeInvariant', GuessesCounted, [Next]_vars
  PROVE  GuessesCounted'
<1>1. ASSUME NEW w \in Workers, Submit(w) PROVE GuessesCounted'
  <2>1. UNCHANGED <<credentials, guesses>>
    BY <1>1 DEF Submit, SubmitLogin, SubmitReset, SubmitRefresh, SubmitLogout, SubmitDisable,
                SubmitEnable, SubmitDelete, SubmitRevokeAll, SubmitChangeRole, Order, Start,
                tables, ghosts
  <2>2. PICK to, request : Goto(w, to, request) /\ to # "writeAttempts"
    BY <1>1, SubmitDeparts DEF Departs
  <2> QED BY <2>1, <2>2, GuessesGoto
<1>2. ASSUME NEW w \in Workers, Proceed(w) \/ Die(w), ~ReadCredentials(w), ~WriteAttempts(w),
             ~WritePassword(w)
      PROVE  GuessesCounted'
  <2>1. UNCHANGED <<credentials, guesses>>
    BY <1>2 DEF Proceed, InsertToken, ReadUser, Rotate, WalkRead, WalkRevoke, WriteLogout,
                MarkDisabled, MarkEnabled, Sweep, MarkDeleted, WriteRole, Die, tables, ghosts
  <2>2. PICK to, request : Goto(w, to, request) /\ to # "writeAttempts"
    BY <1>2, ProceedDeparts DEF Departs
  <2> QED BY <2>1, <2>2, GuessesGoto
<1>3. CASE \/ SyncFromToken \/ AccessExpires \/ Unlock \/ TokenExpires \/ NightlyCleanup
           \/ UNCHANGED vars
  <2>1. UNCHANGED <<pc, req, guesses>>
    BY <1>3 DEF SyncFromToken, AccessExpires, Unlock, TokenExpires, NightlyCleanup, vars, ghosts
  <2>2. \A u \in Users : credentials'[u].failed = credentials[u].failed
    <3>1. CASE Unlock
      <4>1. PICK e \in Users : credentials' = [credentials EXCEPT ![e].locked = FALSE]
        BY <3>1 DEF Unlock
      <4>2. credentials \in [Users -> CredentialRow] BY TypeParts
      <4> QED BY <4>1, <4>2 DEF CredentialRow
    <3>2. CASE ~Unlock
      BY <1>3, <3>2 DEF SyncFromToken, AccessExpires, TokenExpires, NightlyCleanup, vars, tables
    <3> QED BY <3>1, <3>2
  <2> QED BY <2>1, <2>2, GuessesIdle
<1>4. ASSUME NEW w \in Workers, RefuseRequest(w) PROVE GuessesCounted'
  BY <1>3, <1>4 DEF RefuseRequest
<1> QED BY <1>1, <1>2, <1>3, <1>4, GuessesRead, GuessesWritten DEF Next, Proceed

(* "lockout apos 5 tentativas": an account locks after no more wrong       *)
(* passwords than there are ways for the requests served at a time to be   *)
(* spread over the attempts; Threshold of them when one is served at a     *)
(* time.  Whatever stale count a request writes back, and whichever        *)
(* requests die, the requests never come to stand as they stood before.    *)
THEOREM LockoutHolds == Spec => []LockoutBounded
<1>1. Init /\ TypeInvariant => GuessesCounted
  <2> SUFFICES ASSUME Init, TypeInvariant, NEW u \in Users PROVE GuessCounted(u)
    BY DEF GuessesCounted
  <2>1. guesses[u] = 0 BY DEF Init
  <2>2. Threshold - 1 \in Nat /\ Cardinality(Workers) \in Nat
    BY SessionConstants, WorkersCounted
  <2>3. Cardinality(Passed(Threshold - 1, Cardinality(Workers), Stand(u))) \in Nat
    BY <2>2, StandLadder, PassedFinite
  <2> QED BY <2>1, <2>3 DEF GuessCounted
<1>2. TypeInvariant /\ GuessesCounted => LockoutBounded BY GuessesBounded
<1> QED BY <1>1, <1>2, TypeInit, TypeAlways, GuessesNext, PTL DEF Spec

-------------------------------------------------------------------------------
(* The limiter holds for any buckets, limits and number of requests, as    *)
(* long as a request takes no longer to count itself than what an old      *)
(* bucket is kept beyond its window.  Windows of one bucket with an        *)
(* admitted request start at least a window apart, so an interval as long  *)
(* as a window meets two of them at most, and in each of them the places   *)
(* that were given are different numbers up to the maximum.                *)

LimitCall == [key : Buckets, at : Nat]
Admission == [key : Buckets, start : Nat, n : Nat, at : Nat, done : Nat]

LimitTypes ==
  /\ clock \in Nat
  /\ DOMAIN buckets \subseteq Buckets /\ buckets \in [DOMAIN buckets -> BucketRow]
  /\ calls \in [Calls -> {NoCall} \union LimitCall]
  /\ admitted \subseteq Admission

(* Nothing is stamped in the future, and no request is older than Life.    *)
Stamps ==
  /\ \A k \in DOMAIN buckets : buckets[k].start <= clock
  /\ \A c \in Calls : calls[c] # NoCall => calls[c].at <= clock /\ clock <= calls[c].at + Life

(* A request is let through in its window, at a place up to the maximum.   *)
Admissions ==
  \A a \in admitted :
    /\ 1 <= a.n /\ a.n <= MaxOf[a.key]
    /\ a.start <= a.done /\ a.at < a.start + WindowOf[a.key]

(* What was let through is of the bucket's window, or of one that was over *)
(* when that began; and of one long over, if the bucket is gone.           *)
Behind ==
  \A a \in admitted :
    IF a.key \in DOMAIN buckets
    THEN \/ a.start = buckets[a.key].start /\ a.n <= buckets[a.key].count
         \/ a.start + WindowOf[a.key] <= buckets[a.key].start
    ELSE a.start + WindowOf[a.key] + Life < clock

Apart(a, b) ==
  a.key = b.key =>
    \/ a.start + WindowOf[a.key] <= b.start \/ b.start + WindowOf[a.key] <= a.start
    \/ a.start = b.start /\ (a.n = b.n => a = b)
Spaced == \A a, b \in admitted : Apart(a, b)

LimitInv == LimitTypes /\ Stamps /\ Admissions /\ Behind /\ Spaced

-------------------------------------------------------------------------------
LEMMA LimitConstants ==
  /\ \A k \in Buckets : /\ MaxOf[k] \in Nat \ {0} /\ WindowOf[k] \in Nat \ {0}
                        /\ WindowOf[k] + Life <= Retention
  /\ Retention \in Nat /\ Life \in Nat
BY RateLimitAssumption

LEMMA LimitInvInit == LimitInit => LimitInv
BY LimitConstants
DEF LimitInit, LimitInv, LimitTypes, Stamps, Admissions, Behind, Spaced, NoCall

(* The row a request writes, and where what was let through stands to it.  *)
LEMMA UpsertedRow ==
  ASSUME LimitInv, NEW c \in Calls, calls[c] # NoCall
  PROVE  LET k == calls[c].key
             row == Upserted(k, calls[c].at)
         IN  /\ k \in Buckets /\ calls[c].at \in Nat
             /\ row \in BucketRow /\ row.count >= 1 /\ row.start <= clock
             /\ calls[c].at < row.start + WindowOf[k]
             /\ \A a \in admitted : a.key = k =>
                  \/ a.start = row.start /\ a.n < row.count
                  \/ a.start + WindowOf[k] <= row.start
<1> DEFINE k == calls[c].key
           at == calls[c].at
           row == Upserted(k, at)
<1>1. calls[c] \in LimitCall BY DEF LimitInv, LimitTypes
<1>2. k \in Buckets /\ at \in Nat /\ at <= clock /\ clock <= at + Life /\ clock \in Nat
  BY <1>1 DEF LimitCall, LimitInv, LimitTypes, Stamps
<1>3. WindowOf[k] \in Nat \ {0} /\ Life \in Nat BY <1>2, LimitConstants
<1>4. \A a \in admitted : a.start \in Nat /\ a.n \in Nat
  BY DEF LimitInv, LimitTypes, Admission
<1>5. CASE k \notin DOMAIN buckets
  <2>1. row = [count |-> 1, start |-> at] BY <1>5 DEF Upserted
  <2>2. \A a \in admitted : a.key = k => a.start + WindowOf[k] + Life < clock
    BY <1>5 DEF LimitInv, Behind
  <2> HIDE DEF row, k, at
  <2>3. row \in BucketRow /\ row.count = 1 /\ row.start = at
    BY <2>1, <1>2 DEF BucketRow
  <2>4. \A a \in admitted : a.key = k => a.start + WindowOf[k] <= row.start
    BY <2>2, <2>3, <1>2, <1>3, <1>4
  <2> QED BY <2>3, <2>4, <1>2, <1>3 DEF row, k, at
<1>6. CASE k \in DOMAIN buckets
  <2>1. buckets[k] \in BucketRow /\ buckets[k].start <= clock
    BY <1>6 DEF LimitInv, LimitTypes, Stamps
  <2>2. buckets[k].count \in Nat /\ buckets[k].start \in Nat BY <2>1 DEF BucketRow
  <2>3. \A a \in admitted : a.key = k =>
          \/ a.start = buckets[k].start /\ a.n <= buckets[k].count
          \/ a.start + WindowOf[k] <= buckets[k].start
    BY <1>6 DEF LimitInv, Behind
  <2>4. CASE Over(k, at)
    <3>1. row = [count |-> 1, start |-> at] /\ at - buckets[k].start >= WindowOf[k]
      BY <1>6, <2>4 DEF Upserted, Over
    <3> HIDE DEF row, k, at
    <3>2. row \in BucketRow /\ row.count = 1 /\ row.start = at
      BY <3>1, <1>2 DEF BucketRow
    <3>3. \A a \in admitted : a.key = k => a.start + WindowOf[k] <= row.start
      BY <3>1, <3>2, <2>2, <2>3, <1>2, <1>3, <1>4
    <3> QED BY <3>2, <3>3, <1>2, <1>3 DEF row, k, at
  <2>5. CASE ~Over(k, at)
    <3>1. row = [buckets[k] EXCEPT !.count = buckets[k].count + 1]
          /\ ~(at - buckets[k].start >= WindowOf[k])
      BY <1>6, <2>5 DEF Upserted, Over
    <3> HIDE DEF row, k, at
    <3>2. row \in BucketRow /\ row.count = buckets[k].count + 1 /\ row.start = buckets[k].start
      BY <3>1, <2>1, <2>2 DEF BucketRow
    <3>3. \A a \in admitted : a.key = k =>
            \/ a.start = row.start /\ a.n < row.count
            \/ a.start + WindowOf[k] <= row.start
      BY <3>2, <2>2, <2>3, <1>4
    <3> QED BY <3>1, <3>2, <3>3, <2>1, <2>2, <1>2, <1>3 DEF row, k, at
  <2> QED BY <2>4, <2>5
<1> QED BY <1>5, <1>6

LEMMA CountCallInv ==
  ASSUME LimitInv, NEW c \in Calls, CountCall(c)
  PROVE  LimitInv'
<1> DEFINE k == calls[c].key
           row == Upserted(k, calls[c].at)
           new == [key |-> k, start |-> row.start, n |-> row.count,
                   at |-> calls[c].at, done |-> clock]
<1>1. /\ k \in Buckets /\ calls[c].at \in Nat
      /\ row \in BucketRow /\ row.count >= 1 /\ row.start <= clock
      /\ calls[c].at < row.start + WindowOf[k]
      /\ \A a \in admitted : a.key = k =>
           \/ a.start = row.start /\ a.n < row.count
           \/ a.start + WindowOf[k] <= row.start
  BY UpsertedRow DEF CountCall
<1>2. /\ buckets' = [x \in DOMAIN buckets \union {k} |-> IF x = k THEN row ELSE buckets[x]]
      /\ admitted' = IF row.count > MaxOf[k] THEN admitted ELSE admitted \union {new}
      /\ calls' = [calls EXCEPT ![c] = NoCall] /\ clock' = clock
  BY DEF CountCall
<1> HIDE DEF row, k
<1>3. /\ row.count \in Nat /\ row.start \in Nat /\ clock \in Nat
      /\ MaxOf[k] \in Nat /\ WindowOf[k] \in Nat
  BY <1>1, LimitConstants DEF BucketRow, LimitInv, LimitTypes
<1>4. new \in Admission BY <1>1, <1>3 DEF Admission
<1>5. /\ DOMAIN buckets' = DOMAIN buckets \union {k} /\ buckets'[k] = row
      /\ \A x \in DOMAIN buckets : x # k => buckets'[x] = buckets[x]
  BY <1>2
<1>6. /\ admitted' \subseteq admitted \union {new}
      /\ new \in admitted' => row.count <= MaxOf[k] \/ new \in admitted
  BY <1>2, <1>3
<1>7. \A a \in admitted :
        a.key \in Buckets /\ a.start \in Nat /\ a.n \in Nat /\ WindowOf[a.key] \in Nat
  BY LimitConstants DEF LimitInv, LimitTypes, Admission
<1>8. LimitTypes'
  BY <1>1, <1>2, <1>4, <1>5, <1>6 DEF LimitInv, LimitTypes
<1>9. Stamps'
  BY <1>1, <1>2, <1>5 DEF LimitInv, Stamps, LimitTypes
<1>10. Admissions'
  BY <1>1, <1>3, <1>6 DEF LimitInv, Admissions
<1>11. Behind'
  <2> SUFFICES ASSUME NEW a \in admitted'
               PROVE  IF a.key \in DOMAIN buckets'
                      THEN \/ a.start = buckets'[a.key].start /\ a.n <= buckets'[a.key].count
                           \/ a.start + WindowOf[a.key] <= buckets'[a.key].start
                      ELSE a.start + WindowOf[a.key] + Life < clock'
    BY DEF Behind
  <2>1. CASE a = new BY <2>1, <1>3, <1>5
  <2>2. CASE a \in admitted /\ a.key = k BY <2>2, <1>1, <1>3, <1>5, <1>7
  <2>3. CASE a \in admitted /\ a.key # k
    BY <2>3, <1>2, <1>5 DEF LimitInv, Behind
  <2> QED BY <2>1, <2>2, <2>3, <1>6
<1>12. \A a \in admitted : Apart(a, new) /\ Apart(new, a)
  BY <1>1, <1>3, <1>7 DEF Apart
<1>13. Apart(new, new) BY DEF Apart
<1>14. Spaced' BY <1>6, <1>12, <1>13 DEF LimitInv, Spaced
<1> QED BY <1>8, <1>9, <1>10, <1>11, <1>14 DEF LimitInv

LEMMA CleanBucketsInv ==
  ASSUME LimitInv, CleanBuckets
  PROVE  LimitInv'
<1>1. /\ buckets' = [k \in DOMAIN buckets \ Outdated |-> buckets[k]]
      /\ UNCHANGED <<clock, calls, admitted>>
  BY DEF CleanBuckets, Restrict
<1>2. \A k \in DOMAIN buckets :
        k \notin DOMAIN buckets' => buckets[k].start < clock - Retention
  BY <1>1 DEF Outdated
<1>3. LimitTypes' BY <1>1 DEF LimitInv, LimitTypes
<1>4. Stamps' BY <1>1 DEF LimitInv, Stamps
<1>5. Admissions' /\ Spaced' BY <1>1 DEF LimitInv, Admissions, Spaced, Apart
<1>6. Behind'
  <2> SUFFICES ASSUME NEW a \in admitted
               PROVE  IF a.key \in DOMAIN buckets'
                      THEN \/ a.start = buckets'[a.key].start /\ a.n <= buckets'[a.key].count
                           \/ a.start + WindowOf[a.key] <= buckets'[a.key].start
                      ELSE a.start + WindowOf[a.key] + Life < clock
    BY <1>1 DEF Behind
  <2>1. /\ a.start \in Nat /\ WindowOf[a.key] \in Nat /\ clock \in Nat
        /\ WindowOf[a.key] + Life <= Retention /\ Life \in Nat /\ Retention \in Nat
    BY LimitConstants DEF LimitInv, LimitTypes, Admission
  <2>2. CASE a.key \in DOMAIN buckets'
    BY <2>2, <1>1 DEF LimitInv, Behind
  <2>3. CASE a.key \in DOMAIN buckets \ DOMAIN buckets'
    <3>1. buckets[a.key].start \in Nat BY <2>3 DEF LimitInv, LimitTypes, BucketRow
    <3>2. a.start <= buckets[a.key].start BY <2>1, <2>3, <3>1 DEF LimitInv, Behind
    <3>3. buckets[a.key].start < clock - Retention BY <2>3, <1>2
    <3> QED BY <2>1, <2>3, <3>1, <3>2, <3>3
  <2>4. CASE a.key \notin DOMAIN buckets
    BY <2>4, <1>1 DEF LimitInv, Behind
  <2> QED BY <2>2, <2>3, <2>4
<1> QED BY <1>3, <1>4, <1>5, <1>6 DEF LimitInv

LEMMA LimitInvNext == LimitInv /\ [LimitNext]_limitVars => LimitInv'
<1> SUFFICES ASSUME LimitInv, [LimitNext]_limitVars PROVE LimitInv'
  OBVIOUS
<1>1. ASSUME NEW c \in Calls, Arrive(c) PROVE LimitInv'
  <2>1. PICK k \in Buckets : calls' = [calls EXCEPT ![c] = [key |-> k, at |-> clock]]
    BY <1>1 DEF Arrive
  <2>2. UNCHANGED <<clock, buckets, admitted>> BY <1>1 DEF Arrive
  <2>3. [key |-> k, at |-> clock] \in LimitCall BY DEF LimitInv, LimitTypes, LimitCall
  <2>4. LimitTypes' BY <2>1, <2>2, <2>3 DEF LimitInv, LimitTypes
  <2>5. Stamps'
    BY <2>1, <2>2, LimitConstants DEF LimitInv, LimitTypes, Stamps
  <2>6. Admissions' /\ Behind' /\ Spaced'
    BY <2>2 DEF LimitInv, Admissions, Behind, Spaced, Apart
  <2> QED BY <2>4, <2>5, <2>6 DEF LimitInv
<1>2. ASSUME NEW c \in Calls, CountCall(c) PROVE LimitInv'
  BY <1>2, CountCallInv
<1>3. ASSUME NEW c \in Calls, DropCall(c) PROVE LimitInv'
  <2>1. /\ calls' = [calls EXCEPT ![c] = NoCall] /\ UNCHANGED <<clock, buckets, admitted>>
    BY <1>3 DEF DropCall
  <2>2. LimitTypes' /\ Stamps' BY <2>1 DEF LimitInv, LimitTypes, Stamps
  <2>3. Admissions' /\ Behind' /\ Spaced'
    BY <2>1 DEF LimitInv, Admissions, Behind, Spaced, Apart
  <2> QED BY <2>2, <2>3 DEF LimitInv
<1>4. CASE CleanBuckets BY <1>4, CleanBucketsInv
<1>5. CASE Elapse
  <2>1. /\ clock' = clock + 1 /\ UNCHANGED <<buckets, calls, admitted>>
        /\ \A c \in Calls : calls[c] # NoCall => clock - calls[c].at < Life
    BY <1>5 DEF Elapse
  <2>2. LimitTypes' BY <2>1 DEF LimitInv, LimitTypes
  <2>3. Stamps'
    <3>1. \A k \in DOMAIN buckets : buckets[k].start \in Nat
      BY DEF LimitInv, LimitTypes, BucketRow
    <3>2. \A c \in Calls : calls[c] # NoCall => calls[c].at \in Nat
      BY DEF LimitInv, LimitTypes, LimitCall
    <3> QED BY <2>1, <3>1, <3>2, LimitConstants DEF LimitInv, LimitTypes, Stamps
  <2>4. Admissions' /\ Spaced' BY <2>1 DEF LimitInv, Admissions, Spaced, Apart
  <2>5. Behind'
    <3>1. \A a \in admitted : a.start \in Nat /\ WindowOf[a.key] \in Nat
      BY LimitConstants DEF LimitInv, LimitTypes, Admission
    <3> QED BY <2>1, <3>1, LimitConstants DEF LimitInv, LimitTypes, Behind
  <2> QED BY <2>2, <2>3, <2>4, <2>5 DEF LimitInv
<1>6. CASE UNCHANGED limitVars
  BY <1>6 DEF limitVars, LimitInv, LimitTypes, Stamps, Admissions, Behind, Spaced, Apart
<1> QED BY <1>1, <1>2, <1>3, <1>4, <1>5, <1>6 DEF LimitNext

-------------------------------------------------------------------------------
(* Two windows at most meet an interval of their length: a third would     *)
(* have to start a window before or after both.                            *)
LEMMA TwoWindows ==
  ASSUME LimitInv, NEW k \in Buckets, NEW from \in Nat,
         NEW a \in Within(k, from), NEW b \in Within(k, from), NEW d \in Within(k, from),
         a.start # b.start
  PROVE  d.start = a.start \/ d.start = b.start
<1>1. \A x \in {a, b, d} :
        /\ x \in admitted /\ x.key = k /\ x.start \in Nat
        /\ x.start < from + WindowOf[k] /\ from < x.start + WindowOf[k]
  <2>1. \A x \in Within(k, from) :
          /\ x \in admitted /\ x.key = k /\ x.at >= from /\ x.done < from + WindowOf[k]
    BY DEF Within
  <2>2. \A x \in admitted : x.start \in Nat /\ x.at \in Nat /\ x.done \in Nat
    BY DEF LimitInv, LimitTypes, Admission
  <2>3. \A x \in admitted : x.start <= x.done /\ x.at < x.start + WindowOf[x.key]
    BY DEF LimitInv, Admissions
  <2> QED BY <2>1, <2>2, <2>3, LimitConstants
<1>2. Apart(a, b) /\ Apart(a, d) /\ Apart(b, d)
  BY <1>1 DEF LimitInv, Spaced
<1> QED BY <1>1, <1>2, LimitConstants DEF Apart

LEMMA InvBounds ==
  ASSUME LimitInv, NEW k \in Buckets, NEW from \in Nat
  PROVE  Cardinality(Within(k, from)) <= 2 * MaxOf[k]
<1> DEFINE W == Within(k, from)
           M == MaxOf[k]
<1>1. M \in Nat BY LimitConstants
<1>2. IsFiniteSet(1 .. 2 * M) /\ Cardinality(1 .. 2 * M) = 2 * M
  BY <1>1, FS_Interval
<1>3. \A x \in W : /\ x \in admitted /\ x.key = k
                   /\ x.start \in Nat /\ x.n \in Nat /\ 1 <= x.n /\ x.n <= M
  BY DEF Within, LimitInv, LimitTypes, Admission, Admissions
<1>4. CASE W = {}
  BY <1>1, <1>4, FS_EmptySet
<1>5. CASE W # {}
  <2>1. PICK first \in W : TRUE BY <1>5
  <2> DEFINE place == [x \in W |-> IF x.start = first.start THEN x.n ELSE M + x.n]
  <2>2. place \in [W -> 1 .. 2 * M] BY <1>1, <1>3
  <2>3. ASSUME NEW x \in W, NEW y \in W, place[x] = place[y]
        PROVE  x = y
    <3>1. x.start = y.start /\ x.n = y.n
      <4>1. (IF x.start = first.start THEN x.n ELSE M + x.n)
              = (IF y.start = first.start THEN y.n ELSE M + y.n)
        BY <2>3
      <4>2. (x.start = first.start <=> y.start = first.start) /\ x.n = y.n
        BY <4>1, <1>1, <1>3
      <4>3. x.start # first.start => x.start = y.start
        BY <4>2, <2>1, TwoWindows
      <4> QED BY <4>2, <4>3
    <3>2. Apart(x, y) BY <1>3 DEF LimitInv, Spaced
    <3> QED BY <3>1, <3>2, <1>3, LimitConstants DEF Apart
  <2>4. place \in Injection(W, 1 .. 2 * M)
    <3>1. IsInjective(place) BY <2>3 DEF IsInjective
    <3> QED BY <2>2, <3>1 DEF Injection
  <2>5. Cardinality(W) <= Cardinality(1 .. 2 * M) BY <2>4, <1>2, FS_Injection
  <2> QED BY <2>5, <1>2
<1> QED BY <1>4, <1>5

(* Of the requests that arrive and are counted in an interval as long as   *)
(* the window, at most twice the maximum are let through, whatever the     *)
(* order of their statements and whenever the cleanup runs.                *)
THEOREM LimiterHolds == LimitSpec => []LimitHolds
<1>1. LimitInv => LimitHolds
  BY InvBounds DEF LimitHolds, LimitInv, LimitTypes
<1> QED BY <1>1, LimitInvInit, LimitInvNext, PTL DEF LimitSpec
================================================================================
