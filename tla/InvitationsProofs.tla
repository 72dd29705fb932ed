--------------------------- MODULE InvitationsProofs ---------------------------
(***************************************************************************)
(* What Invitations promises of duplicate invitations and requests, of the *)
(* one account a person gets, and of decisions that stand, for any number  *)
(* of people, rows and simultaneous requests, any lifetimes and any time.  *)
(***************************************************************************)
EXTENDS Invitations, FiniteSetTheorems, TLAPS

LEMMA Constants ==
  /\ Registered \subseteq Emails /\ Nobody \notin Emails /\ IsFiniteSet(Workers)
  /\ InvitationIds \subseteq Nat \ {NoId} /\ RequestIds \subseteq Nat \ {NoId}
  /\ TtlOf \in [Purposes -> Nat]
  /\ MaxToken \in Nat /\ Grace \in Nat /\ MaxTime \in Nat
BY Zenon, InvitationsAssumption

-------------------------------------------------------------------------------
(* Types, strengthened by what a handler at each statement is handling, and *)
(* by what the rows it names have to do with it.                           *)

TablesOK ==
  /\ Registered \subseteq accounts /\ accounts \subseteq Emails
  /\ DOMAIN invitations \subseteq DOMAIN uses /\ DOMAIN uses \subseteq InvitationIds
  /\ invitations \in [DOMAIN invitations -> InvitationRow]
  /\ uses \in [DOMAIN uses -> Nat]
  /\ DOMAIN requests \subseteq RequestIds /\ requests \in [DOMAIN requests -> RequestRow]
  /\ time \in Time

OpsAt(label) ==
  CASE label = "checkAccount" -> {"approve"}
    [] label = "checkRequest" -> {"request"}
    [] label = "checkInvitation" -> {"invite", "request", "approve"}
    [] label = "insertInvitation" -> {"invite", "approve", "reset"}
    [] label = "insertRequest" -> {"request"}
    [] label = "markApproved" -> {"approve"}
    [] label = "markRejected" -> {"reject"}
    [] label = "writeRevoked" -> {"revoke"}
    [] label = "writeToken" -> {"resend"}
    [] label \in {"readAgain", "writeAccount"} -> {"accept"}
    [] OTHER -> {}
Fits(label, r) ==
  IF label = "idle" THEN r = NoRequest ELSE r \in Handler /\ r.op \in OpsAt(label)
HandlersOK ==
  /\ pc \in [Workers -> Labels]
  /\ DOMAIN req = Workers /\ \A w \in Workers : Fits(pc[w], req[w])
  /\ stale \in [Workers -> BOOLEAN] /\ DOMAIN rivals = Workers

(* The rows that a handler names exist, or did, and are those of the       *)
(* person it acts for.                                                     *)
Named(r) ==
  /\ r.op \in {"invite", "request", "approve", "reset", "accept"} => r.email \in Emails
  /\ r.op \in {"approve", "reject"} => r.on \in DOMAIN requests
  /\ r.op = "approve" => requests[r.on].email = r.email
  /\ r.op \in {"revoke", "resend", "accept"} => r.on \in DOMAIN uses
  /\ r.op = "accept" /\ r.on \in DOMAIN invitations =>
       invitations[r.on].email = r.email /\ invitations[r.on].purpose = r.purpose
  /\ r.link # NoId => r.op = "approve" /\ r.link \in DOMAIN uses
  /\ r.link # NoId /\ r.link \in DOMAIN invitations =>
       invitations[r.link].email = r.email /\ invitations[r.link].purpose = "invite"
NamesOK == \A w \in Workers : pc[w] # "idle" => Named(req[w])

(* Every handler that is about to renew a link finds a token for it.       *)
Resending(i) == {w \in Workers : req[w].op = "resend" /\ req[w].on = i}
TokensLeft ==
  \A i \in DOMAIN invitations : invitations[i].token + Cardinality(Resending(i)) <= MaxToken

TypeInvariant == TablesOK /\ HandlersOK /\ NamesOK /\ TokensLeft

-------------------------------------------------------------------------------
(* A worker past its check of the invitations knows every pending one of   *)
(* the address as a rival, or as one that a resend brought back; past its  *)
(* check of the requests, every undecided one.                             *)
Past(w) ==
  /\ pc[w] = "insertInvitation" /\ req[w].op # "reset" =>
       \A i \in PendingFor(req[w].email) : i \in revived \/ <<"invitation", i>> \in rivals[w]
  /\ pc[w] \in {"checkInvitation", "insertRequest"} /\ req[w].op = "request" =>
       \A r \in Undecided : requests[r].email = req[w].email => <<"request", r>> \in rivals[w]
PastChecks == \A w \in Workers : Past(w)

(* A row that nobody wrote since a worker read it is as the worker read it. *)
Reads(r) ==
  /\ r.op \in {"approve", "reject"} => requests[r.on].status = "pending"
  /\ r.op \in {"revoke", "resend", "accept"} /\ r.on \in DOMAIN invitations =>
       ~invitations[r.on].accepted
  /\ r.op = "accept" /\ r.on \in DOMAIN invitations => ~invitations[r.on].revoked
Readings == \A w \in Workers : pc[w] # "idle" /\ ~stale[w] => Reads(req[w])

-------------------------------------------------------------------------------
(* How a step changes the rows that the others are handling: it keeps whose *)
(* they are and what they are for.                                         *)

RowsStable ==
  /\ DOMAIN uses \subseteq DOMAIN uses'
  /\ \A i \in DOMAIN invitations' : i \in DOMAIN uses =>
       /\ i \in DOMAIN invitations
       /\ invitations'[i].email = invitations[i].email
       /\ invitations'[i].purpose = invitations[i].purpose
  /\ DOMAIN requests \subseteq DOMAIN requests'
  /\ \A r \in DOMAIN requests : requests'[r].email = requests[r].email

LEMMA NamedStable ==
  ASSUME RowsStable, NEW r, Named(r)
  PROVE  Named(r)'
BY DEF RowsStable, Named

LEMMA GotoType ==
  ASSUME HandlersOK, NamesOK, RowsStable, NEW w \in Workers, NEW to \in Labels, NEW request,
         Fits(to, request), to # "idle" => Named(request), Goto(w, to, request),
         stale' \in [Workers -> BOOLEAN], DOMAIN rivals' = Workers
  PROVE  HandlersOK' /\ NamesOK'
<1>1. HandlersOK'
  BY DEF HandlersOK, Goto
<1>2. ASSUME NEW v \in Workers, pc'[v] # "idle" PROVE Named(req[v])'
  <2>1. PICK r : r = req'[v] OBVIOUS
  <2>2. Named(r)
    BY <1>2, <2>1 DEF Goto, HandlersOK, NamesOK
  <2>3. Named(r)' BY <2>2, NamedStable
  <2> QED BY <2>1, <2>3 DEF Named
<1> QED BY <1>1, <1>2 DEF NamesOK

LEMMA FinishType ==
  ASSUME HandlersOK, NamesOK, RowsStable, NEW w \in Workers, Finish(w),
         stale' \in [Workers -> BOOLEAN], DOMAIN rivals' = Workers
  PROVE  HandlersOK' /\ NamesOK'
<1>1. "idle" \in Labels /\ Fits("idle", NoRequest) BY DEF Labels, Fits
<1> QED BY <1>1, GotoType DEF Finish

(* Tokens are left as long as nobody starts to renew a link.               *)
LEMMA ResendingFinite ==
  ASSUME NEW i
  PROVE  IsFiniteSet(Resending(i)) /\ Cardinality(Resending(i)) \in Nat
BY Constants, FS_Subset, FS_CardinalityType DEF Resending

LEMMA ResendingFiniteNext ==
  ASSUME NEW i
  PROVE  IsFiniteSet(Resending(i)') /\ Cardinality(Resending(i)') \in Nat
BY Constants, FS_Subset, FS_CardinalityType DEF Resending

LEMMA NobodyResends ==
  ASSUME HandlersOK, NamesOK, NEW i, i \notin DOMAIN uses
  PROVE  Resending(i) = {}
BY DEF HandlersOK, NamesOK, Named, Fits, Resending, NoRequest

TokensStable ==
  \A i \in DOMAIN invitations' :
    \/ i \in DOMAIN invitations /\ invitations'[i].token = invitations[i].token
    \/ i \notin DOMAIN uses /\ invitations'[i].token = 0

LEMMA TokensKept ==
  ASSUME TypeInvariant, TablesOK', TokensStable,
         \A v \in Workers : req'[v].op = "resend" => req[v] = req'[v]
  PROVE  TokensLeft'
<1>1. ASSUME NEW i \in DOMAIN invitations'
      PROVE  invitations'[i].token + Cardinality(Resending(i)') <= MaxToken
  <2>1. Resending(i)' \subseteq Resending(i) BY DEF Resending
  <2>2. /\ Cardinality(Resending(i)') <= Cardinality(Resending(i))
        /\ Cardinality(Resending(i)) \in Nat /\ Cardinality(Resending(i)') \in Nat
    BY <2>1, ResendingFinite, ResendingFiniteNext, FS_Subset
  <2>3. MaxToken \in Nat BY Constants
  <2>4. CASE i \in DOMAIN invitations /\ invitations'[i].token = invitations[i].token
    <3>1. invitations[i].token \in Nat
      BY <2>3, <2>4 DEF TypeInvariant, TablesOK, InvitationRow
    <3>2. invitations[i].token + Cardinality(Resending(i)) <= MaxToken
      BY <2>4 DEF TypeInvariant, TokensLeft
    <3> QED BY <2>2, <2>3, <2>4, <3>1, <3>2
  <2>5. CASE i \notin DOMAIN uses /\ invitations'[i].token = 0
    <3>1. Cardinality(Resending(i)) = 0
      BY <2>5, NobodyResends, FS_EmptySet DEF TypeInvariant
    <3> QED BY <2>2, <2>3, <2>5, <3>1
  <2> QED BY <2>4, <2>5 DEF TokensStable
<1> QED BY <1>1 DEF TokensLeft

(* What a handler that goes on, or ends, may still be renewing.            *)
LEMMA GoesOn ==
  ASSUME HandlersOK, NEW w \in Workers, NEW to, NEW request, Goto(w, to, request),
         request.op # "resend"
  PROVE  \A v \in Workers : req'[v].op = "resend" => req[v] = req'[v]
BY DEF HandlersOK, Goto

LEMMA Ends ==
  ASSUME HandlersOK, NEW w \in Workers, Finish(w)
  PROVE  \A v \in Workers : req'[v].op = "resend" => req[v] = req'[v]
BY GoesOn DEF Finish, NoRequest

(* A step that leaves the tables alone leaves their types alone.           *)
LEMMA TablesIdle ==
  ASSUME TablesOK, UNCHANGED <<tables, uses>>, time' \in Time
  PROVE  TablesOK' /\ RowsStable /\ TokensStable
BY DEF TablesOK, RowsStable, TokensStable, tables

-------------------------------------------------------------------------------
(* The steps that write no table. *)

LEMMA CallFits ==
  ASSUME NEW op \in {"invite", "request", "approve", "reject", "reset", "revoke", "resend"},
         NEW email \in Emails \union {Nobody},
         NEW on \in InvitationIds \union RequestIds \union {NoId}
  PROVE  /\ Call(op, email, on) \in Handler
         /\ Call(op, email, on).op = op /\ Call(op, email, on).email = email
         /\ Call(op, email, on).on = on /\ Call(op, email, on).link = NoId
<1>1. 0 \in 0 .. MaxToken BY Constants
<1> QED BY <1>1 DEF Call, Handler, Purposes

LEMMA StartType ==
  ASSUME TypeInvariant, NEW w \in Workers, NEW to \in Labels \ {"idle"}, NEW request,
         Fits(to, request), Named(request), Goto(w, to, request),
         UNCHANGED <<tables, time, ghosts>>
  PROVE  /\ TablesOK' /\ HandlersOK' /\ NamesOK'
         /\ request.op # "resend" => TokensLeft'
<1>0. TablesOK /\ HandlersOK /\ NamesOK BY DEF TypeInvariant
<1>1. TablesOK' /\ RowsStable /\ TokensStable
  BY <1>0, TablesIdle DEF ghosts, TablesOK
<1>2. HandlersOK' /\ NamesOK'
  <2>1. stale' \in [Workers -> BOOLEAN] /\ DOMAIN rivals' = Workers
    BY <1>0 DEF HandlersOK, ghosts
  <2> QED BY <1>0, <1>1, <2>1, GotoType
<1>3. request.op # "resend" => TokensLeft'
  BY <1>0, <1>1, GoesOn, TokensKept
<1> QED BY <1>1, <1>2, <1>3

LEMMA SubmitResendType ==
  ASSUME TypeInvariant, NEW w \in Workers, SubmitResend(w)
  PROVE  TypeInvariant'
<1>0. TablesOK /\ HandlersOK /\ NamesOK /\ TokensLeft BY DEF TypeInvariant
<1>1. PICK i \in DOMAIN invitations :
        /\ pc[w] = "idle" /\ RoomForToken(i)
        /\ Goto(w, "writeToken", Call("resend", Nobody, i))
        /\ UNCHANGED <<tables, time, ghosts>>
  BY DEF SubmitResend, Start
<1>2. i \in DOMAIN uses /\ i \in InvitationIds BY <1>0 DEF TablesOK
<1> DEFINE request == Call("resend", Nobody, i)
<1>3. request \in Handler /\ request.op = "resend" /\ request.on = i /\ request.link = NoId
  BY <1>2, CallFits
<1> HIDE DEF request
<1>4. TablesOK' /\ HandlersOK' /\ NamesOK'
  <2>1. Fits("writeToken", request) /\ Named(request) /\ "writeToken" \in Labels \ {"idle"}
    BY <1>2, <1>3 DEF Fits, OpsAt, Named, Labels
  <2>2. Goto(w, "writeToken", request) BY <1>1 DEF request
  <2> QED BY <1>1, <2>1, <2>2, StartType
<1>5. /\ req'[w] = request /\ req[w] = NoRequest
      /\ \A v \in Workers \ {w} : req'[v] = req[v]
  BY <1>0, <1>1 DEF HandlersOK, Fits, Goto, request
<1>6. MaxToken \in Nat /\ \A j \in DOMAIN invitations : invitations[j].token \in Nat
  BY <1>0, Constants DEF TablesOK, InvitationRow
<1>7. ASSUME NEW j \in DOMAIN invitations, j # i
      PROVE  invitations[j].token + Cardinality(Resending(j)') <= MaxToken
  <2>1. Resending(j)' = Resending(j) BY <1>3, <1>5, <1>7 DEF Resending, NoRequest
  <2> QED BY <1>0, <2>1 DEF TokensLeft
<1>8. invitations[i].token + Cardinality(Resending(i)') <= MaxToken
  <2>1. Resending(i)' \subseteq Resending(i) \union {w} BY <1>5 DEF Resending
  <2>2. Resending(i) \subseteq Serving({"resend"}) BY DEF Resending, Serving
  <2>3. /\ IsFiniteSet(Serving({"resend"}))
        /\ Cardinality(Serving({"resend"})) \in Nat
        /\ Cardinality(Resending(i)) <= Cardinality(Serving({"resend"}))
    BY <2>2, Constants, FS_Subset, FS_CardinalityType DEF Serving
  <2>4. /\ IsFiniteSet(Resending(i) \union {w})
        /\ Cardinality(Resending(i) \union {w}) <= Cardinality(Resending(i)) + 1
    <3> DEFINE S == Resending(i)
    <3>1. IsFiniteSet(S) /\ Cardinality(S) \in Nat BY ResendingFinite
    <3> HIDE DEF S
    <3>2. /\ IsFiniteSet(S \union {w})
          /\ Cardinality(S \union {w}) = IF w \in S THEN Cardinality(S) ELSE Cardinality(S) + 1
      BY <3>1, FS_AddElement
    <3> QED BY <3>1, <3>2 DEF S
  <2>5. Cardinality(Resending(i)') <= Cardinality(Resending(i) \union {w})
    BY <2>1, <2>4, FS_Subset
  <2>6. invitations[i].token + Cardinality(Serving({"resend"})) < MaxToken
    BY <1>1 DEF RoomForToken
  <2>7. /\ Cardinality(Resending(i)) \in Nat /\ Cardinality(Resending(i)') \in Nat
        /\ Cardinality(Resending(i) \union {w}) \in Nat
    BY <2>4, ResendingFinite, ResendingFiniteNext, FS_CardinalityType
  <2> QED BY <1>6, <2>3, <2>4, <2>5, <2>6, <2>7
<1>9. TokensLeft' BY <1>1, <1>7, <1>8 DEF TokensLeft, tables
<1> QED BY <1>4, <1>9 DEF TypeInvariant

LEMMA SubmitType ==
  ASSUME TypeInvariant, NEW w \in Workers, Submit(w)
  PROVE  TypeInvariant'
<1>0. TablesOK /\ HandlersOK /\ NamesOK BY DEF TypeInvariant
<1>1. ASSUME NEW op \in {"invite", "request", "approve", "reset"}, NEW to \in Labels \ {"idle"},
             op \in OpsAt(to), NEW e \in Emails,
             NEW on \in RequestIds \union {NoId}, Start(w, op, to, Call(op, e, on)),
             op = "approve" => on \in DOMAIN requests /\ requests[on].email = e
      PROVE  TypeInvariant'
  <2> DEFINE request == Call(op, e, on)
  <2>1. /\ request \in Handler /\ request.op = op /\ request.on = on
        /\ request.email = e /\ request.link = NoId
    BY CallFits
  <2>2. Goto(w, to, request) /\ UNCHANGED <<tables, time, ghosts>> BY <1>1 DEF Start
  <2> HIDE DEF request
  <2>3. Fits(to, request) /\ Named(request) BY <1>1, <2>1 DEF Fits, Named
  <2> QED BY <2>1, <2>2, <2>3, StartType DEF TypeInvariant
<1>2. NoId \in RequestIds \union {NoId} OBVIOUS
<1>3. CASE SubmitInvite(w)
  <2>1. "checkInvitation" \in Labels \ {"idle"} /\ "invite" \in OpsAt("checkInvitation")
    BY DEF Labels, OpsAt
  <2> QED BY <1>1, <1>2, <1>3, <2>1 DEF SubmitInvite
<1>4. CASE SubmitReset(w)
  <2>1. "insertInvitation" \in Labels \ {"idle"} /\ "reset" \in OpsAt("insertInvitation")
    BY DEF Labels, OpsAt
  <2>2. accounts \subseteq Emails BY <1>0 DEF TablesOK
  <2> QED BY <1>1, <1>2, <1>4, <2>1, <2>2 DEF SubmitReset
<1>5. CASE SubmitApprove(w)
  <2>1. "checkAccount" \in Labels \ {"idle"} /\ "approve" \in OpsAt("checkAccount")
    BY DEF Labels, OpsAt
  <2>2. PICK r \in DOMAIN requests :
          Start(w, "approve", "checkAccount", Call("approve", requests[r].email, r))
    BY <1>5 DEF SubmitApprove, Reviewable, Undecided
  <2>3. r \in RequestIds /\ requests[r].email \in Emails
    BY <1>0 DEF TablesOK, RequestRow
  <2>4. PICK e \in Emails : e = requests[r].email BY <2>3
  <2> QED BY <1>1, <2>1, <2>2, <2>3, <2>4
<1>6. CASE SubmitRequest(w)
  <2>1. "checkRequest" \in Labels \ {"idle"} /\ "request" \in OpsAt("checkRequest")
    BY DEF Labels, OpsAt
  <2> QED BY <1>1, <1>2, <1>6, <2>1 DEF SubmitRequest
<1>7. CASE SubmitReject(w)
  <2>1. PICK r \in DOMAIN requests :
          Start(w, "reject", "markRejected", Call("reject", Nobody, r))
    BY <1>7 DEF SubmitReject, Reviewable, Undecided
  <2>2. r \in RequestIds BY <1>0 DEF TablesOK
  <2> DEFINE request == Call("reject", Nobody, r)
  <2>3. request \in Handler /\ request.op = "reject" /\ request.on = r /\ request.link = NoId
    BY <2>2, CallFits
  <2>4. Goto(w, "markRejected", request) /\ UNCHANGED <<tables, time, ghosts>>
    BY <2>1 DEF Start
  <2> HIDE DEF request
  <2>5. Fits("markRejected", request) /\ Named(request) /\ "markRejected" \in Labels \ {"idle"}
    BY <2>3 DEF Fits, Named, OpsAt, Labels
  <2> QED BY <2>3, <2>4, <2>5, StartType DEF TypeInvariant
<1>8. CASE SubmitRevoke(w)
  <2>1. PICK i \in DOMAIN invitations :
          Start(w, "revoke", "writeRevoked", Call("revoke", Nobody, i))
    BY <1>8 DEF SubmitRevoke, Revocable
  <2>2. i \in DOMAIN uses /\ i \in InvitationIds BY <1>0 DEF TablesOK
  <2> DEFINE request == Call("revoke", Nobody, i)
  <2>3. request \in Handler /\ request.op = "revoke" /\ request.on = i /\ request.link = NoId
    BY <2>2, CallFits
  <2>4. Goto(w, "writeRevoked", request) /\ UNCHANGED <<tables, time, ghosts>>
    BY <2>1 DEF Start
  <2> HIDE DEF request
  <2>5. Fits("writeRevoked", request) /\ Named(request) /\ "writeRevoked" \in Labels \ {"idle"}
    BY <2>2, <2>3 DEF Fits, Named, OpsAt, Labels
  <2> QED BY <2>3, <2>4, <2>5, StartType DEF TypeInvariant
<1>9. CASE SubmitAccept(w)
  <2> DEFINE request(i) ==
        [Call("accept", invitations[i].email, i) EXCEPT !.token = invitations[i].token,
                                                        !.purpose = invitations[i].purpose]
  <2>1. PICK i \in DOMAIN invitations : Start(w, "accept", "readAgain", request(i))
    BY <1>9 DEF SubmitAccept
  <2>2. i \in DOMAIN uses /\ i \in InvitationIds BY <1>0 DEF TablesOK
  <2>3. invitations[i] \in InvitationRow BY <1>0 DEF TablesOK
  <2>4. /\ request(i) \in Handler /\ request(i).op = "accept" /\ request(i).on = i
        /\ request(i).email = invitations[i].email /\ request(i).link = NoId
        /\ request(i).purpose = invitations[i].purpose
    BY <2>2, <2>3 DEF Call, Handler, InvitationRow
  <2>5. Goto(w, "readAgain", request(i)) /\ UNCHANGED <<tables, time, ghosts>>
    BY <2>1 DEF Start
  <2> HIDE DEF request
  <2>6. invitations[i].email \in Emails BY <2>3 DEF InvitationRow
  <2>7. Fits("readAgain", request(i)) /\ Named(request(i)) /\ "readAgain" \in Labels \ {"idle"}
    BY <2>2, <2>4, <2>6 DEF Fits, Named, OpsAt, Labels
  <2> QED BY <2>4, <2>5, <2>7, StartType DEF TypeInvariant
<1> QED BY <1>3, <1>4, <1>5, <1>6, <1>7, <1>8, <1>9, SubmitResendType DEF Submit

(* A handler goes on with the request it has, or ends.                     *)
LEMMA MoveType ==
  ASSUME TypeInvariant, TablesOK', RowsStable, TokensStable,
         NEW w \in Workers, NEW to \in Labels, Fits(to, req[w]), req[w].op # "resend",
         pc[w] # "idle", Goto(w, to, req[w]),
         stale' \in [Workers -> BOOLEAN], DOMAIN rivals' = Workers
  PROVE  TypeInvariant'
<1>1. HandlersOK' /\ NamesOK'
  <2>1. HandlersOK /\ NamesOK /\ Named(req[w]) BY DEF TypeInvariant, NamesOK
  <2> QED BY <2>1, GotoType
<1>2. TokensLeft'
  <2>1. \A v \in Workers : req'[v].op = "resend" => req[v] = req'[v]
    BY GoesOn DEF TypeInvariant
  <2> QED BY <2>1, TokensKept
<1> QED BY <1>1, <1>2 DEF TypeInvariant

LEMMA EndType ==
  ASSUME TypeInvariant, TablesOK', RowsStable, TokensStable, NEW w \in Workers, Finish(w),
         stale' \in [Workers -> BOOLEAN], DOMAIN rivals' = Workers
  PROVE  TypeInvariant'
<1>1. HandlersOK' /\ NamesOK' BY FinishType DEF TypeInvariant
<1>2. TokensLeft'
  <2>1. \A v \in Workers : req'[v].op = "resend" => req[v] = req'[v]
    BY Ends DEF TypeInvariant
  <2> QED BY <2>1, TokensKept
<1> QED BY <1>1, <1>2 DEF TypeInvariant

LEMMA WroteType ==
  ASSUME HandlersOK, NEW w, NEW row, Wrote(w, row)
  PROVE  stale' \in [Workers -> BOOLEAN]
BY DEF HandlersOK, Wrote

LEMMA ForgetType ==
  ASSUME HandlersOK, NEW w \in Workers, Forget(w)
  PROVE  stale' \in [Workers -> BOOLEAN] /\ DOMAIN rivals' = Workers
BY DEF HandlersOK, Forget

LEMMA CheckType ==
  ASSUME TypeInvariant, NEW w \in Workers,
         CheckAccount(w) \/ CheckRequest(w) \/ CheckInvitation(w) \/ ReadAgain(w) \/ Die(w)
  PROVE  TypeInvariant'
<1>0. TablesOK /\ HandlersOK BY DEF TypeInvariant
<1>1. UNCHANGED <<tables, time, uses>>
  BY DEF CheckAccount, CheckRequest, CheckInvitation, ReadAgain, Die
<1>2. TablesOK' /\ RowsStable /\ TokensStable
  BY <1>0, <1>1, TablesIdle DEF TablesOK
<1>3. stale' \in [Workers -> BOOLEAN] /\ DOMAIN rivals' = Workers
  <2>1. CASE Forget(w) BY <1>0, <2>1, ForgetType
  <2>2. CASE UNCHANGED <<rivals, stale>> BY <1>0, <2>2 DEF HandlersOK
  <2>3. CASE UNCHANGED stale /\ \E s : rivals' = [rivals EXCEPT ![w] = s]
    BY <1>0, <2>3 DEF HandlersOK
  <2> QED BY <2>1, <2>2, <2>3
          DEF CheckAccount, CheckRequest, CheckInvitation, ReadAgain, Die
<1>4. CASE Finish(w) BY <1>2, <1>3, <1>4, EndType
<1>5. CASE ~Finish(w)
  <2>1. PICK to \in {"checkInvitation", "insertRequest", "insertInvitation", "writeAccount"} :
          /\ Goto(w, to, req[w]) /\ pc[w] # "idle" /\ to \in Labels
          /\ Fits(to, req[w]) /\ req[w].op # "resend"
    <3>1. CASE CheckAccount(w)
      BY <1>0, <1>5, <3>1 DEF CheckAccount, HandlersOK, Fits, OpsAt, Labels
    <3>2. CASE CheckRequest(w)
      BY <1>0, <1>5, <3>2 DEF CheckRequest, HandlersOK, Fits, OpsAt, Labels
    <3>3. CASE CheckInvitation(w)
      BY <1>0, <1>5, <3>3 DEF CheckInvitation, HandlersOK, Fits, OpsAt, Labels
    <3>4. CASE ReadAgain(w)
      BY <1>0, <1>5, <3>4 DEF ReadAgain, HandlersOK, Fits, OpsAt, Labels
    <3> QED BY <1>5, <3>1, <3>2, <3>3, <3>4 DEF Die
  <2> QED BY <1>2, <1>3, <2>1, MoveType
<1> QED BY <1>4, <1>5

-------------------------------------------------------------------------------
(* The steps that write a row. *)

(* What an insertion of an invitation does to the tables: the row is of    *)
(* the handler's person, and is nobody's yet.                              *)
InvitationInserted(w, id) ==
  LET purpose == IF req[w].op = "reset" THEN "reset" ELSE "invite"
  IN  /\ id \in InvitationIds \ DOMAIN uses
      /\ DOMAIN invitations' = DOMAIN invitations \union {id}
      /\ DOMAIN uses' = DOMAIN uses \union {id}
      /\ invitations'[id] = [email |-> req[w].email, purpose |-> purpose, token |-> 0,
                             expires |-> time + TtlOf[purpose], accepted |-> FALSE,
                             revoked |-> FALSE]
      /\ uses'[id] = 0
      /\ \A i \in DOMAIN invitations : invitations'[i] = invitations[i]
      /\ \A i \in DOMAIN uses : uses'[i] = uses[i]
      /\ invitations' \in [DOMAIN invitations' -> InvitationRow]
      /\ uses' \in [DOMAIN uses' -> Nat]

LEMMA InsertionInserts ==
  ASSUME TypeInvariant, NEW w \in Workers, InsertInvitation(w)
  PROVE  \E id \in InvitationIds :
           /\ InvitationInserted(w, id)
           /\ IF req[w].op = "reset" THEN rivals' = [rivals EXCEPT ![w] = {}] /\ UNCHANGED raced
              ELSE Inserted(w, <<"invitation", id>>)
           /\ IF req[w].op = "approve" THEN Goto(w, "markApproved", [req[w] EXCEPT !.link = id])
              ELSE Finish(w)
<1>0. TablesOK /\ HandlersOK /\ NamesOK BY DEF TypeInvariant
<1> DEFINE r == req[w]
           purpose == IF r.op = "reset" THEN "reset" ELSE "invite"
           row == [email |-> r.email, purpose |-> purpose, token |-> 0,
                   expires |-> time + TtlOf[purpose], accepted |-> FALSE, revoked |-> FALSE]
<1>1. PICK id \in InvitationIds :
        /\ id \in InvitationIds \ DOMAIN uses
        /\ invitations' = Insert(invitations, id, row)
        /\ uses' = Insert(uses, id, 0)
        /\ IF purpose = "invite" THEN Inserted(w, <<"invitation", id>>)
           ELSE rivals' = [rivals EXCEPT ![w] = {}] /\ UNCHANGED raced
        /\ IF r.op = "approve" THEN Goto(w, "markApproved", [r EXCEPT !.link = id])
           ELSE Finish(w)
  BY DEF InsertInvitation, IsFresh
<1>2. row \in InvitationRow
  <2>1. r.email \in Emails
    BY <1>0 DEF InsertInvitation, HandlersOK, Fits, OpsAt, NamesOK, Named
  <2>2. purpose \in Purposes BY DEF Purposes
  <2>3. time + TtlOf[purpose] \in Nat
    <3>1. time \in Nat BY <1>0 DEF TablesOK, Time
    <3>2. TtlOf[purpose] \in Nat BY <2>2, Constants
    <3> QED BY <3>1, <3>2
  <2>4. 0 \in 0 .. MaxToken BY Constants
  <2> HIDE DEF purpose
  <2> QED BY <2>1, <2>2, <2>3, <2>4 DEF InvitationRow
<1>3. purpose = "invite" <=> r.op # "reset" OBVIOUS
<1>4. /\ DOMAIN invitations' = DOMAIN invitations \union {id}
      /\ invitations'[id] = row
      /\ \A i \in DOMAIN invitations : i # id => invitations'[i] = invitations[i]
  <2> HIDE DEF row
  <2> QED BY <1>1 DEF Insert
<1>5. /\ DOMAIN uses' = DOMAIN uses \union {id} /\ uses'[id] = 0
      /\ \A i \in DOMAIN uses : i # id => uses'[i] = uses[i]
  BY <1>1 DEF Insert
<1>6. id \notin DOMAIN invitations /\ id \notin DOMAIN uses BY <1>0, <1>1 DEF TablesOK
<1>7. invitations' \in [DOMAIN invitations' -> InvitationRow]
  <2> HIDE DEF row
  <2> QED BY <1>0, <1>1, <1>2, <1>4 DEF TablesOK, Insert
<1>8. uses' \in [DOMAIN uses' -> Nat]
  BY <1>0, <1>1, <1>5 DEF TablesOK, Insert
<1>9. InvitationInserted(w, id)
  BY <1>1, <1>4, <1>5, <1>6, <1>7, <1>8 DEF InvitationInserted
<1> QED BY <1>1, <1>3, <1>9

LEMMA InsertInvitationType ==
  ASSUME TypeInvariant, NEW w \in Workers, InsertInvitation(w)
  PROVE  TypeInvariant'
<1>0. TablesOK /\ HandlersOK /\ NamesOK BY DEF TypeInvariant
<1>1. PICK id \in InvitationIds :
        /\ InvitationInserted(w, id)
        /\ IF req[w].op = "reset" THEN rivals' = [rivals EXCEPT ![w] = {}] /\ UNCHANGED raced
           ELSE Inserted(w, <<"invitation", id>>)
        /\ IF req[w].op = "approve" THEN Goto(w, "markApproved", [req[w] EXCEPT !.link = id])
           ELSE Finish(w)
  BY InsertionInserts
<1>2. /\ stale' \in [Workers -> BOOLEAN] /\ DOMAIN rivals' = Workers
      /\ UNCHANGED <<accounts, requests, time>>
  BY <1>0, <1>1 DEF InsertInvitation, HandlersOK, Inserted
<1>3. TablesOK'
  <2>1. /\ DOMAIN invitations' \subseteq DOMAIN uses' /\ DOMAIN uses' \subseteq InvitationIds
        /\ invitations' \in [DOMAIN invitations' -> InvitationRow]
        /\ uses' \in [DOMAIN uses' -> Nat]
    BY <1>0, <1>1 DEF TablesOK, InvitationInserted
  <2> QED BY <1>0, <1>2, <2>1 DEF TablesOK
<1>4. RowsStable /\ TokensStable
  BY <1>0, <1>1, <1>2 DEF RowsStable, TokensStable, InvitationInserted, TablesOK
<1>5. CASE req[w].op # "approve" BY <1>1, <1>2, <1>3, <1>4, <1>5, EndType
<1>6. CASE req[w].op = "approve"
  <2>1. PICK old : old = req[w] OBVIOUS
  <2>2. PICK new : new = [old EXCEPT !.link = id] OBVIOUS
  <2>3. pc[w] = "insertInvitation" /\ old \in Handler /\ old.op = "approve" /\ Named(old)
    BY <1>0, <1>6, <2>1 DEF InsertInvitation, HandlersOK, Fits, NamesOK
  <2>4. /\ new \in Handler /\ new.op = "approve" /\ new.link = id
        /\ new.email = old.email /\ new.on = old.on
    BY <2>2, <2>3 DEF Handler
  <2>5. Goto(w, "markApproved", new) BY <1>1, <1>6, <2>1, <2>2
  <2>6. Named(new)'
    <3>1. Named(old)' BY <1>4, <2>3, NamedStable
    <3>2. /\ id \in DOMAIN uses' /\ invitations'[id].email = new.email
          /\ invitations'[id].purpose = "invite"
      BY <1>1, <1>6, <2>1, <2>4 DEF InvitationInserted
    <3> QED BY <2>3, <2>4, <3>1, <3>2 DEF Named
  <2>7. HandlersOK'
    BY <1>0, <1>2, <2>4, <2>5 DEF HandlersOK, Goto, Fits, OpsAt, Labels
  <2>8. ASSUME NEW v \in Workers, pc'[v] # "idle" PROVE Named(req[v])'
    <3>1. CASE v = w
      <4>1. req'[v] = new BY <1>0, <2>5, <3>1 DEF Goto, HandlersOK
      <4> QED BY <2>6, <4>1 DEF Named
    <3>2. CASE v # w
      <4>1. PICK other : other = req[v] OBVIOUS
      <4>2. Named(other) /\ req'[v] = other
        BY <1>0, <2>5, <2>8, <3>2, <4>1 DEF Goto, HandlersOK, NamesOK
      <4>3. Named(other)' BY <1>4, <4>2, NamedStable
      <4> QED BY <4>2, <4>3 DEF Named
    <3> QED BY <3>1, <3>2
  <2>9. TokensLeft'
    <3>1. \A v \in Workers : req'[v].op = "resend" => req[v] = req'[v]
      BY <1>0, <2>4, <2>5, GoesOn
    <3> QED BY <1>3, <1>4, <3>1, TokensKept
  <2> QED BY <1>3, <2>7, <2>8, <2>9 DEF TypeInvariant, NamesOK
<1> QED BY <1>5, <1>6

(* The same of a request.                                                  *)
RequestInserted(w, id) ==
  /\ id \in RequestIds \ DOMAIN requests
  /\ DOMAIN requests' = DOMAIN requests \union {id}
  /\ requests'[id] = [email |-> req[w].email, status |-> "pending", invitation |-> NoId]
  /\ \A r \in DOMAIN requests : requests'[r] = requests[r]
  /\ requests' \in [DOMAIN requests' -> RequestRow]

LEMMA RequestInserts ==
  ASSUME TypeInvariant, NEW w \in Workers, InsertRequest(w)
  PROVE  \E id \in RequestIds : RequestInserted(w, id) /\ Inserted(w, <<"request", id>>)
<1>0. TablesOK /\ HandlersOK /\ NamesOK BY DEF TypeInvariant
<1> DEFINE row == [email |-> req[w].email, status |-> "pending", invitation |-> NoId]
<1>1. PICK id \in RequestIds :
        /\ id \in RequestIds \ DOMAIN requests /\ requests' = Insert(requests, id, row)
        /\ Inserted(w, <<"request", id>>)
  BY DEF InsertRequest, IsFresh
<1>2. row \in RequestRow
  <2>1. req[w].email \in Emails
    BY <1>0 DEF InsertRequest, HandlersOK, Fits, OpsAt, NamesOK, Named
  <2> QED BY <2>1 DEF RequestRow
<1> HIDE DEF row
<1>3. RequestInserted(w, id)
  <2>1. /\ DOMAIN requests' = DOMAIN requests \union {id} /\ requests'[id] = row
        /\ \A r \in DOMAIN requests : requests'[r] = requests[r]
    BY <1>1 DEF Insert
  <2>2. requests' \in [DOMAIN requests' -> RequestRow]
    BY <1>0, <1>1, <1>2, <2>1 DEF TablesOK, Insert
  <2> QED BY <1>1, <2>1, <2>2 DEF RequestInserted, row
<1> QED BY <1>1, <1>3

LEMMA InsertRequestType ==
  ASSUME TypeInvariant, NEW w \in Workers, InsertRequest(w)
  PROVE  TypeInvariant'
<1>0. TablesOK /\ HandlersOK BY DEF TypeInvariant
<1>1. PICK id \in RequestIds : RequestInserted(w, id) /\ Inserted(w, <<"request", id>>)
  BY RequestInserts
<1>2. /\ stale' \in [Workers -> BOOLEAN] /\ DOMAIN rivals' = Workers /\ Finish(w)
      /\ UNCHANGED <<accounts, invitations, uses, time>>
  BY <1>0, <1>1 DEF InsertRequest, HandlersOK, Inserted
<1>3. TablesOK' BY <1>0, <1>1, <1>2 DEF TablesOK, RequestInserted
<1>4. RowsStable /\ TokensStable
  BY <1>0, <1>1, <1>2 DEF RowsStable, TokensStable, RequestInserted
<1> QED BY <1>2, <1>3, <1>4, EndType

LEMMA DecideType ==
  ASSUME TypeInvariant, NEW w \in Workers, MarkApproved(w) \/ MarkRejected(w)
  PROVE  TypeInvariant'
<1>0. TablesOK /\ HandlersOK /\ NamesOK BY DEF TypeInvariant
<1> DEFINE r == req[w].on
<1>1. r \in DOMAIN requests /\ requests[r] \in RequestRow
  BY <1>0 DEF MarkApproved, MarkRejected, HandlersOK, Fits, OpsAt, NamesOK, Named, TablesOK
<1>2. /\ stale' \in [Workers -> BOOLEAN] /\ DOMAIN rivals' = Workers /\ Finish(w)
      /\ UNCHANGED <<accounts, invitations, uses, time>>
  BY <1>0, WroteType DEF MarkApproved, MarkRejected, HandlersOK
<1>3. \/ requests' = requests
      \/ \E row \in RequestRow :
           row.email = requests[r].email /\ requests' = [requests EXCEPT ![r] = row]
  <2>1. CASE MarkApproved(w)
    <3>1. req[w].link \in DOMAIN invitations => req[w].link \in InvitationIds
      BY <1>0 DEF TablesOK
    <3>2. req[w].link \in DOMAIN invitations =>
            /\ ApprovedRow(requests[r], req[w].link) \in RequestRow
            /\ ApprovedRow(requests[r], req[w].link).email = requests[r].email
      BY <1>1, <3>1 DEF ApprovedRow, RequestRow
    <3> QED BY <2>1, <3>2 DEF MarkApproved
  <2>2. CASE MarkRejected(w)
    <3>1. /\ [requests[r] EXCEPT !.status = "rejected"] \in RequestRow
          /\ [requests[r] EXCEPT !.status = "rejected"].email = requests[r].email
      BY <1>1 DEF RequestRow
    <3> QED BY <2>2, <3>1 DEF MarkRejected
  <2> QED BY <2>1, <2>2
<1> HIDE DEF r
<1>4. TablesOK' BY <1>0, <1>1, <1>2, <1>3 DEF TablesOK
<1>5. RowsStable /\ TokensStable
  BY <1>0, <1>1, <1>2, <1>3 DEF RowsStable, TokensStable, TablesOK
<1> QED BY <1>2, <1>4, <1>5, EndType

LEMMA RevokeType ==
  ASSUME TypeInvariant, NEW w \in Workers, RevokeInvitation(w)
  PROVE  TypeInvariant'
<1>0. TablesOK /\ HandlersOK BY DEF TypeInvariant
<1>1. /\ stale' \in [Workers -> BOOLEAN] /\ DOMAIN rivals' = Workers /\ Finish(w)
      /\ UNCHANGED <<accounts, requests, uses, time>>
  BY <1>0, WroteType DEF RevokeInvitation, HandlersOK
<1> DEFINE i == req[w].on
<1>2. \/ invitations' = invitations
      \/ i \in DOMAIN invitations /\ invitations' = [invitations EXCEPT ![i].revoked = TRUE]
  BY DEF RevokeInvitation
<1> HIDE DEF i
<1>3. /\ DOMAIN invitations' = DOMAIN invitations
      /\ invitations' \in [DOMAIN invitations' -> InvitationRow]
      /\ \A j \in DOMAIN invitations :
           /\ invitations'[j].email = invitations[j].email
           /\ invitations'[j].purpose = invitations[j].purpose
           /\ invitations'[j].token = invitations[j].token
  <2>1. /\ \A j \in DOMAIN invitations : invitations[j] \in InvitationRow
        /\ invitations = [j \in DOMAIN invitations |-> invitations[j]]
    BY <1>0 DEF TablesOK
  <2>2. /\ DOMAIN invitations' = DOMAIN invitations
        /\ invitations' = [j \in DOMAIN invitations |-> invitations'[j]]
        /\ \A j \in DOMAIN invitations :
             \/ invitations'[j] = invitations[j]
             \/ invitations'[j] = [invitations[j] EXCEPT !.revoked = TRUE]
    BY <1>2, <2>1
  <2>3. \A row \in InvitationRow :
          /\ [row EXCEPT !.revoked = TRUE] \in InvitationRow
          /\ [row EXCEPT !.revoked = TRUE].email = row.email
          /\ [row EXCEPT !.revoked = TRUE].purpose = row.purpose
          /\ [row EXCEPT !.revoked = TRUE].token = row.token
    BY DEF InvitationRow
  <2>4. \A j \in DOMAIN invitations : invitations'[j] \in InvitationRow
    BY <2>1, <2>2, <2>3
  <2>5. invitations' \in [DOMAIN invitations -> InvitationRow] BY <2>2, <2>4
  <2>6. \A j \in DOMAIN invitations :
           /\ invitations'[j].email = invitations[j].email
           /\ invitations'[j].purpose = invitations[j].purpose
           /\ invitations'[j].token = invitations[j].token
    BY <2>1, <2>2, <2>3
  <2> QED BY <2>2, <2>5, <2>6
<1>4. TablesOK' BY <1>0, <1>1, <1>3 DEF TablesOK
<1>5. RowsStable /\ TokensStable BY <1>1, <1>3 DEF RowsStable, TokensStable
<1> QED BY <1>1, <1>4, <1>5, EndType

(* What an acceptance writes: nothing, or the account, the row, if it is   *)
(* still there, and its use.                                               *)
Accepts(w) ==
  LET i == req[w].on
      e == req[w].email
  IN  /\ MayAccept(req[w].purpose, e) /\ accounts' = accounts \union {e}
      /\ i \in DOMAIN uses /\ e \in Emails
      /\ DOMAIN invitations' = DOMAIN invitations /\ DOMAIN uses' = DOMAIN uses
      /\ \A j \in DOMAIN invitations :
           /\ j # i => invitations'[j] = invitations[j]
           /\ invitations'[j].email = invitations[j].email
           /\ invitations'[j].purpose = invitations[j].purpose
           /\ invitations'[j].token = invitations[j].token
           /\ invitations'[j].expires = invitations[j].expires
           /\ invitations'[j].revoked = invitations[j].revoked
           /\ invitations'[j].accepted = (invitations[j].accepted \/ j = i)
      /\ \A j \in DOMAIN uses : uses'[j] = IF j = i THEN uses[j] + 1 ELSE uses[j]
      /\ Wrote(w, <<"invitation", i>>)

LEMMA AcceptanceAccepts ==
  ASSUME TypeInvariant, NEW w \in Workers, AcceptInvitation(w)
  PROVE  /\ \/ Accepts(w)
            \/ UNCHANGED <<accounts, invitations, uses>> /\ stale' = [stale EXCEPT ![w] = FALSE]
         /\ req[w] \in Handler /\ req[w].op = "accept" /\ Named(req[w])
         /\ Finish(w) /\ UNCHANGED <<requests, time, rivals, raced, revived>>
<1>0. TablesOK /\ HandlersOK /\ NamesOK BY DEF TypeInvariant
<1>1. req[w] \in Handler /\ req[w].op = "accept" /\ Named(req[w])
  BY <1>0 DEF AcceptInvitation, HandlersOK, Fits, OpsAt, NamesOK
<1> DEFINE i == req[w].on
           e == req[w].email
<1>2. i \in DOMAIN uses /\ e \in Emails BY <1>1 DEF Named
<1>3. ASSUME MayAccept(req[w].purpose, e) PROVE Accepts(w)
  <2>1. /\ accounts' = accounts \union {e}
        /\ IF i \in DOMAIN invitations
           THEN invitations' = [invitations EXCEPT ![i].accepted = TRUE]
           ELSE UNCHANGED invitations
        /\ uses' = [uses EXCEPT ![i] = @ + 1]
        /\ Wrote(w, <<"invitation", i>>)
    BY <1>3 DEF AcceptInvitation
  <2> HIDE DEF i, e
  <2>2. /\ DOMAIN uses' = DOMAIN uses
        /\ \A j \in DOMAIN uses : uses'[j] = IF j = i THEN uses[j] + 1 ELSE uses[j]
    BY <2>1, <1>2
  <2>3. /\ DOMAIN invitations' = DOMAIN invitations
        /\ \A j \in DOMAIN invitations :
             invitations'[j] = IF j = i THEN [invitations[j] EXCEPT !.accepted = TRUE]
                               ELSE invitations[j]
    BY <2>1
  <2>4. \A j \in DOMAIN invitations : invitations[j] \in InvitationRow
    BY <1>0 DEF TablesOK
  <2>5. \A j \in DOMAIN invitations :
           /\ j # i => invitations'[j] = invitations[j]
           /\ invitations'[j].email = invitations[j].email
           /\ invitations'[j].purpose = invitations[j].purpose
           /\ invitations'[j].token = invitations[j].token
           /\ invitations'[j].expires = invitations[j].expires
           /\ invitations'[j].revoked = invitations[j].revoked
           /\ invitations'[j].accepted = (invitations[j].accepted \/ j = i)
    BY <2>3, <2>4 DEF InvitationRow
  <2> QED BY <1>2, <1>3, <2>1, <2>2, <2>3, <2>5 DEF Accepts, i, e
<1>4. ~MayAccept(req[w].purpose, e) =>
        UNCHANGED <<accounts, invitations, uses>> /\ stale' = [stale EXCEPT ![w] = FALSE]
  BY DEF AcceptInvitation
<1>5. Finish(w) /\ UNCHANGED <<requests, time, rivals, raced, revived>>
  BY DEF AcceptInvitation
<1> QED BY <1>1, <1>3, <1>4, <1>5

LEMMA AcceptType ==
  ASSUME TypeInvariant, NEW w \in Workers, AcceptInvitation(w)
  PROVE  TypeInvariant'
<1>0. TablesOK /\ HandlersOK BY DEF TypeInvariant
<1>1. /\ Finish(w) /\ UNCHANGED <<requests, time, rivals>>
      /\ \/ Accepts(w)
         \/ UNCHANGED <<accounts, invitations, uses>> /\ stale' = [stale EXCEPT ![w] = FALSE]
  BY AcceptanceAccepts
<1>2. stale' \in [Workers -> BOOLEAN] /\ DOMAIN rivals' = Workers
  <2>1. Accepts(w) => stale' \in [Workers -> BOOLEAN] BY <1>0, WroteType DEF Accepts
  <2> QED BY <1>0, <1>1, <2>1 DEF HandlersOK
<1>3. CASE Accepts(w)
  <2>1. invitations' \in [DOMAIN invitations' -> InvitationRow]
    <3>1. \/ invitations' = invitations
          \/ \E i \in DOMAIN invitations : invitations' = [invitations EXCEPT ![i].accepted = TRUE]
      BY <1>3 DEF AcceptInvitation, Accepts
    <3> QED BY <1>0, <3>1 DEF TablesOK, InvitationRow
  <2>2. uses' \in [DOMAIN uses' -> Nat]
    <3>1. \E i \in DOMAIN uses : uses' = [uses EXCEPT ![i] = @ + 1]
      BY <1>3 DEF AcceptInvitation, Accepts
    <3> QED BY <1>0, <3>1 DEF TablesOK
  <2>3. TablesOK' BY <1>0, <1>1, <1>3, <2>1, <2>2 DEF TablesOK, Accepts
  <2>4. RowsStable /\ TokensStable BY <1>1, <1>3 DEF RowsStable, TokensStable, Accepts
  <2> QED BY <1>1, <1>2, <2>3, <2>4, EndType
<1>4. CASE UNCHANGED <<accounts, invitations, uses>>
  <2>1. TablesOK' /\ RowsStable /\ TokensStable
    BY <1>0, <1>1, <1>4 DEF TablesOK, RowsStable, TokensStable
  <2> QED BY <1>1, <1>2, <2>1, EndType
<1> QED BY <1>1, <1>3, <1>4

(* What a renewal writes, if the row is still there.                       *)
Renews(w) ==
  LET i == req[w].on
  IN  /\ i \in DOMAIN invitations /\ DOMAIN invitations' = DOMAIN invitations
      /\ invitations' \in [DOMAIN invitations -> InvitationRow]
      /\ \A j \in DOMAIN invitations : j # i => invitations'[j] = invitations[j]
      /\ invitations'[i].email = invitations[i].email
      /\ invitations'[i].purpose = invitations[i].purpose
      /\ invitations'[i].token = invitations[i].token + 1
      /\ invitations'[i].accepted = invitations[i].accepted
      /\ revived' = IF Pending(i) THEN revived ELSE revived \union {i}

LEMMA RenewalRenews ==
  ASSUME TypeInvariant, NEW w \in Workers, RenewToken(w)
  PROVE  /\ Renews(w) \/ UNCHANGED <<invitations, revived>>
         /\ Finish(w) /\ Wrote(w, <<"invitation", req[w].on>>)
         /\ req[w] \in Handler /\ req[w].op = "resend" /\ Named(req[w])
         /\ UNCHANGED <<accounts, requests, time, rivals, uses, raced>>
<1>0. TablesOK /\ HandlersOK /\ NamesOK /\ TokensLeft BY DEF TypeInvariant
<1>1. pc[w] = "writeToken" /\ req[w] \in Handler /\ req[w].op = "resend" /\ Named(req[w])
  BY <1>0 DEF RenewToken, HandlersOK, Fits, OpsAt, NamesOK
<1>2. /\ Finish(w) /\ Wrote(w, <<"invitation", req[w].on>>)
      /\ UNCHANGED <<accounts, requests, time, rivals, uses, raced>>
  BY DEF RenewToken
<1> DEFINE i == req[w].on
<1>3. ASSUME i \in DOMAIN invitations PROVE Renews(w)
  <2> DEFINE old == invitations[i]
             row == Renewed(old)
  <2>1. /\ invitations' = [invitations EXCEPT ![i] = row]
        /\ revived' = IF Pending(i) THEN revived ELSE revived \union {i}
    BY <1>3 DEF RenewToken
  <2>2. old \in InvitationRow /\ old.token \in Nat
    BY <1>0, <1>3, Constants DEF TablesOK, InvitationRow
  <2>3. old.token + 1 \in 0 .. MaxToken
    <3>1. old.token + Cardinality(Resending(i)) <= MaxToken BY <1>0, <1>3 DEF TokensLeft
    <3>2. Resending(i) # {} BY <1>1 DEF Resending
    <3>3. Cardinality(Resending(i)) # 0 /\ Cardinality(Resending(i)) \in Nat
      BY <3>2, ResendingFinite, FS_EmptySet
    <3> QED BY <2>2, <3>1, <3>3, Constants
  <2>4. time + TtlOf["invite"] \in Nat
    BY <1>0, Constants DEF TablesOK, Time, Purposes
  <2> HIDE DEF old
  <2>5. /\ row \in InvitationRow /\ row.email = old.email /\ row.purpose = old.purpose
        /\ row.token = old.token + 1 /\ row.accepted = old.accepted
    BY <2>2, <2>3, <2>4 DEF InvitationRow, Renewed
  <2> HIDE DEF row, i
  <2>6. /\ DOMAIN invitations' = DOMAIN invitations /\ invitations'[i] = row
        /\ \A j \in DOMAIN invitations : j # i => invitations'[j] = invitations[j]
    BY <1>3, <2>1
  <2>7. invitations' \in [DOMAIN invitations -> InvitationRow]
    BY <1>0, <2>1, <2>5 DEF TablesOK
  <2> QED BY <1>3, <2>1, <2>5, <2>6, <2>7 DEF Renews, old, i
<1>4. i \notin DOMAIN invitations => UNCHANGED <<invitations, revived>>
  BY DEF RenewToken
<1> QED BY <1>1, <1>2, <1>3, <1>4

LEMMA RenewType ==
  ASSUME TypeInvariant, NEW w \in Workers, RenewToken(w)
  PROVE  TypeInvariant'
<1>0. TablesOK /\ HandlersOK /\ NamesOK /\ TokensLeft BY DEF TypeInvariant
<1>1. /\ Renews(w) \/ UNCHANGED <<invitations, revived>>
      /\ Finish(w) /\ Wrote(w, <<"invitation", req[w].on>>)
      /\ req[w].op = "resend"
      /\ UNCHANGED <<accounts, requests, time, rivals, uses, raced>>
  BY RenewalRenews
<1>2. stale' \in [Workers -> BOOLEAN] /\ DOMAIN rivals' = Workers
  BY <1>0, <1>1, WroteType DEF HandlersOK
<1>3. TablesOK' BY <1>0, <1>1 DEF TablesOK, Renews
<1>4. RowsStable BY <1>1 DEF RowsStable, Renews
<1>5. CASE UNCHANGED invitations
  BY <1>1, <1>2, <1>3, <1>4, <1>5, EndType DEF TokensStable
<1>6. CASE Renews(w)
  <2>1. HandlersOK' /\ NamesOK' BY <1>0, <1>1, <1>2, <1>4, FinishType
  <2> DEFINE i == req[w].on
  <2>2. MaxToken \in Nat /\ \A j \in DOMAIN invitations : invitations[j].token \in Nat
    BY <1>0, Constants DEF TablesOK, InvitationRow
  <2>3. ASSUME NEW j \in DOMAIN invitations
        PROVE  invitations'[j].token + Cardinality(Resending(j)') <= MaxToken
    <3>1. Resending(j)' \subseteq Resending(j) \ {w}
      <4>1. req'[w] = NoRequest BY <1>0, <1>1 DEF Finish, Goto, HandlersOK
      <4>2. \A v \in Workers : req'[v].op = "resend" => req[v] = req'[v]
        BY <1>0, <1>1, Ends
      <4> QED BY <4>1, <4>2 DEF Resending, NoRequest
    <3> DEFINE S == Resending(j)
               T == Resending(j)'
    <3>2. /\ IsFiniteSet(S) /\ Cardinality(S) \in Nat /\ Cardinality(T) \in Nat
          /\ T \subseteq S \ {w} /\ invitations[j].token + Cardinality(S) <= MaxToken
          /\ j = i => w \in S
      BY <1>0, <1>1, <3>1, ResendingFinite, ResendingFiniteNext DEF TokensLeft, Resending
    <3> HIDE DEF S, T
    <3>3. /\ IsFiniteSet(S \ {w})
          /\ Cardinality(S \ {w}) = IF w \in S THEN Cardinality(S) - 1 ELSE Cardinality(S)
      BY <3>2, FS_RemoveElement
    <3>4. Cardinality(T) <= Cardinality(S \ {w}) BY <3>2, <3>3, FS_Subset
    <3>5. j # i => invitations'[j].token = invitations[j].token BY <1>6 DEF Renews
    <3>6. j = i => invitations'[j].token = invitations[j].token + 1 BY <1>6 DEF Renews
    <3>7. invitations[j].token \in Nat BY <2>2
    <3>8. CASE j = i BY <2>2, <3>2, <3>3, <3>4, <3>6, <3>7, <3>8 DEF T
    <3>9. CASE j # i
      <4>1. Cardinality(T) <= Cardinality(S) BY <3>2, <3>3, <3>4
      <4> QED BY <2>2, <3>2, <3>5, <3>7, <3>9, <4>1 DEF T
    <3> QED BY <3>8, <3>9
  <2>4. TokensLeft' BY <1>6, <2>3 DEF TokensLeft, Renews
  <2> QED BY <1>3, <2>1, <2>4 DEF TypeInvariant
<1> QED BY <1>1, <1>5, <1>6

(* The cleanup deletes what is settled, where no request refers to it.     *)
LEMMA CleanupDeletes ==
  ASSUME TypeInvariant, NightlyCleanup
  PROVE  /\ DOMAIN invitations' \subseteq DOMAIN invitations
         /\ \A i \in DOMAIN invitations' : invitations'[i] = invitations[i]
         /\ invitations' \in [DOMAIN invitations' -> InvitationRow]
         /\ \A i \in DOMAIN invitations : Referenced(i) => i \in DOMAIN invitations'
         /\ UNCHANGED <<accounts, requests, time, pc, req, ghosts>>
<1> DEFINE settled == {i \in DOMAIN invitations : Settled(i)}
<1>1. /\ \A i \in settled : ~Referenced(i)
      /\ invitations' = [i \in DOMAIN invitations \ settled |-> invitations[i]]
      /\ UNCHANGED <<accounts, requests, time, pc, req, ghosts>>
  BY DEF NightlyCleanup, Restrict
<1>2. \A i \in DOMAIN invitations : Referenced(i) => i \in DOMAIN invitations \ settled
  BY <1>1
<1> HIDE DEF settled
<1>3. /\ DOMAIN invitations' = DOMAIN invitations \ settled
      /\ \A i \in DOMAIN invitations' : invitations'[i] = invitations[i]
  BY <1>1
<1>4. invitations' \in [DOMAIN invitations' -> InvitationRow]
  BY <1>1, <1>3 DEF TypeInvariant, TablesOK
<1> QED BY <1>1, <1>2, <1>3, <1>4

LEMMA CleanupType ==
  ASSUME TypeInvariant, NightlyCleanup
  PROVE  TypeInvariant'
<1>1. /\ DOMAIN invitations' \subseteq DOMAIN invitations
      /\ \A i \in DOMAIN invitations' : invitations'[i] = invitations[i]
      /\ invitations' \in [DOMAIN invitations' -> InvitationRow]
      /\ UNCHANGED <<accounts, requests, time, pc, req, ghosts>>
  BY CleanupDeletes
<1>2. TablesOK' BY <1>1 DEF TypeInvariant, TablesOK, ghosts
<1>3. HandlersOK' BY <1>1 DEF TypeInvariant, HandlersOK, ghosts
<1>4. RowsStable /\ TokensStable BY <1>1 DEF RowsStable, TokensStable, ghosts
<1>5. NamesOK'
  <2>1. ASSUME NEW w \in Workers, pc[w] # "idle" PROVE Named(req[w])'
    <3>1. PICK r : r = req[w] OBVIOUS
    <3>2. Named(r)' BY <1>4, <2>1, <3>1, NamedStable DEF TypeInvariant, NamesOK
    <3> QED BY <1>1, <3>1, <3>2 DEF Named
  <2> QED BY <1>1, <2>1 DEF NamesOK
<1>6. TokensLeft'
  <2>1. \A v \in Workers : req'[v].op = "resend" => req[v] = req'[v] BY <1>1
  <2> QED BY <1>2, <1>4, <2>1, TokensKept
<1> QED BY <1>2, <1>3, <1>5, <1>6 DEF TypeInvariant

LEMMA TickType ==
  ASSUME TypeInvariant, Tick \/ UNCHANGED vars
  PROVE  TypeInvariant'
<1>1. UNCHANGED <<tables, pc, req, ghosts>> BY DEF Tick, vars
<1>2. time' \in Time
  BY Constants DEF TypeInvariant, TablesOK, Time, Tick, vars
<1>3. TablesOK' BY <1>1, <1>2, TablesIdle DEF TypeInvariant, ghosts
<1>4. HandlersOK' BY <1>1 DEF TypeInvariant, HandlersOK, ghosts
<1>5. NamesOK' BY <1>1 DEF TypeInvariant, NamesOK, Named, tables, ghosts
<1>6. TokensLeft' BY <1>1 DEF TypeInvariant, TokensLeft, Resending, tables
<1> QED BY <1>3, <1>4, <1>5, <1>6 DEF TypeInvariant

LEMMA TypeInvariantInit == Init => TypeInvariant
<1> SUFFICES ASSUME Init PROVE TypeInvariant OBVIOUS
<1>1. TablesOK
  <2>1. DOMAIN invitations = {} /\ DOMAIN requests = {} /\ DOMAIN uses = {} BY DEF Init
  <2>2. time \in Time BY Constants DEF Init, Time
  <2> QED BY <2>1, <2>2, Constants DEF Init, TablesOK
<1>2. HandlersOK BY DEF Init, HandlersOK, Fits, Labels
<1>3. NamesOK BY DEF Init, NamesOK
<1>4. TokensLeft BY DEF Init, TokensLeft
<1> QED BY <1>1, <1>2, <1>3, <1>4 DEF TypeInvariant

LEMMA TypeInvariantStep ==
  ASSUME TypeInvariant, [Next]_vars
  PROVE  TypeInvariant'
<1>1. ASSUME NEW w \in Workers, Proceed(w) PROVE TypeInvariant'
  BY <1>1, CheckType, InsertInvitationType, InsertRequestType, DecideType, RevokeType,
     RenewType, AcceptType DEF Proceed
<1>2. ASSUME NEW w \in Workers, Submit(w) PROVE TypeInvariant' BY <1>2, SubmitType
<1>3. ASSUME NEW w \in Workers, Die(w) PROVE TypeInvariant' BY <1>3, CheckType
<1>4. ASSUME NEW w \in Workers, RefuseRequest(w) PROVE TypeInvariant'
  BY <1>4, TickType DEF RefuseRequest
<1> QED BY <1>1, <1>2, <1>3, <1>4, TickType, CleanupType DEF Next

LEMMA TypeParts == TypeInvariant => TypeOK
BY DEF TypeInvariant, TablesOK, HandlersOK, TypeOK, Fits

(* The types that the services and the tables promise, for whatever        *)
(* handlers are running, die or read rows that are gone by now.            *)
THEOREM InvitationsTypeCorrect == Spec => []TypeOK
<1>1. Init => TypeInvariant BY TypeInvariantInit
<1>2. TypeInvariant /\ [Next]_vars => TypeInvariant' BY TypeInvariantStep
<1> QED BY <1>1, <1>2, TypeParts, PTL DEF Spec

-------------------------------------------------------------------------------
(* One account per person. *)

Quiet ==
  /\ UNCHANGED accounts
  /\ \A i \in DOMAIN invitations' :
       /\ i \in DOMAIN invitations /\ uses'[i] = uses[i]
       /\ invitations'[i].email = invitations[i].email
       /\ invitations'[i].purpose = invitations[i].purpose
       /\ invitations'[i].accepted = invitations[i].accepted

LEMMA RevocationRevokes ==
  ASSUME TypeInvariant, NEW w \in Workers, RevokeInvitation(w)
  PROVE  /\ DOMAIN invitations' = DOMAIN invitations
         /\ \A i \in DOMAIN invitations :
              /\ i # req[w].on => invitations'[i] = invitations[i]
              /\ invitations'[i].email = invitations[i].email
              /\ invitations'[i].purpose = invitations[i].purpose
              /\ invitations'[i].accepted = invitations[i].accepted
              /\ invitations'[i].expires = invitations[i].expires
              /\ invitations[i].revoked => invitations'[i].revoked
<1> DEFINE i == req[w].on
<1>1. \/ invitations' = invitations
      \/ i \in DOMAIN invitations /\ invitations' = [invitations EXCEPT ![i].revoked = TRUE]
  BY DEF RevokeInvitation
<1>2. \A j \in DOMAIN invitations : invitations[j] \in InvitationRow
  BY DEF TypeInvariant, TablesOK
<1> HIDE DEF i
<1>3. DOMAIN invitations' = DOMAIN invitations BY <1>1
<1>4. ASSUME NEW j \in DOMAIN invitations
      PROVE  \/ invitations'[j] = invitations[j]
             \/ j = i /\ invitations'[j] = [invitations[j] EXCEPT !.revoked = TRUE]
  BY <1>1
<1>5. ASSUME NEW j \in DOMAIN invitations
      PROVE  /\ j # i => invitations'[j] = invitations[j]
             /\ invitations'[j].email = invitations[j].email
             /\ invitations'[j].purpose = invitations[j].purpose
             /\ invitations'[j].accepted = invitations[j].accepted
             /\ invitations'[j].expires = invitations[j].expires
             /\ invitations[j].revoked => invitations'[j].revoked
  BY <1>2, <1>4 DEF InvitationRow
<1> QED BY <1>3, <1>5 DEF i

LEMMA UsuallyQuiet ==
  ASSUME TypeInvariant, [Next]_vars
  PROVE  Quiet \/ \E w \in Workers : InsertInvitation(w) \/ AcceptInvitation(w)
<1>1. CASE UNCHANGED <<accounts, invitations, uses>>
  BY <1>1 DEF Quiet
<1>2. ASSUME NEW w \in Workers, Submit(w) \/ RefuseRequest(w) \/ Die(w)
      PROVE  UNCHANGED <<accounts, invitations, uses>>
  BY <1>2 DEF Submit, SubmitInvite, SubmitReset, SubmitApprove, SubmitReject, SubmitRequest,
              SubmitRevoke, SubmitResend, SubmitAccept, Start, RefuseRequest, Die, vars,
              tables, ghosts
<1>3. ASSUME NEW w \in Workers,
             CheckAccount(w) \/ CheckRequest(w) \/ CheckInvitation(w) \/ InsertRequest(w)
               \/ MarkApproved(w) \/ MarkRejected(w) \/ ReadAgain(w)
      PROVE  UNCHANGED <<accounts, invitations, uses>>
  BY <1>3 DEF CheckAccount, CheckRequest, CheckInvitation, InsertRequest, MarkApproved,
              MarkRejected, ReadAgain, tables
<1>4. ASSUME NEW w \in Workers, RevokeInvitation(w) PROVE Quiet
  BY <1>4, RevocationRevokes DEF RevokeInvitation, Quiet
<1>5. ASSUME NEW w \in Workers, RenewToken(w) PROVE Quiet
  <2>1. /\ UNCHANGED <<accounts, uses>>
        /\ Renews(w) \/ UNCHANGED <<invitations, revived>>
    BY <1>5, RenewalRenews
  <2> QED BY <2>1 DEF Quiet, Renews
<1>6. CASE NightlyCleanup BY <1>6, CleanupDeletes DEF Quiet, ghosts
<1>7. CASE Tick \/ UNCHANGED vars
  BY <1>1, <1>7 DEF Tick, vars, tables, ghosts
<1> QED BY <1>1, <1>2, <1>3, <1>4, <1>5, <1>6, <1>7 DEF Next, Proceed

LEMMA OneAccountStep ==
  ASSUME TypeInvariant, OneAccountPerPerson, [Next]_vars
  PROVE  OneAccountPerPerson'
<1>0. TablesOK BY DEF TypeInvariant
<1>1. CASE Quiet
  BY <1>1 DEF Quiet, OneAccountPerPerson
<1>2. ASSUME NEW w \in Workers, InsertInvitation(w) PROVE OneAccountPerPerson'
  <2>1. PICK id \in InvitationIds : InvitationInserted(w, id)
    BY <1>2, InsertionInserts
  <2>2. UNCHANGED accounts BY <1>2 DEF InsertInvitation
  <2>3. /\ DOMAIN invitations' = DOMAIN invitations \union {id}
        /\ id \notin DOMAIN invitations
        /\ invitations'[id].accepted = FALSE /\ uses'[id] = 0
        /\ \A i \in DOMAIN invitations : invitations'[i] = invitations[i] /\ uses'[i] = uses[i]
    BY <1>0, <2>1 DEF InvitationInserted, TablesOK
  <2> QED BY <2>2, <2>3 DEF OneAccountPerPerson
<1>3. ASSUME NEW w \in Workers, AcceptInvitation(w), ~Quiet PROVE OneAccountPerPerson'
  <2> DEFINE i == req[w].on
             e == req[w].email
  <2>1. Accepts(w) /\ req[w].op = "accept" /\ req[w].purpose \in Purposes /\ Named(req[w])
    <3>1. UNCHANGED <<accounts, invitations, uses>> => Quiet BY DEF Quiet
    <3> QED BY <1>3, <3>1, AcceptanceAccepts DEF Handler
  <2>2. /\ accounts' = accounts \union {e} /\ MayAccept(req[w].purpose, e)
        /\ DOMAIN invitations' = DOMAIN invitations /\ i \in DOMAIN uses
        /\ \A j \in DOMAIN invitations :
             /\ invitations'[j].email = invitations[j].email
             /\ invitations'[j].purpose = invitations[j].purpose
             /\ invitations'[j].accepted = (invitations[j].accepted \/ j = i)
             /\ uses'[j] = IF j = i THEN uses[j] + 1 ELSE uses[j]
    BY <1>0, <2>1 DEF Accepts, TablesOK
  <2>3. i \in DOMAIN invitations =>
          invitations[i].email = e /\ invitations[i].purpose = req[w].purpose
    BY <2>1 DEF Named
  <2>4. /\ \A j \in DOMAIN invitations : uses[j] \in Nat
        /\ \A j \in DOMAIN invitations : invitations[j].accepted \in BOOLEAN
        /\ Registered \subseteq accounts
    BY <1>0 DEF TablesOK, InvitationRow
  <2>5. req[w].purpose = "invite" <=> e \notin accounts BY <2>2 DEF MayAccept
  <2> HIDE DEF i, e
  <2>6. ASSUME NEW j \in DOMAIN invitations
        PROVE  /\ invitations'[j].accepted <=> uses'[j] > 0
               /\ invitations'[j].accepted => invitations'[j].email \in accounts'
    <3>1. /\ invitations[j].accepted <=> uses[j] > 0
          /\ invitations[j].accepted => invitations[j].email \in accounts
      BY DEF OneAccountPerPerson
    <3>2. CASE j = i
      <4>1. invitations'[j].accepted BY <2>2, <3>2
      <4>2. uses'[j] > 0
        <5>1. uses'[j] = uses[j] + 1 /\ uses[j] \in Nat BY <2>2, <2>4, <3>2
        <5> QED BY <5>1
      <4>3. invitations'[j].email = e /\ e \in accounts' BY <2>2, <2>3, <3>2
      <4> QED BY <4>1, <4>2, <4>3
    <3>3. CASE j # i
      <4>1. /\ uses'[j] = uses[j] /\ invitations'[j].accepted = invitations[j].accepted
            /\ invitations'[j].email = invitations[j].email
        BY <2>2, <2>4, <3>3
      <4> QED BY <2>2, <3>1, <4>1
    <3> QED BY <3>2, <3>3
  <2>7. ASSUME NEW j \in DOMAIN invitations, invitations'[j].accepted,
               invitations'[j].purpose = "invite"
        PROVE  uses'[j] = 1 /\ invitations'[j].email \notin Registered
    <3>1. CASE j # i BY <2>2, <2>7, <3>1 DEF OneAccountPerPerson
    <3>2. CASE j = i
      <4>1. e \notin accounts /\ invitations[j].email = e
        BY <2>2, <2>3, <2>5, <2>7, <3>2
      <4>2. ~invitations[j].accepted BY <4>1 DEF OneAccountPerPerson
      <4>3. uses[j] = 0 BY <2>4, <4>2 DEF OneAccountPerPerson
      <4> QED BY <2>2, <2>4, <3>2, <4>1, <4>3
    <3> QED BY <3>1, <3>2
  <2>8. ASSUME NEW j \in DOMAIN invitations, NEW k \in DOMAIN invitations \ {j},
               invitations'[j].accepted, invitations'[j].purpose = "invite",
               invitations'[k].accepted, invitations'[k].purpose = "invite"
        PROVE  invitations'[k].email # invitations'[j].email
    <3>1. CASE j # i /\ k # i
      <4>1. /\ invitations[j].accepted /\ invitations[k].accepted
            /\ invitations[j].purpose = "invite" /\ invitations[k].purpose = "invite"
            /\ invitations'[j].email = invitations[j].email
            /\ invitations'[k].email = invitations[k].email
        BY <2>2, <2>8, <3>1
      <4> QED BY <4>1 DEF OneAccountPerPerson
    <3>2. CASE j = i
      <4>1. e \notin accounts /\ invitations'[j].email = e
        BY <2>2, <2>3, <2>5, <2>8, <3>2
      <4>2. invitations[k].accepted /\ invitations'[k].email = invitations[k].email
        BY <2>2, <2>8, <3>2
      <4> QED BY <4>1, <4>2 DEF OneAccountPerPerson
    <3>3. CASE k = i
      <4>1. e \notin accounts /\ invitations'[k].email = e
        BY <2>2, <2>3, <2>5, <2>8, <3>3
      <4>2. invitations[j].accepted /\ invitations'[j].email = invitations[j].email
        BY <2>2, <2>8, <3>3
      <4> QED BY <4>1, <4>2 DEF OneAccountPerPerson
    <3> QED BY <3>1, <3>2, <3>3
  <2> QED BY <2>2, <2>6, <2>7, <2>8 DEF OneAccountPerPerson
<1> QED BY <1>1, <1>2, <1>3, UsuallyQuiet

(* However many invitations a person holds, however often and however      *)
(* simultaneously they are accepted, and whoever revokes, renews or        *)
(* deletes them meanwhile, one of them makes the account, once, and it is  *)
(* the one marked as accepted.                                             *)
THEOREM OneAccount == Spec => []OneAccountPerPerson
<1>1. Init => OneAccountPerPerson BY DEF Init, OneAccountPerPerson
<1>2. TypeInvariant /\ OneAccountPerPerson /\ [Next]_vars => OneAccountPerPerson'
  BY OneAccountStep
<1>3. Init => TypeInvariant BY TypeInvariantInit
<1>4. TypeInvariant /\ [Next]_vars => TypeInvariant' BY TypeInvariantStep
<1> QED BY <1>1, <1>2, <1>3, <1>4, PTL DEF Spec

-------------------------------------------------------------------------------
(* Approvals. *)

InvitationsKept ==
  \A i \in DOMAIN invitations :
    /\ i \in DOMAIN invitations'
    /\ invitations'[i].email = invitations[i].email
    /\ invitations'[i].purpose = invitations[i].purpose

LEMMA OnlyCleanupDeletes ==
  ASSUME TypeInvariant, [Next]_vars
  PROVE  InvitationsKept \/ NightlyCleanup
<1>1. ASSUME UNCHANGED invitations PROVE InvitationsKept
  BY <1>1 DEF InvitationsKept
<1>2. ASSUME NEW w \in Workers, Submit(w) \/ RefuseRequest(w) \/ Die(w)
      PROVE  UNCHANGED invitations
  BY <1>2 DEF Submit, SubmitInvite, SubmitReset, SubmitApprove, SubmitReject, SubmitRequest,
              SubmitRevoke, SubmitResend, SubmitAccept, Start, RefuseRequest, Die, vars, tables
<1>3. ASSUME NEW w \in Workers,
             CheckAccount(w) \/ CheckRequest(w) \/ CheckInvitation(w) \/ InsertRequest(w)
               \/ MarkApproved(w) \/ MarkRejected(w) \/ ReadAgain(w)
      PROVE  UNCHANGED invitations
  BY <1>3 DEF CheckAccount, CheckRequest, CheckInvitation, InsertRequest, MarkApproved,
              MarkRejected, ReadAgain, tables
<1>4. ASSUME NEW w \in Workers, RevokeInvitation(w) PROVE InvitationsKept
  BY <1>4, RevocationRevokes DEF InvitationsKept
<1>5. ASSUME NEW w \in Workers, RenewToken(w) PROVE InvitationsKept
  BY <1>5, RenewalRenews DEF InvitationsKept, Renews
<1>6. ASSUME NEW w \in Workers, AcceptInvitation(w) PROVE InvitationsKept
  BY <1>6, AcceptanceAccepts DEF InvitationsKept, Accepts
<1>7. ASSUME NEW w \in Workers, InsertInvitation(w) PROVE InvitationsKept
  BY <1>7, InsertionInserts DEF InvitationsKept, InvitationInserted
<1>8. CASE Tick \/ UNCHANGED vars
  BY <1>1, <1>8 DEF Tick, vars, tables
<1> QED BY <1>1, <1>2, <1>3, <1>4, <1>5, <1>6, <1>7, <1>8 DEF Next, Proceed

LEMMA OtherRequestsStand ==
  ASSUME TypeInvariant, [Next]_vars
  PROVE  \/ UNCHANGED requests
         \/ \E w \in Workers : InsertRequest(w) \/ MarkApproved(w) \/ MarkRejected(w)
<1>1. ASSUME NEW w \in Workers, Submit(w) \/ RefuseRequest(w) \/ Die(w)
      PROVE  UNCHANGED requests
  BY <1>1 DEF Submit, SubmitInvite, SubmitReset, SubmitApprove, SubmitReject, SubmitRequest,
              SubmitRevoke, SubmitResend, SubmitAccept, Start, RefuseRequest, Die, vars, tables
<1>2. ASSUME NEW w \in Workers,
             CheckAccount(w) \/ CheckRequest(w) \/ CheckInvitation(w) \/ ReadAgain(w)
      PROVE  UNCHANGED requests
  BY <1>2 DEF CheckAccount, CheckRequest, CheckInvitation, ReadAgain, tables
<1>3. ASSUME NEW w \in Workers,
             InsertInvitation(w) \/ RevokeInvitation(w) \/ RenewToken(w) \/ AcceptInvitation(w)
      PROVE  UNCHANGED requests
  BY <1>3 DEF InsertInvitation, RevokeInvitation, RenewToken, AcceptInvitation
<1>4. CASE NightlyCleanup \/ Tick \/ UNCHANGED vars
  BY <1>4 DEF NightlyCleanup, Tick, vars, tables
<1> QED BY <1>1, <1>2, <1>3, <1>4 DEF Next, Proceed

(* What a decision makes of its request.                                   *)
LEMMA DecisionDecides ==
  ASSUME TypeInvariant, NEW w \in Workers, MarkApproved(w) \/ MarkRejected(w)
  PROVE  LET r == req[w].on
         IN  /\ r \in DOMAIN requests /\ DOMAIN requests' = DOMAIN requests
             /\ \A q \in DOMAIN requests : q # r => requests'[q] = requests[q]
             /\ \/ UNCHANGED requests /\ stale' = [stale EXCEPT ![w] = FALSE]
                \/ /\ requests'[r].email = requests[r].email
                   /\ Wrote(w, <<"request", r>>)
                   /\ \/ requests'[r].status = "rejected"
                      \/ /\ requests'[r].status = "approved"
                         /\ requests'[r].invitation = req[w].link
                         /\ req[w].link \in DOMAIN invitations
                         /\ invitations[req[w].link].email = requests[r].email
                         /\ invitations[req[w].link].purpose = "invite"
             /\ req[w].op \in {"approve", "reject"} /\ req[w] \in Handler
             /\ Finish(w) /\ UNCHANGED <<accounts, invitations, time, rivals, uses, raced, revived>>
<1>0. TablesOK /\ HandlersOK /\ NamesOK BY DEF TypeInvariant
<1> DEFINE r == req[w].on
<1>1. /\ req[w].op \in {"approve", "reject"} /\ req[w] \in Handler /\ Named(req[w])
      /\ MarkApproved(w) => req[w].op = "approve"
  BY <1>0 DEF MarkApproved, MarkRejected, HandlersOK, Fits, OpsAt, NamesOK
<1>2. r \in DOMAIN requests /\ requests[r] \in RequestRow
  BY <1>0, <1>1 DEF Named, TablesOK
<1>3. Finish(w) /\ UNCHANGED <<accounts, invitations, time, rivals, uses, raced, revived>>
  BY DEF MarkApproved, MarkRejected
<1>4. CASE MarkRejected(w)
  <2>1. /\ requests' = [requests EXCEPT ![r].status = "rejected"]
        /\ Wrote(w, <<"request", r>>)
    BY <1>4 DEF MarkRejected
  <2> HIDE DEF r
  <2>2. /\ DOMAIN requests' = DOMAIN requests
        /\ \A q \in DOMAIN requests : q # r => requests'[q] = requests[q]
        /\ requests'[r] = [requests[r] EXCEPT !.status = "rejected"]
    BY <1>2, <2>1
  <2>3. requests'[r].email = requests[r].email /\ requests'[r].status = "rejected"
    BY <1>2, <2>2 DEF RequestRow
  <2> QED BY <1>1, <1>2, <1>3, <2>1, <2>2, <2>3 DEF r
<1>5. CASE MarkApproved(w) /\ req[w].link \in DOMAIN invitations
  <2> DEFINE link == req[w].link
  <2>1. /\ requests' = [requests EXCEPT ![r] = ApprovedRow(@, link)]
        /\ Wrote(w, <<"request", r>>)
    BY <1>5 DEF MarkApproved
  <2>2. /\ invitations[link].email = requests[r].email /\ invitations[link].purpose = "invite"
        /\ link \in DOMAIN invitations
    <3>1. link # NoId BY <1>0, <1>5, Constants DEF TablesOK
    <3> QED BY <1>1, <1>5, <3>1 DEF Named
  <2> HIDE DEF r, link
  <2>3. /\ DOMAIN requests' = DOMAIN requests
        /\ \A q \in DOMAIN requests : q # r => requests'[q] = requests[q]
        /\ requests'[r] = ApprovedRow(requests[r], link)
    BY <1>2, <2>1
  <2>4. /\ requests'[r].email = requests[r].email /\ requests'[r].status = "approved"
        /\ requests'[r].invitation = link
    BY <1>2, <2>3 DEF RequestRow, ApprovedRow
  <2> QED BY <1>1, <1>2, <1>3, <2>1, <2>2, <2>3, <2>4 DEF r, link
<1>6. CASE MarkApproved(w) /\ req[w].link \notin DOMAIN invitations
  <2>1. UNCHANGED requests /\ stale' = [stale EXCEPT ![w] = FALSE] BY <1>6 DEF MarkApproved
  <2> QED BY <1>1, <1>2, <1>3, <2>1
<1> QED BY <1>4, <1>5, <1>6

LEMMA ApprovedStep ==
  ASSUME TypeInvariant, ApprovedIsInvited, [Next]_vars
  PROVE  ApprovedIsInvited'
<1>1. CASE UNCHANGED requests /\ InvitationsKept
  BY <1>1 DEF ApprovedIsInvited, InvitationsKept
<1>2. CASE UNCHANGED requests /\ NightlyCleanup
  <2>1. /\ \A i \in DOMAIN invitations' : invitations'[i] = invitations[i]
        /\ \A i \in DOMAIN invitations : Referenced(i) => i \in DOMAIN invitations'
    BY <1>2, CleanupDeletes
  <2>2. ASSUME NEW r \in DOMAIN requests, requests[r].status = "approved"
        PROVE  LET i == requests[r].invitation
               IN  /\ i \in DOMAIN invitations'
                   /\ invitations'[i].email = requests[r].email
                   /\ invitations'[i].purpose = "invite"
    <3>1. Referenced(requests[r].invitation) BY DEF Referenced
    <3> QED BY <2>1, <2>2, <3>1 DEF ApprovedIsInvited
  <2> QED BY <1>2, <2>2 DEF ApprovedIsInvited
<1>3. ASSUME NEW w \in Workers, InsertRequest(w) PROVE ApprovedIsInvited'
  <2>1. PICK id \in RequestIds : RequestInserted(w, id) BY <1>3, RequestInserts
  <2>2. UNCHANGED invitations BY <1>3 DEF InsertRequest
  <2> QED BY <2>1, <2>2 DEF ApprovedIsInvited, RequestInserted
<1>4. ASSUME NEW w \in Workers, MarkApproved(w) \/ MarkRejected(w) PROVE ApprovedIsInvited'
  <2> DEFINE r == req[w].on
  <2>1. /\ r \in DOMAIN requests /\ DOMAIN requests' = DOMAIN requests
        /\ \A q \in DOMAIN requests : q # r => requests'[q] = requests[q]
        /\ \/ UNCHANGED requests
           \/ requests'[r].status = "rejected"
           \/ /\ requests'[r].email = requests[r].email
              /\ requests'[r].invitation = req[w].link
              /\ req[w].link \in DOMAIN invitations
              /\ invitations[req[w].link].email = requests[r].email
              /\ invitations[req[w].link].purpose = "invite"
        /\ UNCHANGED invitations
    BY <1>4, DecisionDecides
  <2> HIDE DEF r
  <2>2. ASSUME NEW q \in DOMAIN requests, requests'[q].status = "approved"
        PROVE  LET i == requests'[q].invitation
               IN  /\ i \in DOMAIN invitations /\ invitations[i].email = requests'[q].email
                   /\ invitations[i].purpose = "invite"
    <3>1. CASE requests'[q] = requests[q] BY <2>2, <3>1 DEF ApprovedIsInvited
    <3>2. CASE requests'[q] # requests[q] BY <2>1, <2>2, <3>2
    <3> QED BY <3>1, <3>2
  <2> QED BY <2>1, <2>2 DEF ApprovedIsInvited
<1> QED BY <1>1, <1>2, <1>3, <1>4, OnlyCleanupDeletes, OtherRequestsStand

(* An approval that outlives its handler names a living invitation of the  *)
(* right person, whatever the cleanup deletes and whoever decides or       *)
(* revokes at the same time.                                               *)
THEOREM ApprovalsName == Spec => []ApprovedIsInvited
<1>1. Init => ApprovedIsInvited BY DEF Init, ApprovedIsInvited
<1>2. TypeInvariant /\ ApprovedIsInvited /\ [Next]_vars => ApprovedIsInvited'
  BY ApprovedStep
<1>3. Init => TypeInvariant BY TypeInvariantInit
<1>4. TypeInvariant /\ [Next]_vars => TypeInvariant' BY TypeInvariantStep
<1> QED BY <1>1, <1>2, <1>3, <1>4, PTL DEF Spec

-------------------------------------------------------------------------------
(* Decisions stand. *)

Untouched(r) ==
  /\ r.op \in {"approve", "reject"} => requests'[r.on].status = requests[r.on].status
  /\ r.op \in {"revoke", "resend", "accept"} /\ r.on \in DOMAIN invitations' =>
       /\ r.on \in DOMAIN invitations
       /\ invitations'[r.on].accepted => invitations[r.on].accepted
       /\ invitations'[r.on].revoked => invitations[r.on].revoked

(* A handler that goes on keeps its subject, which nobody touched, or knows *)
(* nothing of it any more.                                                 *)
ReadsOn(v) ==
  \/ pc'[v] = "idle"
  \/ /\ pc[v] # "idle" /\ req'[v].op = req[v].op /\ req'[v].on = req[v].on
     /\ stale'[v] \/ (~stale[v] /\ Untouched(req[v]))

LEMMA AllReadOn ==
  ASSUME Readings, \A v \in Workers : ReadsOn(v)
  PROVE  Readings'
<1>1. ASSUME NEW v \in Workers, pc'[v] # "idle", ~stale'[v] PROVE Reads(req[v])'
  <2>1. /\ pc[v] # "idle" /\ req'[v].op = req[v].op /\ req'[v].on = req[v].on
        /\ ~stale[v] /\ Untouched(req[v])
    BY <1>1 DEF ReadsOn
  <2>2. Reads(req[v]) BY <2>1 DEF Readings
  <2> QED BY <2>1, <2>2 DEF Reads, Untouched
<1> QED BY <1>1 DEF Readings

(* A handler that writes its row makes stale whoever read that row.        *)
LEMMA WritersReadOn ==
  ASSUME HandlersOK, NEW w \in Workers, NEW kind, NEW row, Wrote(w, <<kind, row>>), Finish(w),
         \A v \in Workers \ {w} :
           pc[v] # "idle" /\ Subject(req[v]) # <<kind, row>> => Untouched(req[v])
  PROVE  \A v \in Workers : ReadsOn(v)
<1>1. ASSUME NEW v \in Workers PROVE ReadsOn(v)
  <2>1. CASE v = w BY <2>1 DEF ReadsOn, Finish, Goto, HandlersOK
  <2>2. CASE v # w
    <3>1. pc'[v] = pc[v] /\ req'[v] = req[v] BY <2>2 DEF Finish, Goto, HandlersOK
    <3>2. stale'[v] <=> stale[v] \/ (pc[v] # "idle" /\ Subject(req[v]) = <<kind, row>>)
      BY <2>2 DEF Wrote
    <3> QED BY <2>2, <3>1, <3>2 DEF ReadsOn
  <2> QED BY <2>1, <2>2
<1> QED BY <1>1

LEMMA StartReads ==
  ASSUME HandlersOK, Readings, NEW w \in Workers, NEW op, NEW to, NEW request,
         Start(w, op, to, request), Reads(request)
  PROVE  Readings'
<1>1. /\ req' = [req EXCEPT ![w] = request] /\ pc' = [pc EXCEPT ![w] = to]
      /\ UNCHANGED <<tables, stale>>
  BY DEF Start, Goto, ghosts
<1>2. ASSUME NEW v \in Workers, pc'[v] # "idle", ~stale'[v] PROVE Reads(req[v])'
  <2>1. CASE v = w
    <3>1. req'[v] = request BY <1>1, <2>1 DEF HandlersOK
    <3> QED BY <1>1, <3>1 DEF Reads, tables
  <2>2. CASE v # w
    <3>1. req'[v] = req[v] /\ pc'[v] = pc[v] /\ stale'[v] = stale[v]
      BY <1>1, <2>2 DEF HandlersOK
    <3>2. Reads(req[v]) BY <1>2, <3>1 DEF Readings
    <3> QED BY <1>1, <3>1, <3>2 DEF Reads, tables
  <2> QED BY <2>1, <2>2
<1> QED BY <1>2 DEF Readings

LEMMA SubmitReads ==
  ASSUME TypeInvariant, Readings, NEW w \in Workers, Submit(w)
  PROVE  Readings'
<1>0. HandlersOK BY DEF TypeInvariant
<1>1. ASSUME NEW op \in {"invite", "reset", "request"}, NEW e, NEW on
      PROVE  Reads(Call(op, e, on))
  BY DEF Reads, Call
<1>2. CASE SubmitInvite(w) BY <1>0, <1>1, <1>2, StartReads DEF SubmitInvite
<1>3. CASE SubmitReset(w) BY <1>0, <1>1, <1>3, StartReads DEF SubmitReset
<1>4. CASE SubmitRequest(w) BY <1>0, <1>1, <1>4, StartReads DEF SubmitRequest
<1>5. CASE SubmitApprove(w)
  <2>1. PICK r \in Undecided :
          Start(w, "approve", "checkAccount", Call("approve", requests[r].email, r))
    BY <1>5 DEF SubmitApprove, Reviewable
  <2>2. Reads(Call("approve", requests[r].email, r)) BY DEF Undecided, Reads, Call
  <2> QED BY <1>0, <2>1, <2>2, StartReads
<1>6. CASE SubmitReject(w)
  <2>1. PICK r \in Undecided : Start(w, "reject", "markRejected", Call("reject", Nobody, r))
    BY <1>6 DEF SubmitReject, Reviewable
  <2>2. Reads(Call("reject", Nobody, r)) BY DEF Undecided, Reads, Call
  <2> QED BY <1>0, <2>1, <2>2, StartReads
<1>7. CASE SubmitRevoke(w)
  <2>1. PICK i \in Revocable : Start(w, "revoke", "writeRevoked", Call("revoke", Nobody, i))
    BY <1>7 DEF SubmitRevoke
  <2>2. Reads(Call("revoke", Nobody, i)) BY DEF Revocable, Reads, Call
  <2> QED BY <1>0, <2>1, <2>2, StartReads
<1>8. CASE SubmitResend(w)
  <2>1. PICK i \in Revocable : Start(w, "resend", "writeToken", Call("resend", Nobody, i))
    BY <1>8 DEF SubmitResend, Revocable
  <2>2. Reads(Call("resend", Nobody, i)) BY DEF Revocable, Reads, Call
  <2> QED BY <1>0, <2>1, <2>2, StartReads
<1>9. CASE SubmitAccept(w)
  <2> DEFINE request(i) ==
        [Call("accept", invitations[i].email, i) EXCEPT !.token = invitations[i].token,
                                                        !.purpose = invitations[i].purpose]
  <2>1. PICK i \in DOMAIN invitations :
          Opens(i) /\ Start(w, "accept", "readAgain", request(i))
    BY <1>9 DEF SubmitAccept
  <2>2. request(i).op = "accept" /\ request(i).on = i BY DEF Call
  <2> HIDE DEF request
  <2>3. Reads(request(i)) BY <2>1, <2>2 DEF Reads, Opens
  <2> QED BY <1>0, <2>1, <2>3, StartReads
<1> QED BY <1>2, <1>3, <1>4, <1>5, <1>6, <1>7, <1>8, <1>9 DEF Submit

LEMMA QuietReads ==
  ASSUME TypeInvariant, Readings, NEW w \in Workers,
         CheckAccount(w) \/ CheckRequest(w) \/ CheckInvitation(w) \/ ReadAgain(w) \/ Die(w)
  PROVE  Readings'
<1>0. HandlersOK BY DEF TypeInvariant
<1>1. /\ UNCHANGED tables /\ pc[w] # "idle"
      /\ Finish(w) \/ \E to : Goto(w, to, req[w]) /\ UNCHANGED stale
      /\ UNCHANGED stale \/ Forget(w)
  BY DEF CheckAccount, CheckRequest, CheckInvitation, ReadAgain, Die
<1>2. ASSUME NEW v \in Workers PROVE Untouched(req[v])
  BY <1>1 DEF Untouched, tables
<1>3. ASSUME NEW v \in Workers PROVE ReadsOn(v) \/ pc[v] = "idle"
  <2>1. CASE v # w
    BY <1>0, <1>1, <1>2, <2>1 DEF ReadsOn, Finish, Goto, Forget, HandlersOK
  <2>2. CASE v = w
    BY <1>0, <1>1, <1>2, <2>2 DEF ReadsOn, Finish, Goto, HandlersOK
  <2> QED BY <2>1, <2>2
<1>4. ASSUME NEW v \in Workers, pc[v] = "idle" PROVE ReadsOn(v)
  BY <1>0, <1>1, <1>4 DEF ReadsOn, Finish, Goto, HandlersOK
<1> QED BY <1>3, <1>4, AllReadOn

LEMMA InsertReads ==
  ASSUME TypeInvariant, Readings, NEW w \in Workers, InsertInvitation(w) \/ InsertRequest(w)
  PROVE  Readings'
<1>0. HandlersOK /\ TablesOK /\ NamesOK BY DEF TypeInvariant
<1>1. ASSUME NEW v \in Workers, pc[v] # "idle" PROVE Untouched(req[v])
  <2>1. Named(req[v]) BY <1>0, <1>1 DEF NamesOK
  <2>2. CASE InsertInvitation(w)
    <3>1. UNCHANGED requests BY <2>2 DEF InsertInvitation
    <3>2. \E id : InvitationInserted(w, id) BY <2>2, InsertionInserts
    <3> QED BY <1>0, <2>1, <3>1, <3>2 DEF Untouched, Named, InvitationInserted, TablesOK
  <2>3. CASE InsertRequest(w)
    <3>1. UNCHANGED invitations BY <2>3 DEF InsertRequest
    <3>2. \E id : RequestInserted(w, id) BY <2>3, RequestInserts
    <3> QED BY <2>1, <3>1, <3>2 DEF Untouched, Named, RequestInserted
  <2> QED BY <2>2, <2>3
<1>2. pc[w] # "idle" /\ \A v \in Workers : v # w => stale'[v] = stale[v]
  BY <1>0 DEF InsertInvitation, InsertRequest, HandlersOK
<1>3. \/ Finish(w)
      \/ /\ \E request : /\ Goto(w, "markApproved", request) /\ request.op = req[w].op
                         /\ request.on = req[w].on
         /\ stale'[w] = stale[w]
  <2>1. CASE InsertInvitation(w) /\ req[w].op = "approve"
    <3>1. PICK id \in InvitationIds : Goto(w, "markApproved", [req[w] EXCEPT !.link = id])
      BY <2>1, InsertionInserts
    <3>2. stale'[w] = stale[w] BY <1>0, <2>1 DEF InsertInvitation, HandlersOK
    <3>3. req[w] \in Handler BY <1>0, <1>2 DEF HandlersOK, Fits
    <3>4. /\ [req[w] EXCEPT !.link = id].op = req[w].op
          /\ [req[w] EXCEPT !.link = id].on = req[w].on
      BY <3>3 DEF Handler
    <3> QED BY <3>1, <3>2, <3>4
  <2>2. CASE InsertInvitation(w) /\ req[w].op # "approve" BY <2>2, InsertionInserts
  <2>3. CASE InsertRequest(w) BY <2>3 DEF InsertRequest
  <2> QED BY <2>1, <2>2, <2>3
<1>4. ASSUME NEW v \in Workers PROVE ReadsOn(v)
  <2>1. CASE v = w
    BY <1>0, <1>1, <1>2, <1>3, <2>1 DEF ReadsOn, Finish, Goto, HandlersOK
  <2>2. CASE v # w
    <3>1. pc'[v] = pc[v] /\ req'[v] = req[v]
      BY <1>0, <1>3, <2>2 DEF Finish, Goto, HandlersOK
    <3> QED BY <1>1, <1>2, <2>2, <3>1 DEF ReadsOn
  <2> QED BY <2>1, <2>2
<1> QED BY <1>4, AllReadOn

LEMMA WriteReads ==
  ASSUME TypeInvariant, Readings, NEW w \in Workers,
         \/ MarkApproved(w) \/ MarkRejected(w) \/ RevokeInvitation(w) \/ RenewToken(w)
         \/ AcceptInvitation(w)
  PROVE  Readings'
<1>0. HandlersOK BY DEF TypeInvariant
<1>1. ASSUME UNCHANGED <<invitations, requests>>, Finish(w),
             stale' = [stale EXCEPT ![w] = FALSE]
      PROVE  Readings'
  <2>1. ASSUME NEW v \in Workers PROVE ReadsOn(v)
    BY <1>0, <1>1 DEF ReadsOn, Untouched, Finish, Goto, HandlersOK
  <2> QED BY <2>1, AllReadOn
<1>2. CASE MarkApproved(w) \/ MarkRejected(w)
  <2> DEFINE r == req[w].on
  <2>1. /\ Finish(w) /\ UNCHANGED invitations
        /\ \A q \in DOMAIN requests : q # r => requests'[q] = requests[q]
        /\ \/ UNCHANGED requests /\ stale' = [stale EXCEPT ![w] = FALSE]
           \/ Wrote(w, <<"request", r>>)
    BY <1>2, DecisionDecides
  <2>2. CASE Wrote(w, <<"request", r>>)
    <3>1. ASSUME NEW v \in Workers, pc[v] # "idle", Subject(req[v]) # <<"request", r>>
          PROVE  Untouched(req[v])
      <4>1. Named(req[v]) BY <3>1 DEF TypeInvariant, NamesOK
      <4>2. req[v].op \in {"approve", "reject"} => req[v].on # r BY <3>1 DEF Subject
      <4> HIDE DEF r
      <4> QED BY <2>1, <4>1, <4>2 DEF Untouched, Named
    <3> QED BY <1>0, <2>1, <2>2, <3>1, WritersReadOn, AllReadOn
  <2> QED BY <1>1, <2>1, <2>2
<1> DEFINE i == req[w].on
<1>3. ASSUME Wrote(w, <<"invitation", i>>), Finish(w), UNCHANGED requests,
             \A j \in DOMAIN invitations' :
               j \in DOMAIN invitations /\ (j # i => invitations'[j] = invitations[j])
      PROVE  Readings'
  <2>1. ASSUME NEW v \in Workers, pc[v] # "idle", Subject(req[v]) # <<"invitation", i>>
        PROVE  Untouched(req[v])
    <3>1. req[v].op \in {"revoke", "resend", "accept"} => req[v].on # i
      BY <2>1 DEF Subject
    <3> HIDE DEF i
    <3> QED BY <1>3, <3>1 DEF Untouched
  <2> QED BY <1>0, <1>3, <2>1, WritersReadOn, AllReadOn
<1>4. CASE RevokeInvitation(w)
  <2>1. Wrote(w, <<"invitation", i>>) /\ Finish(w) /\ UNCHANGED requests
    BY <1>4 DEF RevokeInvitation
  <2> QED BY <1>3, <1>4, <2>1, RevocationRevokes
<1>5. CASE RenewToken(w)
  <2>1. /\ Wrote(w, <<"invitation", i>>) /\ Finish(w) /\ UNCHANGED requests
        /\ Renews(w) \/ UNCHANGED <<invitations, revived>>
    BY <1>5, RenewalRenews
  <2> QED BY <1>3, <2>1 DEF Renews
<1>6. CASE AcceptInvitation(w)
  <2>1. /\ Finish(w) /\ UNCHANGED requests
        /\ \/ Accepts(w)
           \/ UNCHANGED invitations /\ stale' = [stale EXCEPT ![w] = FALSE]
    BY <1>6, AcceptanceAccepts
  <2> QED BY <1>1, <1>3, <2>1 DEF Accepts
<1> QED BY <1>2, <1>4, <1>5, <1>6

LEMMA ReadingsStep ==
  ASSUME TypeInvariant, Readings, [Next]_vars
  PROVE  Readings'
<1>1. CASE NightlyCleanup
  <2>1. /\ DOMAIN invitations' \subseteq DOMAIN invitations
        /\ \A i \in DOMAIN invitations' : invitations'[i] = invitations[i]
        /\ UNCHANGED <<requests, pc, req, stale>>
    BY <1>1, CleanupDeletes DEF ghosts
  <2> QED BY <2>1 DEF Readings, Reads
<1>2. CASE Tick \/ UNCHANGED vars
  BY <1>2 DEF Tick, vars, tables, ghosts, Readings, Reads
<1>3. ASSUME NEW w \in Workers, RefuseRequest(w) PROVE Readings'
  BY <1>2, <1>3 DEF RefuseRequest
<1> QED BY <1>1, <1>2, <1>3, SubmitReads, QuietReads, InsertReads, WriteReads DEF Next, Proceed

(* Who writes a row that was there before.                                 *)
LEMMA InvitationWriters ==
  ASSUME TypeInvariant, [Next]_vars,
         NEW i \in DOMAIN invitations \intersect DOMAIN invitations',
         invitations'[i] # invitations[i] \/ uses'[i] # uses[i]
  PROVE  \E w \in Workers :
           /\ i = req[w].on /\ pc[w] # "idle" /\ pc'[w] = "idle"
           /\ req[w].op \in {"revoke", "resend", "accept"}
           /\ uses'[i] # uses[i] => req[w].op = "accept"
<1>0. HandlersOK /\ TablesOK BY DEF TypeInvariant
<1>1. ASSUME NEW w \in Workers,
             InsertInvitation(w) \/ RevokeInvitation(w) \/ RenewToken(w) \/ AcceptInvitation(w)
      PROVE  \/ invitations'[i] = invitations[i] /\ uses'[i] = uses[i]
             \/ /\ i = req[w].on /\ Finish(w) /\ pc[w] # "idle"
                /\ req[w].op \in {"revoke", "resend", "accept"}
                /\ uses'[i] # uses[i] => req[w].op = "accept"
  <2>1. CASE InsertInvitation(w)
    <3>1. \E id : InvitationInserted(w, id) BY <2>1, InsertionInserts
    <3> QED BY <1>0, <3>1 DEF InvitationInserted, TablesOK
  <2>2. CASE RevokeInvitation(w)
    <3>1. /\ req[w].op = "revoke" /\ Finish(w) /\ pc[w] # "idle" /\ UNCHANGED uses
      BY <1>0, <2>2 DEF RevokeInvitation, HandlersOK, Fits, OpsAt
    <3> QED BY <2>2, <3>1, RevocationRevokes
  <2>3. CASE RenewToken(w)
    <3>1. pc[w] # "idle" BY <2>3 DEF RenewToken
    <3> QED BY <2>3, <3>1, RenewalRenews DEF Renews
  <2>4. CASE AcceptInvitation(w)
    <3>1. pc[w] # "idle" BY <2>4 DEF AcceptInvitation
    <3>2. /\ req[w].op = "accept" /\ Finish(w)
          /\ Accepts(w) \/ UNCHANGED <<invitations, uses>>
      BY <2>4, AcceptanceAccepts
    <3> QED BY <1>0, <3>1, <3>2 DEF Accepts, TablesOK
  <2> QED BY <1>1, <2>1, <2>2, <2>3, <2>4
<1>2. ASSUME NEW w \in Workers, Finish(w) PROVE pc'[w] = "idle"
  BY <1>0, <1>2 DEF Finish, Goto, HandlersOK
<1>3. ASSUME NEW w \in Workers, Submit(w) \/ RefuseRequest(w) \/ Die(w)
      PROVE  UNCHANGED <<invitations, uses>>
  BY <1>3 DEF Submit, SubmitInvite, SubmitReset, SubmitApprove, SubmitReject, SubmitRequest,
              SubmitRevoke, SubmitResend, SubmitAccept, Start, RefuseRequest, Die, vars,
              tables, ghosts
<1>4. ASSUME NEW w \in Workers,
             CheckAccount(w) \/ CheckRequest(w) \/ CheckInvitation(w) \/ InsertRequest(w)
               \/ MarkApproved(w) \/ MarkRejected(w) \/ ReadAgain(w)
      PROVE  UNCHANGED <<invitations, uses>>
  BY <1>4 DEF CheckAccount, CheckRequest, CheckInvitation, InsertRequest, MarkApproved,
              MarkRejected, ReadAgain, tables
<1>5. ~NightlyCleanup BY CleanupDeletes DEF ghosts
<1>6. ~(Tick \/ UNCHANGED vars) BY DEF Tick, vars, tables, ghosts
<1> QED BY <1>1, <1>2, <1>3, <1>4, <1>5, <1>6 DEF Next, Proceed

Stand ==
  /\ \A r \in DOMAIN requests \ Undecided :
        requests'[r] # requests[r] => ByStaleHandler(<<"request", r>>)
  /\ \A i \in DOMAIN invitations \intersect DOMAIN invitations' :
        \/ invitations[i].accepted /\ (invitations'[i] # invitations[i] \/ uses'[i] # uses[i])
        \/ invitations[i].revoked /\ uses'[i] # uses[i]
        => ByStaleHandler(<<"invitation", i>>)

LEMMA StandStep ==
  ASSUME TypeInvariant, Readings, [Next]_vars
  PROVE  Stand
<1>0. HandlersOK BY DEF TypeInvariant
<1>1. ASSUME NEW r \in DOMAIN requests \ Undecided, requests'[r] # requests[r]
      PROVE  ByStaleHandler(<<"request", r>>)
  <2>1. PICK w \in Workers : InsertRequest(w) \/ MarkApproved(w) \/ MarkRejected(w)
    BY <1>1, OtherRequestsStand
  <2>2. CASE InsertRequest(w) BY <1>1, <2>2, RequestInserts DEF RequestInserted
  <2>3. CASE MarkApproved(w) \/ MarkRejected(w)
    <3>1. r = req[w].on /\ Finish(w) /\ req[w].op \in {"approve", "reject"}
      BY <1>1, <2>3, DecisionDecides
    <3>2. pc[w] # "idle" /\ pc'[w] = "idle"
      BY <1>0, <2>3, <3>1 DEF MarkApproved, MarkRejected, Finish, Goto, HandlersOK
    <3>3. requests[r].status # "pending" BY <1>1 DEF Undecided
    <3>4. stale[w] BY <3>1, <3>2, <3>3 DEF Readings, Reads
    <3> QED BY <3>1, <3>2, <3>4 DEF ByStaleHandler, Subject
  <2> QED BY <2>1, <2>2, <2>3
<1>2. ASSUME NEW i \in DOMAIN invitations \intersect DOMAIN invitations',
             \/ invitations[i].accepted
                  /\ (invitations'[i] # invitations[i] \/ uses'[i] # uses[i])
             \/ invitations[i].revoked /\ uses'[i] # uses[i]
      PROVE  ByStaleHandler(<<"invitation", i>>)
  <2>1. PICK w \in Workers :
          /\ i = req[w].on /\ pc[w] # "idle" /\ pc'[w] = "idle"
          /\ req[w].op \in {"revoke", "resend", "accept"}
          /\ uses'[i] # uses[i] => req[w].op = "accept"
    BY <1>2, InvitationWriters
  <2>2. stale[w] BY <1>2, <2>1 DEF Readings, Reads
  <2> QED BY <2>1, <2>2 DEF ByStaleHandler, Subject
<1> QED BY <1>1, <1>2 DEF Stand

(* Whatever runs at the same time, a decided request is decided again, an  *)
(* accepted link accepted, revoked or renewed, and a revoked one accepted, *)
(* only by a handler that read the row before another wrote it.            *)
THEOREM DecisionsAreFinal == Spec => DecisionsStand
<1>1. Init => Readings BY DEF Init, Readings
<1>2. TypeInvariant /\ Readings /\ [Next]_vars => Readings' BY ReadingsStep
<1>3. Init => TypeInvariant BY TypeInvariantInit
<1>4. TypeInvariant /\ [Next]_vars => TypeInvariant' BY TypeInvariantStep
<1>5. TypeInvariant /\ Readings /\ [Next]_vars => [Stand]_vars BY StandStep
<1> QED BY <1>1, <1>2, <1>3, <1>4, <1>5, PTL DEF Spec, DecisionsStand, Stand

-------------------------------------------------------------------------------
(* Duplicates. *)

(* Nothing becomes pending, unless a resend brings it back, and nothing    *)
(* undecided.                                                              *)
PendingShrinks ==
  /\ revived \subseteq revived'
  /\ \A i \in DOMAIN invitations' : Pending(i)' /\ i \notin revived' =>
       i \in DOMAIN invitations /\ Pending(i) /\ invitations'[i].email = invitations[i].email
UndecidedShrinks ==
  \A r \in Undecided' : r \in Undecided /\ requests'[r].email = requests[r].email
Calm == PendingShrinks /\ UndecidedShrinks /\ raced \subseteq raced'

LEMMA RowsShrink ==
  ASSUME TypeInvariant, time' \in Time, time <= time', revived \subseteq revived',
         \A i \in DOMAIN invitations' :
           /\ i \in DOMAIN invitations
           /\ invitations'[i].email = invitations[i].email
           /\ invitations'[i].purpose = invitations[i].purpose
           /\ invitations'[i].expires = invitations[i].expires
           /\ invitations[i].accepted => invitations'[i].accepted
           /\ invitations[i].revoked => invitations'[i].revoked
  PROVE  PendingShrinks
<1>1. /\ time \in Nat /\ time' \in Nat
      /\ \A i \in DOMAIN invitations : invitations[i].expires \in Nat
  BY Constants DEF TypeInvariant, TablesOK, InvitationRow, Time
<1> QED BY <1>1 DEF PendingShrinks, Pending

LEMMA IdleShrinks ==
  ASSUME TypeInvariant, UNCHANGED <<invitations, time, revived>>
  PROVE  PendingShrinks
BY DEF PendingShrinks, Pending

LEMMA RequestsShrink ==
  ASSUME UNCHANGED requests
  PROVE  UndecidedShrinks
BY DEF UndecidedShrinks, Undecided

LEMMA UsuallyCalm ==
  ASSUME TypeInvariant, [Next]_vars
  PROVE  Calm \/ \E w \in Workers : \/ InsertInvitation(w) /\ req[w].op # "reset"
                                    \/ InsertRequest(w)
<1>1. ASSUME UNCHANGED <<invitations, requests, time, revived, raced>> PROVE Calm
  BY <1>1, IdleShrinks, RequestsShrink DEF Calm
<1>2. ASSUME NEW w \in Workers, Submit(w) \/ RefuseRequest(w) \/ Die(w)
      PROVE  UNCHANGED <<invitations, requests, time, revived, raced>>
  BY <1>2 DEF Submit, SubmitInvite, SubmitReset, SubmitApprove, SubmitReject, SubmitRequest,
              SubmitRevoke, SubmitResend, SubmitAccept, Start, RefuseRequest, Die, vars,
              tables, ghosts
<1>3. ASSUME NEW w \in Workers,
             CheckAccount(w) \/ CheckRequest(w) \/ CheckInvitation(w) \/ ReadAgain(w)
      PROVE  UNCHANGED <<invitations, requests, time, revived, raced>>
  BY <1>3 DEF CheckAccount, CheckRequest, CheckInvitation, ReadAgain, tables
<1>4. time \in Nat /\ time \in Time BY DEF TypeInvariant, TablesOK, Time
<1>5. ASSUME NEW w \in Workers, InsertInvitation(w), req[w].op = "reset" PROVE Calm
  <2>1. /\ \E id : InvitationInserted(w, id)
        /\ UNCHANGED <<requests, time, revived, raced>>
    BY <1>5, InsertionInserts DEF InsertInvitation
  <2>2. PendingShrinks
    BY <1>5, <2>1 DEF PendingShrinks, Pending, InvitationInserted
  <2> QED BY <2>1, <2>2, RequestsShrink DEF Calm
<1>6. ASSUME NEW w \in Workers, MarkApproved(w) \/ MarkRejected(w) PROVE Calm
  <2> DEFINE r == req[w].on
  <2>1. /\ r \in DOMAIN requests /\ DOMAIN requests' = DOMAIN requests
        /\ \A q \in DOMAIN requests : q # r => requests'[q] = requests[q]
        /\ \/ UNCHANGED requests
           \/ requests'[r].status = "rejected" \/ requests'[r].status = "approved"
        /\ UNCHANGED <<invitations, time, revived, raced>>
    BY <1>6, DecisionDecides
  <2> HIDE DEF r
  <2>2. UndecidedShrinks
    <3>1. ASSUME NEW q \in Undecided'
          PROVE  q \in Undecided /\ requests'[q].email = requests[q].email
      <4>1. q \in DOMAIN requests' /\ requests'[q].status = "pending" BY <3>1 DEF Undecided
      <4>2. requests'[q] = requests[q] BY <2>1, <4>1
      <4> QED BY <2>1, <4>1, <4>2 DEF Undecided
    <3> QED BY <3>1 DEF UndecidedShrinks
  <2> QED BY <2>1, <2>2, IdleShrinks DEF Calm
<1>7. ASSUME NEW w \in Workers, RevokeInvitation(w) PROVE Calm
  <2>1. UNCHANGED <<requests, time, revived, raced>> BY <1>7 DEF RevokeInvitation
  <2>2. PendingShrinks BY <1>4, <1>7, <2>1, RevocationRevokes, RowsShrink
  <2> QED BY <2>1, <2>2, RequestsShrink DEF Calm
<1>8. ASSUME NEW w \in Workers, RenewToken(w) PROVE Calm
  <2>1. /\ Renews(w) \/ UNCHANGED <<invitations, revived>>
        /\ UNCHANGED <<requests, time, raced>>
    BY <1>8, RenewalRenews
  <2>2. PendingShrinks
    <3>1. CASE Renews(w) BY <2>1, <3>1 DEF PendingShrinks, Pending, Renews
    <3>2. CASE UNCHANGED <<invitations, revived>> BY <2>1, <3>2, IdleShrinks
    <3> QED BY <2>1, <3>1, <3>2
  <2> QED BY <2>1, <2>2, RequestsShrink DEF Calm
<1>9. ASSUME NEW w \in Workers, AcceptInvitation(w) PROVE Calm
  <2>1. /\ Accepts(w) \/ UNCHANGED invitations
        /\ UNCHANGED <<requests, time, revived, raced>>
    BY <1>9, AcceptanceAccepts
  <2>2. CASE Accepts(w)
    <3>0. /\ DOMAIN invitations' = DOMAIN invitations
          /\ \A i \in DOMAIN invitations :
               /\ invitations'[i].email = invitations[i].email
               /\ invitations'[i].purpose = invitations[i].purpose
               /\ invitations'[i].expires = invitations[i].expires
               /\ invitations'[i].revoked = invitations[i].revoked
               /\ invitations'[i].accepted = (invitations[i].accepted \/ i = req[w].on)
      BY <2>2 DEF Accepts
    <3>1. PendingShrinks BY Zenon, <2>1, <3>0 DEF PendingShrinks, Pending
    <3> QED BY <2>1, <3>1, RequestsShrink DEF Calm
  <2> QED BY <1>1, <2>1, <2>2
<1>10. CASE NightlyCleanup
  <2>1. /\ DOMAIN invitations' \subseteq DOMAIN invitations
        /\ \A i \in DOMAIN invitations' : invitations'[i] = invitations[i]
        /\ UNCHANGED <<requests, time, revived, raced>>
    BY <1>10, CleanupDeletes DEF ghosts
  <2>2. PendingShrinks BY <1>4, <2>1, RowsShrink
  <2> QED BY <2>1, <2>2, RequestsShrink DEF Calm
<1>11. CASE Tick
  <2>1. /\ UNCHANGED <<invitations, requests, revived, raced>>
        /\ time' \in Time /\ time <= time'
    BY <1>4, <1>11, Constants DEF Tick, tables, ghosts, Time
  <2>2. PendingShrinks BY <2>1, RowsShrink
  <2> QED BY <2>1, <2>2, RequestsShrink DEF Calm
<1>12. CASE UNCHANGED vars BY <1>1, <1>12 DEF vars, tables, ghosts
<1> QED BY <1>1, <1>2, <1>3, <1>5, <1>6, <1>7, <1>8, <1>9, <1>10, <1>11, <1>12
        DEF Next, Proceed

LEMMA CalmDuplicates ==
  ASSUME DuplicatesExplained, Calm
  PROVE  DuplicatesExplained'
<1>1. ASSUME NEW e \in Emails, NEW i \in PendingFor(e)', NEW j \in PendingFor(e)', i # j,
             i \notin revived', j \notin revived'
      PROVE  \/ <<<<"invitation", i>>, <<"invitation", j>>>> \in raced'
             \/ <<<<"invitation", j>>, <<"invitation", i>>>> \in raced'
  <2>1. i \in PendingFor(e) /\ j \in PendingFor(e)
    BY <1>1 DEF PendingFor, Calm, PendingShrinks
  <2>2. {i, j} \intersect revived = {} BY <1>1 DEF Calm, PendingShrinks
  <2> QED BY <1>1, <2>1, <2>2 DEF DuplicatesExplained, Calm
<1>2. ASSUME NEW r \in Undecided', NEW q \in Undecided', r # q,
             requests'[r].email = requests'[q].email
      PROVE  \/ <<<<"request", r>>, <<"request", q>>>> \in raced'
             \/ <<<<"request", q>>, <<"request", r>>>> \in raced'
  <2>1. r \in Undecided /\ q \in Undecided /\ requests[r].email = requests[q].email
    BY <1>2 DEF Calm, UndecidedShrinks
  <2> QED BY <1>2, <2>1 DEF DuplicatesExplained, Calm
<1> QED BY <1>1, <1>2 DEF DuplicatesExplained

(* A worker that stays where it is has its check behind it as before.      *)
LEMMA StayPast ==
  ASSUME Calm, NEW v, Past(v), pc'[v] = pc[v], req'[v] = req[v], rivals'[v] = rivals[v]
  PROVE  Past(v)'
<1>1. ASSUME pc[v] = "insertInvitation", req[v].op # "reset",
             NEW i \in PendingFor(req[v].email)', i \notin revived'
      PROVE  <<"invitation", i>> \in rivals'[v]
  <2>1. i \in PendingFor(req[v].email) /\ i \notin revived
    BY <1>1 DEF PendingFor, Calm, PendingShrinks
  <2> QED BY <1>1, <2>1 DEF Past
<1>2. ASSUME pc[v] \in {"checkInvitation", "insertRequest"}, req[v].op = "request",
             NEW r \in Undecided', requests'[r].email = req[v].email
      PROVE  <<"request", r>> \in rivals'[v]
  <2>1. r \in Undecided /\ requests[r].email = req[v].email
    BY <1>2 DEF Calm, UndecidedShrinks
  <2> QED BY <1>2, <2>1 DEF Past
<1> QED BY <1>1, <1>2 DEF Past

(* A worker that has no check behind it.                                   *)
LEMMA NothingPast ==
  ASSUME NEW v, ~(pc'[v] = "insertInvitation" /\ req'[v].op # "reset"),
         ~(pc'[v] \in {"checkInvitation", "insertRequest"} /\ req'[v].op = "request")
  PROVE  Past(v)'
BY DEF Past

LEMMA SubmitPast ==
  ASSUME TypeInvariant, NEW w \in Workers, Submit(w)
  PROVE  /\ Past(w)'
         /\ \A v \in Workers \ {w} : pc'[v] = pc[v] /\ req'[v] = req[v] /\ rivals'[v] = rivals[v]
<1>0. HandlersOK BY DEF TypeInvariant
<1>1. ASSUME NEW op, NEW to, NEW e, NEW on, Start(w, op, to, Call(op, e, on)),
             to = "insertInvitation" => op = "reset",
             to \in {"checkInvitation", "insertRequest"} => op # "request"
      PROVE  /\ Past(w)'
             /\ \A v \in Workers \ {w} :
                  pc'[v] = pc[v] /\ req'[v] = req[v] /\ rivals'[v] = rivals[v]
  <2>1. /\ pc'[w] = to /\ req'[w] = Call(op, e, on)
        /\ \A v \in Workers \ {w} :
             pc'[v] = pc[v] /\ req'[v] = req[v] /\ rivals'[v] = rivals[v]
    BY <1>0, <1>1 DEF Start, Goto, HandlersOK, ghosts
  <2>2. req'[w].op = op BY <2>1 DEF Call
  <2> QED BY <1>1, <2>1, <2>2, NothingPast
<1>2. CASE SubmitAccept(w)
  <2>1. /\ pc'[w] = "readAgain"
        /\ \A v \in Workers \ {w} :
             pc'[v] = pc[v] /\ req'[v] = req[v] /\ rivals'[v] = rivals[v]
    BY <1>0, <1>2 DEF SubmitAccept, Start, Goto, HandlersOK, ghosts
  <2> QED BY <2>1, NothingPast
<1>3. CASE SubmitInvite(w) BY <1>1, <1>3 DEF SubmitInvite
<1>4. CASE SubmitReset(w) BY <1>1, <1>4 DEF SubmitReset
<1>5. CASE SubmitApprove(w) BY <1>1, <1>5 DEF SubmitApprove
<1>6. CASE SubmitReject(w) BY <1>1, <1>6 DEF SubmitReject
<1>7. CASE SubmitRequest(w) BY <1>1, <1>7 DEF SubmitRequest
<1>8. CASE SubmitRevoke(w) BY <1>1, <1>8 DEF SubmitRevoke
<1>9. CASE SubmitResend(w) BY <1>1, <1>9 DEF SubmitResend
<1> QED BY <1>2, <1>3, <1>4, <1>5, <1>6, <1>7, <1>8, <1>9 DEF Submit

LEMMA CheckPast ==
  ASSUME TypeInvariant, PastChecks, NEW w \in Workers,
         CheckAccount(w) \/ CheckRequest(w) \/ CheckInvitation(w) \/ ReadAgain(w) \/ Die(w)
  PROVE  /\ Past(w)'
         /\ \A v \in Workers \ {w} : pc'[v] = pc[v] /\ req'[v] = req[v] /\ rivals'[v] = rivals[v]
<1>0. HandlersOK BY DEF TypeInvariant
<1>1. \A v \in Workers \ {w} : pc'[v] = pc[v] /\ req'[v] = req[v] /\ rivals'[v] = rivals[v]
  <2>1. /\ Finish(w) \/ \E to : Goto(w, to, req[w])
        /\ \/ UNCHANGED rivals \/ Forget(w)
           \/ \E s : rivals' = [rivals EXCEPT ![w] = s]
    BY DEF CheckAccount, CheckRequest, CheckInvitation, ReadAgain, Die
  <2> QED BY <1>0, <2>1 DEF Finish, Goto, Forget, HandlersOK
<1>2. UNCHANGED <<invitations, requests, time, revived>>
  BY DEF CheckAccount, CheckRequest, CheckInvitation, ReadAgain, Die, tables
<1>3. CASE Finish(w)
  <2>1. pc'[w] = "idle" BY <1>0, <1>3 DEF Finish, Goto, HandlersOK
  <2> QED BY <1>1, <2>1, NothingPast
<1>4. CASE CheckAccount(w) /\ ~Finish(w)
  <2>1. pc'[w] = "checkInvitation" /\ req'[w] = req[w] /\ req[w].op = "approve"
    BY <1>0, <1>4 DEF CheckAccount, Goto, HandlersOK, Fits, OpsAt
  <2> QED BY <1>1, <2>1, NothingPast
<1>5. CASE CheckRequest(w) /\ ~Finish(w)
  <2>1. /\ pc'[w] = "checkInvitation" /\ req'[w] = req[w]
        /\ \A r \in Undecided : requests[r].email # req[w].email
    BY <1>0, <1>5 DEF CheckRequest, Goto, HandlersOK
  <2> QED BY <1>1, <1>2, <2>1 DEF Past, Undecided
<1>6. CASE CheckInvitation(w) /\ ~Finish(w)
  <2>1. /\ req'[w] = req[w] /\ PendingFor(req[w].email) = {} /\ pc[w] = "checkInvitation"
        /\ \/ /\ pc'[w] = "insertRequest" /\ req[w].op = "request" /\ rivals'[w] = rivals[w]
           \/ pc'[w] = "insertInvitation" /\ req[w].op # "request"
    BY <1>0, <1>6 DEF CheckInvitation, Blocking, Goto, HandlersOK
  <2>2. PendingFor(req[w].email)' = {}
    BY <1>2, <2>1 DEF PendingFor, Pending
  <2>3. CASE pc'[w] = "insertInvitation" /\ req[w].op # "request"
    <3>1. pc'[w] \notin {"checkInvitation", "insertRequest"} BY <2>3
    <3>2. ASSUME NEW i \in PendingFor(req[w].email)' PROVE FALSE BY <2>2
    <3> QED BY <1>1, <3>1, <3>2 DEF Past
  <2>4. CASE pc'[w] = "insertRequest" /\ req[w].op = "request" /\ rivals'[w] = rivals[w]
    <3>1. \A r \in Undecided :
            requests[r].email = req[w].email => <<"request", r>> \in rivals[w]
      BY <2>1, <2>4 DEF PastChecks, Past
    <3>2. ASSUME NEW r \in Undecided', requests'[r].email = req[w].email
          PROVE  <<"request", r>> \in rivals'[w]
      BY <1>2, <2>1, <2>4, <3>1, <3>2 DEF Undecided
    <3>3. pc'[w] # "insertInvitation" BY <2>4
    <3> QED BY <1>1, <2>1, <3>2, <3>3 DEF Past
  <2> QED BY <1>1, <2>1, <2>3, <2>4
<1>7. CASE ReadAgain(w) /\ ~Finish(w)
  <2>1. pc'[w] = "writeAccount" BY <1>0, <1>7 DEF ReadAgain, Goto, HandlersOK
  <2> QED BY <1>1, <2>1, NothingPast
<1> QED BY <1>1, <1>3, <1>4, <1>5, <1>6, <1>7 DEF Die

LEMMA CalmPast ==
  ASSUME TypeInvariant, PastChecks, Calm, [Next]_vars,
         \A w \in Workers : InsertInvitation(w) => req[w].op = "reset",
         \A w \in Workers : ~InsertRequest(w)
  PROVE  PastChecks'
<1>0. HandlersOK BY DEF TypeInvariant
<1>1. ASSUME NEW w \in Workers, Past(w)',
             \A v \in Workers \ {w} :
               pc'[v] = pc[v] /\ req'[v] = req[v] /\ rivals'[v] = rivals[v]
      PROVE  PastChecks'
  BY <1>1, StayPast DEF PastChecks
<1>2. ASSUME NEW w \in Workers, Finish(w), UNCHANGED rivals PROVE PastChecks'
  <2>1. /\ pc'[w] = "idle"
        /\ \A v \in Workers \ {w} :
             pc'[v] = pc[v] /\ req'[v] = req[v] /\ rivals'[v] = rivals[v]
    BY <1>0, <1>2 DEF Finish, Goto, HandlersOK
  <2> QED BY <1>1, <2>1, NothingPast
<1>3. ASSUME NEW w \in Workers, InsertInvitation(w) PROVE PastChecks'
  <2>1. req[w].op = "reset" BY <1>3
  <2>2. Finish(w) /\ rivals' = [rivals EXCEPT ![w] = {}] BY <1>3, <2>1, InsertionInserts
  <2>3. /\ pc'[w] = "idle"
        /\ \A v \in Workers \ {w} :
             pc'[v] = pc[v] /\ req'[v] = req[v] /\ rivals'[v] = rivals[v]
    BY <1>0, <2>2 DEF Finish, Goto, HandlersOK
  <2> QED BY <1>1, <2>3, NothingPast
<1>4. ASSUME NEW w \in Workers,
             MarkApproved(w) \/ MarkRejected(w) \/ RevokeInvitation(w) \/ RenewToken(w)
               \/ AcceptInvitation(w)
      PROVE  PastChecks'
  BY <1>2, <1>4 DEF MarkApproved, MarkRejected, RevokeInvitation, RenewToken, AcceptInvitation
<1>5. ASSUME UNCHANGED <<pc, req, rivals>> PROVE PastChecks'
  BY <1>5, StayPast DEF PastChecks
<1>6. CASE NightlyCleanup \/ Tick \/ UNCHANGED vars
  BY <1>5, <1>6 DEF NightlyCleanup, Tick, vars, ghosts
<1>7. ASSUME NEW w \in Workers, RefuseRequest(w) PROVE PastChecks'
  BY <1>5, <1>7 DEF RefuseRequest, vars, ghosts
<1>8. ASSUME NEW w \in Workers, Submit(w) PROVE PastChecks' BY <1>1, <1>8, SubmitPast
<1>9. ASSUME NEW w \in Workers,
             CheckAccount(w) \/ CheckRequest(w) \/ CheckInvitation(w) \/ ReadAgain(w) \/ Die(w)
      PROVE  PastChecks'
  BY <1>1, <1>9, CheckPast
<1> QED BY <1>3, <1>4, <1>6, <1>7, <1>8, <1>9 DEF Next, Proceed

(* An insertion tells every worker past its check, and those the inserting *)
(* worker had been told of are raced.                                      *)
LEMMA InsertInvitationPast ==
  ASSUME TypeInvariant, PastChecks, DuplicatesExplained, NEW w \in Workers,
         InsertInvitation(w), req[w].op # "reset"
  PROVE  PastChecks' /\ DuplicatesExplained'
<1>0. HandlersOK /\ TablesOK BY DEF TypeInvariant
<1>1. PICK id \in InvitationIds :
        /\ InvitationInserted(w, id) /\ Inserted(w, <<"invitation", id>>)
        /\ IF req[w].op = "approve" THEN Goto(w, "markApproved", [req[w] EXCEPT !.link = id])
           ELSE Finish(w)
  BY InsertionInserts
<1>2. UNCHANGED <<requests, time, revived>> BY DEF InsertInvitation
<1>3. /\ \A i \in DOMAIN invitations' : i # id =>
           i \in DOMAIN invitations /\ invitations'[i] = invitations[i]
      /\ invitations'[id].email = req[w].email /\ id \notin DOMAIN invitations
  BY <1>0, <1>1 DEF InvitationInserted, TablesOK
<1>4. \A i \in DOMAIN invitations' : i # id =>
        (Pending(i)' <=> Pending(i)) /\ invitations'[i].email = invitations[i].email
  BY <1>2, <1>3 DEF Pending
<1>5. /\ \A v \in Workers \ {w} :
           /\ pc'[v] = pc[v] /\ req'[v] = req[v] /\ rivals[v] \subseteq rivals'[v]
           /\ pc[v] \in Checked => <<"invitation", id>> \in rivals'[v]
      /\ pc'[w] \in {"idle", "markApproved"}
      /\ raced' = raced \union {<<<<"invitation", id>>, other>> : other \in rivals[w]}
  BY <1>0, <1>1 DEF Inserted, Goto, Finish, HandlersOK
<1>6. PastChecks'
  <2>1. Past(w)' BY <1>5, NothingPast
  <2>2. ASSUME NEW v \in Workers \ {w} PROVE Past(v)'
    <3>1. ASSUME pc[v] = "insertInvitation", req[v].op # "reset",
                 NEW i \in PendingFor(req[v].email)', i \notin revived'
          PROVE  <<"invitation", i>> \in rivals'[v]
      <4>1. CASE i = id BY <1>5, <3>1, <4>1 DEF Checked
      <4>2. CASE i # id
        <5>1. i \in PendingFor(req[v].email) /\ i \notin revived
          BY <1>2, <1>3, <1>4, <1>5, <3>1, <4>2 DEF PendingFor
        <5> QED BY <1>5, <3>1, <5>1 DEF PastChecks, Past
      <4> QED BY <4>1, <4>2
    <3>2. ASSUME pc[v] \in {"checkInvitation", "insertRequest"}, req[v].op = "request",
                 NEW r \in Undecided', requests'[r].email = req[v].email
          PROVE  <<"request", r>> \in rivals'[v]
      <4>1. r \in Undecided /\ requests[r].email = req[v].email BY <1>2, <3>2 DEF Undecided
      <4> QED BY <1>5, <3>2, <4>1 DEF PastChecks, Past
    <3> QED BY <1>5, <3>1, <3>2 DEF Past
  <2> QED BY <2>1, <2>2 DEF PastChecks
<1>7. DuplicatesExplained'
  <2>0. raced \subseteq raced' BY <1>5
  <2>1. ASSUME NEW e \in Emails, NEW i \in PendingFor(e)', NEW j \in PendingFor(e)',
               i # j, i # id, i \notin revived', j \notin revived'
        PROVE  \/ <<<<"invitation", i>>, <<"invitation", j>>>> \in raced'
               \/ <<<<"invitation", j>>, <<"invitation", i>>>> \in raced'
    <3>1. i \in PendingFor(e) BY <1>3, <1>4, <2>1 DEF PendingFor
    <3>2. CASE j # id
      <4>1. j \in PendingFor(e) BY <1>3, <1>4, <2>1, <3>2 DEF PendingFor
      <4>2. {i, j} \intersect revived = {} BY <1>2, <2>1
      <4> QED BY <2>0, <2>1, <3>1, <4>1, <4>2 DEF DuplicatesExplained
    <3>3. CASE j = id
      <4>1. e = req[w].email BY <1>3, <2>1, <3>3 DEF PendingFor
      <4>2. pc[w] = "insertInvitation" BY DEF InsertInvitation
      <4>3. <<"invitation", i>> \in rivals[w]
        BY <1>2, <2>1, <3>1, <4>1, <4>2 DEF PastChecks, Past
      <4> QED BY <1>5, <3>3, <4>3
    <3> QED BY <3>2, <3>3
  <2>2. ASSUME NEW e \in Emails, NEW i \in PendingFor(e)', NEW j \in PendingFor(e)',
               i # j, i \notin revived', j \notin revived'
        PROVE  \/ <<<<"invitation", i>>, <<"invitation", j>>>> \in raced'
               \/ <<<<"invitation", j>>, <<"invitation", i>>>> \in raced'
    <3>1. CASE i # id BY <2>1, <2>2, <3>1
    <3>2. CASE i = id
      <4>1. j # id BY <2>2, <3>2
      <4> QED BY <2>1, <2>2, <4>1
    <3> QED BY <3>1, <3>2
  <2>3. ASSUME NEW r \in Undecided', NEW q \in Undecided', r # q,
               requests'[r].email = requests'[q].email
        PROVE  \/ <<<<"request", r>>, <<"request", q>>>> \in raced'
               \/ <<<<"request", q>>, <<"request", r>>>> \in raced'
    <3>1. r \in Undecided /\ q \in Undecided /\ requests[r].email = requests[q].email
      BY <1>2, <2>3 DEF Undecided
    <3> QED BY <2>0, <2>3, <3>1 DEF DuplicatesExplained
  <2> QED BY <2>2, <2>3 DEF DuplicatesExplained
<1> QED BY <1>6, <1>7

LEMMA InsertRequestPast ==
  ASSUME TypeInvariant, PastChecks, DuplicatesExplained, NEW w \in Workers, InsertRequest(w)
  PROVE  PastChecks' /\ DuplicatesExplained'
<1>0. HandlersOK BY DEF TypeInvariant
<1>1. PICK id \in RequestIds : RequestInserted(w, id) /\ Inserted(w, <<"request", id>>)
  BY RequestInserts
<1>2. UNCHANGED <<invitations, time, revived>> /\ Finish(w) BY DEF InsertRequest
<1>3. \A r \in Undecided' :
        \/ r \in Undecided /\ requests'[r].email = requests[r].email
        \/ r = id /\ requests'[r].email = req[w].email
  <2>1. requests'[id].email = req[w].email BY <1>1 DEF RequestInserted
  <2>2. \A r \in DOMAIN requests' : r = id \/ (r \in DOMAIN requests /\ requests'[r] = requests[r])
    BY <1>1 DEF RequestInserted
  <2> QED BY <2>1, <2>2 DEF Undecided
<1>4. /\ \A v \in Workers \ {w} :
           /\ pc'[v] = pc[v] /\ req'[v] = req[v] /\ rivals[v] \subseteq rivals'[v]
           /\ pc[v] \in Checked => <<"request", id>> \in rivals'[v]
      /\ pc'[w] = "idle"
      /\ raced' = raced \union {<<<<"request", id>>, other>> : other \in rivals[w]}
  BY <1>0, <1>1, <1>2 DEF Inserted, Goto, Finish, HandlersOK
<1>5. PastChecks'
  <2>1. Past(w)' BY <1>4, NothingPast
  <2>2. ASSUME NEW v \in Workers \ {w} PROVE Past(v)'
    <3>1. ASSUME pc[v] = "insertInvitation", req[v].op # "reset",
                 NEW i \in PendingFor(req[v].email)', i \notin revived'
          PROVE  <<"invitation", i>> \in rivals'[v]
      <4>1. i \in PendingFor(req[v].email) /\ i \notin revived
        BY <1>2, <1>4, <3>1 DEF PendingFor, Pending
      <4> QED BY <1>4, <3>1, <4>1 DEF PastChecks, Past
    <3>2. ASSUME pc[v] \in {"checkInvitation", "insertRequest"}, req[v].op = "request",
                 NEW r \in Undecided', requests'[r].email = req[v].email
          PROVE  <<"request", r>> \in rivals'[v]
      <4>1. CASE r = id BY <1>4, <3>2, <4>1 DEF Checked
      <4>2. CASE r # id
        <5>1. r \in Undecided /\ requests[r].email = req[v].email BY <1>3, <3>2, <4>2
        <5> QED BY <1>4, <3>2, <5>1 DEF PastChecks, Past
      <4> QED BY <4>1, <4>2
    <3> QED BY <1>4, <3>1, <3>2 DEF Past
  <2> QED BY <2>1, <2>2 DEF PastChecks
<1>6. DuplicatesExplained'
  <2>0. raced \subseteq raced' BY <1>4
  <2>1. ASSUME NEW e \in Emails, NEW i \in PendingFor(e)', NEW j \in PendingFor(e)',
               i # j, i \notin revived', j \notin revived'
        PROVE  \/ <<<<"invitation", i>>, <<"invitation", j>>>> \in raced'
               \/ <<<<"invitation", j>>, <<"invitation", i>>>> \in raced'
    <3>1. i \in PendingFor(e) /\ j \in PendingFor(e) /\ {i, j} \intersect revived = {}
      BY <1>2, <2>1 DEF PendingFor, Pending
    <3> QED BY <2>0, <2>1, <3>1 DEF DuplicatesExplained
  <2>2. ASSUME NEW r \in Undecided', NEW q \in Undecided', r # q, r # id,
               requests'[r].email = requests'[q].email
        PROVE  \/ <<<<"request", r>>, <<"request", q>>>> \in raced'
               \/ <<<<"request", q>>, <<"request", r>>>> \in raced'
    <3>1. r \in Undecided /\ requests'[r].email = requests[r].email BY <1>3, <2>2
    <3>2. CASE q # id
      <4>1. q \in Undecided /\ requests[r].email = requests[q].email
        BY <1>3, <2>2, <3>1, <3>2
      <4> QED BY <2>0, <2>2, <3>1, <4>1 DEF DuplicatesExplained
    <3>3. CASE q = id
      <4>1. requests[r].email = req[w].email
        <5>1. id \notin Undecided BY <1>1 DEF RequestInserted, Undecided
        <5>2. requests'[q].email = req[w].email BY <1>3, <3>3, <5>1
        <5> QED BY <2>2, <3>1, <5>2
      <4>2. pc[w] = "insertRequest" /\ req[w].op = "request"
        BY <1>0 DEF InsertRequest, HandlersOK, Fits, OpsAt
      <4>3. <<"request", r>> \in rivals[w] BY <3>1, <4>1, <4>2 DEF PastChecks, Past
      <4> QED BY <1>4, <3>3, <4>3
    <3> QED BY <3>2, <3>3
  <2>3. ASSUME NEW r \in Undecided', NEW q \in Undecided', r # q,
               requests'[r].email = requests'[q].email
        PROVE  \/ <<<<"request", r>>, <<"request", q>>>> \in raced'
               \/ <<<<"request", q>>, <<"request", r>>>> \in raced'
    <3>1. CASE r # id BY <2>2, <2>3, <3>1
    <3>2. CASE r = id
      <4>1. q # id BY <2>3, <3>2
      <4> QED BY <2>2, <2>3, <4>1
    <3> QED BY <3>1, <3>2
  <2> QED BY <2>1, <2>3 DEF DuplicatesExplained
<1> QED BY <1>5, <1>6

LEMMA DuplicatesStep ==
  ASSUME TypeInvariant, PastChecks, DuplicatesExplained, [Next]_vars
  PROVE  PastChecks' /\ DuplicatesExplained'
<1>1. CASE \E w \in Workers : InsertInvitation(w) /\ req[w].op # "reset"
  BY <1>1, InsertInvitationPast
<1>2. CASE \E w \in Workers : InsertRequest(w) BY <1>2, InsertRequestPast
<1>3. CASE /\ \A w \in Workers : InsertInvitation(w) => req[w].op = "reset"
           /\ \A w \in Workers : ~InsertRequest(w)
  <2>1. Calm BY <1>3, UsuallyCalm
  <2> QED BY <1>3, <2>1, CalmPast, CalmDuplicates
<1> QED BY <1>1, <1>2, <1>3

(* create and request promise no duplicates; with any number of people,    *)
(* rows and simultaneous requests, what breaks that promise is a race      *)
(* between an insertion and a check, or a link that was resent when it was *)
(* no longer pending, and nothing else.                                    *)
THEOREM DuplicatesAreRaces == Spec => []DuplicatesExplained
<1>1. Init => PastChecks /\ DuplicatesExplained
  BY DEF Init, PastChecks, Past, DuplicatesExplained, PendingFor, Undecided
<1>2. TypeInvariant /\ PastChecks /\ DuplicatesExplained /\ [Next]_vars
        => PastChecks' /\ DuplicatesExplained'
  BY DuplicatesStep
<1>3. Init => TypeInvariant BY TypeInvariantInit
<1>4. TypeInvariant /\ [Next]_vars => TypeInvariant' BY TypeInvariantStep
<1> QED BY <1>1, <1>2, <1>3, <1>4, PTL DEF Spec
================================================================================
