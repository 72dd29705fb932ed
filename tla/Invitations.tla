------------------------------ MODULE Invitations ------------------------------
(***************************************************************************)
(* How people get an account: services/invitation-request.service,         *)
(* services/invitation.service, the acceptance of an invitation in         *)
(* services/auth.service, and the nightly cleanup of lib/cleanup.  A guest *)
(* asks for access, an administrator approves and thereby invites, or      *)
(* invites directly; links may be resent and revoked; whoever accepts one  *)
(* gets an account, or, if its purpose is a reset, a new password.         *)
(*                                                                         *)
(* As in Booking, a request is handled by a worker and one action is one   *)
(* awaited statement.  An e-mail address stands for a person.              *)
(***************************************************************************)
EXTENDS Naturals, FiniteSetsExt, Functions

CONSTANTS
  Emails, Registered,  \* who may ask; who has an account from the start
  Workers,             \* requests served at the same time
  Operations,          \* bound: the operations clients use
  InvitationIds,       \* bound: rows ever inserted
  RequestIds,          \* bound: rows ever inserted
  MaxRows,             \* bound: rows of both tables together
  MaxToken,            \* bound: times a link is renewed
  TtlOf,               \* purpose -> ticks until an invitation expires
  Grace,               \* ticks that the cleanup waits after that
  MaxTime              \* bound: ticks

Purposes == {"invite", "reset"}
Nobody == "nobody"
NoId == 0
Time == 0 .. MaxTime

ASSUME InvitationsAssumption ==
  /\ Registered \subseteq Emails /\ Nobody \notin Emails
  /\ IsFiniteSet(Workers)
  /\ InvitationIds \subseteq Nat \ {NoId} /\ RequestIds \subseteq Nat \ {NoId}
  /\ TtlOf \in [Purposes -> Nat]
  /\ MaxRows \in Nat /\ MaxToken \in Nat /\ Grace \in Nat /\ MaxTime \in Nat

VARIABLES
  accounts,    \* table users, by its unique column email
  invitations, \* table invitations: id -> row
  requests,    \* table invitation_requests: id -> row
  time,
  pc, req,     \* per worker: the next statement, and what the handler remembers
  rivals,      \* history: rows inserted since the worker's check
  stale,       \* history: the row that the worker read was written since by another
  uses,        \* history: per invitation ever inserted, how often it was accepted
  raced,       \* history: pairs of rows inserted past each other
  revived      \* history: invitations that a resend brought back

tables == <<accounts, invitations, requests>>
ghosts == <<rivals, stale, uses, raced, revived>>
vars == <<tables, time, pc, req, ghosts>>

(* `token` counts the links: only the newest one opens the invitation.     *)
InvitationRow == [email : Emails, purpose : Purposes, token : 0 .. MaxToken, expires : Nat,
                  accepted : BOOLEAN, revoked : BOOLEAN]
RequestRow == [email : Emails, status : {"pending", "approved", "rejected"},
               invitation : InvitationIds \union {NoId}]

(* `on` is the row that the handler was called with, `link` the invitation *)
(* that an approval inserted, `token` and `purpose` what is being accepted. *)
NoRequest == [op |-> "none"]
Handler == [op : {"invite", "request", "approve", "reject", "reset", "revoke", "resend", "accept"},
            email : Emails \union {Nobody}, on : InvitationIds \union RequestIds \union {NoId},
            link : InvitationIds \union {NoId}, token : 0 .. MaxToken, purpose : Purposes]
Call(op, email, on) ==
  [op |-> op, email |-> email, on |-> on, link |-> NoId, token |-> 0, purpose |-> "invite"]

Insert(table, id, row) == [k \in DOMAIN table \union {id} |-> IF k = id THEN row ELSE table[k]]

(* What "pending" means to create and to request, and to the acceptance.   *)
Pending(i) ==
  /\ invitations[i].purpose = "invite"
  /\ ~invitations[i].accepted /\ ~invitations[i].revoked
  /\ invitations[i].expires >= time
PendingFor(email) == {i \in DOMAIN invitations : invitations[i].email = email /\ Pending(i)}
Opens(i) ==
  /\ invitations[i].expires > time
  /\ ~invitations[i].accepted /\ ~invitations[i].revoked
Undecided == {r \in DOMAIN requests : requests[r].status = "pending"}

Init ==
  /\ accounts = Registered /\ invitations = <<>> /\ requests = <<>> /\ time = 0
  /\ pc = [w \in Workers |-> "idle"] /\ req = [w \in Workers |-> NoRequest]
  /\ rivals = [w \in Workers |-> {}] /\ stale = [w \in Workers |-> FALSE]
  /\ uses = <<>> /\ raced = {} /\ revived = {}

Goto(w, to, request) ==
  /\ pc' = [pc EXCEPT ![w] = to]
  /\ req' = [req EXCEPT ![w] = request]
Finish(w) == Goto(w, "idle", NoRequest)

(* The row that a handler acts on, and who has read it when w writes it.   *)
Subject(r) ==
  IF r.op \in {"approve", "reject"} THEN <<"request", r.on>>
  ELSE IF r.op \in {"revoke", "resend", "accept"} THEN <<"invitation", r.on>>
  ELSE <<"none", NoId>>
Wrote(w, row) ==
  stale' = [v \in Workers |-> v # w /\ (stale[v] \/ (pc[v] # "idle" /\ Subject(req[v]) = row))]
Forget(w) ==
  /\ rivals' = [rivals EXCEPT ![w] = {}]
  /\ stale' = [stale EXCEPT ![w] = FALSE]

(* A row was inserted by w: those past their check have not seen it.       *)
Checked == {"checkInvitation", "insertInvitation", "insertRequest"}
Inserted(w, row) ==
  /\ rivals' = [v \in Workers |-> IF v = w THEN {}
                                  ELSE IF pc[v] \in Checked THEN rivals[v] \union {row}
                                  ELSE rivals[v]]
  /\ raced' = raced \union {<<row, other>> : other \in rivals[w]}

IsFresh(id, ids, used) == id \in ids \ used /\ \A k \in ids \ used : id <= k
Serving(ops) == {v \in Workers : req[v].op \in ops}
Making(table) == Serving(IF table = "request" THEN {"request"} ELSE {"invite", "approve", "reset"})
RoomForRow ==
  Cardinality(Making("request")) + Cardinality(Making("invitation"))
    + Cardinality(DOMAIN requests) + Cardinality(DOMAIN uses) < MaxRows
RoomForInvitation ==
  RoomForRow /\ Cardinality(Making("invitation")) + Cardinality(DOMAIN uses)
                  < Cardinality(InvitationIds)
RoomForRequest ==
  RoomForRow /\ Cardinality(Making("request")) + Cardinality(DOMAIN requests)
                  < Cardinality(RequestIds)
RoomForToken(i) ==
  invitations[i].token + Cardinality(Serving({"resend"})) < MaxToken

Start(w, op, to, request) ==
  /\ pc[w] = "idle" /\ op \in Operations
  /\ Goto(w, to, request)
  /\ UNCHANGED <<tables, time, ghosts>>

-------------------------------------------------------------------------------
(* Inviting: InvitationService.create, also at the heart of an approval    *)
(* and of a password reset, which skips the checks.  The accounts are the  *)
(* first that create and request read.                                     *)

SubmitInvite(w) ==
  /\ RoomForInvitation
  /\ \E e \in Emails \ accounts :
       Start(w, "invite", "checkInvitation", Call("invite", e, NoId))

SubmitReset(w) ==
  /\ RoomForInvitation
  /\ \E e \in accounts : Start(w, "reset", "insertInvitation", Call("reset", e, NoId))

(* loadPending.                                                            *)
(* Variant: does not look at the status.                                   *)
Reviewable_Any == DOMAIN requests
Reviewable == Undecided

SubmitApprove(w) ==
  /\ RoomForInvitation
  /\ \E r \in Reviewable :
       Start(w, "approve", "checkAccount", Call("approve", requests[r].email, r))

(* POST /auth/request-invitation. *)
SubmitRequest(w) ==
  /\ RoomForRequest
  /\ \E e \in Emails \ accounts :
       Start(w, "request", "checkRequest", Call("request", e, NoId))

CheckAccount(w) ==
  /\ pc[w] = "checkAccount"
  /\ IF req[w].email \in accounts
     THEN Finish(w) /\ Forget(w)
     ELSE Goto(w, "checkInvitation", req[w]) /\ UNCHANGED <<rivals, stale>>
  /\ UNCHANGED <<tables, time, uses, raced, revived>>

CheckRequest(w) ==
  /\ pc[w] = "checkRequest"
  /\ rivals' = [rivals EXCEPT ![w] = {}]
  /\ IF \E r \in Undecided : requests[r].email = req[w].email
     THEN Finish(w) ELSE Goto(w, "checkInvitation", req[w])
  /\ UNCHANGED <<tables, time, stale, uses, raced, revived>>

(* Variant: only an invitation that was never resent counts. *)
Blocking_FirstLink(email) == {i \in PendingFor(email) : invitations[i].token = 0}
Blocking(email) == PendingFor(email)

CheckInvitation(w) ==
  /\ pc[w] = "checkInvitation"
  /\ IF Blocking(req[w].email) # {}
     THEN Finish(w) /\ Forget(w)
     ELSE /\ Goto(w, IF req[w].op = "request" THEN "insertRequest" ELSE "insertInvitation",
                  req[w])
          /\ rivals' = [rivals EXCEPT ![w] = IF req[w].op = "request" THEN @ ELSE {}]
          /\ UNCHANGED stale
  /\ UNCHANGED <<tables, time, uses, raced, revived>>

(* The e-mail with the link is best effort and changes nothing.            *)
InsertInvitation(w) ==
  /\ pc[w] = "insertInvitation"
  /\ LET r == req[w]
         purpose == IF r.op = "reset" THEN "reset" ELSE "invite"
     IN  \E id \in InvitationIds :
           /\ IsFresh(id, InvitationIds, DOMAIN uses)
           /\ invitations' = Insert(invitations, id,
                [email |-> r.email, purpose |-> purpose, token |-> 0,
                 expires |-> time + TtlOf[purpose], accepted |-> FALSE, revoked |-> FALSE])
           /\ uses' = Insert(uses, id, 0)
           /\ IF purpose = "invite" THEN Inserted(w, <<"invitation", id>>)
              ELSE rivals' = [rivals EXCEPT ![w] = {}] /\ UNCHANGED raced
           /\ IF r.op = "approve" THEN Goto(w, "markApproved", [r EXCEPT !.link = id])
              ELSE Finish(w)
  /\ stale' = [stale EXCEPT ![w] = @ /\ req[w].op = "approve"]
  /\ UNCHANGED <<accounts, requests, time, revived>>

InsertRequest(w) ==
  /\ pc[w] = "insertRequest"
  /\ \E id \in RequestIds :
       /\ IsFresh(id, RequestIds, DOMAIN requests)
       /\ requests' = Insert(requests, id,
            [email |-> req[w].email, status |-> "pending", invitation |-> NoId])
       /\ Inserted(w, <<"request", id>>)
  /\ Finish(w)
  /\ UNCHANGED <<accounts, invitations, time, stale, uses, revived>>

(* The UPDATE of approve names the request only; the foreign key refuses   *)
(* an invitation that the cleanup has deleted.                             *)
(* Variant: writes the status that an invitation would have.               *)
ApprovedRow_Accepted(row, link) == [row EXCEPT !.status = "accepted", !.invitation = link]
ApprovedRow(row, link) == [row EXCEPT !.status = "approved", !.invitation = link]

MarkApproved(w) ==
  /\ pc[w] = "markApproved"
  /\ LET r == req[w]
     IN  IF r.link \in DOMAIN invitations
         THEN /\ requests' = [requests EXCEPT ![r.on] = ApprovedRow(@, r.link)]
              /\ Wrote(w, <<"request", r.on>>)
         ELSE UNCHANGED requests /\ stale' = [stale EXCEPT ![w] = FALSE]
  /\ Finish(w)
  /\ UNCHANGED <<accounts, invitations, time, rivals, uses, raced, revived>>

SubmitReject(w) ==
  \E r \in Reviewable : Start(w, "reject", "markRejected", Call("reject", Nobody, r))

MarkRejected(w) ==
  /\ pc[w] = "markRejected"
  /\ requests' = [requests EXCEPT ![req[w].on].status = "rejected"]
  /\ Wrote(w, <<"request", req[w].on>>)
  /\ Finish(w)
  /\ UNCHANGED <<accounts, invitations, time, rivals, uses, raced, revived>>

-------------------------------------------------------------------------------
(* Revoking and resending: what is not accepted may be revoked, and        *)
(* renewed, revoked or expired as it may be.                               *)

Revocable == {i \in DOMAIN invitations : ~invitations[i].accepted}

SubmitRevoke(w) ==
  \E i \in Revocable : Start(w, "revoke", "writeRevoked", Call("revoke", Nobody, i))

RevokeInvitation(w) ==
  /\ pc[w] = "writeRevoked"
  /\ IF req[w].on \in DOMAIN invitations
     THEN invitations' = [invitations EXCEPT ![req[w].on].revoked = TRUE]
     ELSE UNCHANGED invitations
  /\ Wrote(w, <<"invitation", req[w].on>>)
  /\ Finish(w)
  /\ UNCHANGED <<accounts, requests, time, rivals, uses, raced, revived>>

SubmitResend(w) ==
  \E i \in DOMAIN invitations :
    /\ ~invitations[i].accepted /\ RoomForToken(i)
    /\ Start(w, "resend", "writeToken", Call("resend", Nobody, i))

Renewed(row) ==
  [row EXCEPT !.token = @ + 1, !.revoked = FALSE, !.expires = time + TtlOf["invite"]]

RenewToken(w) ==
  /\ pc[w] = "writeToken"
  /\ LET i == req[w].on
     IN  IF i \in DOMAIN invitations
         THEN /\ invitations' = [invitations EXCEPT ![i] = Renewed(@)]
              /\ revived' = IF Pending(i) THEN revived ELSE revived \union {i}
         ELSE UNCHANGED <<invitations, revived>>
  /\ Wrote(w, <<"invitation", req[w].on>>)
  /\ Finish(w)
  /\ UNCHANGED <<accounts, requests, time, rivals, uses, raced>>

-------------------------------------------------------------------------------
(* Accepting.  The invitation is read by its link and judged, read by its  *)
(* link again, and then a batch writes what the first reading allowed.     *)

SubmitAccept(w) ==
  \E i \in DOMAIN invitations :
    /\ Opens(i)
    /\ Start(w, "accept", "readAgain",
             [Call("accept", invitations[i].email, i) EXCEPT !.token = invitations[i].token,
                                                             !.purpose = invitations[i].purpose])

ReadAgain(w) ==
  /\ pc[w] = "readAgain"
  /\ IF req[w].on \in DOMAIN invitations /\ invitations[req[w].on].token = req[w].token
     THEN Goto(w, "writeAccount", req[w]) /\ UNCHANGED <<rivals, stale>>
     ELSE Finish(w) /\ Forget(w)
  /\ UNCHANGED <<tables, time, uses, raced, revived>>

(* The batch fails as a whole on the unique e-mail of users; a reset needs *)
(* the account.  Accounts are only ever marked as deleted; an invitation   *)
(* that was deleted since is not missed.                                   *)
(* Variant: the account is written over.                                   *)
MayAccept_Upsert(purpose, email) == TRUE
MayAccept(purpose, email) == (purpose = "invite") <=> (email \notin accounts)

AcceptInvitation(w) ==
  /\ pc[w] = "writeAccount"
  /\ LET i == req[w].on
         e == req[w].email
     IN  IF MayAccept(req[w].purpose, e)
         THEN /\ accounts' = accounts \union {e}
              /\ IF i \in DOMAIN invitations
                 THEN invitations' = [invitations EXCEPT ![i].accepted = TRUE]
                 ELSE UNCHANGED invitations
              /\ uses' = [uses EXCEPT ![i] = @ + 1]
              /\ Wrote(w, <<"invitation", i>>)
         ELSE UNCHANGED <<accounts, invitations, uses>> /\ stale' = [stale EXCEPT ![w] = FALSE]
  /\ Finish(w)
  /\ UNCHANGED <<requests, time, rivals, raced, revived>>

-------------------------------------------------------------------------------
(* runNightlyCleanup, its third statement: settled invitations past the    *)
(* grace go, all in one DELETE, which the foreign key of the requests      *)
(* (ON DELETE no action) makes fail as a whole.                            *)
Settled(i) ==
  /\ invitations[i].expires + Grace < time
  /\ invitations[i].accepted \/ invitations[i].revoked
(* Variant: nothing keeps an invitation that a request refers to. *)
Referenced_Never(i) == FALSE
Referenced(i) == \E r \in DOMAIN requests : requests[r].invitation = i

NightlyCleanup ==
  LET settled == {i \in DOMAIN invitations : Settled(i)}
  IN  /\ settled # {} /\ \A i \in settled : ~Referenced(i)
      /\ invitations' = Restrict(invitations, DOMAIN invitations \ settled)
      /\ UNCHANGED <<accounts, requests, time, pc, req, ghosts>>

Tick ==
  /\ time < MaxTime
  /\ time' = time + 1
  /\ UNCHANGED <<tables, pc, req, ghosts>>

(* A request that a guard of its first read refuses changes nothing.       *)
RefuseRequest(w) == pc[w] = "idle" /\ UNCHANGED vars

(* A statement throws or the Worker is evicted: what ran, stays.           *)
Die(w) ==
  /\ pc[w] # "idle"
  /\ Finish(w) /\ Forget(w)
  /\ UNCHANGED <<tables, time, uses, raced, revived>>

Submit(w) ==
  \/ SubmitInvite(w) \/ SubmitReset(w) \/ SubmitApprove(w) \/ SubmitReject(w)
  \/ SubmitRequest(w) \/ SubmitRevoke(w) \/ SubmitResend(w) \/ SubmitAccept(w)
Proceed(w) ==
  \/ CheckAccount(w) \/ CheckRequest(w) \/ CheckInvitation(w)
  \/ InsertInvitation(w) \/ InsertRequest(w) \/ MarkApproved(w) \/ MarkRejected(w)
  \/ RevokeInvitation(w) \/ RenewToken(w) \/ ReadAgain(w) \/ AcceptInvitation(w)

Next ==
  \/ Tick \/ NightlyCleanup
  \/ \E w \in Workers : Submit(w) \/ RefuseRequest(w) \/ Proceed(w) \/ Die(w)

Spec == Init /\ [][Next]_vars
(* The cron trigger runs the cleanup every night, and nights go by.        *)
FairSpec == Spec /\ WF_vars(NightlyCleanup) /\ WF_vars(Tick)

-------------------------------------------------------------------------------
(* Properties. *)

Labels ==
  {"idle", "checkAccount", "checkRequest", "checkInvitation", "insertInvitation",
   "insertRequest", "markApproved", "markRejected", "writeRevoked", "writeToken",
   "readAgain", "writeAccount"}

(* Every table and handler has its type, and every invitation in the table *)
(* has been inserted once.                                                 *)
TypeOK ==
  /\ Registered \subseteq accounts /\ accounts \subseteq Emails
  /\ DOMAIN invitations \subseteq DOMAIN uses /\ DOMAIN uses \subseteq InvitationIds
  /\ invitations \in [DOMAIN invitations -> InvitationRow]
  /\ uses \in [DOMAIN uses -> Nat]
  /\ DOMAIN requests \subseteq RequestIds /\ requests \in [DOMAIN requests -> RequestRow]
  /\ time \in Time
  /\ pc \in [Workers -> Labels]
  /\ DOMAIN req = Workers
  /\ \A w \in Workers : IF pc[w] = "idle" THEN req[w] = NoRequest ELSE req[w] \in Handler
  /\ stale \in [Workers -> BOOLEAN]

(* "Block duplicate pending invitations" (create), "Already a pending      *)
(* request? Avoid duplicates." (request): two invitations for one address  *)
(* are pending only if they were inserted past each other's check, or one  *)
(* was resent after it had expired or been revoked; two requests, only by  *)
(* such a race.                                                            *)
DuplicatesExplained ==
  /\ \A e \in Emails : \A i, j \in PendingFor(e) :
       i # j => \/ {i, j} \intersect revived # {}
                \/ <<<<"invitation", i>>, <<"invitation", j>>>> \in raced
                \/ <<<<"invitation", j>>, <<"invitation", i>>>> \in raced
  /\ \A r, q \in Undecided :
       r # q /\ requests[r].email = requests[q].email =>
         \/ <<<<"request", r>>, <<"request", q>>>> \in raced
         \/ <<<<"request", q>>, <<"request", r>>>> \in raced

(* However many invitations a person holds and however often they are      *)
(* clicked, one of them makes the account, once, and it is the one marked  *)
(* as accepted (the batch of acceptInvitation and the unique e-mail).      *)
OneAccountPerPerson ==
  \A i \in DOMAIN invitations :
    /\ invitations[i].accepted <=> uses[i] > 0
    /\ invitations[i].accepted => invitations[i].email \in accounts
    /\ invitations[i].accepted /\ invitations[i].purpose = "invite" =>
         /\ uses[i] = 1 /\ invitations[i].email \notin Registered
         /\ \A j \in DOMAIN invitations \ {i} :
              invitations[j].accepted /\ invitations[j].purpose = "invite" =>
                invitations[j].email # invitations[i].email

(* A decided request is not decided again, an accepted link not accepted,  *)
(* revoked or renewed, a revoked one not accepted, except by a handler     *)
(* whose reading of the row was overtaken by another's write.              *)
ByStaleHandler(row) ==
  \E w \in Workers : stale[w] /\ Subject(req[w]) = row /\ pc'[w] = "idle"
DecisionsStand ==
  [][/\ \A r \in DOMAIN requests \ Undecided :
          requests'[r] # requests[r] => ByStaleHandler(<<"request", r>>)
     /\ \A i \in DOMAIN invitations \intersect DOMAIN invitations' :
          \/ invitations[i].accepted /\ (invitations'[i] # invitations[i] \/ uses'[i] # uses[i])
          \/ invitations[i].revoked /\ uses'[i] # uses[i]
          => ByStaleHandler(<<"invitation", i>>)]_vars

(* An approved request names the invitation that answered it, though the   *)
(* cleanup deletes invitations.                                            *)
ApprovedIsInvited ==
  \A r \in DOMAIN requests : requests[r].status = "approved" =>
    LET i == requests[r].invitation
    IN  /\ i \in DOMAIN invitations
        /\ invitations[i].email = requests[r].email /\ invitations[i].purpose = "invite"

(* "invitations: 30-day grace past expiration, but only if the invitation  *)
(* reached a terminal state" (runNightlyCleanup, over tables "that         *)
(* accumulate without bound"): what is settled goes.                       *)
SettledGo ==
  \A i \in InvitationIds : []<>(i \in DOMAIN invitations => ~Settled(i))
===============================================================================
